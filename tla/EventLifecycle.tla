--------------------------- MODULE EventLifecycle ---------------------------
(***************************************************************************)
(* The life of one event instance as Tracker keeps it: QUEUED when a       *)
(* calendar says that it qualifies, ACTIVE inside the geocode window, DONE *)
(* once its start has passed, CANCELLED or DROPPED when a calendar says    *)
(* that it does not qualify, QUEUED again when one says that it does.      *)
(* Several instances may take a step at once: a sync commits a whole       *)
(* calendar in one transaction.                                            *)
(*                                                                         *)
(* The head of when2leave/tracker.py has less in it, and more: there an    *)
(* instance is DONE whenever its start has passed, and ACTIVE only within  *)
(* the window.  Here one that has started no longer qualifies, so that a   *)
(* calendar's no may close it before it becomes DONE, and one that is      *)
(* moved out of the window stays ACTIVE: where the two differ, this module *)
(* follows the code.                                                       *)
(***************************************************************************)
EXTENDS Integers

CONSTANTS Keys, Window, Unknown

VARIABLES
    clock,
    status,
    start,
    verdicts    \* verdicts[k]: what the calendars with a say on k answer, TRUE
                \* for "it qualifies"

lifecycleVars == <<clock, status, start>>

Open   == {"QUEUED", "ACTIVE"}
Closed == {"CANCELLED", "DROPPED"}

Init ==
    /\ clock \in Nat
    /\ status = [k \in Keys |-> Unknown]
    /\ start \in [Keys -> Int \cup {Unknown}]

Qualifies(k)    == TRUE \in verdicts[k]
NotQualifies(k) == FALSE \in verdicts[k]

\* The moves of an instance.  Its start may be moved while it is known, but not in
\* the very step that activates or expires it.
Appear(k)   == status[k] = Unknown  /\ status'[k] = "QUEUED" /\ Qualifies(k)
Requeue(k)  == status[k] \in Closed /\ status'[k] = "QUEUED" /\ Qualifies(k)
Close(k)    == status[k] \in Open \cup Closed /\ status'[k] \in Closed /\ NotQualifies(k)
Activate(k) == status[k] = "QUEUED" /\ status'[k] = "ACTIVE"
                   /\ start[k] - clock <= Window /\ start'[k] = start[k]
Expire(k)   == status[k] \in Open   /\ status'[k] = "DONE"
                   /\ start[k] <= clock /\ start'[k] = start[k]
Stay(k)     == status'[k] = status[k]

Move(k) == Appear(k) \/ Requeue(k) \/ Close(k) \/ Activate(k) \/ Expire(k) \/ Stay(k)

Next ==
    /\ clock' >= clock
    /\ status' \in [Keys -> Open \cup Closed \cup {"DONE", Unknown}]
    /\ \A k \in Keys : Move(k)

Spec == Init /\ [][Next]_lifecycleVars
=============================================================================
