------------------------------ MODULE Notifier ------------------------------
(***************************************************************************)
(* The notification decision of when2leave/notifier.py: when to leave for  *)
(* an event, and which message, if any, a recompute cycle has to send.     *)
(* The functions are pure; their caller is the tick of module Recompute.   *)
(*                                                                         *)
(* Times are integers.  Titles, texts, tags and priorities are left out:   *)
(* a notification is its kind.                                             *)
(***************************************************************************)
EXTENDS Integers

CONSTANTS
    NotifyLead,        \* NOTIFY_LEAD: heads-up this long before leave_at
    PrepBuffer,        \* PREP_BUFFER: time to get ready
    ReshiftThreshold,  \* NOTIFY_RESHIFT_THRESHOLD: worsening that re-notifies
    None               \* Python's None

\* config.parse_duration accepts no negative durations.
ASSUME NotifierAssumption ==
    /\ NotifyLead \in Nat
    /\ PrepBuffer \in Nat
    /\ ReshiftThreshold \in Nat
    /\ None \notin Int
    /\ None \notin {"heads_up", "leave_now", "running_late"}

NotifyState == {"NONE", "HEADS_UP_SENT", "LEAVE_NOW_SENT", "RUNNING_LATE_SENT"}

\* The tiers after which an event stays quiet.
TerminalTier == {"LEAVE_NOW_SENT", "RUNNING_LATE_SENT"}

Kinds == {"heads_up", "leave_now", "running_late"}

OneShot == {"leave_now", "running_late"}

\* A moment in the database: a datetime column that may be NULL.
MaybeTime == Int \cup {None}

-----------------------------------------------------------------------------
ComputeLeaveAt(start, travel) == start - travel - PrepBuffer

\* Mutant: what is exactly the threshold counts as worse.
WorsenedAtThreshold(leaveAt, last) ==
    /\ last # None
    /\ last - leaveAt >= ReshiftThreshold

\* leave_at moved earlier than at the last notification by more than the
\* threshold.  Without a last notification nothing can have got worse.
Worsened(leaveAt, last) ==
    /\ last # None
    /\ last - leaveAt > ReshiftThreshold

-----------------------------------------------------------------------------
Decision(state, kind) == [state |-> state, kind |-> kind]

\* Mutant: the heads-up interval does not include its first moment.
FirstDecisionTooLate(t, leaveAt) ==
    CASE t >= leaveAt              -> Decision("RUNNING_LATE_SENT", "running_late")
      [] leaveAt - NotifyLead < t
         /\ t < leaveAt            -> Decision("HEADS_UP_SENT", "heads_up")
      [] OTHER                     -> Decision("NONE", None)

FirstDecision(t, leaveAt) ==
    CASE t >= leaveAt              -> Decision("RUNNING_LATE_SENT", "running_late")
      [] leaveAt - NotifyLead <= t
         /\ t < leaveAt            -> Decision("HEADS_UP_SENT", "heads_up")
      [] OTHER                     -> Decision("NONE", None)

\* Mutant: the heads-up tier forgets that the leave time itself may be over.
HeadsUpDecisionNeverLeaves(t, leaveAt, last) ==
    IF Worsened(leaveAt, last) THEN Decision("HEADS_UP_SENT", "heads_up")
    ELSE Decision("HEADS_UP_SENT", None)

HeadsUpDecision(t, leaveAt, last) ==
    CASE t >= leaveAt              -> Decision("LEAVE_NOW_SENT", "leave_now")
      [] t < leaveAt
         /\ Worsened(leaveAt, last) -> Decision("HEADS_UP_SENT", "heads_up")
      [] OTHER                     -> Decision("HEADS_UP_SENT", None)

\* Mutant: a terminal tier is treated like the heads-up tier, so that leave_now
\* is sent again on every cycle.
EvaluateNeverQuiet(t, leaveAt, state, last) ==
    IF state = "NONE" THEN FirstDecision(t, leaveAt)
    ELSE HeadsUpDecision(t, leaveAt, last)

EvaluateNotification(t, leaveAt, state, last) ==
    CASE state = "NONE"          -> FirstDecision(t, leaveAt)
      [] state = "HEADS_UP_SENT" -> HeadsUpDecision(t, leaveAt, last)
      [] OTHER                   -> Decision(state, None)
=============================================================================
