---------------------------- MODULE Announcements ---------------------------
(***************************************************************************)
(* What when2leave promises its user about the messages for one event, as  *)
(* the head of notifier.py and README.md put it: a heads-up, again only    *)
(* when leave_at got meaningfully worse, and one message at most to leave, *)
(* after which the event is quiet until it is tracked anew.                *)
(*                                                                         *)
(* said is the sequence of acknowledged messages since the event was last  *)
(* queued: the kind of each, and the leave_at it was about.                *)
(***************************************************************************)
EXTENDS Integers, Sequences

CONSTANTS
    ReshiftThreshold,  \* what counts as meaningfully worse
    Moments            \* the values leave_at may take

VARIABLE said

HeadsUp == "heads_up"

Message == [kind : {"heads_up", "leave_now", "running_late"}, leaveAt : Moments]

Last == said[Len(said)]

Init == said = <<>>

NewCycle == said' = <<>>

\* A heads-up opens a cycle, or says that things got worse.
SayHeadsUp(leaveAt) ==
    /\ said # <<>> => /\ Last.kind = HeadsUp
                      /\ Last.leaveAt - leaveAt > ReshiftThreshold
    /\ said' = Append(said, [kind |-> HeadsUp, leaveAt |-> leaveAt])

\* To leave is said once; that it is late, only to somebody not told before.
SayLeaveNow(leaveAt) ==
    /\ said # <<>> => Last.kind = HeadsUp
    /\ said' = Append(said, [kind |-> "leave_now", leaveAt |-> leaveAt])

SayRunningLate(leaveAt) ==
    /\ said = <<>>
    /\ said' = Append(said, [kind |-> "running_late", leaveAt |-> leaveAt])

Next == NewCycle \/ \E leaveAt \in Moments :
            SayHeadsUp(leaveAt) \/ SayLeaveNow(leaveAt) \/ SayRunningLate(leaveAt)

Spec == Init /\ [][Next]_said
=============================================================================
