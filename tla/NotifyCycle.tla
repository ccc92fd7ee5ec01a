---------------------------- MODULE NotifyCycle -----------------------------
(***************************************************************************)
(* The notification cycle of one event under the schedule of its ticks:    *)
(* a tick every Interval (RECOMPUTE_INTERVAL), a travel time that differs  *)
(* from tick to tick, syncs that move, close and queue the event again,    *)
(* messages that get lost.                                                 *)
(*                                                                         *)
(* Module Recompute has the tick step by step, at any moment.  Here a tick *)
(* comes when it is due and the clock stands still while it runs (module   *)
(* ServiceCalls bounds how long it does), but syncs do not: it decides on  *)
(* the row as it loaded it, publishes, and commits what it changed, and    *)
(* the row may be closed and queued again before each of these.  Crashes   *)
(* are left to Tracker.                                                    *)
(***************************************************************************)
EXTENDS Notifier, Sequences

CONSTANTS
    Interval,      \* RECOMPUTE_INTERVAL
    Starts,        \* the starts the event may be given
    TravelTimes,   \* what routing may answer
    Horizon,       \* bound on the clock, which stands still there
    MaxMissed      \* bound on the ticks in a row that come to nothing

ASSUME NotifyCycleAssumption ==
    /\ Interval \in Nat \ {0}
    /\ Starts \subseteq Nat
    /\ TravelTimes \subseteq Nat
    /\ Horizon \in Nat /\ MaxMissed \in Nat

VARIABLES
    now,           \* the clock
    due,           \* the time left until the next tick
    tracked,       \* the event is ACTIVE
    start,         \* its start
    notify,        \* its notify_state
    lastNotified,  \* its last_notified_leave_at
    phase,         \* of the running tick: "publish", "commit"; else "idle"
    loaded,        \* its row as it loaded it
    session,       \* its row as its session has it, and its message or None
    mine,          \* history: the row is still in the cycle the tick loaded
    previous,      \* history: leave_at as the last tick of this cycle computed
                   \* it, or None
    missed,        \* history: the ticks since then that came to nothing
    said,          \* history: the acknowledged messages of this cycle's ticks
    lost,          \* history: the kinds of those that were not
    stale          \* history: the kind of message behind a tier that a tick of
                   \* the cycle before has written into this one

row     == <<tracked, start, notify, lastNotified>>
tick    == <<phase, loaded, session, mine>>
history == <<previous, missed, said, lost, stale>>
vars    == <<now, due, row, tick, history>>

Message == [kind : Kinds, leaveAt : Int]
Loaded  == [notify : NotifyState, lastNotified : MaybeTime]
Session == [notify : NotifyState, lastNotified : MaybeTime, leaveAt : Int,
            kind : Kinds \cup {None}]

CycleTypeOK ==
    /\ now \in 0..Horizon
    /\ due \in 0..Interval
    /\ tracked \in BOOLEAN
    /\ start \in Starts
    /\ notify \in NotifyState
    /\ lastNotified \in MaybeTime
    /\ phase \in {"idle", "publish", "commit"}
    /\ loaded \in Loaded /\ session \in Session
    /\ mine \in BOOLEAN
    /\ previous \in MaybeTime
    /\ missed \in 0..MaxMissed
    /\ said \in Seq(Message)
    /\ lost \subseteq Kinds /\ stale \subseteq Kinds

\* Without a tick there is no session.
EmptyRow == [notify |-> "NONE", lastNotified |-> None]
NoWork   == [notify |-> "NONE", lastNotified |-> None, leaveAt |-> 0, kind |-> None]

\* The event is not tracked yet; a tick has just been.
Init ==
    /\ now = 0 /\ due = Interval
    /\ tracked = FALSE /\ start \in Starts
    /\ notify = "NONE" /\ lastNotified = None
    /\ phase = "idle" /\ loaded = EmptyRow /\ session = NoWork /\ mine = TRUE
    /\ previous = None /\ missed = 0 /\ said = <<>> /\ lost = {} /\ stale = {}

-----------------------------------------------------------------------------
\* Mutant: the scheduler lets the moment of a tick pass.
AdvancePastDue ==
    /\ now' = IF now < Horizon THEN now + 1 ELSE now
    /\ due' = due - 1
    /\ UNCHANGED <<row, tick, history>>

\* The scheduler starts the tick when it is due.
Advance ==
    /\ due > 0
    /\ now' = IF now < Horizon THEN now + 1 ELSE now
    /\ due' = due - 1
    /\ UNCHANGED <<row, tick, history>>

\* Mutant: the tier of the last cycle stays.
QueueKeepsNotify == UNCHANGED notify

QueueNotify == notify' = "NONE"

\* A sync inserts the row, or queues it again: the state starts anew, the last
\* notified leave_at stays.  A tick that has loaded the row knows nothing of it.
Queue ==
    /\ ~tracked /\ start > now
    /\ tracked' = TRUE
    /\ QueueNotify
    /\ mine' = (phase = "idle")
    /\ previous' = None /\ missed' = 0 /\ said' = <<>> /\ lost' = {} /\ stale' = {}
    /\ UNCHANGED <<now, due, start, lastNotified, phase, loaded, session>>

\* A sync drops, cancels or expires it.
Close ==
    /\ tracked
    /\ tracked' = FALSE
    /\ UNCHANGED <<now, due, start, notify, lastNotified, tick, history>>

\* A sync finds it at another time, whether it is tracked or not.
Reschedule(s) ==
    /\ s # start /\ s > now
    /\ start' = s
    /\ UNCHANGED <<now, due, tracked, notify, lastNotified, tick, history>>

-----------------------------------------------------------------------------
(***************************************************************************)
(* The tick.  What it reads of the row it has loaded before its first      *)
(* await, so that loading and deciding are one step.                       *)
(***************************************************************************)
TickDue == due = 0 /\ phase = "idle" /\ UNCHANGED <<now, tracked, start>>

\* Nothing to do for an event that is not ACTIVE.
TickWithout ==
    /\ TickDue /\ due' = Interval
    /\ ~tracked
    /\ UNCHANGED <<notify, lastNotified, tick, history>>

\* The job is skipped, Dawarich does not answer, or geocoding or routing fails.
TickMissed ==
    /\ TickDue /\ due' = Interval
    /\ tracked /\ missed < MaxMissed
    /\ missed' = missed + 1
    /\ UNCHANGED <<notify, lastNotified, tick, previous, said, lost, stale>>

\* _recompute_event up to the message: the session has the new tier.
TickDecides(travel) ==
    LET leaveAt  == ComputeLeaveAt(start, travel)
        decision == EvaluateNotification(now, leaveAt, notify, lastNotified)
    IN  /\ TickDue
        /\ tracked
        /\ loaded' = [notify |-> notify, lastNotified |-> lastNotified]
        /\ session' = [notify |-> decision.state, lastNotified |-> lastNotified,
                       leaveAt |-> leaveAt, kind |-> decision.kind]
        /\ phase' = IF decision.kind = None THEN "commit" ELSE "publish"
        /\ mine' = TRUE
        /\ UNCHANGED <<due, notify, lastNotified, history>>

\* Mutant: a re-announcement leaves last_notified_leave_at at the first one.
RememberFirst(last, leaveAt) == IF last = None THEN leaveAt ELSE last

\* After a publication that succeeded.
Remember(last, leaveAt) == leaveAt

Published ==
    /\ phase = "publish" /\ phase' = "commit"
    /\ UNCHANGED <<now, due, row, loaded, mine, previous, missed, stale>>

\* Acknowledged.  The message belongs to the cycle whose row the tick loaded.
PublishAcked ==
    /\ Published
    /\ session' = [session EXCEPT !.lastNotified = Remember(@, session.leaveAt)]
    /\ said' = IF mine
               THEN Append(said, [kind |-> session.kind, leaveAt |-> session.leaveAt])
               ELSE said
    /\ UNCHANGED lost

\* ntfy acknowledged none of the attempts: the tier stays set.
PublishUnheard ==
    /\ Published
    /\ lost' = IF mine THEN lost \cup {session.kind} ELSE lost
    /\ UNCHANGED <<session, said>>

\* Mutant: the whole session is written, also what it has not changed.
FlushAlways(old, new, current) == new

\* The columns the session changed are written over whatever the row has now.
Flush(old, new, current) == IF new = old THEN current ELSE new

TickCommit ==
    /\ phase = "commit" /\ phase' = "idle"
    /\ due' = Interval
    /\ notify' = Flush(loaded.notify, session.notify, notify)
    /\ lastNotified' = Flush(loaded.lastNotified, session.lastNotified, lastNotified)
    /\ loaded' = EmptyRow /\ session' = NoWork /\ mine' = TRUE
    /\ previous' = IF mine THEN session.leaveAt ELSE previous
    /\ missed' = IF mine THEN 0 ELSE missed
    /\ stale' = IF mine \/ session.notify = loaded.notify THEN stale ELSE {session.kind}
    /\ UNCHANGED <<now, tracked, start, said, lost>>

Next ==
    \/ Advance \/ Queue \/ Close \/ TickWithout \/ TickMissed
    \/ PublishAcked \/ PublishUnheard \/ TickCommit
    \/ \E s \in Starts : Reschedule(s)
    \/ \E travel \in TravelTimes : TickDecides(travel)

Spec == Init /\ [][Next]_vars

-----------------------------------------------------------------------------
\* The messages of a cycle are those README.md promises, whatever was lost or
\* moved in between and whatever a tick of the cycle before writes late.  A
\* message is one of the cycle whose row its tick had loaded: one that is on its
\* way while the row is queued again is not counted with those that follow.
Promise == INSTANCE Announcements
    WITH Moments <- {ComputeLeaveAt(s, travel) : s \in Starts, travel \in TravelTimes}

KeepsPromise == Promise!Spec

\* A stored tier has its message: acknowledged in this cycle, or lost with every
\* attempt, or sent by a tick that had loaded the row in the cycle before and
\* wrote its tier over the new cycle's NONE.  Nothing else silences an event.
KindOf == [HEADS_UP_SENT |-> "heads_up", LEAVE_NOW_SENT |-> "leave_now",
           RUNNING_LATE_SENT |-> "running_late"]

TierHasItsMessage ==
    notify # "NONE" =>
        \/ KindOf[notify] \in lost \cup stale
        \/ \E i \in 1..Len(said) : said[i].kind = KindOf[notify]

\* No spam: the number of acknowledged messages of a cycle's ticks is bounded by
\* how much worse leave_at has got from the first of them to the last, and so is
\* independent of the number of ticks.  (Each new cycle may say it all again,
\* also what a tick of the cycle before is still saying.)
SpamBound ==
    LET n == Len(said)
    IN  n >= 2 =>
        \/ said[n].kind = "heads_up" /\
              (n - 1) * (ReshiftThreshold + 1) <= said[1].leaveAt - said[n].leaveAt
        \/ said[n].kind # "heads_up" /\
              (n - 2) * (ReshiftThreshold + 1) <= said[1].leaveAt - said[n - 1].leaveAt

\* Nobody who was watched is told "running late" out of the blue: a cycle goes
\* from silence to running_late only if leave_at has moved, since the previous
\* tick, by more than the lead leaves after the intervals in between.
LateOnlyWhenSurprised ==
    [][notify = "NONE" /\ notify' = "RUNNING_LATE_SENT" /\ previous # None =>
          previous - previous' > NotifyLead - (missed + 1) * Interval]_vars

\* The message to leave is late by no more than the schedule makes it: an event
\* at no terminal tier has not passed the leave_at of its last tick by an
\* interval, or by one more for each tick that came to nothing.
AnnouncedInTime ==
    tracked /\ previous # None /\ notify \notin TerminalTier =>
        now < previous + (missed + 1) * Interval
=============================================================================
