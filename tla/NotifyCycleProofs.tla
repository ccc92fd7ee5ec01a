------------------------- MODULE NotifyCycleProofs --------------------------
(***************************************************************************)
(* What holds of the messages of an event for every travel time, start,    *)
(* interval, lead and threshold: that they are those promised, that there  *)
(* are few of them, and that they come in time.                            *)
(***************************************************************************)
EXTENDS NotifyCycle, SequenceTheorems, TLAPS

USE NotifierAssumption, NotifyCycleAssumption

Tick == phase # "idle"

\* What leave_at may be.
LeaveTimes == {ComputeLeaveAt(s, travel) : s \in Starts, travel \in TravelTimes}

\* The tier of the cycle: the one the tick is about to commit, unless the row has
\* been queued again since it was loaded.
Committing == phase = "commit" /\ mine
TierNow    == IF Committing THEN session.notify ELSE notify
LastNow    == IF Committing THEN session.lastNotified ELSE lastNotified

\* The tier tells what was said: nothing before the first decision, and while
\* only heads-ups were sent the last one heard is what the next is compared to.
SaidInv ==
    /\ TierNow = "NONE" => said = <<>>
    /\ TierNow = "HEADS_UP_SENT" /\ said # <<>> =>
          /\ said[Len(said)].kind = "heads_up"
          /\ said[Len(said)].leaveAt = LastNow

HasMessage(tier) ==
    tier # "NONE" =>
        \/ KindOf[tier] \in lost \cup stale
        \/ \E i \in 1..Len(said) : said[i].kind = KindOf[tier]

TierInv == HasMessage(notify) /\ HasMessage(TierNow)

\* What evaluate_notification makes of a tier: which message it sends, which tier
\* it sets, and what they say of the time.
Sensible(t, leaveAt, old, last, new, kind) ==
    /\ kind \in Kinds \cup {None}
    /\ kind = None => new = old
    /\ kind = "heads_up" =>
          /\ new = "HEADS_UP_SENT"
          /\ old = "NONE" \/ (old = "HEADS_UP_SENT" /\ Worsened(leaveAt, last))
    /\ kind = "leave_now" => new = "LEAVE_NOW_SENT" /\ old = "HEADS_UP_SENT"
    /\ kind = "running_late" => new = "RUNNING_LATE_SENT" /\ old = "NONE"
    /\ new = "RUNNING_LATE_SENT" /\ old = "NONE" => leaveAt <= t
    /\ new \notin TerminalTier => t < leaveAt
    /\ new = "NONE" => t < leaveAt - NotifyLead

\* The running tick has decided on the row as it loaded it; only a new queueing
\* parts the row from what was loaded, and that cycle has no message yet.
SessionInv ==
    Tick =>
        /\ due = 0
        /\ Sensible(now, session.leaveAt, loaded.notify, loaded.lastNotified,
                    session.notify, session.kind)
        /\ session.leaveAt \in LeaveTimes
        /\ lastNotified = loaded.lastNotified
        /\ phase = "publish" => session.kind # None /\ session.lastNotified = lastNotified
        /\ session.kind = None => session.lastNotified = lastNotified
        /\ mine => notify = loaded.notify
        /\ ~mine => notify = "NONE" /\ said = <<>> /\ previous = None

\* Each further heads-up moved leave_at by more than the threshold.
HeadsUpBound ==
    said # <<>> /\ said[Len(said)].kind = "heads_up" =>
        (Len(said) - 1) * (ReshiftThreshold + 1)
            <= said[1].leaveAt - said[Len(said)].leaveAt

\* Time cannot pass a tick of the event by.
Watched == tracked \/ Tick

\* The next tick of an event that waits comes before the moment its tier waits
\* for is over by more than the ticks missed explain.
TimeInv ==
    Watched /\ previous # None =>
        /\ notify \notin TerminalTier =>
              now + due < previous + (missed + 1) * Interval
        /\ notify = "NONE" =>
              now + due < previous - NotifyLead + (missed + 1) * Interval

CycleInv ==
    /\ CycleTypeOK
    /\ SessionInv
    /\ SaidInv
    /\ TierInv
    /\ HeadsUpBound
    /\ SpamBound
    /\ TimeInv

-----------------------------------------------------------------------------
\* evaluate_notification: what each kind of message, and silence, says of the
\* tier before and after, and of the time.
LEMMA EvaluateFacts ==
    ASSUME NEW t \in Int, NEW leaveAt \in Int, NEW state \in NotifyState, NEW last \in MaybeTime,
           NEW decision, decision = EvaluateNotification(t, leaveAt, state, last)
    PROVE  /\ decision.state \in NotifyState
           /\ Sensible(t, leaveAt, state, last, decision.state, decision.kind)
<1> USE DEF Decision, NotifyState, Kinds, TerminalTier, Sensible
<1>1. CASE state = "NONE"
  <2>1. decision = FirstDecision(t, leaveAt)
    BY <1>1 DEF EvaluateNotification
  <2>2. CASE t >= leaveAt
    BY <1>1, <2>1, <2>2 DEF FirstDecision
  <2>3. CASE leaveAt - NotifyLead <= t /\ t < leaveAt
    <3>1. ~(t >= leaveAt)
      BY <2>3
    <3>2. decision = Decision("HEADS_UP_SENT", "heads_up")
      BY <2>1, <2>3, <3>1 DEF FirstDecision
    <3>3. decision.kind = "heads_up" /\ decision.state = "HEADS_UP_SENT"
      BY <3>2
    <3>4. decision.kind # None
      BY <3>3
    <3> QED BY <1>1, <2>3, <3>3, <3>4
  <2>4. CASE t < leaveAt - NotifyLead
    <3>1. t < leaveAt
      BY <2>4
    <3> QED BY <1>1, <2>1, <2>4, <3>1 DEF FirstDecision
  <2> QED BY <2>2, <2>3, <2>4
<1>2. CASE state = "HEADS_UP_SENT"
  <2>1. decision = HeadsUpDecision(t, leaveAt, last)
    BY <1>2 DEF EvaluateNotification
  <2>2. CASE t >= leaveAt
    BY <1>2, <2>1, <2>2 DEF HeadsUpDecision
  <2>3. CASE t < leaveAt /\ Worsened(leaveAt, last)
    BY <1>2, <2>1, <2>3 DEF HeadsUpDecision
  <2>4. CASE t < leaveAt /\ ~Worsened(leaveAt, last)
    BY <1>2, <2>1, <2>4 DEF HeadsUpDecision
  <2> QED BY <2>2, <2>3, <2>4
<1>3. CASE state \in TerminalTier
  BY <1>3 DEF EvaluateNotification
<1> QED BY <1>1, <1>2, <1>3

\* When to leave, from the start and a travel time.
LEMMA LeaveAtType ==
    ASSUME NEW s \in Starts, NEW travel \in TravelTimes
    PROVE  ComputeLeaveAt(s, travel) \in Int
  BY DEF ComputeLeaveAt

\* What a tick decides.
LEMMA Decides ==
    ASSUME CycleTypeOK, NEW travel \in TravelTimes, TickDecides(travel)
    PROVE  /\ due = 0 /\ phase = "idle" /\ tracked /\ mine' = TRUE
           /\ UNCHANGED <<now, due, row, history>>
           /\ phase' \in {"publish", "commit"}
           /\ phase' = "publish" => session'.kind # None
           /\ loaded' \in Loaded /\ loaded'.notify = notify /\ loaded'.lastNotified = lastNotified
           /\ session' \in Session /\ session'.lastNotified = lastNotified
           /\ phase' = "commit" => session'.notify = notify
           /\ session'.leaveAt \in LeaveTimes
           /\ Sensible(now, session'.leaveAt, notify, lastNotified, session'.notify, session'.kind)
<1> DEFINE leaveAt == ComputeLeaveAt(start, travel)
<1> DEFINE decision == EvaluateNotification(now, leaveAt, notify, lastNotified)
<1>1. now \in Int /\ notify \in NotifyState /\ lastNotified \in MaybeTime /\ start \in Starts
  BY DEF CycleTypeOK
<1>2. leaveAt \in Int
  BY <1>1, LeaveAtType
<1>3. /\ decision.state \in NotifyState
      /\ Sensible(now, leaveAt, notify, lastNotified, decision.state, decision.kind)
  <2> HIDE DEF leaveAt
  <2> QED BY <1>1, <1>2, EvaluateFacts
<1>4. /\ due = 0 /\ phase = "idle" /\ tracked /\ mine' = TRUE
      /\ UNCHANGED <<now, due, row, history>>
  BY DEF TickDecides, TickDue, row
<1>5. /\ loaded' = [notify |-> notify, lastNotified |-> lastNotified]
      /\ session' = [notify |-> decision.state, lastNotified |-> lastNotified,
                     leaveAt |-> leaveAt, kind |-> decision.kind]
      /\ phase' = IF decision.kind = None THEN "commit" ELSE "publish"
  BY DEF TickDecides
<1>6. leaveAt \in LeaveTimes
  BY <1>1 DEF LeaveTimes
<1>7. /\ decision.kind \in Kinds \cup {None}
      /\ decision.kind = None => decision.state = notify
  BY <1>3 DEF Sensible
<1> HIDE DEF leaveAt, decision
<1>8. loaded' \in Loaded /\ session' \in Session
  BY <1>1, <1>2, <1>3, <1>5, <1>7 DEF Loaded, Session
<1>9. /\ loaded'.notify = notify /\ loaded'.lastNotified = lastNotified
      /\ session'.notify = decision.state /\ session'.lastNotified = lastNotified
      /\ session'.leaveAt = leaveAt /\ session'.kind = decision.kind
  BY <1>5
<1> QED BY <1>3, <1>4, <1>5, <1>6, <1>7, <1>8, <1>9

\* What the end of a publication does, whatever its outcome.
LEMMA Publishes ==
    ASSUME CycleTypeOK, PublishAcked \/ PublishUnheard
    PROVE  /\ phase = "publish" /\ phase' = "commit" /\ session' \in Session
           /\ UNCHANGED <<now, due, row, loaded, mine, previous, missed, stale>>
           /\ session'.notify = session.notify /\ session'.leaveAt = session.leaveAt
           /\ session'.kind = session.kind
           /\ \/ /\ session'.lastNotified = session.lastNotified /\ said' = said
                 /\ lost' = IF mine THEN lost \cup {session.kind} ELSE lost
              \/ /\ session'.lastNotified = session.leaveAt /\ lost' = lost
                 /\ said' = IF mine
                            THEN Append(said, [kind |-> session.kind, leaveAt |-> session.leaveAt])
                            ELSE said
<1>1. session \in Session
  BY DEF CycleTypeOK
<1>2. CASE PublishAcked
  <2>1. session' = [session EXCEPT !.lastNotified = session.leaveAt]
    BY <1>2 DEF PublishAcked, Remember
  <2>2. session' \in Session /\ session'.lastNotified = session.leaveAt
        /\ session'.notify = session.notify /\ session'.leaveAt = session.leaveAt
        /\ session'.kind = session.kind
    BY <1>1, <2>1 DEF Session, MaybeTime
  <2> QED BY <1>2, <2>2 DEF PublishAcked, Published
<1>3. CASE PublishUnheard
  BY <1>1, <1>3 DEF PublishUnheard, Published
<1> QED BY <1>2, <1>3

\* What the commit writes: the session's values, unless the row was queued again.
LEMMA Commits ==
    ASSUME CycleTypeOK, SessionInv, TickCommit
    PROVE  /\ phase = "commit" /\ phase' = "idle" /\ due' = Interval
           /\ UNCHANGED <<now, tracked, start, said, lost>>
           /\ mine => /\ notify' = session.notify /\ lastNotified' = session.lastNotified
                      /\ previous' = session.leaveAt /\ missed' = 0 /\ stale' = stale
           /\ ~mine => /\ previous' = None /\ said' = <<>>
                       /\ notify' # "NONE" => notify' = session.notify /\ stale' = {session.kind}
                                              /\ session.kind # None
           /\ notify' \in NotifyState /\ lastNotified' \in MaybeTime
           /\ stale' \subseteq Kinds
<1>1. /\ phase = "commit" /\ phase' = "idle" /\ due' = Interval
      /\ UNCHANGED <<now, tracked, start, said, lost>>
      /\ notify' = Flush(loaded.notify, session.notify, notify)
      /\ lastNotified' = Flush(loaded.lastNotified, session.lastNotified, lastNotified)
      /\ previous' = IF mine THEN session.leaveAt ELSE previous
      /\ missed' = IF mine THEN 0 ELSE missed
      /\ stale' = IF mine \/ session.notify = loaded.notify THEN stale ELSE {session.kind}
  BY DEF TickCommit
<1>2. /\ session.notify \in NotifyState /\ session.lastNotified \in MaybeTime
      /\ notify \in NotifyState /\ lastNotified \in MaybeTime /\ stale \subseteq Kinds
      /\ session.kind \in Kinds \cup {None}
  BY DEF CycleTypeOK, Session
<1>3. /\ lastNotified = loaded.lastNotified
      /\ mine => notify = loaded.notify
      /\ ~mine => notify = "NONE" /\ said = <<>> /\ previous = None
      /\ session.kind = None => session.notify = loaded.notify
  BY <1>1 DEF SessionInv, Tick, Sensible
<1>4. lastNotified' = session.lastNotified
  BY <1>1, <1>3 DEF Flush
<1>5. mine => notify' = session.notify
  BY <1>1, <1>3 DEF Flush
<1>6. ~mine /\ notify' # "NONE" => notify' = session.notify /\ session.notify # loaded.notify
  BY <1>1, <1>3 DEF Flush
<1>7. notify' \in NotifyState
  BY <1>1, <1>2 DEF Flush
<1> QED BY <1>1, <1>2, <1>3, <1>4, <1>5, <1>6, <1>7

-----------------------------------------------------------------------------
\* Types are preserved by every step.
LEMMA CycleTypePreserved == CycleTypeOK /\ SessionInv /\ [Next]_vars => CycleTypeOK'
<1> SUFFICES ASSUME CycleTypeOK, SessionInv, [Next]_vars PROVE CycleTypeOK'
    OBVIOUS
<1>0. EmptyRow \in Loaded /\ NoWork \in Session
  BY DEF EmptyRow, NoWork, Loaded, Session, NotifyState, MaybeTime
<1>1. CASE Advance
  BY <1>1 DEF Advance, row, tick, history, CycleTypeOK
<1>2. CASE Queue
  <2>1. <<>> \in Seq(Message)
    OBVIOUS
  <2>2. mine' \in BOOLEAN
    BY <1>2 DEF Queue
  <2>3. tracked' \in BOOLEAN
    <3>1. tracked' = TRUE
      BY <1>2 DEF Queue
    <3> QED BY <3>1
  <2> QED BY <1>2, <2>1, <2>2, <2>3 DEF Queue, QueueNotify, NotifyState, MaybeTime, CycleTypeOK
<1>3. CASE Close
  BY <1>3 DEF Close, tick, history, CycleTypeOK
<1>4. CASE TickWithout
  BY <1>4 DEF TickWithout, TickDue, tick, history, CycleTypeOK
<1>5. CASE TickMissed
  BY <1>5 DEF TickMissed, TickDue, tick, CycleTypeOK
<1>6. ASSUME NEW s \in Starts, Reschedule(s) PROVE CycleTypeOK'
  BY <1>6 DEF Reschedule, tick, history, CycleTypeOK
<1>7. ASSUME NEW travel \in TravelTimes, TickDecides(travel) PROVE CycleTypeOK'
  <2>1. mine' \in BOOLEAN
    <3>1. mine' = TRUE
      BY <1>7, Decides
    <3> QED BY <3>1
  <2> QED BY <1>7, <2>1, Decides DEF row, history, CycleTypeOK
<1>8. CASE PublishAcked \/ PublishUnheard
  <2>1. session.kind \in Kinds /\ session.leaveAt \in Int
    BY <1>8, Publishes DEF SessionInv, Sensible, Tick, CycleTypeOK, Session
  <2>2. [kind |-> session.kind, leaveAt |-> session.leaveAt] \in Message
    BY <2>1 DEF Message
  <2>3. said' \in Seq(Message)
    <3> DEFINE message == [kind |-> session.kind, leaveAt |-> session.leaveAt]
    <3>1. said \in Seq(Message) /\ message \in Message
      BY <2>2 DEF CycleTypeOK
    <3>2. Append(said, message) \in Seq(Message)
      BY <3>1, AppendProperties
    <3>3. said' \in {said, Append(said, message)}
      BY <1>8, Publishes
    <3> QED BY <3>1, <3>2, <3>3
  <2>4. lost' \subseteq Kinds
    BY <1>8, <2>1, Publishes DEF CycleTypeOK
  <2> QED BY <1>8, <2>3, <2>4, Publishes DEF row, CycleTypeOK
<1>9. CASE TickCommit
  <2>1. mine' \in BOOLEAN
    <3>1. mine' = TRUE
      BY <1>9 DEF TickCommit
    <3> QED BY <3>1
  <2>2. previous' \in MaybeTime /\ missed' \in 0..MaxMissed
    BY <1>9 DEF TickCommit, CycleTypeOK, Session, MaybeTime
  <2>3. loaded' \in Loaded /\ session' \in Session
    BY <1>0, <1>9 DEF TickCommit
  <2> QED BY <1>9, <2>1, <2>2, <2>3, Commits DEF CycleTypeOK
<1>10. CASE UNCHANGED vars
  BY <1>10 DEF vars, row, tick, history, CycleTypeOK
<1> QED BY <1>1, <1>2, <1>3, <1>4, <1>5, <1>6, <1>7, <1>8, <1>9, <1>10 DEF Next

\* A step of a sync or of the clock leaves the session, the tier and the messages
\* alone.
LEMMA OtherSteps ==
    ASSUME [Next]_vars, ~Queue, ~PublishAcked, ~PublishUnheard, ~TickCommit,
           \A travel \in TravelTimes : ~TickDecides(travel)
    PROVE  /\ UNCHANGED <<notify, lastNotified, tick, said, lost, stale, previous>>
           /\ now' = now \/ due > 0
           /\ due' = due \/ due > 0 \/ phase = "idle"
  BY DEF Next, Advance, Close, TickWithout, TickMissed, TickDue, Reschedule, vars, row, history

\* The session goes with the row until a sync queues it again.
LEMMA SessionPreserved == CycleTypeOK /\ SessionInv /\ [Next]_vars => SessionInv'
<1> SUFFICES ASSUME CycleTypeOK, SessionInv, [Next]_vars PROVE SessionInv'
    OBVIOUS
<1>1. CASE \E travel \in TravelTimes : TickDecides(travel)
  <2>1. PICK travel \in TravelTimes : TickDecides(travel)
    BY <1>1
  <2> QED BY <2>1, Decides DEF SessionInv, Tick, row, history
<1>2. CASE PublishAcked \/ PublishUnheard
  <2>1. /\ phase = "publish" /\ phase' = "commit"
        /\ UNCHANGED <<now, due, notify, lastNotified, loaded, mine, previous>>
        /\ session'.notify = session.notify /\ session'.leaveAt = session.leaveAt
        /\ session'.kind = session.kind
        /\ ~mine => said' = said
    BY <1>2, Publishes DEF row
  <2> QED BY <2>1 DEF SessionInv, Tick
<1>3. CASE TickCommit
  BY <1>3 DEF TickCommit, SessionInv, Tick
<1>4. CASE Queue
  <2>1. /\ notify' = "NONE" /\ said' = <<>> /\ previous' = None
        /\ UNCHANGED <<now, due, lastNotified, phase, loaded, session>>
        /\ phase # "idle" => ~mine'
    BY <1>4 DEF Queue, QueueNotify
  <2> QED BY <2>1 DEF SessionInv, Tick
<1>5. CASE /\ ~Queue /\ ~PublishAcked /\ ~PublishUnheard /\ ~TickCommit
           /\ \A travel \in TravelTimes : ~TickDecides(travel)
  <2> SUFFICES ASSUME phase' # "idle" PROVE SessionInv'
      BY DEF SessionInv, Tick
  <2>1. UNCHANGED <<notify, lastNotified, phase, loaded, session, mine, said, previous>>
    BY <1>5, OtherSteps DEF tick
  <2>2. due = 0 /\ ~(due > 0)
    BY <2>1 DEF SessionInv, Tick
  <2>3. now' = now /\ due' = due
    BY <1>5, <2>1, <2>2, OtherSteps
  <2> QED BY <2>1, <2>3 DEF SessionInv, Tick
<1> QED BY <1>1, <1>2, <1>3, <1>4, <1>5

-----------------------------------------------------------------------------
(***************************************************************************)
(* The messages.                                                           *)
(***************************************************************************)

\* What was said stays said when one message more is acknowledged.
LEMMA Appended ==
    ASSUME NEW s \in Seq(Message), NEW m \in Message, NEW t, t = Append(s, m)
    PROVE  /\ t \in Seq(Message) /\ t # <<>>
           /\ Len(t) = Len(s) + 1 /\ Len(s) \in Nat
           /\ t[Len(t)] = m
           /\ \A i \in 1..Len(s) : t[i] = s[i]
           /\ s # <<>> => Len(s) >= 1
           /\ s = <<>> => Len(s) = 0
<1>1. Len(s) \in Nat /\ (s = <<>> <=> Len(s) = 0)
  BY EmptySeq, LenProperties
<1>2. Len(t) = Len(s) + 1 /\ t[Len(t)] = m /\ \A i \in 1..Len(s) : t[i] = s[i]
  BY AppendProperties
<1>3. t \in Seq(Message) /\ t # <<>>
  BY AppendProperties
<1> QED BY <1>1, <1>2, <1>3

\* A sum of differences.
LEMMA WorseByMore ==
    ASSUME NEW first \in Int, NEW last \in Int, NEW next \in Int, NEW before \in Int,
           NEW threshold \in Int, NEW after, after = before + (threshold + 1),
           before <= first - last, last - next >= threshold + 1
    PROVE  after <= first - next
  OBVIOUS

\* A message that is heard fits the cycle: it is the first one, or the last one
\* heard was a heads-up and this is another that got worse, or the one to leave.
LEMMA Heard ==
    ASSUME CycleTypeOK, SessionInv, SaidInv, HeadsUpBound, SpamBound,
           phase = "publish", mine, phase' = "commit", mine' = mine,
           session'.notify = session.notify, session'.lastNotified = session.leaveAt,
           said' = Append(said, [kind |-> session.kind, leaveAt |-> session.leaveAt]),
           UNCHANGED <<notify, lost, stale>>
    PROVE  /\ SaidInv' /\ HeadsUpBound' /\ SpamBound'
           /\ \E i \in 1..Len(said') : said'[i].kind = session.kind
           /\ \A i \in 1..Len(said) : i \in 1..Len(said') /\ said'[i] = said[i]
<1> DEFINE leaveAt == session.leaveAt
<1> DEFINE kind == session.kind
<1> DEFINE message == [kind |-> kind, leaveAt |-> leaveAt]
<1> DEFINE n == Len(said)
<1>1. /\ leaveAt \in Int /\ kind \in Kinds
      /\ kind = "heads_up" =>
            /\ session.notify = "HEADS_UP_SENT"
            /\ notify = "NONE" \/ (notify = "HEADS_UP_SENT" /\ Worsened(leaveAt, lastNotified))
      /\ kind = "leave_now" => session.notify = "LEAVE_NOW_SENT" /\ notify = "HEADS_UP_SENT"
      /\ kind = "running_late" => session.notify = "RUNNING_LATE_SENT" /\ notify = "NONE"
  BY DEF CycleTypeOK, Session, SessionInv, Tick, Sensible
<1>2. /\ notify = "NONE" => said = <<>>
      /\ notify = "HEADS_UP_SENT" /\ said # <<>> =>
            said[n].kind = "heads_up" /\ said[n].leaveAt = lastNotified
  BY DEF SaidInv, TierNow, LastNow, Committing
<1>3. TierNow' = session.notify /\ LastNow' = leaveAt
  BY DEF TierNow, LastNow, Committing
<1>4. said \in Seq(Message) /\ lastNotified \in MaybeTime
  BY DEF CycleTypeOK
<1>5. message \in Message /\ message.kind = kind /\ message.leaveAt = leaveAt
  BY <1>1 DEF Message
<1> HIDE DEF leaveAt, kind
<1>6. /\ said' \in Seq(Message) /\ said' # <<>>
      /\ Len(said') = n + 1 /\ n \in Nat
      /\ said'[n + 1] = message
      /\ \A i \in 1..n : said'[i] = said[i]
      /\ said # <<>> => n >= 1
      /\ said = <<>> => n = 0
  <2> HIDE DEF message, n
  <2>1. said' = Append(said, message)
    BY DEF message, leaveAt, kind
  <2> QED BY <1>4, <1>5, <2>1, Appended DEF n
<1> HIDE DEF message, n
<1>7. SaidInv'
  BY <1>1, <1>3, <1>5, <1>6 DEF SaidInv, Kinds
<1>8. said # <<>> => said[n].kind = "heads_up" /\ said[n].leaveAt = lastNotified
  BY <1>1, <1>2 DEF Kinds
<1>9. \A i \in 1..n : said[i].leaveAt \in Int
  <2>1. \A i \in 1..Len(said) : said[i] \in Message
    BY <1>4, ElementOfSeq
  <2> QED BY <2>1 DEF Message, n
<1>10. HeadsUpBound'
  <2> SUFFICES ASSUME kind = "heads_up"
               PROVE  n * (ReshiftThreshold + 1) <= said'[1].leaveAt - leaveAt
    <3>1. Len(said') - 1 = n
      BY <1>6
    <3> QED BY <1>5, <1>6, <3>1 DEF HeadsUpBound
  <2>1. CASE said = <<>>
    BY <1>1, <1>5, <1>6, <2>1
  <2>2. CASE said # <<>>
    <3>1. n >= 1 /\ said'[1] = said[1] /\ said[1].leaveAt \in Int /\ said[n].leaveAt \in Int
      BY <1>6, <1>9, <2>2
    <3>2. (n - 1) * (ReshiftThreshold + 1) <= said[1].leaveAt - said[n].leaveAt
      BY <1>8, <2>2 DEF HeadsUpBound, n
    <3>3. Worsened(leaveAt, lastNotified)
      BY <1>1, <1>2, <2>2
    <3>4. said[n].leaveAt - leaveAt >= ReshiftThreshold + 1
      BY <1>1, <1>8, <2>2, <3>1, <3>3 DEF Worsened
    <3>5. n * (ReshiftThreshold + 1) = (n - 1) * (ReshiftThreshold + 1) + (ReshiftThreshold + 1)
      BY <1>6
    <3>6. (n - 1) * (ReshiftThreshold + 1) \in Int
      BY <1>6
    <3> DEFINE before == (n - 1) * (ReshiftThreshold + 1)
    <3> DEFINE after  == n * (ReshiftThreshold + 1)
    <3>7. before \in Int /\ after = before + (ReshiftThreshold + 1) /\ before <= said[1].leaveAt - said[n].leaveAt
      BY <3>2, <3>5, <3>6
    <3> HIDE DEF before, after
    <3>8. ReshiftThreshold \in Int
      BY NotifierAssumption
    <3>9. after <= said'[1].leaveAt - leaveAt
      BY <1>1, <3>1, <3>4, <3>7, <3>8, WorseByMore
    <3> QED BY <3>9 DEF after
  <2> QED BY <2>1, <2>2
<1>11. SpamBound'
  <2> SUFFICES ASSUME n + 1 >= 2
               PROVE  \/ /\ kind = "heads_up"
                         /\ n * (ReshiftThreshold + 1) <= said'[1].leaveAt - leaveAt
                      \/ /\ kind # "heads_up"
                         /\ (n - 1) * (ReshiftThreshold + 1) <= said'[1].leaveAt - said'[n].leaveAt
    <3>1. Len(said') = n + 1 /\ Len(said') - 1 = n /\ Len(said') - 2 = n - 1
      BY <1>6
    <3>2. said'[Len(said')].kind = kind /\ said'[Len(said')].leaveAt = leaveAt
      BY <1>5, <1>6
    <3> QED BY <3>1, <3>2 DEF SpamBound
  <2>1. said # <<>> /\ said'[1] = said[1] /\ said'[n] = said[n]
    BY <1>6
  <2>2. CASE kind = "heads_up"
    <3>1. Len(said') - 1 = n /\ said'[Len(said')] = message /\ said' # <<>>
      BY <1>6
    <3> QED BY <1>5, <1>10, <2>2, <3>1 DEF HeadsUpBound
  <2>3. CASE kind # "heads_up"
    BY <1>8, <2>1, <2>3 DEF HeadsUpBound, n
  <2> QED BY <2>2, <2>3
<1>12. \E i \in 1..Len(said') : said'[i].kind = session.kind
  <2>1. n + 1 \in 1..Len(said') /\ said'[n + 1].kind = session.kind
    BY <1>5, <1>6 DEF kind
  <2> QED BY <2>1
<1>13. \A i \in 1..Len(said) : i \in 1..Len(said') /\ said'[i] = said[i]
  BY <1>6 DEF n
<1> QED BY <1>7, <1>10, <1>11, <1>12, <1>13

\* The tier a tick sets goes with its message.
LEMMA TierOfKind ==
    ASSUME CycleTypeOK, SessionInv, Tick, session.kind # None
    PROVE  session.notify # "NONE" /\ KindOf[session.notify] = session.kind
  BY DEF SessionInv, Sensible, Kinds, KindOf

\* The four invariants about messages.
MessageInv == SaidInv /\ TierInv /\ HeadsUpBound /\ SpamBound

LEMMA MessagesPreserved ==
    CycleTypeOK /\ SessionInv /\ MessageInv /\ [Next]_vars => MessageInv'
<1> SUFFICES ASSUME CycleTypeOK, SessionInv, MessageInv, [Next]_vars PROVE MessageInv'
    OBVIOUS
<1>same. ASSUME UNCHANGED <<said, lost, stale, notify>>, TierNow' = TierNow, LastNow' = LastNow
         PROVE  MessageInv'
  BY <1>same DEF MessageInv, SaidInv, TierInv, HasMessage, HeadsUpBound, SpamBound
<1>1. CASE \E travel \in TravelTimes : TickDecides(travel)
  <2>1. PICK travel \in TravelTimes : TickDecides(travel)
    BY <1>1
  <2>2. /\ phase = "idle" /\ UNCHANGED <<said, lost, stale, notify, lastNotified>>
        /\ phase' = "commit" => session'.notify = notify /\ session'.lastNotified = lastNotified
    BY <2>1, Decides DEF row, history
  <2>3. TierNow' = TierNow /\ LastNow' = LastNow
    BY <2>2 DEF TierNow, LastNow, Committing
  <2> QED BY <1>same, <2>2, <2>3
<1>2. CASE PublishAcked \/ PublishUnheard
  <2>1. /\ phase = "publish" /\ phase' = "commit" /\ session.kind # None
        /\ UNCHANGED <<notify, lastNotified, mine, stale>>
        /\ session'.notify = session.notify /\ session.lastNotified = lastNotified
        /\ \/ /\ session'.lastNotified = session.lastNotified /\ said' = said
              /\ lost' = IF mine THEN lost \cup {session.kind} ELSE lost
           \/ /\ session'.lastNotified = session.leaveAt /\ lost' = lost
              /\ said' = IF mine
                         THEN Append(said, [kind |-> session.kind, leaveAt |-> session.leaveAt])
                         ELSE said
    BY <1>2, Publishes DEF row, SessionInv, Tick
  <2>2. CASE ~mine
    <3>1. TierNow' = TierNow /\ LastNow' = LastNow
      BY <2>1, <2>2 DEF TierNow, LastNow, Committing
    <3> QED BY <1>same, <2>1, <2>2, <3>1
  <2>3. TierNow = notify /\ LastNow = lastNotified
    BY <2>1 DEF TierNow, LastNow, Committing
  <2>4. mine => TierNow' = session.notify /\ LastNow' = session'.lastNotified
    BY <2>1 DEF TierNow, LastNow, Committing
  <2>5. session.notify # "NONE" /\ KindOf[session.notify] = session.kind
    BY <2>1, TierOfKind DEF Tick
  <2>6. CASE /\ mine /\ session'.lastNotified = session.lastNotified /\ said' = said
             /\ lost' = lost \cup {session.kind}
    <3>1. HasMessage(notify)'
      BY <2>1, <2>6 DEF MessageInv, TierInv, HasMessage
    <3>2. HasMessage(TierNow)'
      BY <2>4, <2>5, <2>6 DEF HasMessage
    <3>3. session.notify = "HEADS_UP_SENT" => notify \in {"NONE", "HEADS_UP_SENT"}
      BY <2>1 DEF SessionInv, Tick, Sensible, Kinds
    <3>4. SaidInv'
      BY <2>1, <2>3, <2>4, <2>5, <2>6, <3>3 DEF MessageInv, SaidInv
    <3> QED BY <2>6, <3>1, <3>2, <3>4 DEF MessageInv, TierInv, HeadsUpBound, SpamBound
  <2>7. CASE /\ mine /\ session'.lastNotified = session.leaveAt /\ lost' = lost
             /\ said' = Append(said, [kind |-> session.kind, leaveAt |-> session.leaveAt])
    <3>1. /\ SaidInv' /\ HeadsUpBound' /\ SpamBound'
          /\ \E i \in 1..Len(said') : said'[i].kind = session.kind
          /\ \A i \in 1..Len(said) : i \in 1..Len(said') /\ said'[i] = said[i]
      BY <2>1, <2>7, Heard DEF MessageInv
    <3>2. HasMessage(notify)'
      BY <2>1, <2>7, <3>1 DEF MessageInv, TierInv, HasMessage
    <3>3. HasMessage(TierNow)'
      BY <2>4, <2>5, <2>7, <3>1 DEF HasMessage
    <3> QED BY <3>1, <3>2, <3>3 DEF MessageInv, TierInv
  <2> QED BY <2>1, <2>2, <2>6, <2>7
<1>3. CASE TickCommit
  <2>1. phase = "commit" /\ phase' = "idle" /\ UNCHANGED <<said, lost>>
    BY <1>3, Commits
  <2>2. TierNow' = notify' /\ LastNow' = lastNotified'
    BY <2>1 DEF TierNow, LastNow, Committing
  <2>3. CASE mine
    <3>1. notify' = TierNow /\ lastNotified' = LastNow /\ stale' = stale
      BY <1>3, <2>1, <2>3, Commits DEF TierNow, LastNow, Committing
    <3> QED BY <2>1, <2>2, <3>1
            DEF MessageInv, SaidInv, TierInv, HasMessage, HeadsUpBound, SpamBound
  <2>4. CASE ~mine
    <3>1. /\ said' = <<>>
          /\ notify' # "NONE" => notify' = session.notify /\ stale' = {session.kind}
                                 /\ session.kind # None
      BY <1>3, <2>4, Commits
    <3>2. HasMessage(notify)'
      BY <2>1, <3>1, TierOfKind DEF HasMessage, Tick
    <3>3. SaidInv' /\ HasMessage(TierNow)'
      BY <2>2, <3>1, <3>2 DEF SaidInv, HasMessage
    <3> QED BY <2>1, <3>2, <3>3 DEF MessageInv, TierInv, HeadsUpBound, SpamBound
  <2> QED BY <2>3, <2>4
<1>4. CASE Queue
  <2>1. said' = <<>> /\ notify' = "NONE" /\ Len(<<>>) = 0
    BY <1>4, EmptySeq DEF Queue, QueueNotify
  <2>2. TierNow' = "NONE"
    BY <1>4, <2>1 DEF Queue, TierNow, Committing
  <2> QED BY <2>1, <2>2 DEF MessageInv, SaidInv, TierInv, HasMessage, HeadsUpBound, SpamBound
<1>5. CASE /\ ~Queue /\ ~PublishAcked /\ ~PublishUnheard /\ ~TickCommit
           /\ \A travel \in TravelTimes : ~TickDecides(travel)
  <2>1. UNCHANGED <<notify, lastNotified, phase, loaded, session, mine, said, lost, stale>>
    BY <1>5, OtherSteps DEF tick
  <2>2. TierNow' = TierNow /\ LastNow' = LastNow
    BY <2>1 DEF TierNow, LastNow, Committing
  <2> QED BY <1>same, <2>1, <2>2
<1> QED BY <1>1, <1>2, <1>3, <1>4, <1>5

-----------------------------------------------------------------------------
(***************************************************************************)
(* Time.                                                                   *)
(***************************************************************************)

\* One tick more that came to nothing is one interval more.
LEMMA OneIntervalMore ==
    ASSUME NEW n \in Nat
    PROVE  /\ (n + 1) * Interval \in Nat
           /\ (n + 1 + 1) * Interval = (n + 1) * Interval + Interval
           /\ (0 + 1) * Interval = Interval
  OBVIOUS

\* The clock moves by no more than the time that was left.
LEMMA LessIsLeft ==
    ASSUME NEW n \in Nat, NEW d \in Nat, NEW m \in Nat, NEW e \in Nat,
           m <= n + 1, e + 1 = d
    PROVE  m + e <= n + d
  OBVIOUS

LEMMA TimePreserved == CycleTypeOK /\ SessionInv /\ TimeInv /\ [Next]_vars => TimeInv'
<1> DEFINE slack == (missed + 1) * Interval
<1> SUFFICES ASSUME CycleTypeOK, SessionInv, TimeInv, [Next]_vars,
                    Watched', previous' # None
             PROVE  /\ notify' \notin TerminalTier => now' + due' < previous' + slack'
                    /\ notify' = "NONE" => now' + due' < previous' - NotifyLead + slack'
    BY DEF TimeInv
<1>1. /\ now \in Nat /\ due \in Nat /\ missed \in Nat
      /\ previous # None => previous \in Int
  BY DEF CycleTypeOK, MaybeTime
<1>2. slack \in Nat
  BY <1>1, OneIntervalMore
<1>3. Watched /\ previous # None =>
         /\ notify \notin TerminalTier => now + due < previous + slack
         /\ notify = "NONE" => now + due < previous - NotifyLead + slack
  BY DEF TimeInv
<1>4. UNCHANGED missed => slack' = slack
  OBVIOUS
<1>5. missed' = missed + 1 => slack' = slack + Interval
  BY <1>1, OneIntervalMore
<1>6. missed' = 0 => slack' = Interval
  BY OneIntervalMore
<1> HIDE DEF slack
<1>7. CASE Advance
  <2>1. UNCHANGED <<tracked, notify, previous, missed>>
    BY <1>7 DEF Advance, row, history
  <2>w. Watched
    BY <1>7 DEF Advance, Watched, Tick, row, tick
  <2>2. due > 0 /\ due' = due - 1 /\ now' \in {now, now + 1}
    BY <1>7 DEF Advance
  <2>3. due' \in Nat /\ due' + 1 = due
    BY <1>1, <2>2
  <2>4. now' \in Nat /\ now' <= now + 1
    BY <1>1, <2>2
  <2>5. now' + due' <= now + due
    BY <1>1, <2>3, <2>4, LessIsLeft
  <2>6. slack' = slack
    BY <1>4, <2>1
  <2>7. /\ previous \in Int
        /\ notify \notin TerminalTier => now + due < previous + slack
        /\ notify = "NONE" => now + due < previous - NotifyLead + slack
    BY <1>1, <1>3, <2>1, <2>w
  <2>8. now' + due' \in Int /\ now + due \in Int
    BY <1>1, <2>3, <2>4
  <2>9. \A n \in Int : now + due < n => now' + due' < n
    <3> DEFINE before == now + due
    <3> DEFINE after == now' + due'
    <3>1. before \in Int /\ after \in Int /\ after <= before
      BY <2>5, <2>8
    <3> HIDE DEF before, after
    <3>2. \A n \in Int : before < n => after < n
      BY <3>1
    <3> QED BY <3>2 DEF before, after
  <2>10. previous + slack \in Int /\ previous - NotifyLead + slack \in Int
    BY <1>2, <2>7
  <2> QED BY <2>1, <2>6, <2>7, <2>9, <2>10
<1>8. CASE Queue \/ TickWithout
  BY <1>8 DEF Queue, TickWithout, TickDue, Watched, Tick, tick
<1>9. CASE TickMissed
  <2>1. /\ due = 0 /\ due' = Interval /\ missed' = missed + 1
        /\ UNCHANGED <<now, notify, previous>> /\ Watched
    BY <1>9 DEF TickMissed, TickDue, Watched
  <2> QED BY <1>1, <1>2, <1>3, <1>5, <2>1
<1>10. CASE Watched /\ UNCHANGED <<notify, previous, missed, now, due>>
  BY <1>1, <1>2, <1>3, <1>4, <1>10
<1>11. CASE \/ Close \/ PublishAcked \/ PublishUnheard
            \/ \E s \in Starts : Reschedule(s)
  <2>1. UNCHANGED <<notify, previous, missed, now, due>>
    BY <1>11 DEF Close, Reschedule, PublishAcked, PublishUnheard, Published, row, history
  <2>2. Watched
    BY <1>11 DEF Close, Reschedule, PublishAcked, PublishUnheard, Published, row, tick,
                 Watched, Tick
  <2> QED BY <1>10, <2>1, <2>2
<1>12. CASE \E travel \in TravelTimes : TickDecides(travel)
  <2>1. PICK travel \in TravelTimes : TickDecides(travel)
    BY <1>12
  <2>2. Watched /\ UNCHANGED <<notify, previous, missed, now, due>>
    BY <2>1, Decides DEF row, history, Watched
  <2> QED BY <1>10, <2>2
<1>13. CASE TickCommit
  <2>1. mine /\ phase = "commit"
    BY <1>13, Commits
  <2>2. /\ session.leaveAt \in Int
        /\ session.notify \notin TerminalTier => now < session.leaveAt
        /\ session.notify = "NONE" => now < session.leaveAt - NotifyLead
    BY <2>1 DEF SessionInv, Tick, Sensible, CycleTypeOK, Session
  <2>3. /\ due' = Interval /\ now' = now
        /\ notify' = session.notify /\ previous' = session.leaveAt /\ missed' = 0
    BY <1>13, <2>1, Commits
  <2> DEFINE leaveAt == session.leaveAt
  <2> DEFINE tier == session.notify
  <2>4. /\ leaveAt \in Int
        /\ tier \notin TerminalTier => now < leaveAt
        /\ tier = "NONE" => now < leaveAt - NotifyLead
        /\ notify' = tier /\ previous' = leaveAt
    BY <2>2, <2>3
  <2> HIDE DEF leaveAt, tier
  <2> QED BY <1>1, <1>6, <2>3, <2>4
<1>14. CASE UNCHANGED vars
  BY <1>10, <1>14 DEF vars, row, tick, history, Watched, Tick
<1> QED BY <1>7, <1>8, <1>9, <1>11, <1>12, <1>13, <1>14 DEF Next

\* The inductive invariant.
LEMMA CycleInvariant == Spec => []CycleInv
<1>1. Init => CycleInv
  <2> SUFFICES ASSUME Init PROVE CycleInv
      OBVIOUS
  <2>1. <<>> \in Seq(Message) /\ Len(<<>>) = 0
    BY EmptySeq
  <2>2. CycleTypeOK
    <3>1. tracked \in BOOLEAN
      <4>1. tracked = FALSE
        BY DEF Init
      <4> QED BY <4>1
    <3>2. mine \in BOOLEAN
      <4>1. mine = TRUE
        BY DEF Init
      <4> QED BY <4>1
    <3>3. EmptyRow \in Loaded /\ NoWork \in Session
      BY DEF EmptyRow, NoWork, Loaded, Session, NotifyState, MaybeTime
    <3> QED BY <2>1, <3>1, <3>2, <3>3 DEF Init, CycleTypeOK, NotifyState, MaybeTime
  <2>3. SessionInv /\ TimeInv
    BY DEF Init, SessionInv, Tick, TimeInv
  <2>4. TierNow = "NONE" /\ notify = "NONE" /\ said = <<>>
    BY DEF Init, TierNow, Committing
  <2>5. SaidInv /\ TierInv /\ HeadsUpBound /\ SpamBound
    BY <2>1, <2>4 DEF SaidInv, TierInv, HasMessage, HeadsUpBound, SpamBound
  <2> QED BY <2>2, <2>3, <2>5 DEF CycleInv
<1>2. CycleInv /\ [Next]_vars => CycleInv'
  BY CycleTypePreserved, SessionPreserved, MessagesPreserved, TimePreserved DEF CycleInv, MessageInv
<1> QED BY <1>1, <1>2, PTL DEF Spec

-----------------------------------------------------------------------------
(***************************************************************************)
(* The theorems.                                                           *)
(***************************************************************************)

\* Every variable of the cycle keeps its type.
THEOREM CycleTypeCorrect == Spec => []CycleTypeOK
<1>1. CycleInv => CycleTypeOK
  BY DEF CycleInv
<1> QED BY <1>1, CycleInvariant, PTL

\* A stored tier always has its message: heard or lost in the same cycle, or that
\* of a tick which had loaded the row in the cycle before.
THEOREM TierHasItsMessageHolds == Spec => []TierHasItsMessage
<1>1. CycleInv => TierHasItsMessage
  BY DEF CycleInv, TierInv, HasMessage, TierHasItsMessage
<1> QED BY <1>1, CycleInvariant, PTL

\* The messages of a cycle are as few as leave_at's worsening, whatever the
\* number of ticks, the travel times and the losses.
THEOREM SpamBoundHolds == Spec => []SpamBound
<1>1. CycleInv => SpamBound
  BY DEF CycleInv
<1> QED BY <1>1, CycleInvariant, PTL

\* The message to leave is late by no more than the ticks that were missed.
THEOREM AnnouncedInTimeHolds == Spec => []AnnouncedInTime
<1>1. CycleInv => AnnouncedInTime
  <2> SUFFICES ASSUME CycleInv, tracked, previous # None, notify \notin TerminalTier
               PROVE  now < previous + (missed + 1) * Interval
      BY DEF AnnouncedInTime
  <2>1. now \in Nat /\ due \in Nat /\ missed \in Nat /\ previous \in Int
    BY DEF CycleInv, CycleTypeOK, MaybeTime
  <2>2. now + due < previous + (missed + 1) * Interval
    BY DEF CycleInv, TimeInv, Watched
  <2>3. (missed + 1) * Interval \in Nat
    BY <2>1, OneIntervalMore
  <2> QED BY <2>1, <2>2, <2>3
<1> QED BY <1>1, CycleInvariant, PTL

\* Nobody who was watched goes from silence to running_late unless leave_at has
\* moved by more than the lead leaves.
THEOREM LateOnlyWhenSurprisedHolds == Spec => LateOnlyWhenSurprised
<1>1. ASSUME CycleInv, Next,
             notify = "NONE", notify' = "RUNNING_LATE_SENT", previous # None
      PROVE  previous - previous' > NotifyLead - (missed + 1) * Interval
  <2>1. TickCommit
    BY <1>1, Decides
    DEF Next, Advance, Queue, QueueNotify, Close, TickWithout, TickMissed, TickDecides,
        PublishAcked, PublishUnheard, Published, Reschedule, row, history
  <2>2. CycleTypeOK /\ TimeInv /\ SessionInv
    BY <1>1 DEF CycleInv
  <2>3. mine /\ phase = "commit"
    BY <1>1, <2>1, <2>2, Commits DEF SessionInv, Tick
  <2>4. /\ notify' = session.notify /\ previous' = session.leaveAt /\ notify = loaded.notify
        /\ due = 0 /\ session.leaveAt \in Int
        /\ session.notify = "RUNNING_LATE_SENT" /\ notify = "NONE" => session.leaveAt <= now
    BY <2>1, <2>2, <2>3, Commits DEF SessionInv, Tick, Sensible, CycleTypeOK, Session
  <2>5. previous' <= now /\ previous' \in Int
    BY <1>1, <2>4
  <2>6. now \in Nat /\ missed \in Nat /\ previous \in Int
    BY <1>1, <2>2 DEF CycleTypeOK, MaybeTime
  <2> DEFINE slack == (missed + 1) * Interval
  <2>7. now + due < previous - NotifyLead + slack
    BY <1>1, <2>2, <2>3 DEF TimeInv, Watched, Tick
  <2>8. slack \in Nat
    BY <2>6, OneIntervalMore
  <2> HIDE DEF slack
  <2>9. previous - previous' > NotifyLead - slack
    BY <2>4, <2>5, <2>6, <2>7, <2>8
  <2> QED BY <2>9 DEF slack
<1>2. CycleInv /\ [Next]_vars =>
         [notify = "NONE" /\ notify' = "RUNNING_LATE_SENT" /\ previous # None =>
             previous - previous' > NotifyLead - (missed + 1) * Interval]_vars
  BY <1>1
<1> QED BY <1>2, CycleInvariant, PTL DEF Spec, LateOnlyWhenSurprised

-----------------------------------------------------------------------------
(***************************************************************************)
(* The refinement.                                                         *)
(***************************************************************************)

\* An acknowledged message is one the user was promised at this point.
LEMMA SaysAsPromised ==
    ASSUME CycleInv, PublishAcked \/ PublishUnheard, said' # said
    PROVE  Promise!Next
<1>0. CycleTypeOK /\ SaidInv /\ SessionInv
  BY DEF CycleInv
<1>1. /\ phase = "publish" /\ mine
      /\ said' = Append(said, [kind |-> session.kind, leaveAt |-> session.leaveAt])
  BY <1>0, Publishes
<1>2. /\ session.kind \in Kinds
      /\ session.kind = "heads_up" =>
            notify = "NONE" \/ (notify = "HEADS_UP_SENT" /\ Worsened(session.leaveAt, lastNotified))
      /\ session.kind = "leave_now" => notify = "HEADS_UP_SENT"
      /\ session.kind = "running_late" => notify = "NONE"
      /\ session.leaveAt \in LeaveTimes
  BY <1>0, <1>1 DEF SessionInv, Tick, Sensible
<1>3. /\ notify = "NONE" => said = <<>>
      /\ notify = "HEADS_UP_SENT" /\ said # <<>> =>
            said[Len(said)].kind = "heads_up" /\ said[Len(said)].leaveAt = lastNotified
  BY <1>0, <1>1 DEF SaidInv, TierNow, LastNow, Committing
<1>4. CASE session.kind = "heads_up"
  <2>1. Promise!SayHeadsUp(session.leaveAt)
    BY <1>1, <1>2, <1>3, <1>4 DEF Worsened, Promise!SayHeadsUp, Promise!Last, Promise!HeadsUp
  <2> QED BY <1>2, <2>1 DEF Promise!Next, LeaveTimes
<1>5. CASE session.kind = "leave_now"
  <2>1. Promise!SayLeaveNow(session.leaveAt)
    BY <1>1, <1>2, <1>3, <1>5 DEF Promise!SayLeaveNow, Promise!Last, Promise!HeadsUp
  <2> QED BY <1>2, <2>1 DEF Promise!Next, LeaveTimes
<1>6. CASE session.kind = "running_late"
  <2>1. Promise!SayRunningLate(session.leaveAt)
    BY <1>1, <1>2, <1>3, <1>6 DEF Promise!SayRunningLate
  <2> QED BY <1>2, <2>1 DEF Promise!Next, LeaveTimes
<1> QED BY <1>2, <1>4, <1>5, <1>6 DEF Kinds

\* The notification cycle implements the announcements the user was promised:
\* every step says one of them, opens a new cycle, or says nothing.
THEOREM KeepsPromiseHolds == Spec => KeepsPromise
<1>1. Init => Promise!Init
  BY DEF Init, Promise!Init
<1>2. CycleInv /\ [Next]_vars => [Promise!Next]_said
  <2> SUFFICES ASSUME CycleInv, [Next]_vars, said' # said
               PROVE  Promise!Next
      OBVIOUS
  <2>1. CASE PublishAcked \/ PublishUnheard
    BY <2>1, SaysAsPromised
  <2>2. CASE Queue
    BY <2>2 DEF Queue, Promise!Next, Promise!NewCycle
  <2>3. UNCHANGED said \/ Queue \/ PublishAcked \/ PublishUnheard
    BY DEF Next, Advance, Close, TickWithout, TickMissed, TickDecides, TickCommit,
           Reschedule, vars, row, history
  <2> QED BY <2>1, <2>2, <2>3
<1> QED BY <1>1, <1>2, CycleInvariant, PTL DEF Spec, KeepsPromise, Promise!Spec
=============================================================================
