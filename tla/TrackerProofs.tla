--------------------------- MODULE TrackerProofs ----------------------------
(***************************************************************************)
(* What holds of Tracker for every set of keys, calendars and versions,    *)
(* every duration and every bound: type correctness first.                 *)
(***************************************************************************)
EXTENDS Tracker, TLAPS

Row == Event \cup {NoRow}

Rows == [Keys -> Row]

\* What a sync may do to the notification state of a row: nothing, or the reset
\* of a row it queues again.
KeepsNotify(old, new) ==
    /\ new # NoRow
    /\ \/ new.notify = old.notify
       \/ new.notify = "NONE" /\ new.status = "QUEUED" /\ old.status # "QUEUED"

AllKeepNotify(old, new) == \A k \in Keys : old[k] # NoRow => KeepsNotify(old[k], new[k])

-----------------------------------------------------------------------------
(***************************************************************************)
(* Lemmas about the operators the actions are built from.                  *)
(***************************************************************************)

\* evaluate_notification returns a NotifyState and a kind or nothing.
LEMMA EvaluateType ==
    ASSUME NEW t \in Int, NEW leaveAt \in Int,
           NEW state \in NotifyState, NEW last \in MaybeTime
    PROVE  /\ EvaluateNotification(t, leaveAt, state, last).state \in NotifyState
           /\ EvaluateNotification(t, leaveAt, state, last).kind \in Kinds \cup {None}
  <1> DEFINE worse == Worsened(leaveAt, last)
  <1>1. CASE state = "NONE"
    BY <1>1 DEF EvaluateNotification, FirstDecision, Decision, NotifyState, Kinds
  <1>2. CASE state = "HEADS_UP_SENT"
    <2> HIDE DEF worse
    <2>1. HeadsUpDecision(t, leaveAt, last) \in
             {Decision("LEAVE_NOW_SENT", "leave_now"),
              Decision("HEADS_UP_SENT", "heads_up"), Decision("HEADS_UP_SENT", None)}
      BY DEF HeadsUpDecision, worse
    <2>2. EvaluateNotification(t, leaveAt, state, last) = HeadsUpDecision(t, leaveAt, last)
      BY <1>2 DEF EvaluateNotification
    <2> QED BY <2>1, <2>2 DEF Decision, NotifyState, Kinds
  <1>3. CASE state \in TerminalTier
    BY <1>3 DEF EvaluateNotification, Decision, TerminalTier, NotifyState, Kinds
  <1> QED BY <1>1, <1>2, <1>3 DEF NotifyState, TerminalTier

\* _upsert_event makes a row of a row.
LEMMA UpsertType ==
    ASSUME NEW row \in Row, NEW v \in Version, NEW label \in Labels, NEW t \in Nat
    PROVE  /\ UpsertEvent(row, v, label, t) \in Row
           /\ row # NoRow => KeepsNotify(row, UpsertEvent(row, v, label, t))
  <1>1. NewRow(v, label) \in Event
    BY NotifierAssumption DEF NewRow, Event, Version, EventStatus, NotifyState, MaybeTime
  <1>2. CASE row = NoRow
    BY <1>1, <1>2 DEF UpsertEvent, Row
  <1>3. CASE row # NoRow
    <2> row \in Event
      BY <1>3 DEF Row
    <2> DEFINE updated == [row EXCEPT !.start = v.start, !.location = v.location]
    <2>1. updated \in Event
      BY DEF Event, Version
    <2>2. \A st \in EventStatus : [updated EXCEPT !.status = st] \in Event
      BY <2>1 DEF Event
    <2>3. Requeued(updated) \in Event
      BY <2>1 DEF Requeued, Event, EventStatus, NotifyState
    <2>4. "CANCELLED" \in EventStatus /\ "DROPPED" \in EventStatus
      BY DEF EventStatus
    <2>5. updated.notify = row.notify /\ updated.status = row.status
      BY DEF Event
    <2> HIDE DEF updated
    <2>6. \/ UpsertEvent(row, v, label, t) = updated
          \/ UpsertEvent(row, v, label, t) = [updated EXCEPT !.status = "CANCELLED"]
          \/ UpsertEvent(row, v, label, t) = [updated EXCEPT !.status = "DROPPED"]
          \/ /\ UpsertEvent(row, v, label, t) = Requeued(updated)
             /\ row.status # "QUEUED"
      BY <1>3 DEF UpsertEvent, updated
    <2>7. /\ \A st \in EventStatus : [updated EXCEPT !.status = st].notify = row.notify
          /\ Requeued(updated).notify = "NONE" /\ Requeued(updated).status = "QUEUED"
      BY <2>1, <2>5 DEF Event, Requeued
    <2> QED BY <2>1, <2>2, <2>3, <2>4, <2>5, <2>6, <2>7, NoRowAssumption DEF Row, KeepsNotify
  <1> QED BY <1>2, <1>3

\* What a calendar returns are versions of known keys.
LEMMA FetchType ==
    ASSUME SyncTypeOK, NEW c \in Calendars, NEW t \in Nat
    PROVE  /\ DOMAIN FetchCalendarEvents(c, t) \subseteq Keys
           /\ \A k \in DOMAIN FetchCalendarEvents(c, t) :
                 FetchCalendarEvents(c, t)[k] \in Version
  BY SyncAssumption DEF SyncTypeOK, FetchCalendarEvents

\* One calendar's transaction makes rows of rows.
LEMMA ApplyType ==
    ASSUME NEW rows \in Rows, NEW name, NEW label \in Labels, NEW t \in Nat, NEW found,
           DOMAIN found \subseteq Keys, \A k \in DOMAIN found : found[k] \in Version
    PROVE  /\ ApplyCalendarSync(rows, name, label, found, t) \in Rows
           /\ AllKeepNotify(rows, ApplyCalendarSync(rows, name, label, found, t))
  <1> DEFINE result == ApplyCalendarSync(rows, name, label, found, t)
  <1>1. \A k \in Keys : /\ result[k] \in Row
                        /\ rows[k] # NoRow => KeepsNotify(rows[k], result[k])
    <2> TAKE k \in Keys
    <2>1. rows[k] \in Row
      BY DEF Rows
    <2>2. k \in DOMAIN found => /\ UpsertEvent(rows[k], found[k], label, t) \in Row
                                /\ rows[k] # NoRow => KeepsNotify(rows[k],
                                      UpsertEvent(rows[k], found[k], label, t))
      BY <2>1, UpsertType
    <2>3. rows[k] # NoRow =>
             /\ [rows[k] EXCEPT !.status = "DROPPED"] \in Event
             /\ [rows[k] EXCEPT !.status = "DROPPED"].notify = rows[k].notify
      BY <2>1 DEF Row, Event, EventStatus
    <2>4. rows[k] # NoRow => KeepsNotify(rows[k], [rows[k] EXCEPT !.status = "DROPPED"])
      BY <2>3, NoRowAssumption DEF KeepsNotify
    <2>5. rows[k] # NoRow => KeepsNotify(rows[k], rows[k])
      BY DEF KeepsNotify
    <2>6. \/ result[k] = rows[k]
          \/ k \in DOMAIN found /\ result[k] = UpsertEvent(rows[k], found[k], label, t)
          \/ rows[k] # NoRow /\ result[k] = [rows[k] EXCEPT !.status = "DROPPED"]
      BY DEF ApplyCalendarSync
    <2> HIDE DEF result
    <2> QED BY <2>1, <2>2, <2>3, <2>4, <2>5, <2>6 DEF Row
  <1>2. result = [k \in Keys |-> result[k]]
    BY DEF ApplyCalendarSync
  <1> HIDE DEF result
  <1>3. result \in Rows /\ AllKeepNotify(rows, result)
    BY <1>1, <1>2 DEF Rows, AllKeepNotify
  <1> QED BY <1>3 DEF result

\* The reconciliation makes rows of rows, deletes none and leaves the
\* notification state alone.
LEMMA ReconcileType ==
    ASSUME NEW rows \in Rows, NEW t \in Nat
    PROVE  /\ ReconcileStates(rows, t) \in Rows
           /\ AllKeepNotify(rows, ReconcileStates(rows, t))
  <1> DEFINE result == ReconcileStates(rows, t)
  <1>1. \A k \in Keys : /\ result[k] \in Row
                        /\ rows[k] # NoRow => /\ result[k] # NoRow
                                              /\ result[k].notify = rows[k].notify
    <2> TAKE k \in Keys
    <2>1. rows[k] \in Row
      BY DEF Rows
    <2>2. rows[k] # NoRow => \A st \in EventStatus :
                               /\ [rows[k] EXCEPT !.status = st] \in Event
                               /\ [rows[k] EXCEPT !.status = st].notify = rows[k].notify
      BY <2>1 DEF Row, Event
    <2>3. "DONE" \in EventStatus /\ "ACTIVE" \in EventStatus
      BY DEF EventStatus
    <2>4. result[k] \in {rows[k], [rows[k] EXCEPT !.status = "DONE"],
                         [rows[k] EXCEPT !.status = "ACTIVE"]}
      BY DEF ReconcileStates, Reconcile
    <2>5. rows[k] = NoRow => result[k] = NoRow
      BY DEF ReconcileStates, Reconcile
    <2> QED BY <2>1, <2>2, <2>3, <2>4, <2>5, NoRowAssumption DEF Row
  <1>2. result = [k \in Keys |-> result[k]]
    BY DEF ReconcileStates
  <1> HIDE DEF result
  <1>3. result \in Rows /\ AllKeepNotify(rows, result)
    BY <1>1, <1>2 DEF Rows, AllKeepNotify, KeepsNotify
  <1> QED BY <1>3 DEF result

\* The UPDATE of a tick makes a row of a row; it is applied to the rows the
\* tick loaded, and rows are never deleted.
LEMMA FlushType ==
    ASSUME NEW row \in Event, NEW before \in Event, NEW after \in Event
    PROVE  /\ Flush(row, before, after) \in Event
           /\ Flush(row, before, after).notify =
                 Changed(before.notify, after.notify, row.notify)
  BY DEF Flush, Changed, Event

-----------------------------------------------------------------------------
(***************************************************************************)
(* Types, one lemma per part of the next-state relation.                   *)
(***************************************************************************)

\* The types after a sync step; no row is lost, no notification state changed
\* but by a reset.
LEMMA SyncStepType ==
    ASSUME SyncTypeOK, SyncStep
    PROVE  /\ SyncTypeOK'
           /\ AllKeepNotify(events, events')
  <1> USE DEF SyncTypeOK, StoreTypeOK
  <1>same. UNCHANGED events => AllKeepNotify(events, events')
    BY DEF AllKeepNotify, KeepsNotify
  <1>0. events \in Rows /\ snow \in Nat
    BY DEF Rows, Row
  <1>1. CASE FullSyncStart
    BY <1>1, <1>same DEF FullSyncStart, serverVars, storeVars
  <1>2. CASE DiscoveryFails
    BY <1>2, <1>same DEF DiscoveryFails, serverVars, storeVars
  <1>3. ASSUME NEW c \in Calendars, SyncCalendar(c)
        PROVE  /\ SyncTypeOK'
               /\ AllKeepNotify(events, events')
    <2> DEFINE found == FetchCalendarEvents(c, snow)
    <2>1. CalName[c] \in Labels
      BY DEF Labels
    <2>2. DOMAIN found \subseteq Keys /\ \A k \in DOMAIN found : found[k] \in Version
      BY FetchType
    <2>3. events' = ApplyCalendarSync(events, CalName[c], CalName[c], found, snow)
      BY <1>3 DEF SyncCalendar
    <2> HIDE DEF found
    <2>4. events' \in Rows /\ AllKeepNotify(events, events')
      BY <1>0, <2>1, <2>2, <2>3, ApplyType
    <2> QED BY <1>3, <2>2, <2>4 DEF SyncCalendar, serverVars, Rows, Row, found
  <1>4. CASE FetchFails
    BY <1>4, <1>same DEF FetchFails, serverVars, storeVars
  <1>5. CASE FullSyncFinish
    <2>1. events' \in Rows /\ AllKeepNotify(events, events')
      BY <1>0, <1>5, ReconcileType DEF FullSyncFinish
    <2>2. lastSyncError' \in BOOLEAN
      BY <1>5 DEF FullSyncFinish
    <2>3. lastSyncAt' \in Nat \cup {None} /\ snow' = 0 /\ now' = now
      BY <1>5 DEF FullSyncFinish
    <2> QED BY <1>5, <2>1, <2>2, <2>3 DEF FullSyncFinish, serverVars, Rows, Row
  <1>6. ASSUME NEW c \in PushCalendars, PushStart(c)
        PROVE  /\ SyncTypeOK'
               /\ AllKeepNotify(events, events')
    BY <1>6, <1>same, SyncAssumption DEF PushStart, serverVars, storeVars
  <1>7. ASSUME NEW c \in Calendars, ResyncCalendar(c)
        PROVE  /\ SyncTypeOK'
               /\ AllKeepNotify(events, events')
    <2> DEFINE found == FetchCalendarEvents(c, snow)
    <2>1. PushLabel(c) \in Labels
      BY DEF Labels, PushLabel
    <2>2. DOMAIN found \subseteq Keys /\ \A k \in DOMAIN found : found[k] \in Version
      BY FetchType
    <2>3. events' = ApplyCalendarSync(events, CalName[c], PushLabel(c), found, snow)
      BY <1>7 DEF ResyncCalendar
    <2> HIDE DEF found
    <2>4. events' \in Rows /\ AllKeepNotify(events, events')
      BY <1>0, <2>1, <2>2, <2>3, ApplyType
    <2> QED BY <1>7, <2>4 DEF ResyncCalendar, serverVars, Rows, Row
  <1>8. CASE ResyncFails
    BY <1>8, <1>same DEF ResyncFails, serverVars, storeVars
  <1>9. CASE ResyncFinish
    <2>1. events' \in Rows /\ AllKeepNotify(events, events')
      BY <1>0, <1>9, ReconcileType DEF ResyncFinish
    <2> QED BY <1>9, <2>1 DEF ResyncFinish, serverVars, Rows, Row
  <1> QED
    BY <1>1, <1>2, <1>3, <1>4, <1>5, <1>6, <1>7, <1>8, <1>9
    DEF SyncStep, SyncSucceeds, SyncFails

\* The types after a tick step.  SessionInv says that the rows a tick commits
\* still exist.
LEMMA TickStepType ==
    ASSUME TickTypeOK, SessionInv, TickStep
    PROVE  TickTypeOK'
  <1> USE DEF TickTypeOK, StoreTypeOK
  <1> USE StoreAssumption, NotifierAssumption, RecomputeAssumption, NoRowAssumption
  <1>0. \A k \in Keys : loaded[k] # NoRow => loaded[k] \in Event /\ sess[k] \in Event
    OBVIOUS
  <1>1. CASE TickStart
    BY <1>1 DEF TickStart, storeVars, historyVars
  <1>2. CASE LocationFails
    BY <1>2 DEF LocationFails, storeVars, historyVars
  <1>3. CASE LocationFetched
    <2> DEFINE rows == [k \in Keys |-> IF HasStatus(k, {"ACTIVE"}) THEN events[k] ELSE NoRow]
    <2>1. rows \in [Keys -> Event \cup {NoRow}]
      OBVIOUS
    <2>2. loaded' = rows /\ sess' = rows /\ todo' = {k \in Keys : rows[k] # NoRow}
      BY <1>3 DEF LocationFetched
    <2>3. cur = None
      BY <1>3 DEF LocationFetched
    <2> HIDE DEF rows
    <2> QED BY <1>3, <2>1, <2>2, <2>3 DEF LocationFetched, storeVars, historyVars
  <1>4. ASSUME NEW k \in Keys, BeginResolved(k)
        PROVE  TickTypeOK'
    BY <1>4 DEF BeginResolved, NextEvent, storeVars, historyVars
  <1>5. ASSUME NEW k \in Keys, BeginCached(k)
        PROVE  TickTypeOK'
    <2>1. sess' \in [Keys -> Event \cup {NoRow}] /\ \A j \in Keys : sess[j] = NoRow <=> sess'[j] = NoRow
      <3>1. sess[k] \in Event
        BY <1>0, <1>5 DEF BeginCached, NextEvent
      <3>2. [sess[k] EXCEPT !.resolved = sess[k].location] \in Event
        BY <3>1 DEF Event
      <3> QED BY <1>5, <3>1, <3>2, NoRowAssumption DEF BeginCached
    <2> QED BY <1>5, <2>1 DEF BeginCached, NextEvent, storeVars, historyVars
  <1>6. ASSUME NEW k \in Keys, BeginUnknown(k)
        PROVE  TickTypeOK'
    BY <1>6 DEF BeginUnknown, NextEvent, storeVars, historyVars
  <1>7. CASE GeocodeFound
    <2>1. cur \in Keys /\ sess[cur] \in Event
      BY <1>0, <1>7 DEF GeocodeFound
    <2>2. [sess[cur] EXCEPT !.resolved = sess[cur].location] \in Event
      BY <2>1 DEF Event
    <2>3. sess[cur].location \in Locations \cup {NoLocation}
      BY <2>1 DEF Event
    <2>4. sess' \in [Keys -> Event \cup {NoRow}] /\ \A j \in Keys : sess[j] = NoRow <=> sess'[j] = NoRow
      BY <1>7, <2>1, <2>2, NoRowAssumption DEF GeocodeFound
    <2> QED BY <1>7, <2>1, <2>3, <2>4 DEF GeocodeFound, CachePut, storeVars, historyVars
  <1>8. CASE GeocodeFails
    BY <1>8 DEF GeocodeFails, storeVars, historyVars
  <1>8a. CASE RouteFails
    BY <1>8a DEF RouteFails, storeVars, historyVars
  <1>9. ASSUME NEW travel \in TravelTimes, RouteDone(travel)
        PROVE  TickTypeOK'
    <2> DEFINE leaveAt  == ComputeLeaveAt(sess[cur].start, travel)
    <2> DEFINE decision == EvaluateNotification(tnow, leaveAt, sess[cur].notify, sess[cur].lastNotified)
    <2>1. cur \in Keys /\ sess[cur] \in Event /\ loaded[cur] # NoRow
      BY <1>0, <1>9 DEF RouteDone
    <2>2. leaveAt \in Int
      <3>1. sess[cur].start \in Int
        BY <2>1 DEF Event
      <3>2. travel \in Int /\ PrepBuffer \in Int
        OBVIOUS
      <3> QED BY <3>1, <3>2 DEF ComputeLeaveAt
    <2>3. sess[cur].notify \in NotifyState /\ sess[cur].lastNotified \in MaybeTime
      BY <2>1 DEF Event
    <2>4. decision.state \in NotifyState /\ decision.kind \in Kinds \cup {None}
      <3> HIDE DEF leaveAt
      <3> QED BY <2>2, <2>3, EvaluateType
    <2>5. /\ sess' = [sess EXCEPT ![cur].leaveAt = leaveAt, ![cur].notify = decision.state]
          /\ outgoing' = decision.kind
          /\ tpc' = IF decision.kind = None THEN "next" ELSE "publish"
          /\ attempt' = IF decision.kind = None THEN 0 ELSE 1
          /\ cur' = IF decision.kind = None THEN None ELSE cur
          /\ shots' = IF decision.kind \in OneShot THEN [shots EXCEPT ![cur] = @ + 1] ELSE shots
          /\ UNCHANGED <<tnow, loaded, todo, storeVars, cache, heard, unsent>>
      BY <1>9 DEF RouteDone
    <2> HIDE DEF leaveAt, decision
    <2>6. [sess[cur] EXCEPT !.leaveAt = leaveAt, !.notify = decision.state] \in Event
      BY <2>1, <2>2, <2>4 DEF Event, MaybeTime
    <2>7. sess' \in [Keys -> Event \cup {NoRow}] /\ \A j \in Keys : sess[j] = NoRow <=> sess'[j] = NoRow
      BY <2>1, <2>5, <2>6, NoRowAssumption
    <2>8. shots' \in [Keys -> Nat]
      BY <2>1, <2>5
    <2> QED BY <2>1, <2>4, <2>5, <2>7, <2>8 DEF storeVars
  <1>10. Reached => heard' \in [Keys -> 0..2]
    BY DEF Reached
  <1>11. CASE PublishAcked
    <2>1. cur \in Keys /\ sess[cur] \in Event
      BY <1>0, <1>11 DEF PublishAcked
    <2>2. [sess[cur] EXCEPT !.lastNotified = sess[cur].leaveAt] \in Event
      BY <2>1 DEF Event
    <2>3. sess' \in [Keys -> Event \cup {NoRow}] /\ \A j \in Keys : sess[j] = NoRow <=> sess'[j] = NoRow
      BY <1>11, <2>1, <2>2, NoRowAssumption DEF PublishAcked
    <2> QED BY <1>10, <1>11, <2>1, <2>3 DEF PublishAcked, Published, storeVars
  <1>12. CASE PublishRetried
    BY <1>10, <1>12 DEF PublishRetried, storeVars
  <1>13. CASE PublishGivesUp
    BY <1>10, <1>13 DEF PublishGivesUp, Published, storeVars
  <1>14. CASE TickCommit
    <2>1. \A k \in Keys : loaded[k] # NoRow => Flush(events[k], loaded[k], sess[k]) \in Event
      BY <1>0, FlushType DEF SessionInv
    <2>2. events' \in [Keys -> Event \cup {NoRow}]
      BY <1>14, <2>1 DEF TickCommit
    <2> QED BY <1>14, <2>2 DEF TickCommit, EndTick, historyVars
  <1> QED
    BY <1>1, <1>2, <1>3, <1>4, <1>5, <1>6, <1>7, <1>8, <1>8a, <1>9, <1>11, <1>12, <1>13, <1>14
    DEF TickStep, TickSucceeds, TickFails

-----------------------------------------------------------------------------
(***************************************************************************)
(* One-shot notifications: OneShotInv is inductive with the types.         *)
(***************************************************************************)

\* A step that leaves alone the rows, what was loaded, the notification states
\* in the session and the history leaves OneShotInv alone.
LEMMA OneShotStill ==
    ASSUME OneShotInv, UNCHANGED <<events, loaded, shots>>,
           \A k \in Keys : loaded[k] # NoRow => sess'[k].notify = sess[k].notify
    PROVE  OneShotInv'
  BY DEF OneShotInv, SessionInv, ShotInv, Recorded, Undecided

\* evaluate_notification never leaves a terminal tier, and what it sends as a
\* one-shot takes a row from a tier that is not terminal to one that is.
LEMMA EvaluateOneShot ==
    ASSUME NEW t \in Int, NEW leaveAt \in Int,
           NEW state \in NotifyState, NEW last \in MaybeTime
    PROVE  LET d == EvaluateNotification(t, leaveAt, state, last)
           IN  /\ state \in TerminalTier => d.state = state /\ d.kind \notin OneShot
               /\ d.kind \in OneShot => d.state \in TerminalTier
  <1>1. CASE state = "NONE"
    BY <1>1, NotifierAssumption
    DEF EvaluateNotification, FirstDecision, Decision, TerminalTier, OneShot
  <1>2. CASE state = "HEADS_UP_SENT"
    <2>1. HeadsUpDecision(t, leaveAt, last) \in
             {Decision("LEAVE_NOW_SENT", "leave_now"),
              Decision("HEADS_UP_SENT", "heads_up"), Decision("HEADS_UP_SENT", None)}
      BY DEF HeadsUpDecision
    <2>2. EvaluateNotification(t, leaveAt, state, last) = HeadsUpDecision(t, leaveAt, last)
      BY <1>2 DEF EvaluateNotification
    <2> QED BY <1>2, <2>1, <2>2, NotifierAssumption DEF Decision, TerminalTier, OneShot
  <1>3. CASE state \in TerminalTier
    BY <1>3, NotifierAssumption DEF EvaluateNotification, Decision, TerminalTier, OneShot
  <1> QED BY <1>1, <1>2, <1>3 DEF NotifyState, TerminalTier

\* A sync step with its effect on the history.
LEMMA SyncStepOneShot ==
    ASSUME TypeOK, OneShotInv, SyncStep, HistoryOfSync, UNCHANGED tickVars
    PROVE  OneShotInv'
  <1>1. AllKeepNotify(events, events')
    BY SyncStepType DEF TypeOK
  <1>2. UNCHANGED <<loaded, sess>>
    BY DEF tickVars
  <1>3. \A k \in Keys : events[k] # NoRow =>
           /\ events'[k] # NoRow
           /\ \/ events'[k].notify = events[k].notify
              \/ events'[k].notify = "NONE" /\ NewCycle(k)
    BY <1>1 DEF AllKeepNotify, KeepsNotify, NewCycle, HasStatus
  <1>4. SessionInv'
    BY <1>2, <1>3 DEF OneShotInv, SessionInv
  <1>5. ShotInv'
    <2> SUFFICES ASSUME NEW k \in Keys
                 PROVE  shots'[k] <= 1 /\ (shots'[k] > 0 => Recorded(k)')
      BY DEF ShotInv
    <2>1. CASE NewCycle(k)
      <3>1. shots'[k] = 0
        BY <2>1 DEF HistoryOfSync
      <3> QED BY <3>1
    <2>2. CASE ~NewCycle(k)
      <3>1. shots'[k] = shots[k]
        BY <2>2 DEF HistoryOfSync
      <3>2. Recorded(k) => events[k] # NoRow
        BY DEF Recorded, Undecided, OneShotInv, SessionInv
      <3>3. Recorded(k) => Recorded(k)'
        BY <1>2, <1>3, <2>2, <3>2 DEF Recorded, Undecided
      <3> QED BY <3>1, <3>3 DEF OneShotInv, ShotInv
    <2> QED BY <2>1, <2>2
  <1> QED BY <1>4, <1>5 DEF OneShotInv

\* A tick step: only RouteDone decides, only TickCommit writes.
LEMMA TickStepOneShot ==
    ASSUME TypeOK, OneShotInv, TickStep
    PROVE  OneShotInv'
  <1> USE DEF TypeOK, TickTypeOK, StoreTypeOK
  <1>0. \A k \in Keys : loaded[k] # NoRow => loaded[k] \in Event /\ sess[k] \in Event
    BY NoRowAssumption
  <1>1. CASE TickStart
    BY <1>1, OneShotStill DEF TickStart, storeVars, historyVars
  <1>2. CASE LocationFails
    BY <1>2, OneShotStill DEF LocationFails, storeVars, historyVars
  <1>3. CASE LocationFetched
    <2>1. /\ UNCHANGED <<events, shots>>
          /\ \A k \in Keys : loaded'[k] \in {events[k], NoRow} /\ sess'[k] = loaded'[k]
      BY <1>3 DEF LocationFetched, storeVars, historyVars
    <2>2. SessionInv'
      BY <2>1 DEF SessionInv
    <2>3. \A k \in Keys : loaded[k] = NoRow
      BY <1>3 DEF LocationFetched
    <2>4. ShotInv'
      BY <2>1, <2>3 DEF OneShotInv, ShotInv, Recorded, Undecided
    <2> QED BY <2>2, <2>4 DEF OneShotInv
  <1>4. ASSUME NEW k \in Keys, BeginResolved(k)
        PROVE  OneShotInv'
    BY <1>4, OneShotStill DEF BeginResolved, NextEvent, storeVars, historyVars
  <1>5. ASSUME NEW k \in Keys, BeginCached(k)
        PROVE  OneShotInv'
    <2>1. \A j \in Keys : loaded[j] # NoRow => sess'[j].notify = sess[j].notify
      BY <1>0, <1>5 DEF BeginCached, Event
    <2> QED BY <1>5, <2>1, OneShotStill DEF BeginCached, NextEvent, storeVars, historyVars
  <1>6. ASSUME NEW k \in Keys, BeginUnknown(k)
        PROVE  OneShotInv'
    BY <1>6, OneShotStill DEF BeginUnknown, NextEvent, storeVars, historyVars
  <1>7. CASE GeocodeFound
    <2>1. \A j \in Keys : loaded[j] # NoRow => sess'[j].notify = sess[j].notify
      BY <1>0, <1>7 DEF GeocodeFound, Event
    <2> QED BY <1>7, <2>1, OneShotStill DEF GeocodeFound, storeVars, historyVars
  <1>8. CASE GeocodeFails
    BY <1>8, OneShotStill DEF GeocodeFails, storeVars, historyVars
  <1>8a. CASE RouteFails
    BY <1>8a, OneShotStill DEF RouteFails, storeVars, historyVars
  <1>9. ASSUME NEW travel \in TravelTimes, RouteDone(travel)
        PROVE  OneShotInv'
    <2> DEFINE leaveAt  == ComputeLeaveAt(sess[cur].start, travel)
    <2> DEFINE decision == EvaluateNotification(tnow, leaveAt, sess[cur].notify, sess[cur].lastNotified)
    <2>1. cur \in Keys /\ sess[cur] \in Event /\ loaded[cur] # NoRow
      BY <1>0, <1>9 DEF RouteDone
    <2>2. leaveAt \in Int
      <3>1. sess[cur].start \in Int
        BY <2>1 DEF Event
      <3>2. travel \in Int /\ PrepBuffer \in Int
        BY RecomputeAssumption, NotifierAssumption
      <3> QED BY <3>1, <3>2 DEF ComputeLeaveAt
    <2>3. sess[cur].notify \in NotifyState /\ sess[cur].lastNotified \in MaybeTime
      BY <2>1 DEF Event
    <2>4. /\ sess[cur].notify \in TerminalTier =>
                 decision.state = sess[cur].notify /\ decision.kind \notin OneShot
          /\ decision.kind \in OneShot => decision.state \in TerminalTier
      <3> HIDE DEF leaveAt
      <3> QED BY <2>2, <2>3, EvaluateOneShot
    <2>5. /\ sess' = [sess EXCEPT ![cur].leaveAt = leaveAt, ![cur].notify = decision.state]
          /\ shots' = IF decision.kind \in OneShot THEN [shots EXCEPT ![cur] = @ + 1] ELSE shots
          /\ UNCHANGED <<loaded, events>>
      BY <1>9 DEF RouteDone, storeVars
    <2> HIDE DEF leaveAt, decision
    <2>6. /\ sess'[cur].notify = decision.state
          /\ \A j \in Keys \ {cur} : sess'[j] = sess[j] /\ shots'[j] = shots[j]
          /\ shots'[cur] = IF decision.kind \in OneShot THEN shots[cur] + 1 ELSE shots[cur]
      BY <2>1, <2>5 DEF Event
    <2>7. SessionInv'
      BY <2>1, <2>4, <2>5, <2>6 DEF OneShotInv, SessionInv
    <2>8. \A j \in Keys \ {cur} : shots'[j] <= 1 /\ (shots'[j] > 0 => Recorded(j)')
      BY <2>5, <2>6 DEF OneShotInv, ShotInv, Recorded, Undecided
    <2>9. ASSUME NEW k \in Keys, k = cur
          PROVE  shots'[k] <= 1 /\ (shots'[k] > 0 => Recorded(k)')
      <3>0. loaded'[k] = loaded[k] /\ events'[k] = events[k] /\ sess'[k].notify = decision.state
        BY <2>5, <2>6, <2>9
      <3>1. CASE decision.kind \in OneShot
        <4>1. sess[k].notify \notin TerminalTier /\ decision.state \in TerminalTier
          BY <2>4, <2>9, <3>1
        <4>2. loaded[k].notify \notin TerminalTier
          BY <2>1, <2>9, <4>1 DEF OneShotInv, SessionInv
        <4>3. events[k].notify \notin TerminalTier
          BY <2>1, <2>9, <4>2 DEF OneShotInv, SessionInv, TerminalTier
        <4>4. shots[k] = 0
          BY <2>1, <4>1, <4>3 DEF OneShotInv, ShotInv, Recorded
        <4>5. Recorded(k)'
          BY <2>1, <2>9, <3>0, <4>1, <4>2 DEF Recorded, Undecided
        <4> QED BY <2>6, <2>9, <3>1, <4>4, <4>5
      <3>2. CASE decision.kind \notin OneShot
        <4>1. shots'[k] = shots[k] /\ shots[k] <= 1
          BY <2>1, <2>6, <2>9, <3>2 DEF OneShotInv, ShotInv
        <4>2. shots[k] > 0 => Recorded(k)
          BY <2>1 DEF OneShotInv, ShotInv
        <4>3. Recorded(k) => Recorded(k)'
          BY <2>4, <2>9, <3>0 DEF Recorded, Undecided
        <4> QED BY <4>1, <4>2, <4>3
      <3> QED BY <3>1, <3>2
    <2> QED BY <2>7, <2>8, <2>9 DEF OneShotInv, ShotInv
  <1>10. CASE PublishAcked
    <2>1. \A j \in Keys : loaded[j] # NoRow => sess'[j].notify = sess[j].notify
      BY <1>0, <1>10 DEF PublishAcked, Event
    <2> QED BY <1>10, <2>1, OneShotStill DEF PublishAcked, storeVars
  <1>11. CASE PublishRetried
    BY <1>11, OneShotStill DEF PublishRetried, storeVars
  <1>12. CASE PublishGivesUp
    BY <1>12, OneShotStill DEF PublishGivesUp, storeVars
  <1>13. CASE TickCommit
    <2>1. /\ \A k \in Keys : loaded'[k] = NoRow
          /\ shots' = shots
          /\ \A k \in Keys : events'[k] = IF loaded[k] = NoRow THEN events[k]
                                           ELSE Flush(events[k], loaded[k], sess[k])
      BY <1>13 DEF TickCommit, EndTick, historyVars
    <2>2. SessionInv'
      BY <2>1 DEF SessionInv
    <2>3. ASSUME NEW k \in Keys, shots[k] > 0
          PROVE  Recorded(k)'
      <3>1. Recorded(k)
        BY <2>3 DEF OneShotInv, ShotInv
      <3>2. CASE loaded[k] = NoRow
        BY <2>1, <3>1, <3>2 DEF Recorded, Undecided
      <3>3. CASE loaded[k] # NoRow
        <4>1. events[k] \in Event /\ loaded[k] \in Event /\ sess[k] \in Event
          BY <1>0, <3>3 DEF OneShotInv, SessionInv
        <4>2. /\ events'[k] \in Event
              /\ events'[k].notify = Changed(loaded[k].notify, sess[k].notify, events[k].notify)
          BY <2>1, <3>3, <4>1, FlushType
        <4>3. events'[k].notify \in TerminalTier
          <5>1. /\ events[k].notify \in {loaded[k].notify, "NONE"}
                /\ loaded[k].notify \in TerminalTier => sess[k].notify = loaded[k].notify
            BY <3>3 DEF OneShotInv, SessionInv
          <5>2. \/ events[k].notify \in TerminalTier
                \/ loaded[k].notify # sess[k].notify /\ sess[k].notify \in TerminalTier
            BY <3>1 DEF Recorded, Undecided
          <5> QED BY <4>2, <5>1, <5>2 DEF Changed, TerminalTier
        <4> QED BY <4>2, <4>3, NoRowAssumption DEF Recorded
      <3> QED BY <3>2, <3>3
    <2> QED BY <2>1, <2>2, <2>3 DEF OneShotInv, ShotInv
  <1> QED
    BY <1>1, <1>2, <1>3, <1>4, <1>5, <1>6, <1>7, <1>8, <1>8a, <1>9, <1>10, <1>11, <1>12, <1>13
    DEF TickStep, TickSucceeds, TickFails

-----------------------------------------------------------------------------
(***************************************************************************)
(* The theorems.                                                           *)
(***************************************************************************)

LEMMA InitInv == Init => TypeOK /\ OneShotInv
  <1> SUFFICES ASSUME Init
               PROVE  TypeOK /\ OneShotInv
    OBVIOUS
  <1> USE SyncAssumption, RecomputeAssumption, TrackerAssumption, StoreAssumption, NotifierAssumption
  <1> USE DEF Init, SyncInit, StoreInit, ServerInit, NoSyncYet, TickInit, NoTick
  <1>1. SyncTypeOK
    <2>1. StoreTypeOK
      BY DEF StoreTypeOK
    <2>2. server \in [Calendars -> [Keys -> Versions \cup {Absent}]]
      OBVIOUS
    <2>3. listed \subseteq Calendars /\ edits \in 0..MaxEdits
      OBVIOUS
    <2>4. snow \in Nat /\ snow <= now
      OBVIOUS
    <2>5. lastSyncError \in BOOLEAN
      OBVIOUS
    <2>6. spc \in {"idle", "full", "push"} /\ lastSyncAt \in Nat \cup {None}
      OBVIOUS
    <2>7. toFetch \subseteq Calendars /\ seen \subseteq Keys
      OBVIOUS
    <2> QED BY <2>1, <2>2, <2>3, <2>4, <2>5, <2>6, <2>7 DEF SyncTypeOK
  <1>2. TickTypeOK
    BY <1>1 DEF SyncTypeOK, TickTypeOK, Kinds
  <1>3. OneShotInv
    BY DEF OneShotInv, SessionInv, ShotInv
  <1> QED BY <1>1, <1>2, <1>3 DEF TypeOK

LEMMA NextInv == TypeOK /\ OneShotInv /\ [Next]_vars => (TypeOK /\ OneShotInv)'
  <1> SUFFICES ASSUME TypeOK, OneShotInv, [Next]_vars
               PROVE  (TypeOK /\ OneShotInv)'
    OBVIOUS
  <1>0. SyncTypeOK /\ TickTypeOK /\ StoreTypeOK
    BY DEF TypeOK, SyncTypeOK
  <1>1. CASE UNCHANGED vars
    <2>1. UNCHANGED <<storeVars, serverVars, syncVars, tickVars, cache, historyVars, stage, crashes>>
      BY <1>1 DEF vars
    <2>2. TypeOK'
      BY <2>1 DEF TypeOK, SyncTypeOK, TickTypeOK, StoreTypeOK,
                  storeVars, serverVars, syncVars, tickVars, historyVars
    <2>3. OneShotInv'
      BY <2>1, OneShotStill DEF storeVars, tickVars, historyVars
    <2> QED BY <2>2, <2>3
  <1>2. CASE Outside
    <2>1. UNCHANGED <<tickVars, cache, historyVars, stage, crashes, events, syncVars>>
      BY <1>2 DEF Outside, Environment, Advance, RemoveCalendar, Edit, storeVars
    <2>2. OneShotInv'
      BY <2>1, OneShotStill DEF tickVars, historyVars
    <2>3. now' \in Nat /\ now <= now'
      BY <1>0, <1>2 DEF Outside, Environment, Advance, RemoveCalendar, Edit, storeVars, StoreTypeOK
    <2>4. /\ server' \in [Calendars -> [Keys -> Versions \cup {Absent}]]
          /\ listed' \subseteq Calendars
          /\ edits' \in 0..MaxEdits
      BY <1>0, <1>2, SyncAssumption
      DEF Outside, Environment, Advance, RemoveCalendar, Edit, serverVars, SyncTypeOK
    <2>5. SyncTypeOK'
      BY <1>0, <2>1, <2>3, <2>4 DEF SyncTypeOK, StoreTypeOK, syncVars
    <2>6. TickTypeOK'
      BY <1>0, <2>1, <2>3 DEF TickTypeOK, StoreTypeOK, tickVars, historyVars
    <2> QED BY <2>1, <2>2, <2>5, <2>6 DEF TypeOK
  <1>3. CASE SyncInLoop
    <2>1. SyncStep /\ HistoryOfSync /\ UNCHANGED <<tickVars, cache, crashes>>
      BY <1>3 DEF SyncInLoop, SyncStep
    <2>2. SyncTypeOK'
      BY <1>0, <2>1, SyncStepType
    <2>3. OneShotInv'
      BY <2>1, SyncStepOneShot
    <2>4. shots' \in [Keys -> Nat] /\ heard' \in [Keys -> 0..2] /\ unsent' \subseteq Keys
      BY <1>0, <2>1 DEF HistoryOfSync, TickTypeOK
    <2>5. now' = now
      BY <2>1 DEF SyncStep, SyncSucceeds, SyncFails, FullSyncStart, DiscoveryFails, SyncCalendar,
                  FetchFails, FullSyncFinish, PushStart, ResyncCalendar, ResyncFails,
                  ResyncFinish, storeVars
    <2>6. TickTypeOK'
      BY <1>0, <2>1, <2>2, <2>4, <2>5 DEF SyncTypeOK, TickTypeOK, tickVars
    <2>7. stage' \in {"sync", "tick", "running"} /\ crashes' \in 0..MaxCrashes
      BY <1>3 DEF SyncInLoop, TypeOK
    <2> QED BY <2>2, <2>3, <2>6, <2>7 DEF TypeOK
  <1>4. CASE TickInLoop
    <2>1. TickStep /\ UNCHANGED <<serverVars, syncVars, crashes>>
      BY <1>4 DEF TickInLoop
    <2>2. OneShotInv'
      BY <2>1, TickStepOneShot
    <2>3. TickTypeOK'
      BY <1>0, <2>1, TickStepType DEF OneShotInv
    <2>4. now' = now
      BY <2>1 DEF TickStep, TickSucceeds, TickFails, TickStart, LocationFails, LocationFetched,
                  BeginResolved, BeginCached, BeginUnknown, NextEvent, GeocodeFound,
                  GeocodeFails, RouteFails, RouteDone, PublishAcked, PublishRetried, PublishGivesUp,
                  TickCommit, storeVars
    <2>5. SyncTypeOK'
      BY <1>0, <2>1, <2>3, <2>4 DEF SyncTypeOK, TickTypeOK, serverVars, syncVars
    <2>6. stage' \in {"sync", "tick", "running"} /\ crashes' \in 0..MaxCrashes
      BY <1>4 DEF TickInLoop, TypeOK
    <2> QED BY <2>2, <2>3, <2>5, <2>6 DEF TypeOK
  <1>5. CASE Crash
    <2>1. /\ UNCHANGED <<events, now, serverVars, cache, heard>>
          /\ \A k \in Keys : loaded'[k] = NoRow /\ sess'[k] = NoRow
          /\ shots' = [k \in Keys |-> IF Undecided(k) THEN 0 ELSE shots[k]]
          /\ unsent' \subseteq unsent
      BY <1>5 DEF Crash, EndTick, storeVars
    <2>2. SyncTypeOK'
      <3>1. /\ spc' = "idle" /\ snow' = 0 /\ toFetch' = {} /\ seen' = {}
            /\ lastSyncAt' = None
        BY <1>5 DEF Crash, ForgetSync
      <3>2. lastSyncError' \in BOOLEAN
        <4>1. lastSyncError' = FALSE
          BY <1>5 DEF Crash, ForgetSync
        <4> QED BY <4>1
      <3>3. StoreTypeOK'
        BY <1>0, <2>1 DEF StoreTypeOK
      <3>4. 0 \in Nat /\ 0 <= now
        BY <1>0 DEF StoreTypeOK
      <3> QED BY <1>0, <2>1, <3>1, <3>2, <3>3, <3>4 DEF SyncTypeOK, serverVars
    <2>3. shots' \in [Keys -> Nat] /\ unsent' \subseteq Keys
      BY <1>0, <2>1 DEF TickTypeOK
    <2>4. TickTypeOK'
      <3>1. /\ tpc' = "idle" /\ tnow' = 0 /\ todo' = {} /\ cur' = None
            /\ outgoing' = None /\ attempt' = 0
            /\ loaded' = [k \in Keys |-> NoRow] /\ sess' = [k \in Keys |-> NoRow]
        BY <1>5 DEF Crash, EndTick
      <3>2. StoreTypeOK' /\ 0 \in Nat /\ 0 <= now'
        BY <1>0, <2>1 DEF StoreTypeOK
      <3>3. 0 \in 0..MaxAttempts
        BY RecomputeAssumption
      <3>4. /\ loaded' \in [Keys -> Event \cup {NoRow}]
            /\ sess' \in [Keys -> Event \cup {NoRow}]
        BY <3>1
      <3>5. cache' \subseteq Locations \cup {NoLocation} /\ heard' \in [Keys -> 0..2]
        BY <1>0, <2>1 DEF TickTypeOK
      <3> QED BY <2>1, <2>3, <3>1, <3>2, <3>3, <3>4, <3>5 DEF TickTypeOK
    <2>5. SessionInv'
      BY <2>1 DEF SessionInv
    <2>6. ShotInv'
      BY <2>1 DEF OneShotInv, ShotInv, Recorded, Undecided
    <2>7. stage' \in {"sync", "tick", "running"} /\ crashes' \in 0..MaxCrashes
      BY <1>5, TrackerAssumption DEF Crash, TypeOK
    <2> QED BY <2>2, <2>4, <2>5, <2>6, <2>7 DEF TypeOK, OneShotInv
  <1> QED BY <1>1, <1>2, <1>3, <1>4, <1>5 DEF Next

\* Every variable keeps its type, however syncs, ticks and crashes interleave.
THEOREM TypeCorrect == Spec => []TypeOK
  BY InitInv, NextInv, PTL DEF Spec

\* The rows of a running tick exist, and a one-shot decision is recorded or about
\* to be: what makes one-shot messages one-shot, and commits of rows rows.
THEOREM OneShotInvHolds == Spec => []OneShotInv
  BY InitInv, NextInv, PTL DEF Spec

\* Between two queueings of a row at most one one-shot notification is decided.
THEOREM OneShotHolds == Spec => []OneShotPerCycle
  <1>1. OneShotInv => OneShotPerCycle
    BY DEF OneShotInv, ShotInv, OneShotPerCycle
  <1> QED BY <1>1, InitInv, NextInv, PTL DEF Spec
=============================================================================
