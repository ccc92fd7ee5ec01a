--------------------------- MODULE TrackerSafety ----------------------------
(***************************************************************************)
(* Further theorems about Tracker, on top of the types proved in           *)
(* TrackerProofs: what syncs promise of the rows they leave tracked, and   *)
(* that a tick does not undo what syncs have written.                      *)
(***************************************************************************)
EXTENDS TrackerProofs

IsTracked(row) == row # NoRow /\ row.status \in {"QUEUED", "ACTIVE"}

\* The latest sync is over, or the running one began after it; and what it has
\* left tracked starts after it.
LastSyncInv ==
    /\ StartsAfterLastSync
    /\ lastSyncAt # None => /\ lastSyncAt <= now
                            /\ spc # "idle" => lastSyncAt <= snow

-----------------------------------------------------------------------------
(***************************************************************************)
(* Lemmas about the operators.                                             *)
(***************************************************************************)

\* Whatever _upsert_event leaves tracked starts after the sync's `now'.
LEMMA UpsertStart ==
    ASSUME NEW row \in Row, NEW v \in Version, NEW label, NEW t \in Nat,
           IsTracked(UpsertEvent(row, v, label, t))
    PROVE  UpsertEvent(row, v, label, t).start > t
  <1> DEFINE updated == [row EXCEPT !.start = v.start, !.location = v.location]
  <1>1. v.start \in Int /\ (Qualifies(v, t) => v.start > t)
    BY DEF Version, Qualifies
  <1>2. CASE row = NoRow
    BY <1>1, <1>2 DEF UpsertEvent, NewRow, IsTracked
  <1>3. CASE row # NoRow /\ ~Qualifies(v, t)
    <2>1. row \in Event
      BY <1>3 DEF Row
    <2>2. updated.status = row.status
      BY <2>1 DEF Event
    <2>3. \A st : [updated EXCEPT !.status = st].status = st
      BY <2>1 DEF Event
    <2> HIDE DEF updated
    <2>4. \/ UpsertEvent(row, v, label, t) = updated /\ row.status = "DONE"
          \/ UpsertEvent(row, v, label, t) = [updated EXCEPT !.status = "CANCELLED"]
          \/ UpsertEvent(row, v, label, t) = [updated EXCEPT !.status = "DROPPED"]
      BY <1>3 DEF UpsertEvent, updated
    <2> QED BY <2>2, <2>3, <2>4 DEF IsTracked
  <1>4. CASE row # NoRow /\ Qualifies(v, t)
    <2>1. row \in Event
      BY <1>4 DEF Row
    <2>2. updated.start = v.start /\ Requeued(updated).start = v.start
      BY <2>1 DEF Event, Requeued
    <2> HIDE DEF updated
    <2>3. UpsertEvent(row, v, label, t) \in {updated, Requeued(updated)}
      BY <1>4 DEF UpsertEvent, updated
    <2> QED BY <1>1, <1>4, <2>2, <2>3
  <1> QED BY <1>2, <1>3, <1>4

\* One calendar's transaction: a row it leaves tracked was tracked before and
\* is as it was, or starts after the sync's `now'.
LEMMA ApplyStart ==
    ASSUME NEW rows \in Rows, NEW name, NEW label, NEW t \in Nat, NEW found,
           \A k \in DOMAIN found : found[k] \in Version,
           NEW k \in Keys, IsTracked(ApplyCalendarSync(rows, name, label, found, t)[k])
    PROVE  \/ ApplyCalendarSync(rows, name, label, found, t)[k] = rows[k]
           \/ ApplyCalendarSync(rows, name, label, found, t)[k].start > t
  <1> DEFINE row == ApplyCalendarSync(rows, name, label, found, t)[k]
  <1>1. rows[k] \in Row
    BY DEF Rows
  <1>2. rows[k] # NoRow => [rows[k] EXCEPT !.status = "DROPPED"].status = "DROPPED"
    BY <1>1 DEF Row, Event
  <1>3. \/ row = rows[k]
        \/ k \in DOMAIN found /\ row = UpsertEvent(rows[k], found[k], label, t)
        \/ rows[k] # NoRow /\ row = [rows[k] EXCEPT !.status = "DROPPED"]
    BY DEF ApplyCalendarSync
  <1> HIDE DEF row
  <1>4. IsTracked(row)
    BY DEF row
  <1>5. row = rows[k] \/ row.start > t
    BY <1>1, <1>2, <1>3, <1>4, UpsertStart DEF IsTracked
  <1> QED BY <1>5 DEF row

\* What the reconciliation leaves tracked starts after the sync's `now'.
LEMMA ReconcileStart ==
    ASSUME NEW rows \in Rows, NEW t \in Nat, NEW k \in Keys,
           IsTracked(ReconcileStates(rows, t)[k])
    PROVE  ReconcileStates(rows, t)[k].start > t
  <1> DEFINE row == ReconcileStates(rows, t)[k]
  <1>1. rows[k] \in Row
    BY DEF Rows
  <1>2. CASE rows[k] = NoRow
    BY <1>2 DEF ReconcileStates, Reconcile, IsTracked
  <1>3. CASE rows[k] # NoRow
    <2>1. rows[k] \in Event /\ rows[k].start \in Int
      BY <1>1, <1>3 DEF Row, Event
    <2>2. \A st : /\ [rows[k] EXCEPT !.status = st].status = st
                  /\ [rows[k] EXCEPT !.status = st].start = rows[k].start
      BY <2>1 DEF Event
    <2> DEFINE over == rows[k].status \in {"QUEUED", "ACTIVE"} /\ rows[k].start <= t
    <2> DEFINE near == /\ rows[k].status = "QUEUED" /\ rows[k].start > t
                       /\ rows[k].start - t <= GeocodeWindow
    <2>3. row = Reconcile(rows[k], t)
      BY DEF ReconcileStates
    <2>over. over => row = [rows[k] EXCEPT !.status = "DONE"]
      BY <1>3, <2>1, <2>3 DEF Reconcile
    <2>near. near => row = [rows[k] EXCEPT !.status = "ACTIVE"]
      BY <1>3, <2>1, <2>3 DEF Reconcile
    <2>rest. ~over /\ ~near => row = rows[k]
      BY <1>3, <2>3 DEF Reconcile
    <2>4. ~over /\ IsTracked(rows[k]) => rows[k].start > t
      BY <2>1 DEF IsTracked
    <2>5. near => rows[k].start > t
      OBVIOUS
    <2> HIDE DEF row, over, near
    <2>6. IsTracked(row)
      BY DEF row
    <2>7. row.start > t
      BY <2>2, <2>over, <2>near, <2>rest, <2>4, <2>5, <2>6 DEF IsTracked
    <2> QED BY <2>7 DEF row
  <1> QED BY <1>2, <1>3

\* The UPDATE of a tick leaves the columns that come from the calendar alone.
LEMMA FlushCalendar ==
    ASSUME NEW row \in Event, NEW before, NEW after
    PROVE  /\ Flush(row, before, after).calendar = row.calendar
           /\ Flush(row, before, after).start = row.start
           /\ Flush(row, before, after).location = row.location
           /\ Flush(row, before, after).status = row.status
  BY DEF Flush, Event

-----------------------------------------------------------------------------
(***************************************************************************)
(* The steps.                                                              *)
(***************************************************************************)

\* A step that leaves the rows and the last sync alone keeps LastSyncInv, when
\* a sync that begins in it begins now.
LEMMA LastSyncStill ==
    ASSUME SyncTypeOK, LastSyncInv, UNCHANGED events,
           lastSyncAt' \in {lastSyncAt, None},
           now' \in Nat, now <= now',
           spc' # "idle" => \/ spc' = spc /\ snow' = snow
                            \/ snow' = now
    PROVE  LastSyncInv'
  <1>1. lastSyncAt # None => lastSyncAt \in Nat
    BY DEF SyncTypeOK
  <1>2. now \in Nat /\ snow \in Nat
    BY DEF SyncTypeOK, StoreTypeOK
  <1>3. StartsAfterLastSync'
    BY DEF LastSyncInv, StartsAfterLastSync, Tracked, HasStatus
  <1>4. lastSyncAt' # None => lastSyncAt' <= now'
    BY <1>1, <1>2 DEF LastSyncInv
  <1>5. lastSyncAt' # None /\ spc' # "idle" => lastSyncAt' <= snow'
    BY <1>1, <1>2 DEF LastSyncInv
  <1> QED BY <1>3, <1>4, <1>5 DEF LastSyncInv

\* One calendar's transaction, in a poll or a push.
LEMMA LastSyncApply ==
    ASSUME SyncTypeOK, LastSyncInv, spc # "idle",
           NEW c \in Calendars, NEW label \in Labels,
           events' = ApplyCalendarSync(events, CalName[c], label,
                                       FetchCalendarEvents(c, snow), snow),
           UNCHANGED <<now, spc, snow, lastSyncAt>>
    PROVE  LastSyncInv'
  <1> DEFINE found == FetchCalendarEvents(c, snow)
  <1>1. snow \in Nat /\ events \in Rows
    BY DEF SyncTypeOK, StoreTypeOK, Rows, Row
  <1>2. DOMAIN found \subseteq Keys /\ \A k \in DOMAIN found : found[k] \in Version
    BY <1>1, FetchType
  <1>3. events' = ApplyCalendarSync(events, CalName[c], label, found, snow)
    OBVIOUS
  <1> HIDE DEF found
  <1>4. events' \in Rows
    BY <1>1, <1>2, <1>3, ApplyType
  <1>5. ASSUME NEW k \in Keys, IsTracked(events'[k]), lastSyncAt # None
        PROVE  events'[k].start > lastSyncAt
    <2>1. events'[k] = events[k] \/ events'[k].start > snow
      BY <1>1, <1>2, <1>3, <1>5, ApplyStart
    <2>2. events'[k] = events[k] => events'[k].start > lastSyncAt
      BY <1>5 DEF LastSyncInv, StartsAfterLastSync, Tracked, HasStatus, IsTracked
    <2>3. lastSyncAt <= snow /\ lastSyncAt \in Nat
      BY <1>5 DEF LastSyncInv, SyncTypeOK
    <2>4. events'[k].start \in Int
      BY <1>4, <1>5 DEF Rows, Row, Event, IsTracked
    <2> QED BY <1>1, <2>1, <2>2, <2>3, <2>4
  <1>6. StartsAfterLastSync'
    BY <1>5 DEF StartsAfterLastSync, Tracked, HasStatus, IsTracked
  <1> QED BY <1>6 DEF LastSyncInv

\* The end of a sync.
LEMMA LastSyncFinish ==
    ASSUME SyncTypeOK, events' = ReconcileStates(events, snow),
           spc' = "idle", lastSyncAt' = snow, UNCHANGED now
    PROVE  LastSyncInv'
  <1>1. snow \in Nat /\ now \in Nat /\ snow <= now /\ events \in Rows
    BY DEF SyncTypeOK, StoreTypeOK, Rows, Row
  <1>2. \A k \in Keys : IsTracked(events'[k]) => events'[k].start > snow
    BY <1>1, ReconcileStart
  <1>3. StartsAfterLastSync'
    BY <1>2 DEF StartsAfterLastSync, Tracked, HasStatus, IsTracked
  <1> QED BY <1>1, <1>3 DEF LastSyncInv

LEMMA LastSyncOfSync ==
    ASSUME SyncTypeOK, LastSyncInv, SyncStep
    PROVE  LastSyncInv'
  <1>0. now \in Nat /\ now <= now
    BY DEF SyncTypeOK, StoreTypeOK
  <1>1. CASE FullSyncStart
    BY <1>0, <1>1, LastSyncStill DEF FullSyncStart, storeVars
  <1>2. CASE DiscoveryFails
    BY <1>0, <1>2, LastSyncStill DEF DiscoveryFails, storeVars
  <1>3. ASSUME NEW c \in Calendars, SyncCalendar(c)
        PROVE  LastSyncInv'
    <2>1. CalName[c] \in Labels
      BY DEF Labels
    <2> QED BY <1>3, <2>1, LastSyncApply DEF SyncCalendar
  <1>4. CASE FetchFails
    BY <1>0, <1>4, LastSyncStill DEF FetchFails, storeVars
  <1>5. CASE FullSyncFinish
    BY <1>5, LastSyncFinish DEF FullSyncFinish
  <1>6. ASSUME NEW c \in PushCalendars, PushStart(c)
        PROVE  LastSyncInv'
    BY <1>0, <1>6, LastSyncStill DEF PushStart, storeVars
  <1>7. ASSUME NEW c \in Calendars, ResyncCalendar(c)
        PROVE  LastSyncInv'
    <2>1. PushLabel(c) \in Labels
      BY DEF Labels, PushLabel
    <2> QED BY <1>7, <2>1, LastSyncApply DEF ResyncCalendar
  <1>8. CASE ResyncFails
    BY <1>0, <1>8, LastSyncStill DEF ResyncFails, storeVars
  <1>9. CASE ResyncFinish
    BY <1>9, LastSyncFinish DEF ResyncFinish
  <1> QED
    BY <1>1, <1>2, <1>3, <1>4, <1>5, <1>6, <1>7, <1>8, <1>9
    DEF SyncStep, SyncSucceeds, SyncFails

\* A tick step leaves the calendar's columns of every row alone: only its commit
\* writes rows.
LEMMA TickCalendar ==
    ASSUME TypeOK, SessionInv, TickStep
    PROVE  /\ UNCHANGED now
           /\ \A k \in Keys : \/ UNCHANGED events[k]
                              \/ /\ events[k] \in Event
                                 /\ events'[k] \in Event
                                 /\ events'[k].calendar = events[k].calendar
                                 /\ events'[k].start = events[k].start
                                 /\ events'[k].location = events[k].location
                                 /\ events'[k].status = events[k].status
  <1>1. CASE TickCommit
    <2>1. UNCHANGED now
      BY <1>1 DEF TickCommit
    <2>2. ASSUME NEW k \in Keys, loaded[k] # NoRow
          PROVE  /\ events[k] \in Event
                 /\ events'[k] \in Event
                 /\ events'[k].calendar = events[k].calendar
                 /\ events'[k].start = events[k].start
                 /\ events'[k].location = events[k].location
                 /\ events'[k].status = events[k].status
      <3>1. events[k] \in Event /\ loaded[k] \in Event /\ sess[k] \in Event
        BY <2>2 DEF TypeOK, TickTypeOK, StoreTypeOK, SessionInv
      <3>2. events'[k] = Flush(events[k], loaded[k], sess[k])
        BY <1>1, <2>2 DEF TickCommit
      <3> QED BY <3>1, <3>2, FlushType, FlushCalendar
    <2>3. ASSUME NEW k \in Keys, loaded[k] = NoRow
          PROVE  UNCHANGED events[k]
      BY <1>1, <2>3 DEF TickCommit
    <2> QED BY <2>1, <2>2, <2>3
  <1>2. CASE ~TickCommit
    <2>1. UNCHANGED storeVars
      BY <1>2 DEF TickStep, TickSucceeds, TickFails, TickStart, LocationFails, LocationFetched,
                  BeginResolved, BeginCached, BeginUnknown, NextEvent, GeocodeFound,
                  GeocodeFails, RouteFails, RouteDone, PublishAcked, PublishRetried, PublishGivesUp
    <2> QED BY <2>1 DEF storeVars
  <1> QED BY <1>1, <1>2

-----------------------------------------------------------------------------
(***************************************************************************)
(* The theorems.                                                           *)
(***************************************************************************)

LEMMA NextLastSync ==
    TypeOK /\ OneShotInv /\ LastSyncInv /\ [Next]_vars => LastSyncInv'
  <1> SUFFICES ASSUME TypeOK, OneShotInv, LastSyncInv, [Next]_vars
               PROVE  LastSyncInv'
    OBVIOUS
  <1>0. SyncTypeOK /\ SessionInv /\ now \in Nat /\ now <= now
    BY DEF TypeOK, SyncTypeOK, StoreTypeOK, OneShotInv
  <1>1. CASE UNCHANGED vars
    BY <1>0, <1>1, LastSyncStill DEF vars, storeVars, syncVars
  <1>2. CASE Outside
    <2>1. UNCHANGED <<events, syncVars>> /\ now' \in Nat /\ now <= now'
      BY <1>0, <1>2 DEF Outside, Environment, Advance, RemoveCalendar, Edit, storeVars
    <2> QED BY <1>0, <2>1, LastSyncStill DEF syncVars
  <1>3. CASE SyncInLoop
    <2>1. SyncStep
      BY <1>3 DEF SyncInLoop, SyncStep
    <2> QED BY <1>0, <2>1, LastSyncOfSync
  <1>4. CASE TickInLoop
    <2>1. TickStep /\ UNCHANGED syncVars
      BY <1>4 DEF TickInLoop
    <2>2. UNCHANGED <<now, lastSyncAt, spc, snow>>
      BY <1>0, <2>1, TickCalendar DEF syncVars
    <2>3. \A k \in Keys : IsTracked(events'[k]) =>
             IsTracked(events[k]) /\ events'[k].start = events[k].start
      BY <1>0, <2>1, TickCalendar, NoRowAssumption DEF IsTracked
    <2>4. StartsAfterLastSync'
      BY <2>2, <2>3 DEF LastSyncInv, StartsAfterLastSync, Tracked, HasStatus, IsTracked
    <2> QED BY <2>2, <2>4 DEF LastSyncInv
  <1>5. CASE Crash
    BY <1>0, <1>5, LastSyncStill DEF Crash, ForgetSync, storeVars
  <1> QED BY <1>1, <1>2, <1>3, <1>4, <1>5 DEF Next

\* Every QUEUED or ACTIVE row starts after the latest sync, however polls,
\* pushes, ticks and crashes interleave.
THEOREM StartsAfterLastSyncHolds == Spec => []StartsAfterLastSync
  <1>1. Init => LastSyncInv
    BY DEF Init, SyncInit, NoSyncYet, LastSyncInv, StartsAfterLastSync
  <1>2. LastSyncInv => StartsAfterLastSync
    BY DEF LastSyncInv
  <1> QED BY <1>1, <1>2, InitInv, NextInv, NextLastSync, PTL DEF Spec

\* A tick never writes a column that comes from the calendar: what a sync commits
\* while the tick waits survives the tick's commit.
THEOREM TickKeepsSyncWritesHolds == Spec => TickKeepsSyncWrites
  <1>1. ASSUME TypeOK, OneShotInv, [Next]_vars, tpc' # tpc, NEW k \in Keys
        PROVE  CalendarColumns(events[k])' = CalendarColumns(events[k])
    <2>0. SessionInv
      BY <1>1 DEF OneShotInv
    <2>1. TickInLoop \/ Crash
      <3>1. ~UNCHANGED tickVars
        BY <1>1 DEF tickVars
      <3>2. ~UNCHANGED vars
        BY <3>1 DEF vars
      <3> QED BY <1>1, <3>1, <3>2 DEF Next, Outside, SyncInLoop
    <2>2. CASE Crash
      <3>1. events'[k] = events[k]
        BY <2>2 DEF Crash, storeVars
      <3> QED BY <3>1 DEF CalendarColumns
    <2>3. CASE TickInLoop
      <3>1. CASE events'[k] = events[k]
        BY <3>1 DEF CalendarColumns
      <3>2. CASE events'[k] # events[k]
        BY <1>1, <2>0, <2>3, <3>2, TickCalendar, NoRowAssumption DEF TickInLoop, CalendarColumns
      <3> QED BY <3>1, <3>2
    <2> QED BY <2>1, <2>2, <2>3
  <1>2. TypeOK /\ OneShotInv /\ [Next]_vars =>
           [tpc' # tpc => \A k \in Keys :
              CalendarColumns(events[k])' = CalendarColumns(events[k])]_vars
    BY <1>1
  <1> QED BY <1>2, InitInv, NextInv, PTL DEF Spec, TickKeepsSyncWrites
=============================================================================
