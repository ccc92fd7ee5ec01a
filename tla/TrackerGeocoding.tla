-------------------------- MODULE TrackerGeocoding --------------------------
(***************************************************************************)
(* Addresses and coordinates in Tracker: no blank address is ever sent to  *)
(* the geocoder, and coordinates in a row are in geocode_cache too.        *)
(***************************************************************************)
EXTENDS TrackerSafety

\* What geocoding relies on of a row: its coordinates, if any, are those of an
\* address in the cache; while it is tracked, it has an address.
Cached(row, addresses) == row.resolved \in addresses \cup {None}

Placed(row, addresses) ==
    row # NoRow => /\ Cached(row, addresses)
                   /\ IsTracked(row) => row.location # NoLocation

\* It holds of the committed rows; the rows a tick works on keep their address
\* even when a sync has meanwhile emptied or closed the committed ones.
PlaceInv ==
    /\ NoLocation \notin cache
    /\ \A k \in Keys : Placed(events[k], cache)
    /\ \A k \in Keys : sess[k] # NoRow => /\ Cached(sess[k], cache)
                                          /\ sess[k].location # NoLocation

-----------------------------------------------------------------------------
(***************************************************************************)
(* Lemmas about the operators.                                             *)
(***************************************************************************)

\* _upsert_event: what it leaves tracked has the object's address, which is not
\* blank; coordinates stay or are cleared.
LEMMA UpsertPlaced ==
    ASSUME NEW row \in Row, NEW v \in Version, NEW label, NEW t, NEW addresses,
           Placed(row, addresses)
    PROVE  Placed(UpsertEvent(row, v, label, t), addresses)
<1> DEFINE new == UpsertEvent(row, v, label, t)
<1> DEFINE updated == [row EXCEPT !.start = v.start, !.location = v.location]
<1>1. CASE row = NoRow
  <2>1. NewRow(v, label).resolved = None /\ NewRow(v, label).location = v.location
    BY DEF NewRow
  <2>2. new = NoRow \/ (new = NewRow(v, label) /\ v.location # NoLocation)
    BY <1>1 DEF UpsertEvent, Qualifies
  <2> HIDE DEF new
  <2>3. Placed(new, addresses)
    BY <2>1, <2>2 DEF Placed, Cached
  <2> QED BY <2>3 DEF new
<1>2. CASE row # NoRow
  <2>1. row \in Event
    BY <1>2 DEF Row
  <2>2. /\ updated.resolved = row.resolved /\ updated.location = v.location
        /\ updated.status = row.status /\ updated \in Event
    BY <2>1 DEF Event, Version
  <2>3. /\ Requeued(updated).resolved = None /\ Requeued(updated).location = v.location
        /\ \A st : /\ [updated EXCEPT !.status = st].status = st
                   /\ [updated EXCEPT !.status = st].resolved = row.resolved
    BY <2>2 DEF Event, Requeued
  <2> HIDE DEF updated
  <2>4. \/ new = updated /\ (row.status = "DONE" \/ v.location # NoLocation)
        \/ new = [updated EXCEPT !.status = "CANCELLED"]
        \/ new = [updated EXCEPT !.status = "DROPPED"]
        \/ new = Requeued(updated) /\ v.location # NoLocation
    BY <1>2 DEF UpsertEvent, Qualifies, updated
  <2> HIDE DEF new
  <2>5. Placed(new, addresses)
    BY <1>2, <2>2, <2>3, <2>4 DEF Placed, Cached, IsTracked
  <2> QED BY <2>5 DEF new
<1> QED BY <1>1, <1>2

\* One calendar's transaction.
LEMMA ApplyPlaced ==
    ASSUME NEW rows \in Rows, NEW name, NEW label, NEW t, NEW found, NEW addresses,
           \A k \in DOMAIN found : found[k] \in Version,
           NEW k \in Keys, Placed(rows[k], addresses)
    PROVE  Placed(ApplyCalendarSync(rows, name, label, found, t)[k], addresses)
<1> DEFINE new == ApplyCalendarSync(rows, name, label, found, t)[k]
<1>1. rows[k] \in Row
  BY DEF Rows
<1>2. \/ new = rows[k]
      \/ k \in DOMAIN found /\ new = UpsertEvent(rows[k], found[k], label, t)
      \/ rows[k] # NoRow /\ new = [rows[k] EXCEPT !.status = "DROPPED"]
  BY DEF ApplyCalendarSync
<1>3. rows[k] # NoRow => /\ [rows[k] EXCEPT !.status = "DROPPED"].status = "DROPPED"
                         /\ [rows[k] EXCEPT !.status = "DROPPED"].resolved = rows[k].resolved
  BY <1>1 DEF Row, Event
<1>4. k \in DOMAIN found => Placed(UpsertEvent(rows[k], found[k], label, t), addresses)
  BY <1>1, UpsertPlaced
<1>5. rows[k] # NoRow => Placed([rows[k] EXCEPT !.status = "DROPPED"], addresses)
  BY <1>3 DEF Placed, Cached, IsTracked
<1> HIDE DEF new
<1>6. Placed(new, addresses)
  BY <1>2, <1>4, <1>5
<1> QED BY <1>6 DEF new

\* The reconciliation only changes the status of rows that are tracked.
LEMMA ReconcilePlaced ==
    ASSUME NEW rows \in Rows, NEW t, NEW addresses,
           NEW k \in Keys, Placed(rows[k], addresses)
    PROVE  Placed(ReconcileStates(rows, t)[k], addresses)
<1> DEFINE new == ReconcileStates(rows, t)[k]
<1>1. rows[k] \in Row
  BY DEF Rows
<1>2. \/ new = rows[k]
      \/ /\ rows[k] # NoRow /\ rows[k].status \in {"QUEUED", "ACTIVE"}
         /\ new \in {[rows[k] EXCEPT !.status = "DONE"], [rows[k] EXCEPT !.status = "ACTIVE"]}
  BY DEF ReconcileStates, Reconcile
<1>3. rows[k] # NoRow =>
         \A st : /\ [rows[k] EXCEPT !.status = st].location = rows[k].location
                 /\ [rows[k] EXCEPT !.status = st].resolved = rows[k].resolved
  BY <1>1 DEF Row, Event
<1> HIDE DEF new
<1>4. Placed(new, addresses)
  BY <1>2, <1>3 DEF Placed, Cached, IsTracked
<1> QED BY <1>4 DEF new

\* The UPDATE of a tick writes coordinates the session had, or none.
LEMMA FlushPlaced ==
    ASSUME NEW row \in Event, NEW before, NEW after, NEW addresses,
           Placed(row, addresses), Cached(after, addresses)
    PROVE  Placed(Flush(row, before, after), addresses)
<1> DEFINE new == Flush(row, before, after)
<1>1. /\ new.status = row.status /\ new.location = row.location
      /\ new.resolved \in {row.resolved, after.resolved}
  BY DEF Flush, Event, Changed
<1>2. row # NoRow
  BY NoRowAssumption
<1> HIDE DEF new
<1>3. Placed(new, addresses)
  BY <1>1, <1>2 DEF Placed, Cached, IsTracked
<1> QED BY <1>3 DEF new

-----------------------------------------------------------------------------
(***************************************************************************)
(* The steps.                                                              *)
(***************************************************************************)

\* Rows and session columns that are left alone stay as they are, and the cache
\* only grows.
LEMMA PlaceStill ==
    ASSUME PlaceInv, UNCHANGED <<events, cache>>,
           \A k \in Keys : sess'[k] # NoRow =>
              /\ sess[k] # NoRow
              /\ sess'[k].resolved = sess[k].resolved /\ sess'[k].location = sess[k].location
    PROVE  PlaceInv'
  BY DEF PlaceInv, Placed, Cached

\* A sync step.
LEMMA PlaceOfSync ==
    ASSUME SyncTypeOK, PlaceInv, SyncStep, UNCHANGED <<sess, cache>>
    PROVE  PlaceInv'
<1>0. snow \in Nat /\ events \in Rows
  BY DEF SyncTypeOK, StoreTypeOK, Rows, Row
<1>1. \/ UNCHANGED events
      \/ events' = ReconcileStates(events, snow)
      \/ \E c \in Calendars : \E label :
            events' = ApplyCalendarSync(events, CalName[c], label,
                                        FetchCalendarEvents(c, snow), snow)
  BY DEF SyncStep, SyncSucceeds, SyncFails, FullSyncStart, DiscoveryFails, SyncCalendar,
         FetchFails, FullSyncFinish, PushStart, ResyncCalendar, ResyncFails, ResyncFinish,
         storeVars
<1>2. CASE UNCHANGED events
  BY <1>2 DEF PlaceInv
<1>3. CASE events' = ReconcileStates(events, snow)
  BY <1>0, <1>3, ReconcilePlaced DEF PlaceInv
<1>4. ASSUME NEW c \in Calendars, NEW label,
             events' = ApplyCalendarSync(events, CalName[c], label,
                                         FetchCalendarEvents(c, snow), snow)
      PROVE  PlaceInv'
  <2>1. \A k \in DOMAIN FetchCalendarEvents(c, snow) : FetchCalendarEvents(c, snow)[k] \in Version
    BY <1>0, FetchType DEF SyncTypeOK, StoreTypeOK
  <2>2. \A k \in Keys : Placed(events'[k], cache)
    BY <1>0, <1>4, <2>1, ApplyPlaced DEF PlaceInv
  <2> QED BY <2>2 DEF PlaceInv
<1> QED BY <1>1, <1>2, <1>3, <1>4

\* A tick step: an address that is geocoded, or found in the cache, is in the
\* cache with its coordinates.
LEMMA PlaceOfTick ==
    ASSUME TypeOK, SessionInv, PlaceInv, TickStep
    PROVE  PlaceInv'
<1> USE DEF TypeOK, TickTypeOK
<1>0. \A k \in Keys : sess[k] # NoRow => sess[k] \in Event /\ loaded[k] # NoRow
  OBVIOUS
<1>1. CASE TickStart \/ LocationFails \/ GeocodeFails \/ RouteFails
           \/ PublishRetried \/ PublishGivesUp
  BY <1>1, PlaceStill
  DEF TickStart, LocationFails, GeocodeFails, RouteFails, PublishRetried, PublishGivesUp, storeVars
<1>2. CASE LocationFetched
  <2>1. /\ UNCHANGED <<events, cache>>
        /\ \A k \in Keys : sess'[k] # NoRow => sess'[k] = events[k] /\ HasStatus(k, {"ACTIVE"})
    BY <1>2 DEF LocationFetched, storeVars
  <2>2. \A k \in Keys : sess'[k] # NoRow => /\ Cached(sess'[k], cache)
                                            /\ sess'[k].location # NoLocation
    BY <2>1 DEF PlaceInv, Placed, IsTracked, HasStatus
  <2> QED BY <2>1, <2>2 DEF PlaceInv
<1>3. ASSUME NEW k \in Keys, BeginResolved(k) \/ BeginUnknown(k)
      PROVE  PlaceInv'
  BY <1>3, PlaceStill DEF BeginResolved, BeginUnknown, NextEvent, storeVars
<1>4. ASSUME NEW k \in Keys, sess[k] # NoRow,
             sess' = [sess EXCEPT ![k].resolved = sess[k].location],
             cache' = cache \cup {sess[k].location}, UNCHANGED events
      PROVE  PlaceInv'
  <2>1. sess[k] \in Event /\ sess[k].location # NoLocation
    BY <1>0, <1>4 DEF PlaceInv
  <2>2. /\ sess'[k].resolved = sess[k].location /\ sess'[k].location = sess[k].location
        /\ \A j \in Keys \ {k} : sess'[j] = sess[j]
    BY <1>4, <2>1 DEF Event
  <2>3. \A j \in Keys : sess'[j] # NoRow => /\ Cached(sess'[j], cache')
                                            /\ sess'[j].location # NoLocation
    BY <1>4, <2>1, <2>2 DEF PlaceInv, Cached
  <2>4. \A j \in Keys : Placed(events'[j], cache')
    BY <1>4 DEF PlaceInv, Placed, Cached
  <2>5. NoLocation \notin cache'
    BY <1>4, <2>1 DEF PlaceInv
  <2> QED BY <2>3, <2>4, <2>5 DEF PlaceInv
<1>5. ASSUME NEW k \in Keys, BeginCached(k)
      PROVE  PlaceInv'
  <2>1. /\ sess[k] # NoRow /\ UNCHANGED events
        /\ sess' = [sess EXCEPT ![k].resolved = sess[k].location]
        /\ cache' = cache \cup {sess[k].location}
    BY <1>5 DEF BeginCached, NextEvent, storeVars
  <2> QED BY <1>4, <2>1
<1>6. CASE GeocodeFound
  <2>1. /\ cur \in Keys /\ sess[cur] # NoRow /\ UNCHANGED events
        /\ sess' = [sess EXCEPT ![cur].resolved = sess[cur].location]
        /\ cache' = cache \cup {sess[cur].location}
    BY <1>6 DEF GeocodeFound, CachePut, storeVars
  <2> QED BY <1>4, <2>1
<1>7. ASSUME NEW travel \in TravelTimes, RouteDone(travel)
      PROVE  PlaceInv'
  <2> DEFINE leaveAt  == ComputeLeaveAt(sess[cur].start, travel)
  <2> DEFINE decision == EvaluateNotification(tnow, leaveAt, sess[cur].notify, sess[cur].lastNotified)
  <2>1. cur \in Keys /\ sess[cur] \in Event
    BY <1>0, <1>7 DEF RouteDone
  <2>2. /\ sess' = [sess EXCEPT ![cur].leaveAt = leaveAt, ![cur].notify = decision.state]
        /\ UNCHANGED <<events, cache>>
    BY <1>7 DEF RouteDone, storeVars
  <2> HIDE DEF leaveAt, decision
  <2>3. \A k \in Keys : sess'[k] # NoRow =>
           /\ sess[k] # NoRow
           /\ sess'[k].resolved = sess[k].resolved /\ sess'[k].location = sess[k].location
    BY <2>1, <2>2, NoRowAssumption DEF Event
  <2> QED BY <2>2, <2>3, PlaceStill
<1>8. CASE PublishAcked
  <2>1. cur \in Keys /\ sess[cur] \in Event
    BY <1>0, <1>8 DEF PublishAcked
  <2>2. \A k \in Keys : sess'[k] # NoRow =>
           /\ sess[k] # NoRow
           /\ sess'[k].resolved = sess[k].resolved /\ sess'[k].location = sess[k].location
    BY <1>8, <2>1, NoRowAssumption DEF PublishAcked, Event
  <2> QED BY <1>8, <2>2, PlaceStill DEF PublishAcked, storeVars
<1>9. CASE TickCommit
  <2>1. /\ UNCHANGED cache
        /\ \A k \in Keys : /\ sess'[k] = NoRow
                           /\ events'[k] = IF loaded[k] = NoRow THEN events[k]
                                           ELSE Flush(events[k], loaded[k], sess[k])
    BY <1>9 DEF TickCommit, EndTick
  <2>2. ASSUME NEW k \in Keys, loaded[k] # NoRow
        PROVE  Placed(Flush(events[k], loaded[k], sess[k]), cache)
    <3>1. events[k] \in Event /\ sess[k] # NoRow
      BY <2>2 DEF SessionInv, StoreTypeOK
    <3> QED BY <3>1, FlushPlaced DEF PlaceInv
  <2>3. \A k \in Keys : Placed(events'[k], cache)
    BY <2>1, <2>2 DEF PlaceInv
  <2> QED BY <2>1, <2>3 DEF PlaceInv
<1> QED
  BY <1>1, <1>2, <1>3, <1>5, <1>6, <1>7, <1>8, <1>9 DEF TickStep, TickSucceeds, TickFails

LEMMA NextPlace == TypeOK /\ OneShotInv /\ PlaceInv /\ [Next]_vars => PlaceInv'
<1> SUFFICES ASSUME TypeOK, OneShotInv, PlaceInv, [Next]_vars
             PROVE  PlaceInv'
  OBVIOUS
<1>1. CASE UNCHANGED <<events, sess, cache>>
  BY <1>1, PlaceStill
<1>2. CASE Outside \/ UNCHANGED vars
  BY <1>1, <1>2
  DEF Outside, Environment, Advance, RemoveCalendar, Edit, storeVars, tickVars, vars
<1>3. CASE SyncInLoop
  <2>1. SyncStep /\ UNCHANGED <<sess, cache>>
    BY <1>3 DEF SyncInLoop, SyncStep, tickVars
  <2> QED BY <2>1, PlaceOfSync DEF TypeOK
<1>4. CASE TickInLoop
  BY <1>4, PlaceOfTick DEF TickInLoop, OneShotInv
<1>5. CASE Crash
  <2>1. UNCHANGED <<events, cache>> /\ \A k \in Keys : sess'[k] = NoRow
    BY <1>5 DEF Crash, EndTick, storeVars
  <2> QED BY <2>1, PlaceStill
<1> QED BY <1>2, <1>3, <1>4, <1>5 DEF Next

-----------------------------------------------------------------------------
(***************************************************************************)
(* The theorems.                                                           *)
(***************************************************************************)

LEMMA PlaceInvHolds == Spec => [](TypeOK /\ OneShotInv /\ PlaceInv)
<1>1. Init => PlaceInv
  BY DEF Init, SyncInit, StoreInit, TickInit, NoTick, PlaceInv, Placed
<1> QED BY <1>1, InitInv, NextInv, NextPlace, PTL DEF Spec

\* No blank address is ever sent to Nominatim or put into the cache, although a
\* sync may blank the address of a row while the tick has it in its session.
THEOREM NeverGeocodesNothingHolds == Spec => []NeverGeocodesNothing
<1>1. TypeOK /\ PlaceInv => NeverGeocodesNothing
  BY DEF TypeOK, TickTypeOK, PlaceInv, NeverGeocodesNothing
<1> QED BY <1>1, PlaceInvHolds, PTL

\* The coordinates of every row are in geocode_cache, whatever crash came between
\* the transaction of the cache and that of the tick.
THEOREM ResolvedIsCachedHolds == Spec => []ResolvedIsCached
<1>1. PlaceInv => ResolvedIsCached
  BY DEF PlaceInv, Placed, Cached, ResolvedIsCached
<1> QED BY <1>1, PlaceInvHolds, PTL
=============================================================================
