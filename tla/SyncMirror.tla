----------------------------- MODULE SyncMirror -----------------------------
(***************************************************************************)
(* What a poll leaves tracked, on its own (SyncSpec) and among ticks and   *)
(* crashes (Spec of Tracker): the events it found qualifying, as long as   *)
(* every event has its one calendar and every calendar a label of its own. *)
(***************************************************************************)
EXTENDS TrackerSafety

\* When rows can be told apart by their labels: no calendar is deleted, a key is
\* only ever in one, display names are unique, and a calendar with pushes has
\* none (discovery then labels its rows with the URL too) and is polled as well.
CalendarsApart ==
    /\ Removable = {}
    /\ \A k \in Keys : \A c, d \in Homes[k] : c = d
    /\ \A c, d \in Calendars : CalName[c] = CalName[d] => c = d
    /\ \A c \in PushCalendars : c \in Selected /\ PushLabel(c) = CalName[c]

\* Objects and rows are where they belong.
HomeInv ==
    /\ listed = Calendars
    /\ \A c \in Calendars, k \in Keys : server[c][k] # Absent => c \in Homes[k]
    /\ \A k \in Keys : events[k] # NoRow =>
          \E c \in Homes[k] \cap Selected : events[k].calendar = CalName[c]

Fetched(k) == Homes[k] \cap toFetch = {}

\* The row of a key the running sync found qualifying is tracked, starts after
\* the sync's `now', or was DONE before; no other key whose calendar the sync
\* has dealt with is tracked.
Mirrored(k) ==
    /\ k \in seen => /\ Fetched(k)
                     /\ events[k] # NoRow
                     /\ events[k].status \in {"QUEUED", "ACTIVE", "DONE"}
                     /\ IsTracked(events[k]) => events[k].start > snow
    /\ Fetched(k) /\ k \notin seen => ~IsTracked(events[k])

MirrorInv ==
    /\ HomeInv
    /\ spc = "push" => toFetch \subseteq PushCalendars
    /\ spc = "full" => toFetch \subseteq Selected /\ \A k \in Keys : Mirrored(k)

-----------------------------------------------------------------------------
(***************************************************************************)
(* Lemmas about the operators.                                             *)
(***************************************************************************)

\* _upsert_event: an object that qualifies leaves its row tracked or DONE, one
\* that does not leaves it neither QUEUED nor ACTIVE; the label is written on
\* insertion only.
LEMMA UpsertMirror ==
    ASSUME NEW row \in Row, NEW v \in Version, NEW label \in Labels, NEW t \in Nat
    PROVE  LET new == UpsertEvent(row, v, label, t)
           IN  /\ Qualifies(v, t) => /\ new # NoRow
                                     /\ new.status \in {"QUEUED", "ACTIVE", "DONE"}
               /\ ~Qualifies(v, t) => ~IsTracked(new)
               /\ new # NoRow /\ row # NoRow => new.calendar = row.calendar
               /\ new # NoRow /\ row = NoRow => new.calendar = label
               /\ IsTracked(new) => new.start > t
<1> DEFINE new == UpsertEvent(row, v, label, t)
<1> DEFINE updated == [row EXCEPT !.start = v.start, !.location = v.location]
<1>0. IsTracked(new) => new.start > t
  BY UpsertStart
<1>1. CASE row = NoRow
  <2>1. NewRow(v, label).status = "QUEUED" /\ NewRow(v, label).calendar = label
    BY DEF NewRow
  <2>2. NewRow(v, label) # NoRow
    BY NoRowAssumption, NotifierAssumption
    DEF NewRow, Event, Version, EventStatus, NotifyState, MaybeTime
  <2>3. \/ Qualifies(v, t) /\ new = NewRow(v, label)
        \/ ~Qualifies(v, t) /\ new = NoRow
    BY <1>1 DEF UpsertEvent
  <2> HIDE DEF new
  <2>4. /\ Qualifies(v, t) => new # NoRow /\ new.status \in {"QUEUED", "ACTIVE", "DONE"}
        /\ ~Qualifies(v, t) => ~IsTracked(new)
        /\ new # NoRow => new.calendar = label
    BY <2>1, <2>2, <2>3 DEF IsTracked
  <2> QED BY <1>0, <1>1, <2>4 DEF new
<1>2. CASE row # NoRow
  <2>1. row \in Event /\ row.status \in EventStatus
    BY <1>2 DEF Row, Event
  <2>2. /\ updated.status = row.status /\ updated.calendar = row.calendar /\ updated \in Event
    BY <2>1 DEF Event, Version
  <2>3. /\ Requeued(updated).status = "QUEUED" /\ Requeued(updated).calendar = row.calendar
        /\ Requeued(updated) \in Event
        /\ \A st \in EventStatus : /\ [updated EXCEPT !.status = st].status = st
                                   /\ [updated EXCEPT !.status = st].calendar = row.calendar
    BY <2>2 DEF Event, Requeued, EventStatus, NotifyState
  <2> HIDE DEF updated
  <2>4. \/ Qualifies(v, t) /\ new = updated /\ row.status \notin {"CANCELLED", "DROPPED"}
        \/ Qualifies(v, t) /\ new = Requeued(updated)
        \/ ~Qualifies(v, t) /\ new = updated /\ row.status = "DONE"
        \/ ~Qualifies(v, t) /\ new = [updated EXCEPT !.status = "CANCELLED"]
        \/ ~Qualifies(v, t) /\ new = [updated EXCEPT !.status = "DROPPED"]
    BY <1>2 DEF UpsertEvent, updated
  <2> HIDE DEF new
  <2>5. /\ Qualifies(v, t) => new # NoRow /\ new.status \in {"QUEUED", "ACTIVE", "DONE"}
        /\ ~Qualifies(v, t) => ~IsTracked(new)
        /\ new.calendar = row.calendar
    BY <2>1, <2>2, <2>3, <2>4, NoRowAssumption DEF IsTracked, EventStatus
  <2> QED BY <1>0, <1>2, <2>5 DEF new
<1> QED BY <1>1, <1>2

\* One calendar's transaction, row by row.
LEMMA ApplyRow ==
    ASSUME NEW rows \in Rows, NEW name, NEW label, NEW t, NEW found, NEW k \in Keys
    PROVE  LET new == ApplyCalendarSync(rows, name, label, found, t)[k]
           IN  /\ k \in DOMAIN found => new = UpsertEvent(rows[k], found[k], label, t)
               /\ k \notin DOMAIN found =>
                     \/ new = rows[k] /\ ~(IsTracked(rows[k]) /\ rows[k].calendar = name)
                     \/ /\ rows[k] # NoRow /\ rows[k].calendar = name
                        /\ new # NoRow /\ ~IsTracked(new) /\ new.calendar = name
<1> DEFINE new == ApplyCalendarSync(rows, name, label, found, t)[k]
<1> DEFINE dropped == [rows[k] EXCEPT !.status = "DROPPED"]
<1>1. k \in DOMAIN found => new = UpsertEvent(rows[k], found[k], label, t)
  BY DEF ApplyCalendarSync
<1>2. k \notin DOMAIN found =>
         \/ new = rows[k] /\ ~(IsTracked(rows[k]) /\ rows[k].calendar = name)
         \/ new = dropped /\ rows[k] # NoRow /\ rows[k].calendar = name
  BY DEF ApplyCalendarSync, IsTracked
<1>3. rows[k] # NoRow => /\ dropped # NoRow
                         /\ dropped.status = "DROPPED" /\ dropped.calendar = rows[k].calendar
  BY NoRowAssumption DEF Rows, Row, Event, EventStatus
<1> HIDE DEF new, dropped
<1>4. k \notin DOMAIN found =>
         \/ new = rows[k] /\ ~(IsTracked(rows[k]) /\ rows[k].calendar = name)
         \/ /\ rows[k] # NoRow /\ rows[k].calendar = name
            /\ new # NoRow /\ ~IsTracked(new) /\ new.calendar = name
  BY <1>2, <1>3 DEF IsTracked
<1> QED BY <1>1, <1>4 DEF new

\* The reconciliation expires what has started; what starts later stays tracked
\* or untracked as it was, with its label.
LEMMA ReconcileMirror ==
    ASSUME NEW rows \in Rows, NEW t \in Nat, NEW k \in Keys
    PROVE  LET new == ReconcileStates(rows, t)[k]
           IN  /\ new = NoRow <=> rows[k] = NoRow
               /\ new # NoRow => new.calendar = rows[k].calendar
               /\ IsTracked(new) => IsTracked(rows[k])
               /\ IsTracked(rows[k]) /\ rows[k].start > t => IsTracked(new)
<1> DEFINE new == ReconcileStates(rows, t)[k]
<1>1. CASE rows[k] = NoRow
  BY <1>1 DEF ReconcileStates, Reconcile, IsTracked
<1>2. CASE rows[k] # NoRow
  <2>1. rows[k] \in Event /\ rows[k].start \in Int
    BY <1>2 DEF Rows, Row, Event
  <2>2. \A st \in EventStatus : /\ [rows[k] EXCEPT !.status = st] # NoRow
                                /\ [rows[k] EXCEPT !.status = st].status = st
                                /\ [rows[k] EXCEPT !.status = st].calendar = rows[k].calendar
    BY <2>1, NoRowAssumption DEF Event
  <2> DEFINE over == rows[k].status \in {"QUEUED", "ACTIVE"} /\ rows[k].start <= t
  <2> DEFINE near == /\ rows[k].status = "QUEUED" /\ rows[k].start > t
                     /\ rows[k].start - t <= GeocodeWindow
  <2>3. new = Reconcile(rows[k], t)
    BY DEF ReconcileStates
  <2>4. /\ over => new = [rows[k] EXCEPT !.status = "DONE"]
        /\ near => new = [rows[k] EXCEPT !.status = "ACTIVE"]
        /\ ~over /\ ~near => new = rows[k]
    BY <1>2, <2>1, <2>3 DEF Reconcile
  <2>5. /\ near => IsTracked(rows[k])
        /\ over => ~(rows[k].start > t)
    BY <1>2, <2>1 DEF IsTracked
  <2> HIDE DEF new, over, near
  <2>6. /\ new # NoRow /\ new.calendar = rows[k].calendar
        /\ IsTracked(new) => IsTracked(rows[k])
        /\ IsTracked(rows[k]) /\ rows[k].start > t => IsTracked(new)
    BY <1>2, <2>2, <2>4, <2>5 DEF IsTracked, EventStatus
  <2> QED BY <1>2, <2>6 DEF new
<1> QED BY <1>1, <1>2

-----------------------------------------------------------------------------
(***************************************************************************)
(* The steps.                                                              *)
(***************************************************************************)

\* One calendar's transaction, in a poll or in a push: every row it inserts is
\* labelled with the name of its calendar.
LEMMA HomeOfApply ==
    ASSUME SyncTypeOK, HomeInv, NEW c \in Calendars, c \in Selected, CalName[c] \in Labels,
           events' = ApplyCalendarSync(events, CalName[c], CalName[c],
                                       FetchCalendarEvents(c, snow), snow)
    PROVE  \A k \in Keys : events'[k] # NoRow =>
              \E d \in Homes[k] \cap Selected : events'[k].calendar = CalName[d]
<1> SUFFICES ASSUME NEW k \in Keys, events'[k] # NoRow
             PROVE  \E d \in Homes[k] \cap Selected : events'[k].calendar = CalName[d]
  OBVIOUS
<1> DEFINE found == FetchCalendarEvents(c, snow)
<1>1. snow \in Nat /\ events \in Rows /\ events[k] \in Row
  BY DEF SyncTypeOK, StoreTypeOK, Rows, Row
<1>2. k \in DOMAIN found => c \in Homes[k] /\ found[k] \in Version
  BY <1>1, FetchType DEF HomeInv, FetchCalendarEvents
<1>3. events' = ApplyCalendarSync(events, CalName[c], CalName[c], found, snow)
  OBVIOUS
<1> HIDE DEF found
<1>4. CASE k \in DOMAIN found
  <2>1. events'[k] = UpsertEvent(events[k], found[k], CalName[c], snow)
    BY <1>1, <1>3, <1>4, ApplyRow
  <2>2. events'[k].calendar = IF events[k] = NoRow THEN CalName[c] ELSE events[k].calendar
    BY <1>1, <1>2, <1>4, <2>1, UpsertMirror
  <2> QED BY <1>2, <1>4, <2>2 DEF HomeInv
<1>5. CASE k \notin DOMAIN found
  <2>1. events[k] # NoRow /\ events'[k].calendar = events[k].calendar
    BY <1>1, <1>3, <1>5, ApplyRow
  <2> QED BY <2>1 DEF HomeInv
<1> QED BY <1>4, <1>5

\* One calendar of a poll.
LEMMA MirrorOfCalendar ==
    ASSUME CalendarsApart, SyncTypeOK, MirrorInv, NEW c \in Calendars, SyncCalendar(c),
           NEW k \in Keys
    PROVE  Mirrored(k)'
<1> DEFINE found == FetchCalendarEvents(c, snow)
<1> DEFINE row == events[k]
<1> DEFINE new == events'[k]
<1>1. snow \in Nat /\ events \in Rows /\ row \in Row /\ CalName[c] \in Labels
  BY DEF SyncTypeOK, StoreTypeOK, Rows, Row, Labels
<1>2. /\ DOMAIN found \subseteq Keys
      /\ k \in DOMAIN found => c \in Homes[k] /\ found[k] \in Version
  BY <1>1, FetchType DEF MirrorInv, HomeInv, FetchCalendarEvents
<1>3. /\ new = ApplyCalendarSync(events, CalName[c], CalName[c], found, snow)[k]
      /\ seen' = seen \cup {j \in DOMAIN found : Qualifies(found[j], snow)}
      /\ toFetch' = toFetch \ {c} /\ c \in toFetch
      /\ UNCHANGED snow
      /\ Mirrored(k)
  BY DEF SyncCalendar, MirrorInv
<1>4. /\ Homes[k] \subseteq Calendars
      /\ c \in Homes[k] => Homes[k] = {c}
      /\ row # NoRow => \E d \in Homes[k] : row.calendar = CalName[d]
  BY SyncAssumption DEF CalendarsApart, MirrorInv, HomeInv
<1> HIDE DEF found, row, new
<1>5. CASE k \in DOMAIN found
  <2>1. new = UpsertEvent(row, found[k], CalName[c], snow)
    BY <1>1, <1>3, <1>5, ApplyRow DEF row
  <2>2. Fetched(k)'
    BY <1>2, <1>3, <1>4, <1>5 DEF Fetched
  <2>3. k \notin seen
    BY <1>2, <1>3, <1>5 DEF Mirrored, Fetched
  <2>4. k \in seen' <=> Qualifies(found[k], snow)
    BY <1>3, <1>5, <2>3
  <2>5. /\ Qualifies(found[k], snow) => /\ new # NoRow
                                        /\ new.status \in {"QUEUED", "ACTIVE", "DONE"}
        /\ ~Qualifies(found[k], snow) => ~IsTracked(new)
        /\ IsTracked(new) => new.start > snow
    BY <1>1, <1>2, <1>5, <2>1, UpsertMirror
  <2> QED BY <1>3, <2>2, <2>4, <2>5 DEF Mirrored, new
<1>6. CASE k \notin DOMAIN found
  <2>1. k \in seen' <=> k \in seen
    BY <1>3, <1>6
  <2>2. \/ new = row /\ ~(IsTracked(row) /\ row.calendar = CalName[c])
        \/ row # NoRow /\ row.calendar = CalName[c] /\ ~IsTracked(new)
    BY <1>1, <1>3, <1>6, ApplyRow DEF row
  <2>3. ASSUME k \in seen
        PROVE  new = row /\ Fetched(k)'
    <3>1. Fetched(k) /\ row # NoRow
      BY <1>3, <2>3 DEF Mirrored, row
    <3>2. c \notin Homes[k]
      BY <1>3, <3>1 DEF Fetched
    <3>3. row.calendar # CalName[c]
      BY <1>4, <3>1, <3>2 DEF CalendarsApart
    <3> QED BY <1>3, <2>2, <3>1, <3>3 DEF Fetched
  <2>4. ASSUME k \notin seen, Fetched(k)'
        PROVE  ~IsTracked(new)
    <3>1. CASE c \in Homes[k]
      <4>1. row # NoRow => row.calendar = CalName[c]
        BY <1>4, <3>1
      <4> QED BY <2>2, <4>1 DEF IsTracked
    <3>2. CASE c \notin Homes[k]
      <4>1. ~IsTracked(row)
        BY <1>3, <2>4, <3>2 DEF Mirrored, Fetched, row
      <4> QED BY <2>2, <4>1
    <3> QED BY <3>1, <3>2
  <2>5. Mirrored(k)
    BY <1>3
  <2> QED BY <1>3, <2>1, <2>3, <2>4, <2>5 DEF Mirrored, row, new
<1> QED BY <1>5, <1>6

\* The end of a poll or a push.
LEMMA HomeOfFinish ==
    ASSUME SyncTypeOK, HomeInv, UNCHANGED <<server, listed>>,
           events' = ReconcileStates(events, snow)
    PROVE  HomeInv'
<1>1. snow \in Nat /\ events \in Rows
  BY DEF SyncTypeOK, StoreTypeOK, Rows, Row
<1>2. \A k \in Keys : events'[k] # NoRow => /\ events[k] # NoRow
                                            /\ events'[k].calendar = events[k].calendar
  BY <1>1, ReconcileMirror
<1> QED BY <1>2 DEF HomeInv

\* A step that leaves the rows and the server alone, and ends the running sync or
\* leaves it alone.
LEMMA MirrorStill ==
    ASSUME MirrorInv, UNCHANGED <<events, server, listed>>,
           spc' = "idle" \/ UNCHANGED <<spc, snow, toFetch, seen>>
    PROVE  MirrorInv'
<1>1. HomeInv'
  BY DEF MirrorInv, HomeInv
<1>2. CASE spc' = "idle"
  BY <1>1, <1>2 DEF MirrorInv
<1>3. CASE UNCHANGED <<spc, snow, toFetch, seen>>
  BY <1>1, <1>3 DEF MirrorInv, Mirrored, Fetched
<1> QED BY <1>2, <1>3

\* Every kind of sync step, be it of a poll or of a push.
LEMMA MirrorOfSync ==
    ASSUME CalendarsApart, SyncTypeOK, MirrorInv, SyncStep
    PROVE  MirrorInv'
<1>labels. \A c \in Calendars : CalName[c] \in Labels
  BY DEF Labels
<1>1. CASE FullSyncStart
  <2>1. /\ spc' = "full" /\ seen' = {} /\ UNCHANGED <<events, server, listed>>
        /\ toFetch' = Selected
    BY <1>1, SyncAssumption DEF FullSyncStart, MirrorInv, HomeInv, serverVars, storeVars
  <2>2. HomeInv'
    BY <2>1 DEF MirrorInv, HomeInv
  <2>3. ASSUME NEW k \in Keys
        PROVE  Mirrored(k)'
    <3>1. Fetched(k)' => Homes[k] \cap Selected = {}
      BY <2>1 DEF Fetched
    <3>2. Fetched(k)' => ~IsTracked(events'[k])
      BY <2>2, <3>1 DEF HomeInv, IsTracked
    <3> QED BY <2>1, <3>2 DEF Mirrored
  <2> QED BY <2>1, <2>2, <2>3 DEF MirrorInv
<1>2. CASE SyncFails
  BY <1>2, MirrorStill DEF SyncFails, DiscoveryFails, FetchFails, ResyncFails, serverVars, storeVars
<1>3. ASSUME NEW c \in Calendars, SyncCalendar(c)
      PROVE  MirrorInv'
  <2>1. HomeInv'
    BY <1>3, <1>labels, HomeOfApply DEF SyncCalendar, MirrorInv, HomeInv, serverVars
  <2>2. \A k \in Keys : Mirrored(k)'
    BY <1>3, MirrorOfCalendar
  <2> QED BY <1>3, <2>1, <2>2 DEF SyncCalendar, MirrorInv
<1>4. CASE FullSyncFinish \/ ResyncFinish
  <2>1. HomeInv' /\ spc' = "idle"
    BY <1>4, HomeOfFinish DEF FullSyncFinish, ResyncFinish, MirrorInv, serverVars
  <2> QED BY <2>1 DEF MirrorInv
<1>5. ASSUME NEW c \in PushCalendars, PushStart(c)
      PROVE  MirrorInv'
  <2>1. spc' = "push" /\ toFetch' = {c} /\ UNCHANGED <<events, server, listed>>
    BY <1>5 DEF PushStart, serverVars, storeVars
  <2>2. HomeInv'
    BY <2>1 DEF MirrorInv, HomeInv
  <2> QED BY <2>1, <2>2 DEF MirrorInv
<1>6. ASSUME NEW c \in Calendars, ResyncCalendar(c)
      PROVE  MirrorInv'
  <2>1. PushLabel(c) = CalName[c]
    BY <1>6 DEF ResyncCalendar, MirrorInv, CalendarsApart
  <2>s. c \in Selected
    BY <1>6 DEF ResyncCalendar, MirrorInv, CalendarsApart
  <2>2. HomeInv'
    BY <1>6, <1>labels, <2>1, <2>s, HomeOfApply DEF ResyncCalendar, MirrorInv, HomeInv, serverVars
  <2> QED BY <1>6, <2>2 DEF ResyncCalendar, MirrorInv
<1> QED BY <1>1, <1>2, <1>3, <1>4, <1>5, <1>6 DEF SyncStep, SyncSucceeds

\* The clock and the users of the calendar.
LEMMA MirrorOfEnvironment ==
    ASSUME CalendarsApart, SyncTypeOK, MirrorInv, Environment
    PROVE  MirrorInv'
<1>1. CASE Advance /\ UNCHANGED <<serverVars, syncVars>>
  BY <1>1, MirrorStill DEF Advance, serverVars, syncVars
<1>2. ASSUME NEW c \in Calendars, RemoveCalendar(c)
      PROVE  FALSE
  BY <1>2 DEF RemoveCalendar, CalendarsApart
<1>3. ASSUME NEW c \in Calendars, NEW k \in Keys, Edit(c, k)
      PROVE  MirrorInv'
  <2>1. UNCHANGED <<events, listed, spc, snow, toFetch, seen>>
    BY <1>3 DEF Edit, storeVars, syncVars
  <2>2. \A d \in Calendars, j \in Keys : server'[d][j] = server[d][j] \/ d \in Homes[j]
    BY <1>3 DEF Edit, SyncTypeOK
  <2>3. HomeInv'
    BY <2>1, <2>2 DEF MirrorInv, HomeInv
  <2> QED BY <2>1, <2>3 DEF MirrorInv, Mirrored, Fetched
<1> QED BY <1>1, <1>2, <1>3 DEF Environment

\* The syncs on their own.
LEMMA MirrorStep ==
    ASSUME CalendarsApart, SyncTypeOK, MirrorInv, [SyncNext]_allSyncVars
    PROVE  MirrorInv'
<1>1. CASE UNCHANGED allSyncVars
  BY <1>1, MirrorStill DEF allSyncVars, storeVars, serverVars, syncVars
<1> QED BY <1>1, MirrorOfEnvironment, MirrorOfSync DEF SyncNext

\* The whole service: no tick begins or goes on while a sync runs, its commit
\* keeps every row's label, and a crash ends the sync where it is.
LEMMA MirrorInTracker ==
    ASSUME CalendarsApart, TypeOK, OneShotInv, MirrorInv, [Next]_vars
    PROVE  MirrorInv'
<1>0. SyncTypeOK
  BY DEF TypeOK
<1>1. CASE Outside
  BY <1>0, <1>1, MirrorOfEnvironment DEF Outside
<1>2. CASE SyncInLoop
  <2>1. SyncStep
    BY <1>2 DEF SyncInLoop, SyncStep
  <2> QED BY <1>0, <2>1, MirrorOfSync
<1>3. CASE TickInLoop
  <2>1. spc' = "idle" /\ UNCHANGED <<server, listed>>
    BY <1>3 DEF TickInLoop, syncVars, serverVars
  <2>2. \A k \in Keys : \/ UNCHANGED events[k]
                        \/ /\ events[k] \in Event
                           /\ events'[k].calendar = events[k].calendar
    BY <1>3, TickCalendar DEF TickInLoop, OneShotInv
  <2>3. \A k \in Keys : events'[k] # NoRow =>
           \E c \in Homes[k] \cap Selected : events'[k].calendar = CalName[c]
    BY <2>2, NoRowAssumption DEF MirrorInv, HomeInv
  <2>4. HomeInv'
    BY <2>1, <2>3 DEF MirrorInv, HomeInv
  <2> QED BY <2>1, <2>4 DEF MirrorInv
<1>4. CASE Crash
  BY <1>4, MirrorStill DEF Crash, ForgetSync, storeVars, serverVars
<1>5. CASE UNCHANGED vars
  BY <1>5, MirrorStill DEF vars, storeVars, serverVars, syncVars
<1> QED BY <1>1, <1>2, <1>3, <1>4, <1>5 DEF Next

\* The end of a poll that has fetched every calendar, or its last moment before a
\* crash.
LEMMA MirrorAtEnd ==
    ASSUME SyncTypeOK, MirrorInv, spc = "full", toFetch = {},
           UNCHANGED events \/ events' = ReconcileStates(events, snow)
    PROVE  {k \in Keys : Tracked(k)'} = {k \in seen : ~HasStatus(k, {"DONE"})}
<1>1. snow \in Nat /\ events \in Rows /\ seen \subseteq Keys
  BY DEF SyncTypeOK, StoreTypeOK, Rows, Row
<1>2. ASSUME NEW k \in Keys
      PROVE  IsTracked(events'[k]) <=> k \in seen /\ ~HasStatus(k, {"DONE"})
  <2>1. /\ IsTracked(events'[k]) => IsTracked(events[k])
        /\ IsTracked(events[k]) /\ events[k].start > snow => IsTracked(events'[k])
    BY <1>1, ReconcileMirror
  <2>2. Mirrored(k) /\ Fetched(k)
    BY DEF MirrorInv, Fetched
  <2>3. IsTracked(events[k]) <=> k \in seen /\ ~HasStatus(k, {"DONE"})
    BY <2>2 DEF Mirrored, IsTracked, HasStatus
  <2> QED BY <2>1, <2>2, <2>3 DEF Mirrored
<1>3. \A k \in Keys : Tracked(k)' <=> IsTracked(events'[k])
  BY DEF Tracked, HasStatus, IsTracked
<1> QED BY <1>1, <1>2, <1>3

\* Which step of a sync it is that ends a poll.
LEMMA PollEnds ==
    ASSUME SyncStep, spc = "full", toFetch = {}, spc' = "idle"
    PROVE  events' = ReconcileStates(events, snow)
  BY DEF SyncStep, SyncSucceeds, SyncFails, FullSyncStart, DiscoveryFails, SyncCalendar,
         FetchFails, FullSyncFinish, PushStart, ResyncCalendar, ResyncFails, ResyncFinish

\* Users and the clock end no sync.
LEMMA OutsideEndsNothing == Environment => UNCHANGED spc
  BY DEF Environment, Advance, RemoveCalendar, Edit, syncVars

LEMMA SyncTypeStep ==
    ASSUME SyncTypeOK, [SyncNext]_allSyncVars
    PROVE  SyncTypeOK'
<1>1. CASE UNCHANGED allSyncVars
  BY <1>1 DEF allSyncVars, storeVars, serverVars, syncVars, SyncTypeOK, StoreTypeOK
<1>2. CASE Environment
  <2>1. UNCHANGED <<events, syncVars>> /\ now' \in Nat /\ now <= now'
    BY <1>2 DEF Environment, Advance, RemoveCalendar, Edit, storeVars, SyncTypeOK, StoreTypeOK
  <2>2. /\ server' \in [Calendars -> [Keys -> Versions \cup {Absent}]]
        /\ listed' \subseteq Calendars
        /\ edits' \in 0..MaxEdits
    BY <1>2, SyncAssumption DEF Environment, Advance, RemoveCalendar, Edit, serverVars, SyncTypeOK
  <2> QED BY <2>1, <2>2 DEF SyncTypeOK, StoreTypeOK, syncVars
<1>3. CASE SyncStep
  BY <1>3, SyncStepType
<1> QED BY <1>1, <1>2, <1>3 DEF SyncNext

-----------------------------------------------------------------------------
(***************************************************************************)
(* The theorems.                                                           *)
(***************************************************************************)

LEMMA SyncInitType == SyncInit => SyncTypeOK
<1> SUFFICES ASSUME SyncInit
             PROVE  SyncTypeOK
  OBVIOUS
<1> USE DEF SyncInit, StoreInit, ServerInit, NoSyncYet
<1>1. StoreTypeOK
  BY DEF StoreTypeOK
<1>2. server \in [Calendars -> [Keys -> Versions \cup {Absent}]]
  OBVIOUS
<1>3. listed \subseteq Calendars /\ edits \in 0..MaxEdits /\ snow \in Nat /\ snow <= now
  BY SyncAssumption
<1>4. lastSyncError \in BOOLEAN
  OBVIOUS
<1>5. /\ spc \in {"idle", "full", "push"} /\ lastSyncAt \in Nat \cup {None}
      /\ toFetch \subseteq Calendars /\ seen \subseteq Keys
  OBVIOUS
<1> QED BY <1>1, <1>2, <1>3, <1>4, <1>5 DEF SyncTypeOK

\* The syncs on their own keep the types, whatever happens on the server.
THEOREM SyncTypeCorrect == SyncSpec => []SyncTypeOK
  BY SyncInitType, SyncTypeStep, PTL DEF SyncSpec

\* No row yet, and every object where it belongs.
LEMMA MirrorInit == SyncInit => MirrorInv
<1> SUFFICES ASSUME SyncInit
             PROVE  MirrorInv
  OBVIOUS
<1>1. \A c \in Calendars, k \in Keys : server[c][k] # Absent => c \in Homes[k]
  BY DEF SyncInit, ServerInit
<1> QED BY <1>1 DEF SyncInit, StoreInit, ServerInit, NoSyncYet, MirrorInv, HomeInv

\* When rows can be told apart by their labels, a completed poll leaves tracked
\* exactly what it found qualifying, but for what was DONE: for any number of
\* calendars, any edits between its fetches, polls that failed half way and
\* pushes before it.
THEOREM FullSyncMirrorsServerHolds ==
    ASSUME CalendarsApart
    PROVE  SyncSpec => FullSyncMirrorsServer
<1>1. SyncTypeOK /\ MirrorInv /\ [SyncNext]_allSyncVars => SyncTypeOK' /\ MirrorInv'
  BY SyncTypeStep, MirrorStep
<1>2. SyncTypeOK /\ MirrorInv /\ [SyncNext]_allSyncVars =>
         [spc = "full" /\ toFetch = {} /\ spc' = "idle" =>
            {k \in Keys : Tracked(k)'} = {k \in seen : ~HasStatus(k, {"DONE"})}]_allSyncVars
  BY PollEnds, OutsideEndsNothing, MirrorAtEnd DEF SyncNext
<1> QED BY <1>1, <1>2, MirrorInit, SyncInitType, PTL DEF SyncSpec, FullSyncMirrorsServer

\* The same among ticks and crashes: nothing a tick commits between two polls, or
\* had loaded before one, changes what the next poll leaves tracked.
THEOREM FullSyncMirrorsInTracker ==
    ASSUME CalendarsApart
    PROVE  Spec => FullSyncMirrorsServer
<1>1. Init => MirrorInv
  BY MirrorInit DEF Init
<1>2. TypeOK /\ OneShotInv /\ MirrorInv /\ [Next]_vars => MirrorInv'
  BY MirrorInTracker
<1>3. ASSUME TypeOK, MirrorInv, Next, spc = "full", toFetch = {}, spc' = "idle"
      PROVE  {k \in Keys : Tracked(k)'} = {k \in seen : ~HasStatus(k, {"DONE"})}
  <2>1. SyncInLoop \/ Crash
    BY <1>3, OutsideEndsNothing DEF Next, Outside, TickInLoop
  <2>2. CASE SyncInLoop
    <3>1. SyncStep
      BY <2>2 DEF SyncInLoop, SyncStep
    <3> QED BY <1>3, <3>1, PollEnds, MirrorAtEnd DEF TypeOK
  <2>3. CASE Crash
    BY <1>3, <2>3, MirrorAtEnd DEF TypeOK, Crash, storeVars
  <2> QED BY <2>1, <2>2, <2>3
<1>4. TypeOK /\ MirrorInv /\ [Next]_vars =>
         [spc = "full" /\ toFetch = {} /\ spc' = "idle" =>
            {k \in Keys : Tracked(k)'} = {k \in seen : ~HasStatus(k, {"DONE"})}]_allSyncVars
  BY <1>3 DEF vars, allSyncVars
<1> QED BY <1>1, <1>2, <1>4, InitInv, NextInv, PTL DEF Spec, FullSyncMirrorsServer
=============================================================================
