---------------------------- MODULE CalendarSync ----------------------------
(***************************************************************************)
(* Calendar synchronisation: Tracker.full_sync (the poll) and              *)
(* Tracker.resync_calendar (a DAV Push message), with the CalDAV server    *)
(* they read from.                                                         *)
(*                                                                         *)
(* Neither coroutine awaits anything, so a sync holds the event loop from  *)
(* its first step to its last.  What can still happen between two of its   *)
(* steps is outside the process: the clock, an edit on the server, a       *)
(* crash.  A sync is therefore split where it reads the server and where   *)
(* it commits: one step per calendar, one for the reconciliation.          *)
(***************************************************************************)
EXTENDS EventStore

CONSTANTS
    Versions,       \* what a calendar object can say of its event
    Absent,         \* the calendar has no object for this key
    Homes,          \* Homes[k]: the calendars key k is ever put in
    Removable,      \* the calendars somebody may delete
    Selected,       \* the calendars CALENDAR_FILTER lets a poll discover
    PushCalendars,  \* those with a DAV Push subscription, maybe of a time when
                    \* the filter was another
    Lookahead,      \* DEFAULT_LOOKAHEAD_DAYS
    MaxEdits        \* bound on the changes made on the server

\* `end' decides what a time-range query returns; `busy' is TRANSP:OPAQUE,
\* `cancelled' STATUS:CANCELLED, and `parses' is FALSE for an object whose
\* expansion raises.
Version == [start     : Int,
            end       : Int,
            location  : Locations \cup {NoLocation},
            busy      : BOOLEAN,
            cancelled : BOOLEAN,
            parses    : BOOLEAN]

ASSUME SyncAssumption ==
    /\ Versions \subseteq Version
    /\ Absent \notin Version
    /\ Homes \in [Keys -> SUBSET Calendars]
    /\ Removable \subseteq Calendars
    /\ Selected \subseteq Calendars
    /\ PushCalendars \subseteq Calendars
    /\ Lookahead \in Nat
    /\ MaxEdits \in Nat

VARIABLES
    server,         \* server[c][k]: the object of key k in calendar c
    listed,         \* the calendars there are
    edits,          \* changes made on the server so far
    spc,            \* what the event loop is doing for a sync
    snow,           \* the `now' the running sync started with, else 0
    toFetch,        \* the calendars the running sync has not fetched yet
    seen,           \* history: keys the running full sync found qualifying
    lastSyncAt,     \* ServiceStatus.last_sync_at
    lastSyncError   \* ServiceStatus.last_sync_error is not None

serverVars == <<server, listed, edits>>
syncVars   == <<spc, snow, toFetch, seen, lastSyncAt, lastSyncError>>

SyncTypeOK ==
    /\ StoreTypeOK
    /\ server \in [Calendars -> [Keys -> Versions \cup {Absent}]]
    /\ listed \subseteq Calendars
    /\ edits \in 0..MaxEdits
    /\ spc \in {"idle", "full", "push"}
    /\ snow \in Nat /\ snow <= now
    /\ toFetch \subseteq Calendars
    /\ seen \subseteq Keys
    /\ lastSyncAt \in Nat \cup {None}
    /\ lastSyncError \in BOOLEAN

\* ServiceStatus lives in memory: a new process knows nothing.
NoSyncYet ==
    /\ spc = "idle" /\ snow = 0 /\ toFetch = {} /\ seen = {}
    /\ lastSyncAt = None /\ lastSyncError = FALSE

ForgetSync ==
    /\ spc' = "idle" /\ snow' = 0 /\ toFetch' = {} /\ seen' = {}
    /\ lastSyncAt' = None /\ lastSyncError' = FALSE

ServerInit ==
    /\ server \in {s \in [Calendars -> [Keys -> Versions \cup {Absent}]] :
                     \A c \in Calendars, k \in Keys :
                        c \notin Homes[k] => s[c][k] = Absent}
    /\ listed = Calendars
    /\ edits = 0

-----------------------------------------------------------------------------
(***************************************************************************)
(* The server.                                                             *)
(***************************************************************************)

\* Somebody creates, changes or deletes an event, or deletes a calendar.
Edit(c, k) ==
    /\ edits < MaxEdits
    /\ c \in Homes[k] \cap listed
    /\ \E v \in (Versions \cup {Absent}) \ {server[c][k]} :
          server' = [server EXCEPT ![c][k] = v]
    /\ edits' = edits + 1
    /\ UNCHANGED <<listed, syncVars, storeVars>>

RemoveCalendar(c) ==
    /\ edits < MaxEdits
    /\ c \in Removable \cap listed
    /\ listed' = listed \ {c}
    /\ edits' = edits + 1
    /\ UNCHANGED <<server, syncVars, storeVars>>

\* A time-range query returns what overlaps [t, t + Lookahead); an object
\* that does not parse is logged and skipped.
Returned(v, t) ==
    /\ v.parses
    /\ v.start < t + Lookahead
    /\ v.start >= t \/ v.end > t

FetchCalendarEvents(c, t) ==
    [k \in {k \in Keys : server[c][k] # Absent /\ Returned(server[c][k], t)}
        |-> server[c][k]]

-----------------------------------------------------------------------------
(***************************************************************************)
(* The rows.                                                               *)
(***************************************************************************)

Qualifies(v, t) ==
    v.location # NoLocation /\ v.busy /\ ~v.cancelled /\ v.start > t

NewRow(v, label) ==
    [calendar |-> label, start |-> v.start, location |-> v.location,
     status |-> "QUEUED", resolved |-> None, leaveAt |-> None,
     notify |-> "NONE", lastNotified |-> None]

\* Mutant: notify_state is cleared to None instead of NotifyState.NONE.
RequeuedToNull(row) ==
    [row EXCEPT !.status = "QUEUED", !.notify = None, !.resolved = None]

\* leave_at and last_notified_leave_at keep their old values.
Requeued(row) ==
    [row EXCEPT !.status = "QUEUED", !.notify = "NONE", !.resolved = None]

\* Mutant: rows whose event no longer qualifies are left alone.
UpsertKeepsUnqualified(row, v, label, t) ==
    IF row = NoRow
    THEN IF Qualifies(v, t) THEN NewRow(v, label) ELSE NoRow
    ELSE [row EXCEPT !.start = v.start, !.location = v.location]

\* Mutant: a row that qualifies again is requeued whatever its status.
UpsertRequeuesAlways(row, v, label, t) ==
    IF row = NoRow
    THEN IF Qualifies(v, t) THEN NewRow(v, label) ELSE NoRow
    ELSE IF Qualifies(v, t)
         THEN Requeued([row EXCEPT !.start = v.start, !.location = v.location])
         ELSE [row EXCEPT !.start = v.start, !.location = v.location,
                          !.status = "DROPPED"]

\* _upsert_event: the `calendar' column is written on insertion only, and a
\* new location does not clear the coordinates of the old one.
UpsertEvent(row, v, label, t) ==
    LET updated == [row EXCEPT !.start = v.start, !.location = v.location]
    IN  CASE row = NoRow /\ Qualifies(v, t)  -> NewRow(v, label)
          [] row = NoRow /\ ~Qualifies(v, t) -> NoRow
          [] row # NoRow /\ ~Qualifies(v, t) ->
                IF row.status = "DONE" THEN updated
                ELSE [updated EXCEPT
                        !.status = IF v.cancelled THEN "CANCELLED" ELSE "DROPPED"]
          [] row # NoRow /\ Qualifies(v, t) ->
                IF row.status \in {"CANCELLED", "DROPPED"} THEN Requeued(updated)
                ELSE updated

\* Mutant: nothing is dropped.
ApplyWithoutDrop(rows, name, label, found, t) ==
    [k \in Keys |-> IF k \in DOMAIN found
                    THEN UpsertEvent(rows[k], found[k], label, t)
                    ELSE rows[k]]

\* Mutant: the drop query forgets to ask for the calendar.
ApplyDropsOthers(rows, name, label, found, t) ==
    [k \in Keys |->
       IF k \in DOMAIN found THEN UpsertEvent(rows[k], found[k], label, t)
       ELSE IF rows[k] # NoRow /\ rows[k].status \in {"QUEUED", "ACTIVE"}
            THEN [rows[k] EXCEPT !.status = "DROPPED"]
       ELSE rows[k]]

\* _apply_calendar_sync, one transaction: upsert what was found, drop the
\* tracked rows that carry the calendar's name and were not found.  `label'
\* is the name fetch_calendar_events gave the parsed events.
ApplyCalendarSync(rows, name, label, found, t) ==
    LET gone(row) == /\ row # NoRow
                     /\ row.calendar = name
                     /\ row.status \in {"QUEUED", "ACTIVE"}
    IN  [k \in Keys |->
           IF k \in DOMAIN found THEN UpsertEvent(rows[k], found[k], label, t)
           ELSE IF gone(rows[k]) THEN [rows[k] EXCEPT !.status = "DROPPED"]
           ELSE rows[k]]

\* Mutant: started events are not expired.
ReconcileWithoutExpiry(row, t) ==
    IF row # NoRow /\ row.status = "QUEUED" /\ row.start - t <= GeocodeWindow
    THEN [row EXCEPT !.status = "ACTIVE"]
    ELSE row

\* Mutant: the window is open at its far end.
ReconcileOpenWindow(row, t) ==
    CASE row = NoRow                           -> row
      [] row # NoRow
         /\ row.status \in {"QUEUED", "ACTIVE"}
         /\ row.start <= t                     -> [row EXCEPT !.status = "DONE"]
      [] row # NoRow
         /\ row.status = "QUEUED" /\ row.start > t
         /\ row.start - t < GeocodeWindow      -> [row EXCEPT !.status = "ACTIVE"]
      [] OTHER                                 -> row

Reconcile(row, t) ==
    CASE row = NoRow                           -> row
      [] row # NoRow
         /\ row.status \in {"QUEUED", "ACTIVE"}
         /\ row.start <= t                     -> [row EXCEPT !.status = "DONE"]
      [] row # NoRow
         /\ row.status = "QUEUED" /\ row.start > t
         /\ row.start - t <= GeocodeWindow     -> [row EXCEPT !.status = "ACTIVE"]
      [] OTHER                                 -> row

ReconcileStates(rows, t) == [k \in Keys |-> Reconcile(rows[k], t)]

-----------------------------------------------------------------------------
(***************************************************************************)
(* full_sync: discovery, one fetch and one transaction per calendar, the   *)
(* reconciliation.  A failure leaves the calendars before it committed.    *)
(***************************************************************************)

FullSyncStart ==
    /\ spc = "idle"
    /\ spc' = "full" /\ snow' = now /\ toFetch' = listed \cap Selected /\ seen' = {}
    /\ UNCHANGED <<serverVars, storeVars, lastSyncAt, lastSyncError>>

DiscoveryFails ==
    /\ spc = "idle"
    /\ lastSyncError' = TRUE
    /\ UNCHANGED <<serverVars, storeVars, spc, snow, toFetch, seen, lastSyncAt>>

SyncCalendar(c) ==
    LET found == FetchCalendarEvents(c, snow)
    IN  /\ spc = "full"
        /\ c \in toFetch \cap listed
        /\ events' = ApplyCalendarSync(events, CalName[c], CalName[c], found, snow)
        /\ toFetch' = toFetch \ {c}
        /\ seen' = seen \cup {k \in DOMAIN found : Qualifies(found[k], snow)}
        /\ UNCHANGED <<serverVars, now, spc, snow, lastSyncAt, lastSyncError>>

\* An outage, or a calendar deleted since discovery.
FetchFails ==
    /\ spc = "full"
    /\ toFetch # {}
    /\ spc' = "idle" /\ snow' = 0 /\ toFetch' = {} /\ seen' = {}
    /\ lastSyncError' = TRUE
    /\ UNCHANGED <<serverVars, storeVars, lastSyncAt>>

FullSyncFinish ==
    /\ spc = "full"
    /\ toFetch = {}
    /\ events' = ReconcileStates(events, snow)
    /\ spc' = "idle" /\ snow' = 0 /\ seen' = {}
    /\ lastSyncAt' = snow /\ lastSyncError' = FALSE
    /\ UNCHANGED <<serverVars, now, toFetch>>

-----------------------------------------------------------------------------
(***************************************************************************)
(* resync_calendar: the background task of an accepted push message.       *)
(***************************************************************************)

PushStart(c) ==
    /\ spc = "idle"
    /\ c \in PushCalendars
    /\ spc' = "push" /\ snow' = now /\ toFetch' = {c}
    /\ UNCHANGED <<serverVars, storeVars, seen, lastSyncAt, lastSyncError>>

\* The Calendar object is built from the URL alone, so its name is None and
\* the parsed events carry the URL.
PushLabel(c) == c

\* The rows are dropped by the subscription's calendar_name.  Neither discovery
\* nor the filter is asked: the calendar only has to exist.
ResyncCalendar(c) ==
    /\ spc = "push"
    /\ c \in toFetch \cap listed
    /\ events' = ApplyCalendarSync(events, CalName[c], PushLabel(c),
                                   FetchCalendarEvents(c, snow), snow)
    /\ toFetch' = {}
    /\ UNCHANGED <<serverVars, now, spc, snow, seen, lastSyncAt, lastSyncError>>

\* The exception ends the background task; last_sync_error is not touched.
ResyncFails ==
    /\ spc = "push"
    /\ toFetch # {}
    /\ spc' = "idle" /\ snow' = 0 /\ toFetch' = {}
    /\ UNCHANGED <<serverVars, storeVars, seen, lastSyncAt, lastSyncError>>

ResyncFinish ==
    /\ spc = "push"
    /\ toFetch = {}
    /\ events' = ReconcileStates(events, snow)
    /\ spc' = "idle" /\ snow' = 0
    /\ lastSyncAt' = snow
    /\ UNCHANGED <<serverVars, now, toFetch, seen, lastSyncError>>

-----------------------------------------------------------------------------
SyncInit == StoreInit /\ ServerInit /\ NoSyncYet

Environment ==
    \/ Advance /\ UNCHANGED <<serverVars, syncVars>>
    \/ \E c \in Calendars : RemoveCalendar(c) \/ \E k \in Keys : Edit(c, k)

SyncFails == DiscoveryFails \/ FetchFails \/ ResyncFails

SyncSucceeds ==
    \/ FullSyncFinish \/ ResyncFinish
    \/ \E c \in Calendars : SyncCalendar(c) \/ ResyncCalendar(c)

SyncStep ==
    FullSyncStart \/ SyncSucceeds \/ SyncFails \/ \E c \in PushCalendars : PushStart(c)

SyncNext == Environment \/ SyncStep

allSyncVars == <<storeVars, serverVars, syncVars>>

SyncSpec == SyncInit /\ [][SyncNext]_allSyncVars

\* The clock goes on, the poll fires again and again, a sync that has begun
\* runs to its end, and from some time on only deleted calendars cannot be
\* fetched: outages do not last for ever.
FairSyncSpec ==
    /\ SyncSpec
    /\ WF_now(Advance /\ UNCHANGED <<serverVars, syncVars>>)
    /\ SF_allSyncVars(FullSyncStart)
    /\ WF_allSyncVars(SyncSucceeds \/ FetchFails \/ ResyncFails)
    /\ <>[][SyncFails => ~(toFetch \subseteq listed)]_allSyncVars

-----------------------------------------------------------------------------
(***************************************************************************)
(* What a sync promises.                                                   *)
(***************************************************************************)

\* Whoever is tracked after the latest sync, poll or push, starts after it:
\* no row a sync has dealt with is left QUEUED or ACTIVE past its start,
\* also while the next sync is only half applied.
StartsAfterLastSync ==
    lastSyncAt # None =>
        \A k \in Keys : Tracked(k) => events[k].start > lastSyncAt

\* Reconciliation promotes every row inside GEOCODE_WINDOW: between syncs, and
\* unless the latest poll failed half way, a QUEUED row is beyond the window
\* as it was when the latest sync ran.
QueuedBeyondWindow ==
    spc = "idle" /\ lastSyncAt # None /\ ~lastSyncError =>
        \A k \in Keys : HasStatus(k, {"QUEUED"}) =>
            events[k].start - lastSyncAt > GeocodeWindow

\* A completed full sync leaves tracked exactly the events it found qualifying
\* somewhere, but for rows that were DONE before: nothing deleted, moved out
\* of the window or no longer qualifying survives, and nothing that qualifies
\* is missed, whatever was tracked before.
FullSyncMirrorsServer ==
    [][spc = "full" /\ toFetch = {} /\ spc' = "idle" =>
          {k \in Keys : Tracked(k)'} = {k \in seen : ~HasStatus(k, {"DONE"})}]_allSyncVars

\* DONE is final: no sync brings an expired event back, whatever the calendar
\* now says of it.
DoneIsFinal ==
    [][\A k \in Keys : HasStatus(k, {"DONE"}) => HasStatus(k, {"DONE"})']_allSyncVars

\* What the calendars that have a say on a key would make of it in a sync at
\* snow: TRUE where one holds an object that qualifies, FALSE where one holds an
\* object that does not, or has labelled the row and holds none any more.
Holds(c, k) == server[c][k] # Absent /\ Returned(server[c][k], snow)

HasSay(c, k) == Holds(c, k) \/ (events[k] # NoRow /\ events[k].calendar = CalName[c])

Verdicts(k) ==
    {Holds(c, k) /\ Qualifies(server[c][k], snow) : c \in {d \in Calendars : HasSay(d, k)}}

\* Each row lives a life of module EventLifecycle: nothing is tracked, closed or
\* tracked again but on the word of a calendar that has a say on it, nothing
\* becomes ACTIVE before the window or DONE before its start, and nothing DONE
\* ever moves again, however the syncs of the calendars follow one another.
StatusOf(k) == IF events[k] = NoRow THEN NoRow ELSE events[k].status
StartOf(k)  == IF events[k] = NoRow THEN NoRow ELSE events[k].start

Lifecycle == INSTANCE EventLifecycle
    WITH Window <- GeocodeWindow, Unknown <- NoRow, clock <- now,
         status   <- [k \in Keys |-> StatusOf(k)],
         start    <- [k \in Keys |-> StartOf(k)],
         verdicts <- [k \in Keys |-> Verdicts(k)]

FollowsLifecycle == Lifecycle!Spec

\* Every tracked event leaves the tracked states in the end: its start passes,
\* and some later sync expires or drops its row.
TrackedEventually ==
    \A k \in Keys : Tracked(k) ~> ~Tracked(k)
=============================================================================
