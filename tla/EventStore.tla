----------------------------- MODULE EventStore -----------------------------
(***************************************************************************)
(* The `events' table of when2leave/db.py and the clock every component    *)
(* reads.  A row stands for one event instance, found by its unique        *)
(* (uid, recurrence_id).  Rows are inserted and updated, never deleted.    *)
(*                                                                         *)
(* Columns nothing reads back (title, end, transp, ical_status,            *)
(* created_at) and updated_at, which only the dashboard shows, are left    *)
(* out.  The resolved coordinates are modelled by the address text they    *)
(* are the geocoding result of: `resolved = L' says that resolved_lat and  *)
(* resolved_lon are where address L was found.                             *)
(***************************************************************************)
EXTENDS Notifier

CONSTANTS
    Keys,          \* the (uid, recurrence_id) pairs
    Calendars,     \* the calendar collections, by URL
    CalName,       \* CalName[c]: cal.name or str(cal.url), as discovered
    Locations,     \* the non-empty LOCATION texts
    NoLocation,    \* an empty or blank LOCATION
    NoRow,         \* no row with this key
    GeocodeWindow, \* GEOCODE_WINDOW
    Horizon        \* bound: the clock of the model stops here

ASSUME StoreAssumption ==
    /\ NoLocation \notin Locations
    /\ None \notin Locations \cup {NoLocation}
    /\ None \notin Keys
    /\ GeocodeWindow \in Nat
    /\ Horizon \in Nat

\* What the `calendar' column can hold.
Labels == Calendars \cup {CalName[c] : c \in Calendars}

EventStatus == {"QUEUED", "ACTIVE", "DONE", "CANCELLED", "DROPPED"}

Event == [calendar     : Labels,
          start        : Int,
          location     : Locations \cup {NoLocation},
          status       : EventStatus,
          resolved     : Locations \cup {None, NoLocation},
          leaveAt      : MaybeTime,
          notify       : NotifyState,
          lastNotified : MaybeTime]

ASSUME NoRowAssumption == NoRow \notin Event

VARIABLES
    events,   \* the committed rows: events[k] is a row or NoRow
    now       \* datetime.now(tz=UTC)

storeVars == <<events, now>>

StoreTypeOK ==
    /\ events \in [Keys -> Event \cup {NoRow}]
    /\ now \in Nat

StoreInit ==
    /\ events = [k \in Keys |-> NoRow]
    /\ now = 0

-----------------------------------------------------------------------------
HasStatus(k, S) == events[k] # NoRow /\ events[k].status \in S

\* The rows a sync may drop or expire, and the dashboard lists as upcoming.
Tracked(k) == HasStatus(k, {"QUEUED", "ACTIVE"})

Advance ==
    /\ now < Horizon
    /\ now' = now + 1
    /\ UNCHANGED events
=============================================================================
