-------------------------- MODULE TrackerLifecycle --------------------------
(***************************************************************************)
(* The life of a row in Tracker, step by step: every row moves as module   *)
(* EventLifecycle has it and on the word of the calendars that have a say  *)
(* on it, DONE is final, and what stays QUEUED after a sync is beyond the  *)
(* geocode window.                                                         *)
(***************************************************************************)
EXTENDS TrackerSafety

\* What the calendars say of every key.
Says == [k \in Keys |-> Verdicts(k)]

\* What a transaction may make of the status of a row, at time t and where the
\* calendars say what is in `says'.
SameStatus(old, new) ==
    /\ old = NoRow <=> new = NoRow
    /\ old # NoRow => new.status = old.status

RowMove(old, new, t, says) ==
    \/ SameStatus(old, new)
    \/ old = NoRow /\ new # NoRow /\ new.status = "QUEUED" /\ TRUE \in says
    \/ /\ old # NoRow /\ old.status # "DONE" /\ FALSE \in says
       /\ new # NoRow /\ new.status \in {"CANCELLED", "DROPPED"}
    \/ /\ old # NoRow /\ old.status \in {"CANCELLED", "DROPPED"} /\ TRUE \in says
       /\ new # NoRow /\ new.status = "QUEUED"
    \/ /\ old # NoRow /\ old.status = "QUEUED"
       /\ new # NoRow /\ new.status = "ACTIVE"
       /\ new.start = old.start /\ old.start - t <= GeocodeWindow
    \/ /\ old # NoRow /\ old.status \in {"QUEUED", "ACTIVE"}
       /\ new # NoRow /\ new.status = "DONE"
       /\ new.start = old.start /\ old.start <= t

RowsMove(old, new, t, says) == \A k \in Keys : RowMove(old[k], new[k], t, says[k])

\* Reconciliation leaves no row of the geocode window QUEUED.
QueuedFar(rows, t) ==
    \A k \in Keys : rows[k] # NoRow /\ rows[k].status = "QUEUED" =>
        rows[k].start - t > GeocodeWindow

\* Between syncs, and in a push whose fetch may still fail, the rows are as the
\* latest sync has left them.
QueuedInv ==
    /\ spc = "idle" \/ (spc = "push" /\ toFetch # {})
    /\ lastSyncAt # None /\ ~lastSyncError
    => QueuedFar(events, lastSyncAt)

-----------------------------------------------------------------------------
(***************************************************************************)
(* Lemmas about the operators.                                             *)
(***************************************************************************)

\* Setting a status sets it, and nothing else.
LEMMA SetStatus ==
    ASSUME NEW row \in Event, NEW st
    PROVE  /\ [row EXCEPT !.status = st].status = st
           /\ [row EXCEPT !.status = st].start = row.start
  BY DEF Event

\* _upsert_event: a row appears, stays, is closed or is queued again.
LEMMA UpsertMove ==
    ASSUME NEW row \in Row, NEW v \in Version, NEW label \in Labels, NEW t \in Nat, NEW u,
           NEW says, Qualifies(v, t) => TRUE \in says, ~Qualifies(v, t) => FALSE \in says
    PROVE  RowMove(row, UpsertEvent(row, v, label, t), u, says)
<1> DEFINE new == UpsertEvent(row, v, label, t)
<1> DEFINE updated == [row EXCEPT !.start = v.start, !.location = v.location]
<1>1. new \in Row /\ (row # NoRow => new # NoRow)
  BY UpsertType DEF KeepsNotify
<1>2. CASE row = NoRow
  <2>1. NewRow(v, label).status = "QUEUED"
    BY DEF NewRow
  <2>2. new = NoRow \/ (Qualifies(v, t) /\ new = NewRow(v, label))
    BY <1>2 DEF UpsertEvent
  <2> HIDE DEF new
  <2>3. RowMove(row, new, u, says)
    BY <1>2, <2>1, <2>2 DEF RowMove, SameStatus
  <2> QED BY <2>3 DEF new
<1>3. CASE row # NoRow
  <2>1. row \in Event /\ row.status \in EventStatus
    BY <1>3 DEF Row, Event
  <2>2. updated.status = row.status /\ updated \in Event
    BY <2>1 DEF Event, Version
  <2>3. /\ [updated EXCEPT !.status = "CANCELLED"].status = "CANCELLED"
        /\ [updated EXCEPT !.status = "DROPPED"].status = "DROPPED"
        /\ Requeued(updated).status = "QUEUED"
    BY <2>2 DEF Event, Requeued
  <2> HIDE DEF updated
  <2>4. \/ new = updated
        \/ ~Qualifies(v, t) /\ row.status # "DONE" /\ new = [updated EXCEPT !.status = "CANCELLED"]
        \/ ~Qualifies(v, t) /\ row.status # "DONE" /\ new = [updated EXCEPT !.status = "DROPPED"]
        \/ Qualifies(v, t) /\ row.status \in {"CANCELLED", "DROPPED"} /\ new = Requeued(updated)
    BY <1>3 DEF UpsertEvent, updated
  <2> HIDE DEF new
  <2>5. RowMove(row, new, u, says)
    BY <1>1, <1>3, <2>2, <2>3, <2>4 DEF RowMove, SameStatus
  <2> QED BY <2>5 DEF new
<1> QED BY <1>2, <1>3

\* One calendar's transaction.
LEMMA ApplyMove ==
    ASSUME NEW rows \in Rows, NEW name, NEW label \in Labels, NEW t \in Nat, NEW found,
           DOMAIN found \subseteq Keys, \A k \in DOMAIN found : found[k] \in Version, NEW u,
           NEW says,
           \A k \in DOMAIN found : /\ Qualifies(found[k], t) => TRUE \in says[k]
                                   /\ ~Qualifies(found[k], t) => FALSE \in says[k],
           \A k \in Keys : rows[k] # NoRow /\ rows[k].calendar = name /\ k \notin DOMAIN found =>
                              FALSE \in says[k]
    PROVE  RowsMove(rows, ApplyCalendarSync(rows, name, label, found, t), u, says)
<1> SUFFICES ASSUME NEW k \in Keys
             PROVE  RowMove(rows[k], ApplyCalendarSync(rows, name, label, found, t)[k], u, says[k])
    BY DEF RowsMove
<1> DEFINE new == ApplyCalendarSync(rows, name, label, found, t)[k]
<1>1. rows[k] \in Row
  BY DEF Rows
<1>2. \/ new = rows[k]
      \/ k \in DOMAIN found /\ new = UpsertEvent(rows[k], found[k], label, t)
      \/ /\ rows[k] # NoRow /\ rows[k].status \in {"QUEUED", "ACTIVE"}
         /\ rows[k].calendar = name /\ k \notin DOMAIN found
         /\ new = [rows[k] EXCEPT !.status = "DROPPED"]
  BY DEF ApplyCalendarSync
<1>3. rows[k] # NoRow => /\ [rows[k] EXCEPT !.status = "DROPPED"].status = "DROPPED"
                         /\ [rows[k] EXCEPT !.status = "DROPPED"] # NoRow
  BY <1>1, NoRowAssumption DEF Row, Event, EventStatus
<1>4. k \in DOMAIN found => RowMove(rows[k], UpsertEvent(rows[k], found[k], label, t), u, says[k])
  <2> SUFFICES ASSUME k \in DOMAIN found
               PROVE  RowMove(rows[k], UpsertEvent(rows[k], found[k], label, t), u, says[k])
    OBVIOUS
  <2>1. /\ found[k] \in Version
        /\ Qualifies(found[k], t) => TRUE \in says[k]
        /\ ~Qualifies(found[k], t) => FALSE \in says[k]
    OBVIOUS
  <2> DEFINE v == found[k]
  <2> DEFINE row == rows[k]
  <2> DEFINE said == says[k]
  <2>2. /\ v \in Version /\ row \in Row
        /\ Qualifies(v, t) => TRUE \in said
        /\ ~Qualifies(v, t) => FALSE \in said
    BY <1>1, <2>1
  <2> HIDE DEF v, row, said
  <2>3. RowMove(row, UpsertEvent(row, v, label, t), u, said)
    BY <2>2, UpsertMove
  <2> QED BY <2>3 DEF v, row, said
<1> HIDE DEF new
<1>5. RowMove(rows[k], new, u, says[k])
  BY <1>2, <1>3, <1>4 DEF RowMove, SameStatus
<1> QED BY <1>5 DEF new

\* Reconciliation activates what is inside the window and expires what has
\* started, and leaves nothing QUEUED inside the window.
LEMMA ReconcileMove ==
    ASSUME NEW rows \in Rows, NEW t \in Nat, NEW u \in Nat, t <= u, NEW says
    PROVE  /\ RowsMove(rows, ReconcileStates(rows, t), u, says)
           /\ QueuedFar(ReconcileStates(rows, t), t)
<1> SUFFICES ASSUME NEW k \in Keys
             PROVE  /\ RowMove(rows[k], ReconcileStates(rows, t)[k], u, says[k])
                    /\ /\ ReconcileStates(rows, t)[k] # NoRow
                       /\ ReconcileStates(rows, t)[k].status = "QUEUED"
                       => ReconcileStates(rows, t)[k].start - t > GeocodeWindow
    BY DEF RowsMove, QueuedFar
<1> DEFINE new == ReconcileStates(rows, t)[k]
<1>1. rows[k] \in Row
  BY DEF Rows
<1>2. new = Reconcile(rows[k], t)
  BY DEF ReconcileStates
<1>3. CASE rows[k] = NoRow
  BY <1>2, <1>3 DEF Reconcile, RowMove, SameStatus
<1>4. CASE rows[k] # NoRow
  <2>1. rows[k] \in Event /\ rows[k].start \in Int /\ GeocodeWindow \in Nat
    BY <1>1, <1>4, StoreAssumption DEF Row, Event
  <2>2. \A st \in EventStatus : /\ [rows[k] EXCEPT !.status = st] # NoRow
                                /\ [rows[k] EXCEPT !.status = st].status = st
                                /\ [rows[k] EXCEPT !.status = st].start = rows[k].start
    BY <2>1, SetStatus, NoRowAssumption DEF Event
  <2>3. "DONE" \in EventStatus /\ "ACTIVE" \in EventStatus
    BY DEF EventStatus
  <2>4. CASE rows[k].status \in {"QUEUED", "ACTIVE"} /\ rows[k].start <= t
    <3>1. new = [rows[k] EXCEPT !.status = "DONE"] /\ rows[k].start <= u
      BY <1>2, <1>4, <2>1, <2>4 DEF Reconcile
    <3> HIDE DEF new
    <3>2. RowMove(rows[k], new, u, says[k]) /\ new.status = "DONE"
      BY <1>4, <2>2, <2>3, <2>4, <3>1 DEF RowMove
    <3> QED BY <3>2 DEF new
  <2>5. CASE rows[k].status = "QUEUED" /\ rows[k].start > t /\ rows[k].start - t <= GeocodeWindow
    <3>1. new = [rows[k] EXCEPT !.status = "ACTIVE"]
      BY <1>2, <1>4, <2>1, <2>5 DEF Reconcile
    <3>2. rows[k].start - u <= GeocodeWindow
      BY <2>1, <2>5
    <3> HIDE DEF new
    <3>3. RowMove(rows[k], new, u, says[k]) /\ new.status = "ACTIVE"
      BY <1>4, <2>2, <2>3, <2>5, <3>1, <3>2 DEF RowMove
    <3> QED BY <3>3 DEF new
  <2>6. CASE /\ ~(rows[k].status \in {"QUEUED", "ACTIVE"} /\ rows[k].start <= t)
             /\ ~(/\ rows[k].status = "QUEUED" /\ rows[k].start > t
                  /\ rows[k].start - t <= GeocodeWindow)
    <3>1. new = rows[k]
      BY <1>2, <1>4, <2>6 DEF Reconcile
    <3>2. rows[k].status = "QUEUED" => rows[k].start - t > GeocodeWindow
      BY <2>1, <2>6
    <3> QED BY <3>1, <3>2 DEF RowMove, SameStatus
  <2> QED BY <2>4, <2>5, <2>6
<1> QED BY <1>3, <1>4

-----------------------------------------------------------------------------
(***************************************************************************)
(* The steps.                                                              *)
(***************************************************************************)

\* Rows that are left alone do not move.
LEMMA RowsStill ==
    ASSUME NEW rows, NEW t, NEW says
    PROVE  RowsMove(rows, rows, t, says)
  BY DEF RowsMove, RowMove, SameStatus

\* What one calendar's fetch shows is among what the calendars say.
LEMMA VerdictOf ==
    ASSUME NEW c \in Calendars, NEW k \in Keys
    PROVE  LET found == FetchCalendarEvents(c, snow)
           IN  /\ k \in DOMAIN found => /\ Qualifies(found[k], snow) => TRUE \in Says[k]
                                        /\ ~Qualifies(found[k], snow) => FALSE \in Says[k]
               /\ events[k] # NoRow /\ events[k].calendar = CalName[c] /\ k \notin DOMAIN found =>
                     FALSE \in Says[k]
<1> DEFINE found == FetchCalendarEvents(c, snow)
<1> DEFINE answer == Holds(c, k) /\ Qualifies(server[c][k], snow)
<1>1. k \in DOMAIN found <=> Holds(c, k)
  BY DEF FetchCalendarEvents, Holds
<1>2. k \in DOMAIN found => found[k] = server[c][k]
  BY DEF FetchCalendarEvents
<1>3. HasSay(c, k) => answer \in Says[k]
  BY DEF Says, Verdicts
<1>4. answer \in BOOLEAN /\ (answer => answer = TRUE) /\ (~answer => answer = FALSE)
  OBVIOUS
<1>5. /\ k \in DOMAIN found => HasSay(c, k)
      /\ events[k] # NoRow /\ events[k].calendar = CalName[c] => HasSay(c, k)
  BY <1>1 DEF HasSay
<1>6. k \in DOMAIN found => (answer <=> Qualifies(found[k], snow))
  BY <1>1, <1>2
<1>7. k \notin DOMAIN found => ~answer
  BY <1>1
<1> HIDE DEF found, answer
<1>8. /\ k \in DOMAIN found => /\ Qualifies(found[k], snow) => TRUE \in Says[k]
                               /\ ~Qualifies(found[k], snow) => FALSE \in Says[k]
      /\ events[k] # NoRow /\ events[k].calendar = CalName[c] /\ k \notin DOMAIN found =>
            FALSE \in Says[k]
  BY <1>3, <1>4, <1>5, <1>6, <1>7
<1> QED BY <1>8 DEF found

\* One calendar's transaction, in a poll or a push: the rows move, and what is
\* QUEUED has to wait for the reconciliation.
LEMMA LifeOfApply ==
    ASSUME SyncTypeOK, NEW c \in Calendars, NEW label \in Labels,
           events' = ApplyCalendarSync(events, CalName[c], label,
                                       FetchCalendarEvents(c, snow), snow)
    PROVE  RowsMove(events, events', now, Says)
<1> DEFINE found == FetchCalendarEvents(c, snow)
<1>1. snow \in Nat /\ events \in Rows
  BY DEF SyncTypeOK, StoreTypeOK, Rows, Row
<1>2. DOMAIN found \subseteq Keys /\ \A k \in DOMAIN found : found[k] \in Version
  BY <1>1, FetchType DEF SyncTypeOK, StoreTypeOK
<1>3. events' = ApplyCalendarSync(events, CalName[c], label, found, snow)
  OBVIOUS
<1>4. /\ \A k \in DOMAIN found : /\ Qualifies(found[k], snow) => TRUE \in Says[k]
                                 /\ ~Qualifies(found[k], snow) => FALSE \in Says[k]
      /\ \A k \in Keys : events[k] # NoRow /\ events[k].calendar = CalName[c]
                            /\ k \notin DOMAIN found => FALSE \in Says[k]
  <2>1. ASSUME NEW k \in Keys
        PROVE  /\ k \in DOMAIN found => /\ Qualifies(found[k], snow) => TRUE \in Says[k]
                                        /\ ~Qualifies(found[k], snow) => FALSE \in Says[k]
               /\ events[k] # NoRow /\ events[k].calendar = CalName[c] /\ k \notin DOMAIN found =>
                     FALSE \in Says[k]
    BY VerdictOf
  <2> HIDE DEF found
  <2> QED BY <1>2, <2>1
<1> HIDE DEF found
<1> QED BY <1>1, <1>2, <1>3, <1>4, ApplyMove

\* The end of a sync.
LEMMA LifeOfFinish ==
    ASSUME SyncTypeOK, events' = ReconcileStates(events, snow), lastSyncAt' = snow
    PROVE  RowsMove(events, events', now, Says) /\ QueuedInv'
<1>1. snow \in Nat /\ now \in Nat /\ snow <= now /\ events \in Rows
  BY DEF SyncTypeOK, StoreTypeOK, Rows, Row
<1>2. RowsMove(events, events', now, Says) /\ QueuedFar(events', snow)
  BY <1>1, ReconcileMove
<1> QED BY <1>2 DEF QueuedInv

\* A sync step: every row moves as it may, and the reconciliation has the last
\* word on what stays QUEUED.
LEMMA LifeOfSync ==
    ASSUME SyncTypeOK, QueuedInv, SyncStep
    PROVE  UNCHANGED now /\ RowsMove(events, events', now, Says) /\ QueuedInv'
<1>still. UNCHANGED events => RowsMove(events, events', now, Says)
  BY RowsStill
<1>1. CASE FullSyncStart
  BY <1>1, <1>still DEF FullSyncStart, storeVars, QueuedInv
<1>2. CASE DiscoveryFails
  BY <1>2, <1>still DEF DiscoveryFails, storeVars, QueuedInv
<1>3. ASSUME NEW c \in Calendars, SyncCalendar(c)
      PROVE  UNCHANGED now /\ RowsMove(events, events', now, Says) /\ QueuedInv'
  <2>1. CalName[c] \in Labels
    BY DEF Labels
  <2>2. RowsMove(events, events', now, Says)
    BY <1>3, <2>1, LifeOfApply DEF SyncCalendar
  <2> QED BY <1>3, <2>2 DEF SyncCalendar, QueuedInv
<1>4. CASE FetchFails
  BY <1>4, <1>still DEF FetchFails, storeVars, QueuedInv
<1>5. CASE FullSyncFinish
  BY <1>5, LifeOfFinish DEF FullSyncFinish
<1>6. ASSUME NEW c \in PushCalendars, PushStart(c)
      PROVE  UNCHANGED now /\ RowsMove(events, events', now, Says) /\ QueuedInv'
  BY <1>6, <1>still DEF PushStart, storeVars, QueuedInv
<1>7. ASSUME NEW c \in Calendars, ResyncCalendar(c)
      PROVE  UNCHANGED now /\ RowsMove(events, events', now, Says) /\ QueuedInv'
  <2>1. PushLabel(c) \in Labels
    BY DEF Labels, PushLabel
  <2>2. RowsMove(events, events', now, Says)
    BY <1>7, <2>1, LifeOfApply DEF ResyncCalendar
  <2> QED BY <1>7, <2>2 DEF ResyncCalendar, QueuedInv
<1>8. CASE ResyncFails
  BY <1>8, <1>still DEF ResyncFails, storeVars, QueuedInv
<1>9. CASE ResyncFinish
  BY <1>9, LifeOfFinish DEF ResyncFinish
<1> QED
  BY <1>1, <1>2, <1>3, <1>4, <1>5, <1>6, <1>7, <1>8, <1>9
  DEF SyncStep, SyncSucceeds, SyncFails

\* Every step: the clock does not go back, the rows move, and what the latest
\* sync has left QUEUED is where it was.
LEMMA LifeStep ==
    ASSUME TypeOK, OneShotInv, QueuedInv, [Next]_vars
    PROVE  now <= now' /\ RowsMove(events, events', now, Says) /\ QueuedInv'
<1>0. SyncTypeOK /\ SessionInv /\ now \in Nat /\ now <= now
  BY DEF TypeOK, SyncTypeOK, StoreTypeOK, OneShotInv
<1>1. CASE UNCHANGED vars
  <2>1. UNCHANGED <<events, now, spc, toFetch, lastSyncAt, lastSyncError>>
    BY <1>1 DEF vars, storeVars, syncVars
  <2> QED BY <1>0, <2>1, RowsStill DEF QueuedInv
<1>2. CASE Outside
  <2>1. UNCHANGED <<events, syncVars>> /\ now <= now'
    BY <1>0, <1>2 DEF Outside, Environment, Advance, RemoveCalendar, Edit, storeVars
  <2> QED BY <2>1, RowsStill DEF QueuedInv, syncVars
<1>3. CASE SyncInLoop
  <2>1. SyncStep
    BY <1>3 DEF SyncInLoop, SyncStep
  <2> QED BY <1>0, <2>1, LifeOfSync
<1>4. CASE TickInLoop
  <2>1. TickStep /\ UNCHANGED syncVars
    BY <1>4 DEF TickInLoop
  <2>2. UNCHANGED <<now, spc, toFetch, lastSyncAt, lastSyncError>>
    BY <1>0, <2>1, TickCalendar DEF syncVars
  <2>3. \A k \in Keys : /\ SameStatus(events[k], events'[k])
                        /\ events[k] # NoRow => events'[k].start = events[k].start
    BY <1>0, <2>1, TickCalendar, NoRowAssumption DEF SameStatus
  <2>4. RowsMove(events, events', now, Says)
    BY <2>3 DEF RowsMove, RowMove
  <2>5. \A t : QueuedFar(events, t) => QueuedFar(events', t)
    BY <2>3 DEF QueuedFar, SameStatus
  <2> QED BY <1>0, <2>2, <2>4, <2>5 DEF QueuedInv
<1>5. CASE Crash
  <2>1. UNCHANGED <<events, now>> /\ lastSyncAt' = None
    BY <1>5 DEF Crash, ForgetSync, storeVars
  <2> QED BY <1>0, <2>1, RowsStill DEF QueuedInv
<1> QED BY <1>1, <1>2, <1>3, <1>4, <1>5 DEF Next

LEMMA LifeInv == Spec => [](TypeOK /\ OneShotInv /\ QueuedInv)
<1>1. Init => QueuedInv
  BY DEF Init, SyncInit, NoSyncYet, QueuedInv
<1>2. TypeOK /\ OneShotInv /\ QueuedInv /\ [Next]_vars => QueuedInv'
  BY LifeStep
<1> QED BY <1>1, <1>2, InitInv, NextInv, PTL DEF Spec

-----------------------------------------------------------------------------
(***************************************************************************)
(* The theorems.                                                           *)
(***************************************************************************)

\* DONE is final: whatever the calendar says later of an expired event, no
\* sync, tick or restart brings it back.
THEOREM DoneIsFinalHolds == Spec => DoneIsFinal
<1>1. ASSUME NEW k \in Keys, RowMove(events[k], events'[k], now, Says[k]), HasStatus(k, {"DONE"})
      PROVE  HasStatus(k, {"DONE"})'
  BY <1>1 DEF RowMove, SameStatus, HasStatus
<1>2. TypeOK /\ OneShotInv /\ QueuedInv /\ [Next]_vars =>
         [\A k \in Keys : HasStatus(k, {"DONE"}) => HasStatus(k, {"DONE"})']_allSyncVars
  BY <1>1, LifeStep DEF RowsMove
<1> QED BY <1>2, LifeInv, PTL DEF Spec, DoneIsFinal

\* Between syncs, and unless the latest poll failed half way, whatever is still
\* QUEUED was beyond the geocode window when the latest sync ran.
THEOREM QueuedBeyondWindowHolds == Spec => []QueuedBeyondWindow
<1>1. QueuedInv => QueuedBeyondWindow
  BY DEF QueuedInv, QueuedFar, QueuedBeyondWindow, HasStatus
<1> QED BY <1>1, LifeInv, PTL

\* A move of the row is a move of the life cycle.
LEMMA MoveOfRow ==
    ASSUME NEW k \in Keys, events[k] \in Row, RowMove(events[k], events'[k], now, Says[k])
    PROVE  Lifecycle!Move(k)
<1> DEFINE old == events[k]
<1> DEFINE new == events'[k]
<1>0. old # NoRow => old.status \in EventStatus
  BY DEF Row, Event
<1>1. /\ [j \in Keys |-> StatusOf(j)][k] = IF old = NoRow THEN NoRow ELSE old.status
      /\ [j \in Keys |-> StatusOf(j)]'[k] = IF new = NoRow THEN NoRow ELSE new.status
      /\ [j \in Keys |-> StartOf(j)][k] = IF old = NoRow THEN NoRow ELSE old.start
      /\ [j \in Keys |-> StartOf(j)]'[k] = IF new = NoRow THEN NoRow ELSE new.start
  BY DEF StatusOf, StartOf
<1>2. RowMove(old, new, now, Says[k])
  OBVIOUS
<1> HIDE DEF old, new
<1>3. CASE SameStatus(old, new)
  <2>1. Lifecycle!Stay(k)
    BY <1>1, <1>3 DEF SameStatus, Lifecycle!Stay
  <2> QED BY <2>1 DEF Lifecycle!Move
<1>s. [j \in Keys |-> Verdicts(j)][k] = Says[k]
  BY DEF Says
<1>4. CASE old = NoRow /\ new # NoRow /\ new.status = "QUEUED" /\ TRUE \in Says[k]
  <2>1. Lifecycle!Appear(k)
    BY <1>1, <1>4, <1>s DEF Lifecycle!Appear, Lifecycle!Qualifies
  <2> QED BY <2>1 DEF Lifecycle!Move
<1>5. CASE /\ old # NoRow /\ old.status \in EventStatus \ {"DONE"} /\ FALSE \in Says[k]
           /\ new # NoRow /\ new.status \in {"CANCELLED", "DROPPED"}
  <2>1. Lifecycle!Close(k)
    BY <1>1, <1>5, <1>s
    DEF Lifecycle!Close, Lifecycle!Open, Lifecycle!Closed, Lifecycle!NotQualifies, EventStatus
  <2> QED BY <2>1 DEF Lifecycle!Move
<1>6. CASE /\ old # NoRow /\ old.status \in {"CANCELLED", "DROPPED"} /\ TRUE \in Says[k]
           /\ new # NoRow /\ new.status = "QUEUED"
  <2>1. Lifecycle!Requeue(k)
    BY <1>1, <1>6, <1>s DEF Lifecycle!Requeue, Lifecycle!Closed, Lifecycle!Qualifies
  <2> QED BY <2>1 DEF Lifecycle!Move
<1>7. CASE /\ old # NoRow /\ old.status = "QUEUED"
           /\ new # NoRow /\ new.status = "ACTIVE"
           /\ new.start = old.start /\ old.start - now <= GeocodeWindow
  <2>1. Lifecycle!Activate(k)
    BY <1>1, <1>7 DEF Lifecycle!Activate
  <2> QED BY <2>1 DEF Lifecycle!Move
<1>8. CASE /\ old # NoRow /\ old.status \in {"QUEUED", "ACTIVE"}
           /\ new # NoRow /\ new.status = "DONE"
           /\ new.start = old.start /\ old.start <= now
  <2>1. Lifecycle!Expire(k)
    BY <1>1, <1>8 DEF Lifecycle!Expire, Lifecycle!Open
  <2> QED BY <2>1 DEF Lifecycle!Move
<1> QED BY <1>0, <1>2, <1>3, <1>4, <1>5, <1>6, <1>7, <1>8 DEF RowMove

\* Every row lives a life of EventLifecycle: Tracker, with all that may happen
\* between its steps, appears, closes and requeues a row only on the word of a
\* calendar with a say on it, and activates and expires it only when it is time.
THEOREM FollowsLifecycleHolds == Spec => FollowsLifecycle
<1>1. Init => Lifecycle!Init
  <2> SUFFICES ASSUME Init
               PROVE  Lifecycle!Init
    OBVIOUS
  <2>1. now = 0 /\ \A k \in Keys : StatusOf(k) = NoRow /\ StartOf(k) = NoRow
    BY DEF Init, SyncInit, StoreInit, StatusOf, StartOf
  <2> QED BY <2>1 DEF Lifecycle!Init
<1>2. ASSUME TypeOK, OneShotInv, QueuedInv, [Next]_vars, TypeOK'
      PROVE  Lifecycle!Next
  <2>1. now' >= now
    BY <1>2, LifeStep DEF TypeOK, SyncTypeOK, StoreTypeOK
  <2>2. \A k \in Keys : StatusOf(k)' \in EventStatus \cup {NoRow}
    BY <1>2 DEF TypeOK, SyncTypeOK, StoreTypeOK, StatusOf, Event
  <2>3. \A k \in Keys : Lifecycle!Move(k)
    BY <1>2, LifeStep, MoveOfRow DEF RowsMove, TypeOK, SyncTypeOK, StoreTypeOK, Row
  <2> QED BY <2>1, <2>2, <2>3 DEF Lifecycle!Next, Lifecycle!Open, Lifecycle!Closed, EventStatus
<1> QED BY <1>1, <1>2, LifeInv, PTL DEF Spec, FollowsLifecycle, Lifecycle!Spec
=============================================================================
