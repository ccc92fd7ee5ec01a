------------------------------ MODULE Tracker -------------------------------
(***************************************************************************)
(* The whole service: syncs and recompute ticks sharing one event loop and *)
(* one database, from start-up on, with crashes and restarts.              *)
(*                                                                         *)
(* A sync never awaits, so it runs only while the tick is suspended at one *)
(* of its awaits, and the tick goes on only when no sync is running.       *)
(***************************************************************************)
EXTENDS CalendarSync, Recompute

CONSTANTS MaxCrashes    \* bound on the crashes

ASSUME TrackerAssumption == MaxCrashes \in Nat

VARIABLES
    stage,     \* the lifespan: the initial "sync", the initial "tick", then
               \* "running", when the scheduler and the web server are up
    crashes    \* crashes so far

vars == <<storeVars, serverVars, syncVars, tickVars, cache, historyVars,
          stage, crashes>>

TypeOK ==
    /\ SyncTypeOK
    /\ TickTypeOK
    /\ stage \in {"sync", "tick", "running"}
    /\ crashes \in 0..MaxCrashes

Init ==
    /\ SyncInit
    /\ TickInit
    /\ stage = "sync" /\ crashes = 0

-----------------------------------------------------------------------------
\* A row that becomes QUEUED starts a new notification cycle.
NewCycle(k) == HasStatus(k, {"QUEUED"})' /\ ~HasStatus(k, {"QUEUED"})

HistoryOfSync ==
    /\ shots' = [k \in Keys |-> IF NewCycle(k) THEN 0 ELSE shots[k]]
    /\ heard' = [k \in Keys |-> IF NewCycle(k) THEN 0 ELSE heard[k]]
    /\ unsent' = {k \in unsent : ~NewCycle(k)}

LoopFree == tpc # "next"

\* The initial sync, failed or not, is followed by the initial tick.
SyncInLoop ==
    /\ LoopFree
    /\ \/ stage = "running" /\ SyncStep
       \/ stage = "sync" /\ (FullSyncStart \/ SyncSucceeds \/ SyncFails)
    /\ HistoryOfSync
    /\ stage' = IF stage = "sync" /\ spc' = "idle" THEN "tick" ELSE stage
    /\ UNCHANGED <<tickVars, cache, crashes>>

TickInLoop ==
    /\ spc = "idle"
    /\ stage \in {"tick", "running"}
    /\ TickStep
    /\ stage' = IF stage = "tick" /\ tpc' = "idle" THEN "running" ELSE stage
    /\ UNCHANGED <<serverVars, syncVars, crashes>>

\* The process dies and starts again: its memory and the tick's session are
\* lost, committed rows and the geocode cache are not.  scheduler.shutdown
\* (wait=False) at an orderly stop does the same to a running tick.
Undecided(k) == loaded[k] # NoRow /\ loaded[k].notify # sess[k].notify

Crash ==
    /\ crashes < MaxCrashes
    /\ crashes' = crashes + 1
    /\ ForgetSync /\ EndTick /\ stage' = "sync"
    /\ shots' = [k \in Keys |-> IF Undecided(k) THEN 0 ELSE shots[k]]
    /\ unsent' = {k \in unsent : ~Undecided(k)}
    /\ UNCHANGED <<storeVars, serverVars, cache, heard>>

Outside ==
    /\ Environment
    /\ UNCHANGED <<tickVars, cache, historyVars, stage, crashes>>

Next == Outside \/ SyncInLoop \/ TickInLoop \/ Crash

Spec == Init /\ [][Next]_vars

\* Ticks are scheduled again and again, the event loop is fair to a tick that
\* is ready to go on, a sync runs to its end, the clock goes on, and from some
\* time on the services the tick calls answer.
FairTickSpec ==
    /\ Spec
    /\ WF_now(Advance /\ Outside)
    /\ WF_vars(SyncInLoop /\ spc # "idle")
    /\ WF_vars(SyncInLoop /\ stage = "sync")
    /\ SF_vars(TickInLoop)
    /\ <>[][~(TickFails /\ TickInLoop)]_vars

-----------------------------------------------------------------------------
(***************************************************************************)
(* What the service promises.                                              *)
(***************************************************************************)

\* notifier.py promises one-shot leave_now and running_late: between two
\* queueings of a row at most one of them is decided, however ticks, syncs and
\* crashes interleave (a decision a crash rolled back does not count).
OneShotPerCycle == \A k \in Keys : shots[k] <= 1

\* Why: the rows of a running tick still exist; a sync can only have reset the
\* notification state of one; a terminal tier does not move in the session ...
SessionInv ==
    \A k \in Keys : loaded[k] # NoRow =>
        /\ events[k] # NoRow
        /\ events[k].notify \in {loaded[k].notify, "NONE"}
        /\ loaded[k].notify \in TerminalTier => sess[k].notify = loaded[k].notify

\* ... and a one-shot decision is in the database or about to be written to it.
Recorded(k) ==
    \/ events[k] # NoRow /\ events[k].notify \in TerminalTier
    \/ Undecided(k) /\ sess[k].notify \in TerminalTier

ShotInv == \A k \in Keys : shots[k] <= 1 /\ (shots[k] > 0 => Recorded(k))

OneShotInv == SessionInv /\ ShotInv

\* The geocoder is never asked for a blank address, although the row a tick
\* works on may be long out of date.
NeverGeocodesNothing ==
    /\ NoLocation \notin cache
    /\ tpc = "geocode" => sess[cur].location # NoLocation

\* Coordinates in a row are always in geocode_cache too, even after a crash
\* between the two transactions.
ResolvedIsCached ==
    \A k \in Keys : events[k] # NoRow =>
        events[k].resolved = None \/ events[k].resolved \in cache

\* What the calendar says of an event is written by syncs only: a tick that
\* loaded its rows long ago does not undo a change of start, location or
\* status that a sync committed while the tick was waiting.
CalendarColumns(row) ==
    IF row = NoRow THEN <<NoRow>> ELSE <<row.calendar, row.start, row.location, row.status>>

TickKeepsSyncWrites ==
    [][tpc' # tpc => \A k \in Keys :
          CalendarColumns(events[k])' = CalendarColumns(events[k])]_vars

\* A row that stays ACTIVE is announced: its user gets "leave now" or "running
\* late" in this cycle, unless every attempt to publish one was in vain, or a tick
\* of the cycle before has written its last tier over this one's NONE, so that
\* nothing was decided in it.  Nothing else leaves anybody without the message:
\* no interleaving of syncs and ticks, no failure that ends a tick early.
Announced(k) == heard[k] > 0 \/ k \in unsent

SilencedByOldTick(k) == events[k].notify \in TerminalTier /\ shots[k] = 0

AnnouncedEventually ==
    \A k \in Keys : HasStatus(k, {"ACTIVE"}) ~>
        (~HasStatus(k, {"ACTIVE"}) \/ Announced(k) \/ SilencedByOldTick(k))
=============================================================================
