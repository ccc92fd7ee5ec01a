----------------------------- MODULE Recompute ------------------------------
(***************************************************************************)
(* Tracker.recompute_tick: locate the user, then geocode, route, decide    *)
(* and announce for every ACTIVE event.                                    *)
(*                                                                         *)
(* The tick awaits Dawarich, Nominatim, the router and ntfy; at each await *)
(* the event loop may run a sync.  It loads the ACTIVE rows once, works on *)
(* that session copy, and commits once, at the very end, the columns whose *)
(* value differs from the one loaded: its writes meet whatever the syncs   *)
(* committed in between.  One tick runs at a time (max_instances=1).       *)
(***************************************************************************)
EXTENDS EventStore

CONSTANTS
    TravelTimes,   \* the travel times routing may return
    NoSpeed,       \* FALLBACK_AVG_SPEED_KMH is 0
    MaxAttempts    \* stop_after_attempt of NtfyClient.publish

ASSUME RecomputeAssumption ==
    /\ TravelTimes \subseteq Nat
    /\ NoSpeed \in BOOLEAN
    /\ MaxAttempts \in Nat \ {0}

VARIABLES
    tpc,       \* where the tick is; it holds the event loop only in "next"
    tnow,      \* `now' of the running tick, else 0
    loaded,    \* loaded[k]: row k as the session loaded it, or NoRow
    sess,      \* sess[k]: row k as the session has it, or NoRow
    todo,      \* the loaded keys not worked on yet, in no particular order
    cur,       \* the key being worked on, or None
    outgoing,  \* the kind of the notification being published, or None
    attempt,   \* how many times it has been tried
    cache,     \* the addresses in geocode_cache
    shots,     \* history: one-shot notifications decided since the row was
               \* queued, those a crash undid not counted
    heard,     \* history: one-shot notifications that reached the phone since
               \* the row was queued; 2 stands for two or more
    unsent     \* history: the keys with a one-shot notification that was given up
               \* since the row was queued

tickVars    == <<tpc, tnow, loaded, sess, todo, cur, outgoing, attempt>>
historyVars == <<shots, heard, unsent>>

TickTypeOK ==
    /\ StoreTypeOK
    /\ tpc \in {"idle", "location", "next", "geocode", "routing", "publish"}
    /\ tnow \in Nat /\ tnow <= now
    /\ loaded \in [Keys -> Event \cup {NoRow}]
    /\ sess \in [Keys -> Event \cup {NoRow}]
    /\ \A k \in Keys : loaded[k] = NoRow <=> sess[k] = NoRow
    /\ tpc \in {"idle", "location"} => \A k \in Keys : loaded[k] = NoRow
    /\ todo \subseteq {k \in Keys : loaded[k] # NoRow}
    /\ cur \in {k \in Keys : loaded[k] # NoRow} \cup {None}
    /\ cur # None <=> tpc \in {"geocode", "routing", "publish"}
    /\ outgoing \in Kinds \cup {None}
    /\ outgoing # None <=> tpc = "publish"
    /\ attempt \in 0..MaxAttempts
    /\ cache \subseteq Locations \cup {NoLocation}
    /\ shots \in [Keys -> Nat]
    /\ heard \in [Keys -> 0..2]
    /\ unsent \subseteq Keys

\* No tick is running; its session, if it had one, is gone.
NoTick ==
    /\ tpc = "idle" /\ tnow = 0
    /\ loaded = [k \in Keys |-> NoRow] /\ sess = [k \in Keys |-> NoRow]
    /\ todo = {} /\ cur = None /\ outgoing = None /\ attempt = 0

EndTick ==
    /\ tpc' = "idle" /\ tnow' = 0
    /\ loaded' = [k \in Keys |-> NoRow] /\ sess' = [k \in Keys |-> NoRow]
    /\ todo' = {} /\ cur' = None /\ outgoing' = None /\ attempt' = 0

TickInit ==
    /\ NoTick
    /\ cache = {}
    /\ shots = [k \in Keys |-> 0]
    /\ heard = [k \in Keys |-> 0]
    /\ unsent = {}

-----------------------------------------------------------------------------
TickStart ==
    /\ tpc = "idle"
    /\ tpc' = "location" /\ tnow' = now
    /\ UNCHANGED <<loaded, sess, todo, cur, outgoing, attempt,
                   storeVars, cache, historyVars>>

\* Dawarich does not answer: the tick ends before it has loaded anything.
LocationFails ==
    /\ tpc = "location"
    /\ tpc' = "idle" /\ tnow' = 0
    /\ UNCHANGED <<loaded, sess, todo, cur, outgoing, attempt,
                   storeVars, cache, historyVars>>

LocationFetched ==
    LET rows == [k \in Keys |-> IF HasStatus(k, {"ACTIVE"}) THEN events[k] ELSE NoRow]
    IN  /\ tpc = "location"
        /\ tpc' = "next"
        /\ loaded' = rows /\ sess' = rows
        /\ todo' = {k \in Keys : rows[k] # NoRow}
        /\ UNCHANGED <<tnow, cur, outgoing, attempt, storeVars, cache, historyVars>>

-----------------------------------------------------------------------------
(***************************************************************************)
(* _recompute_event, one step per await.  An exception ends the event's    *)
(* part of the tick only; what it had set in the session stays set.        *)
(***************************************************************************)

NextEvent(k) ==
    /\ tpc = "next"
    /\ k \in todo
    /\ todo' = todo \ {k} /\ cur' = k
    /\ UNCHANGED <<tnow, loaded, outgoing, attempt, storeVars, cache, historyVars>>

\* The coordinates are in the row already.
BeginResolved(k) ==
    /\ NextEvent(k)
    /\ sess[k].resolved # None
    /\ tpc' = "routing"
    /\ UNCHANGED sess

\* geocode_cache has them: no request, no await.
BeginCached(k) ==
    /\ NextEvent(k)
    /\ sess[k].resolved = None /\ sess[k].location \in cache
    /\ sess' = [sess EXCEPT ![k].resolved = sess[k].location]
    /\ tpc' = "routing"

BeginUnknown(k) ==
    /\ NextEvent(k)
    /\ sess[k].resolved = None /\ sess[k].location \notin cache
    /\ tpc' = "geocode"
    /\ UNCHANGED sess

\* Mutant: the address is not remembered.
CachePutForgotten(address) == UNCHANGED cache

\* DbGeocodeCache.put: committed at once, in a session of its own.
CachePut(address) == cache' = cache \cup {address}

GeocodeFound ==
    /\ tpc = "geocode"
    /\ CachePut(sess[cur].location)
    /\ sess' = [sess EXCEPT ![cur].resolved = sess[cur].location]
    /\ tpc' = "routing"
    /\ UNCHANGED <<tnow, loaded, todo, cur, outgoing, attempt, storeVars, historyVars>>

\* No candidates, or Nominatim failed three times.
GeocodeFails ==
    /\ tpc = "geocode"
    /\ tpc' = "next" /\ cur' = None
    /\ UNCHANGED <<tnow, loaded, sess, todo, outgoing, attempt,
                   storeVars, cache, historyVars>>

\* Where the provider does not answer, the fallback divides by the speed.
RouteFails ==
    /\ tpc = "routing"
    /\ NoSpeed
    /\ tpc' = "next" /\ cur' = None
    /\ UNCHANGED <<tnow, loaded, sess, todo, outgoing, attempt,
                   storeVars, cache, historyVars>>

\* The provider or the fallback has an estimate.  The state is set before the
\* publication is tried.
RouteDone(travel) ==
    LET leaveAt  == ComputeLeaveAt(sess[cur].start, travel)
        decision == EvaluateNotification(tnow, leaveAt, sess[cur].notify,
                                         sess[cur].lastNotified)
        quiet    == decision.kind = None
    IN  /\ tpc = "routing"
        /\ sess' = [sess EXCEPT ![cur].leaveAt = leaveAt,
                                ![cur].notify = decision.state]
        /\ outgoing' = decision.kind
        /\ tpc' = IF quiet THEN "next" ELSE "publish"
        /\ attempt' = IF quiet THEN 0 ELSE 1
        /\ cur' = IF quiet THEN None ELSE cur
        /\ shots' = IF decision.kind \in OneShot THEN [shots EXCEPT ![cur] = @ + 1]
                    ELSE shots
        /\ UNCHANGED <<tnow, loaded, todo, storeVars, cache, heard, unsent>>

-----------------------------------------------------------------------------
(***************************************************************************)
(* NtfyClient.publish: up to MaxAttempts posts.  A post that was not       *)
(* acknowledged may have reached the phone all the same.                   *)
(***************************************************************************)

Reached == IF outgoing \in OneShot /\ heard[cur] < 2
           THEN heard' = [heard EXCEPT ![cur] = @ + 1]
           ELSE UNCHANGED heard

Published == cur' = None /\ outgoing' = None /\ attempt' = 0 /\ tpc' = "next"

PublishAcked ==
    /\ tpc = "publish"
    /\ Reached
    /\ Published
    /\ sess' = [sess EXCEPT ![cur].lastNotified = sess[cur].leaveAt]
    /\ UNCHANGED <<tnow, loaded, todo, storeVars, cache, shots, unsent>>

PublishRetried ==
    /\ tpc = "publish"
    /\ attempt < MaxAttempts
    /\ attempt' = attempt + 1
    /\ Reached \/ UNCHANGED heard
    /\ UNCHANGED <<tpc, tnow, loaded, sess, todo, cur, outgoing, storeVars, cache,
                   shots, unsent>>

PublishGivesUp ==
    /\ tpc = "publish"
    /\ attempt = MaxAttempts
    /\ Published
    /\ Reached \/ UNCHANGED heard
    /\ unsent' = IF outgoing \in OneShot THEN unsent \cup {cur} ELSE unsent
    /\ UNCHANGED <<tnow, loaded, sess, todo, storeVars, cache, shots>>

-----------------------------------------------------------------------------
Changed(old, new, current) == IF new = old THEN current ELSE new

\* Mutant: the whole session row is written back.
FlushWholeRow(row, before, after) == after

\* Mutant: the notification state is not written.
FlushWithoutNotify(row, before, after) ==
    [row EXCEPT !.resolved     = Changed(before.resolved, after.resolved, @),
                !.leaveAt      = Changed(before.leaveAt, after.leaveAt, @),
                !.lastNotified = Changed(before.lastNotified, after.lastNotified, @)]

\* The UPDATE of one row sets the columns the session changed, and only those.
Flush(row, before, after) ==
    [row EXCEPT !.resolved     = Changed(before.resolved, after.resolved, @),
                !.leaveAt      = Changed(before.leaveAt, after.leaveAt, @),
                !.notify       = Changed(before.notify, after.notify, @),
                !.lastNotified = Changed(before.lastNotified, after.lastNotified, @)]

TickCommit ==
    /\ tpc = "next"
    /\ todo = {}
    /\ events' = [k \in Keys |-> IF loaded[k] = NoRow THEN events[k]
                                 ELSE Flush(events[k], loaded[k], sess[k])]
    /\ EndTick
    /\ UNCHANGED <<now, cache, historyVars>>

TickFails ==
    LocationFails \/ GeocodeFails \/ RouteFails \/ PublishRetried \/ PublishGivesUp

TickSucceeds ==
    \/ LocationFetched \/ GeocodeFound \/ PublishAcked \/ TickCommit
    \/ \E travel \in TravelTimes : RouteDone(travel)
    \/ \E k \in Keys : BeginResolved(k) \/ BeginCached(k) \/ BeginUnknown(k)

TickStep == TickStart \/ TickSucceeds \/ TickFails
=============================================================================
