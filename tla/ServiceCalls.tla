---------------------------- MODULE ServiceCalls ----------------------------
(***************************************************************************)
(* The remote calls of recompute_tick and how long they take: Dawarich for *)
(* the location, then for every ACTIVE event Nominatim, behind its rate    *)
(* limiter and only for an address that is not cached, the router with its *)
(* fallback, and ntfy.  Each client makes up to MaxAttempts attempts, with *)
(* a pause between them; an attempt is given up after LongestAttempt.      *)
(* While the tick waits for any of this a sync may have the event loop: it *)
(* never awaits, so the tick goes on only when the sync is over.           *)
(*                                                                         *)
(* Module Recompute has what the tick does with the answers.               *)
(***************************************************************************)
EXTENDS Integers, FiniteSets

CONSTANTS
    Events,        \* the event rows
    Address,       \* Address[e]: the LOCATION of event e
    Providers,     \* ROUTING_PROVIDER: "haversine" and others
    Speeds,        \* FALLBACK_AVG_SPEED_KMH
    RateLimit,     \* NOMINATIM_RATE_LIMIT_SECONDS
    LongestAttempt,  \* how long an attempt can take (httpx gives up connecting,
                     \* sending, or a read of the answer after ten seconds each)
    MaxAttempts,   \* stop_after_attempt
    MaxPause,      \* wait_exponential(max=...)
    MaxHeld,       \* bound on the time syncs hold the loop within one tick
    None

ASSUME ServiceCallsAssumption ==
    /\ IsFiniteSet(Events)
    /\ Providers \subseteq STRING
    /\ Speeds \subseteq Int
    /\ RateLimit \in Nat
    /\ LongestAttempt \in Nat \ {0}
    /\ MaxAttempts \in Nat \ {0}
    /\ MaxPause \in Nat \ {0}
    /\ MaxHeld \in Nat
    /\ None \notin Events /\ None \notin Int

VARIABLES
    provider,    \* the primary routing provider
    speed,       \* the average speed of the fallback
    phase,       \* what the tick awaits: "idle", "location", "next", "geocode",
                 \* "routing" or "publish"
    step,        \* of the running call: "begin", "limited", "sent", "pause",
                 \* or "none"
    attempt,     \* of the running call
    timer,       \* the time left of a sleep, or of a request's timeout
    sinceLast,   \* time since RateLimiter._last_call, at most RateLimit, or None
    todo,        \* the events of this tick not worked on yet
    cur,         \* the event worked on, or None
    resolved,    \* the events whose row has coordinates
    cache,       \* the addresses in geocode_cache
    sinceSearch, \* history: time since the last request to Nominatim, likewise
    active,      \* history: the events this tick loaded
    estimated,   \* history: those it had an estimate for
    unresolved,  \* history: those whose geocoding failed
    elapsed,     \* history: how long the tick has lasted
    held         \* history: how long of that a sync held the event loop

settings == <<provider, speed>>
call     == <<phase, step, attempt, timer>>
limiter  == <<sinceLast, sinceSearch>>
work     == <<todo, cur, resolved, cache, active, estimated, unresolved>>
lasted   == <<elapsed, held>>
vars     == <<settings, call, limiter, work, lasted>>

Calling == {"location", "geocode", "routing", "publish"}

CallsTypeOK ==
    /\ provider \in Providers /\ speed \in Speeds
    /\ phase \in Calling \cup {"idle", "next"}
    /\ step \in {"none", "begin", "limited", "sent", "pause"}
    /\ step = "none" <=> phase \notin Calling
    /\ attempt \in 0..MaxAttempts /\ (attempt = 0 <=> phase \notin Calling)
    /\ timer \in Nat
    /\ timer > 0 => step \in {"limited", "sent", "pause"}
    /\ sinceLast \in 0..RateLimit \cup {None}
    /\ sinceSearch \in 0..RateLimit \cup {None}
    /\ active \subseteq Events
    /\ todo \subseteq active
    /\ cur \in Events \cup {None}
    /\ cur # None <=> phase \in {"geocode", "routing", "publish"}
    /\ resolved \subseteq Events
    /\ cache \subseteq {Address[e] : e \in Events}
    /\ estimated \subseteq active /\ unresolved \subseteq active
    /\ elapsed \in Nat
    /\ held \in 0..MaxHeld /\ held <= elapsed

Init ==
    /\ provider \in Providers /\ speed \in Speeds
    /\ phase = "idle" /\ step = "none" /\ attempt = 0 /\ timer = 0
    /\ sinceLast = None /\ sinceSearch = None
    /\ todo = {} /\ cur = None /\ resolved = {} /\ cache = {}
    /\ active = {} /\ estimated = {} /\ unresolved = {} /\ elapsed = 0 /\ held = 0

-----------------------------------------------------------------------------
(***************************************************************************)
(* One call: tenacity around an attempt.                                   *)
(***************************************************************************)
\* wait_exponential(multiplier=1, min=1): 1, 2, 4, ... up to MaxPause.
Pause(n) == LET wait == 2 ^ (n - 1)
            IN  IF wait \in 0..MaxPause THEN wait ELSE MaxPause

\* The longest a call and a tick can take.
Pauses[n \in Nat] == IF n = 0 THEN 0 ELSE Pause(n) + Pauses[n - 1]

LongestCall == MaxAttempts * LongestAttempt + Pauses[MaxAttempts - 1]

LongestTick ==
    LongestCall + Cardinality(Events) * (3 * LongestCall + MaxAttempts * RateLimit)

Later(since) == IF since = None \/ since = RateLimit THEN since ELSE since + 1

IntervalsGrow == sinceLast' = Later(sinceLast) /\ sinceSearch' = Later(sinceSearch)

TimerRuns == timer' = IF timer > 0 THEN timer - 1 ELSE 0

\* Time passes while the tick sleeps or waits for an answer ...
Advance ==
    /\ timer > 0
    /\ TimerRuns /\ IntervalsGrow
    /\ elapsed' = IF elapsed <= LongestTick + held THEN elapsed + 1 ELSE elapsed
    /\ UNCHANGED <<settings, phase, step, attempt, work, held>>

\* ... between two ticks ...
AdvanceIdle ==
    /\ phase = "idle"
    /\ IntervalsGrow
    /\ elapsed' = 0 /\ held' = 0
    /\ UNCHANGED <<settings, call, work>>

\* ... and while a sync, with its own requests, attempts and pauses, holds the loop
\* the tick waits for.  Sleeps go on meanwhile; a request may be held up.
SyncHoldsLoop ==
    /\ step \in {"limited", "sent", "pause"}
    /\ held < MaxHeld
    /\ TimerRuns \/ (step = "sent" /\ UNCHANGED timer)
    /\ IntervalsGrow
    /\ elapsed' = elapsed + 1 /\ held' = held + 1
    /\ UNCHANGED <<settings, phase, step, attempt, work>>

Call(p) == phase' = p /\ step' = "begin" /\ attempt' = 1 /\ timer' = 0

NoCall(p) == phase' = p /\ step' = "none" /\ attempt' = 0 /\ timer' = 0

\* RateLimiter.wait: what is left of the interval.
Remaining == IF sinceLast = None THEN 0 ELSE RateLimit - sinceLast

\* Mutant: the limiter is asked once per search, not once per attempt.
MustWaitOnce == phase = "geocode" /\ attempt = 1 /\ Remaining > 0

MustWait == phase = "geocode" /\ Remaining > 0

Limit ==
    /\ step = "begin" /\ MustWait
    /\ step' = "limited" /\ timer' = Remaining
    /\ UNCHANGED <<settings, phase, attempt, limiter, work, lasted>>

\* The haversine provider sends nothing.
ComputedLocally == phase = "routing" /\ step = "begin" /\ provider = "haversine"

\* The request goes out; one to Nominatim right after _last_call is set.
Send ==
    /\ \/ step = "begin" /\ ~MustWait /\ ~ComputedLocally
       \/ step = "limited" /\ timer = 0
    /\ step' = "sent" /\ timer' = LongestAttempt
    /\ IF phase = "geocode" THEN sinceLast' = 0 /\ sinceSearch' = 0
                            ELSE UNCHANGED limiter
    /\ UNCHANGED <<settings, phase, attempt, work, lasted>>

\* Mutant: the attempts are not counted.
NextAttemptUncounted == UNCHANGED attempt

NextAttempt == attempt' = attempt + 1

\* Mutant: one attempt too many.
AttemptsLeftOneMore == attempt <= MaxAttempts

AttemptsLeft == attempt < MaxAttempts

\* A transport error, the timeout, an error status: tried again after a pause.
AttemptFails ==
    /\ step = "sent" /\ AttemptsLeft
    /\ step' = "pause" /\ timer' = Pause(attempt)
    /\ NextAttempt
    /\ UNCHANGED <<settings, phase, limiter, work, lasted>>

PauseEnds ==
    /\ step = "pause" /\ timer = 0
    /\ step' = "begin"
    /\ UNCHANGED <<settings, phase, attempt, timer, limiter, work, lasted>>

\* The last word of service p: an answer, the failure of the last attempt, or
\* at any attempt an answer that cannot be used (no point, no candidate, no
\* route), which raises a ValueError and is not tried again.
Answered(p) == phase = p /\ step = "sent"

-----------------------------------------------------------------------------
(***************************************************************************)
(* The tick.                                                               *)
(***************************************************************************)
TickStart ==
    /\ phase = "idle"
    /\ Call("location")
    /\ elapsed' = 0 /\ held' = 0
    /\ active' = {} /\ estimated' = {} /\ unresolved' = {}
    /\ UNCHANGED <<settings, limiter, todo, cur, resolved, cache>>

Located(rows) ==
    /\ Answered("location")
    /\ NoCall("next")
    /\ active' = rows /\ todo' = rows
    /\ UNCHANGED <<settings, limiter, cur, resolved, cache, estimated, unresolved, lasted>>

\* The tick ends; it has loaded no row.
LocationFails ==
    /\ Answered("location")
    /\ NoCall("idle")
    /\ UNCHANGED <<settings, limiter, work, lasted>>

\* Mutant: the event is looked at, and stays in the list.
BeginStays(e) ==
    /\ phase = "next" /\ e \in todo
    /\ todo' = todo /\ cur' = e
    /\ UNCHANGED <<settings, limiter, cache, active, estimated, unresolved, lasted>>

Begin(e) ==
    /\ phase = "next" /\ e \in todo
    /\ todo' = todo \ {e} /\ cur' = e
    /\ UNCHANGED <<settings, limiter, cache, active, estimated, unresolved, lasted>>

BeginKnown(e) ==
    /\ Begin(e)
    /\ e \in resolved \/ Address[e] \in cache
    /\ resolved' = resolved \cup {e}
    /\ Call("routing")

BeginUnknown(e) ==
    /\ Begin(e)
    /\ e \notin resolved /\ Address[e] \notin cache
    /\ Call("geocode")
    /\ UNCHANGED resolved

Geocoded ==
    /\ Answered("geocode")
    /\ cache' = cache \cup {Address[cur]}
    /\ resolved' = resolved \cup {cur}
    /\ Call("routing")
    /\ UNCHANGED <<settings, limiter, todo, cur, active, estimated, unresolved, lasted>>

\* Mutant: the exception leaves the loop over the events.
GeocodeFailureEndsLoop == todo' = {}

GeocodeFailureKeepsLoop == UNCHANGED todo

\* The exception ends the event's part of the tick.
GeocodeFails ==
    /\ Answered("geocode")
    /\ NoCall("next") /\ cur' = None
    /\ unresolved' = unresolved \cup {cur}
    /\ GeocodeFailureKeepsLoop
    /\ UNCHANGED <<settings, limiter, resolved, cache, active, estimated, lasted>>

\* Mutant: only what has been retried falls back.
FallsBackAfterRetries == speed # 0 /\ attempt = MaxAttempts

\* HaversineFallbackProvider divides by the speed.
FallsBack == speed # 0

\* With an estimate, by the primary or by distance, a message is decided upon.
Estimated(next) ==
    /\ estimated' = estimated \cup {cur}
    /\ \/ next = "publish" /\ Call("publish") /\ UNCHANGED cur
       \/ next = "quiet" /\ NoCall("next") /\ cur' = None
    /\ UNCHANGED <<settings, limiter, todo, resolved, cache, active, unresolved, lasted>>

Routed(next) ==
    /\ provider # "haversine" /\ Answered("routing")
    /\ Estimated(next)

\* ResilientRoutingProvider: whatever the primary raises.
RoutedByDistance(next) ==
    /\ ComputedLocally \/ Answered("routing")
    /\ FallsBack
    /\ Estimated(next)

RoutingFails ==
    /\ ComputedLocally \/ Answered("routing")
    /\ ~FallsBack
    /\ NoCall("next") /\ cur' = None
    /\ UNCHANGED <<settings, limiter, todo, resolved, cache, active, estimated,
                   unresolved, lasted>>

\* Published, or given up: either way the event is done with.
PublishEnds ==
    /\ Answered("publish")
    /\ NoCall("next") /\ cur' = None
    /\ UNCHANGED <<settings, limiter, todo, resolved, cache, active, estimated,
                   unresolved, lasted>>

TickEnd ==
    /\ phase = "next" /\ todo = {}
    /\ NoCall("idle")
    /\ UNCHANGED <<settings, limiter, work, lasted>>

-----------------------------------------------------------------------------
Step ==
    \/ Limit \/ Send \/ AttemptFails \/ PauseEnds
    \/ LocationFails \/ (\E rows \in SUBSET Events : Located(rows))
    \/ (\E e \in Events : BeginKnown(e) \/ BeginUnknown(e))
    \/ Geocoded \/ GeocodeFails
    \/ (\E next \in {"publish", "quiet"} : Routed(next) \/ RoutedByDistance(next))
    \/ RoutingFails \/ PublishEnds \/ TickEnd

Next == Advance \/ AdvanceIdle \/ SyncHoldsLoop \/ TickStart \/ Step

Spec == Init /\ [][Next]_vars

\* The clock goes on, a sync ends, and the event loop goes on with a tick whose
\* sleep, answer or timeout has come.
FairSpec == Spec /\ WF_vars(Advance \/ AdvanceIdle) /\ WF_vars(Step)

-----------------------------------------------------------------------------
\* .env.example and the usage policy of Nominatim: at least RateLimit between
\* two requests, be they of one tick or two, of two events, or of two attempts
\* for one.
SearchesSpaced ==
    [][phase = "geocode" /\ step # "sent" /\ step' = "sent" =>
          sinceSearch \in {RateLimit, None}]_vars

\* One event's failure takes nothing from the others, and a router that is down,
\* slow or without a route takes nothing from anybody: every event loaded has
\* an estimate once it is done with, unless Nominatim has no place for it.
EveryEventServed ==
    phase = "next" /\ speed # 0 => active \ todo = estimated \cup unresolved

\* However the services fail, a tick takes no longer than its attempts, pauses
\* and rate limits add up to, and what syncs take of the loop meanwhile: a sync
\* delays a tick by its own length and no more, although retries, rate limit and
\* timeouts run on behind its back.  What RECOMPUTE_INTERVAL has to be compared
\* with.
TickBounded == elapsed <= LongestTick + held

\* And it ends: no service that fails or falls silent, and no sync, can hold the job,
\* and so the next tick, for ever.
TickEnds == phase # "idle" ~> phase = "idle"
=============================================================================
