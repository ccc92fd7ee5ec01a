------------------------- MODULE ServiceCallsProofs -------------------------
(***************************************************************************)
(* What holds of the calls of a tick for any number of events and          *)
(* attempts, any rate limit and any provider.                              *)
(***************************************************************************)
EXTENDS ServiceCalls, FiniteSetTheorems, WellFoundedInduction, TLAPS

USE ServiceCallsAssumption

\* While a search waits its turn, it sleeps for what is left of the interval;
\* what the limiter remembers is when the last request was sent.
SpacedInv ==
    /\ sinceSearch = sinceLast
    /\ step = "limited" =>
          phase = "geocode" /\ sinceLast \in Nat /\ timer = RateLimit - sinceLast

\* The event under way is one of this tick's; nothing is left over between ticks.
WorkInv ==
    /\ cur # None => cur \in active \ todo
    /\ phase \in {"idle", "location"} => todo = {}
    /\ phase = "location" => estimated = {} /\ unresolved = {} /\ active = {}

\* The events done with are those with an estimate and those without a place,
\* and the one under way is neither before it has one.
ServedInv ==
    speed # 0 =>
      /\ phase \in {"next", "publish"} => active \ todo = estimated \cup unresolved
      /\ phase \in {"geocode", "routing"} =>
            active \ todo = estimated \cup unresolved \cup {cur}

CallsInv == CallsTypeOK /\ WorkInv

-----------------------------------------------------------------------------
\* A pause is a natural number.
LEMMA PauseIsNat == \A n : Pause(n) \in Nat
  BY DEF Pause

\* The time since a request stays within the rate limit.
LEMMA LaterInRange ==
    ASSUME NEW since \in 0..RateLimit \cup {None}
    PROVE  Later(since) \in 0..RateLimit \cup {None}
  BY DEF Later

\* Types, and what is left of the work, are preserved by every step.
LEMMA CallsInvPreserved == CallsInv /\ [Next]_vars => CallsInv'
<1> SUFFICES ASSUME CallsInv, [Next]_vars PROVE CallsInv'
    OBVIOUS
<1> USE DEF CallsInv, CallsTypeOK, Calling, WorkInv, lasted
<1>1. CASE Advance \/ AdvanceIdle \/ SyncHoldsLoop
  <2>1. timer' \in Nat /\ (timer' > 0 => timer > 0)
    BY <1>1 DEF Advance, AdvanceIdle, SyncHoldsLoop, TimerRuns, call
  <2>2. sinceLast' \in 0..RateLimit \cup {None} /\ sinceSearch' \in 0..RateLimit \cup {None}
    BY <1>1, LaterInRange DEF Advance, AdvanceIdle, SyncHoldsLoop, IntervalsGrow
  <2>3. elapsed' \in Nat /\ held' \in 0..MaxHeld /\ held' <= elapsed'
    <3>1. CASE Advance
      BY <3>1 DEF Advance
    <3>2. CASE AdvanceIdle \/ SyncHoldsLoop
      BY <3>2 DEF AdvanceIdle, SyncHoldsLoop
    <3> QED BY <1>1, <3>1, <3>2
  <2>4. UNCHANGED <<settings, phase, step, attempt, work>>
    BY <1>1 DEF Advance, AdvanceIdle, SyncHoldsLoop, call
  <2> QED BY <2>1, <2>2, <2>3, <2>4 DEF settings, work
<1>2. CASE TickStart
  BY <1>2 DEF TickStart, Call, settings, limiter
<1>3. CASE Limit
  <2>1. timer' \in Nat /\ timer' > 0
    BY <1>3 DEF Limit, MustWait, Remaining
  <2> QED BY <1>3, <2>1 DEF Limit, MustWait, settings, limiter, work
<1>4. CASE Send
  BY <1>4 DEF Send, settings, limiter, work
<1>5. CASE AttemptFails
  BY <1>5, PauseIsNat DEF AttemptFails, AttemptsLeft, NextAttempt, settings, limiter, work
<1>6. CASE PauseEnds
  BY <1>6 DEF PauseEnds, settings, limiter, work
<1>7. CASE LocationFails
  BY <1>7 DEF LocationFails, Answered, NoCall, settings, limiter, work
<1>8. ASSUME NEW rows \in SUBSET Events, Located(rows) PROVE CallsInv'
  BY <1>8 DEF Located, Answered, NoCall, settings, limiter
<1>9. ASSUME NEW e \in Events, Begin(e), Call("routing") \/ Call("geocode"),
             resolved' \in {resolved, resolved \cup {e}}
      PROVE  CallsInv'
  BY <1>9 DEF Begin, Call, settings, limiter
<1>10. CASE Geocoded
  <2>1. cur \in Events /\ Address[cur] \in {Address[e] : e \in Events}
    BY <1>10 DEF Geocoded, Answered
  <2> QED BY <1>10, <2>1 DEF Geocoded, Answered, Call, settings, limiter
<1>11. CASE GeocodeFails
  BY <1>11 DEF GeocodeFails, GeocodeFailureKeepsLoop, Answered, NoCall, settings, limiter
<1>12. ASSUME NEW next \in {"publish", "quiet"}, phase = "routing", Estimated(next)
       PROVE  CallsInv'
  <2>1. CASE Call("publish") /\ UNCHANGED cur
    BY <1>12, <2>1 DEF Estimated, Call, settings, limiter
  <2>2. CASE NoCall("next") /\ cur' = None
    BY <1>12, <2>2 DEF Estimated, NoCall, settings, limiter
  <2> QED BY <1>12, <2>1, <2>2 DEF Estimated
<1>13. CASE RoutingFails \/ PublishEnds
  BY <1>13 DEF RoutingFails, PublishEnds, ComputedLocally, Answered, NoCall, settings, limiter
<1>14. CASE TickEnd
  BY <1>14 DEF TickEnd, NoCall, settings, limiter, work
<1>15. CASE UNCHANGED vars
  BY <1>15 DEF vars, settings, call, limiter, work
<1> QED
  BY <1>1, <1>2, <1>3, <1>4, <1>5, <1>6, <1>7, <1>8, <1>9, <1>10, <1>11, <1>12, <1>13, <1>14,
     <1>15
  DEF Next, Step, BeginKnown, BeginUnknown, Routed, RoutedByDistance, ComputedLocally, Answered

\* The invariant of the types and of the work, for every number of events.
LEMMA CallsInvHolds == Spec => []CallsInv
<1>1. Init => CallsInv
  BY DEF Init, CallsInv, CallsTypeOK, Calling, WorkInv
<1> QED BY <1>1, CallsInvPreserved, PTL DEF Spec

\* Every variable of the tick keeps its type, however the services fail.
THEOREM CallsTypeCorrect == Spec => []CallsTypeOK
<1>1. CallsInv => CallsTypeOK
  BY DEF CallsInv
<1> QED BY <1>1, CallsInvHolds, PTL

-----------------------------------------------------------------------------
\* The limiter knows when the last request was sent, and a search that waits
\* for its turn wakes up exactly then.
LEMMA SpacedPreserved == CallsInv /\ SpacedInv /\ [Next]_vars => SpacedInv'
<1> SUFFICES ASSUME CallsInv, SpacedInv, [Next]_vars PROVE SpacedInv'
    OBVIOUS
<1> USE DEF CallsInv, CallsTypeOK, Calling, SpacedInv
<1>1. CASE Advance \/ AdvanceIdle \/ SyncHoldsLoop
  <2>1. IntervalsGrow /\ step' = step /\ phase' = phase
    BY <1>1 DEF Advance, AdvanceIdle, SyncHoldsLoop, call
  <2>2. ASSUME step = "limited" PROVE sinceLast' \in Nat /\ timer' = RateLimit - sinceLast'
    <3>1. phase = "geocode" /\ sinceLast \in Nat /\ timer = RateLimit - sinceLast
      BY <2>2
    <3>2. TimerRuns
      BY <1>1, <2>2, <3>1 DEF Advance, AdvanceIdle, SyncHoldsLoop
    <3>3. CASE timer > 0
      <4>1. sinceLast # None /\ sinceLast # RateLimit
        BY <3>1, <3>3
      <4>2. sinceLast' = sinceLast + 1
        BY <2>1, <4>1 DEF IntervalsGrow, Later
      <4>3. timer' = timer - 1
        BY <3>2, <3>3 DEF TimerRuns
      <4> QED BY <3>1, <4>2, <4>3
    <3>4. CASE timer = 0
      <4>1. sinceLast = RateLimit
        BY <3>1, <3>4
      <4>2. sinceLast' = sinceLast /\ timer' = timer
        BY <2>1, <3>2, <3>4, <4>1 DEF IntervalsGrow, Later, TimerRuns
      <4> QED BY <3>1, <4>2
    <3> QED BY <3>3, <3>4
  <2>3. sinceSearch' = sinceLast'
    BY <2>1 DEF IntervalsGrow
  <2> QED BY <2>1, <2>2, <2>3
<1>2. CASE Limit
  <2>1. phase = "geocode" /\ sinceLast \in Nat /\ timer' = RateLimit - sinceLast
    BY <1>2 DEF Limit, MustWait, Remaining
  <2> QED BY <1>2, <2>1 DEF Limit, limiter
<1>3. CASE Send
  BY <1>3 DEF Send, limiter
<1>4. ASSUME step' # "limited", UNCHANGED limiter PROVE SpacedInv'
  BY <1>4 DEF limiter
<1>5. CASE UNCHANGED vars
  BY <1>5 DEF vars, call, limiter
<1>6. CASE TickStart \/ AttemptFails \/ PauseEnds
  BY <1>4, <1>6 DEF TickStart, AttemptFails, PauseEnds, Call
<1>7. CASE LocationFails \/ RoutingFails \/ PublishEnds \/ TickEnd
  BY <1>4, <1>7 DEF LocationFails, RoutingFails, PublishEnds, TickEnd, NoCall
<1>8. CASE Geocoded \/ GeocodeFails
  BY <1>4, <1>8 DEF Geocoded, GeocodeFails, Call, NoCall
<1>9. CASE \E rows \in SUBSET Events : Located(rows)
  BY <1>4, <1>9 DEF Located, NoCall
<1>10. CASE \E e \in Events : BeginKnown(e) \/ BeginUnknown(e)
  BY <1>4, <1>10 DEF BeginKnown, BeginUnknown, Begin, Call
<1>11. CASE \E next \in {"publish", "quiet"} : Routed(next) \/ RoutedByDistance(next)
  BY <1>4, <1>11 DEF Routed, RoutedByDistance, Estimated, Call, NoCall
<1> QED
  BY <1>1, <1>2, <1>3, <1>5, <1>6, <1>7, <1>8, <1>9, <1>10, <1>11 DEF Next, Step

\* A request to Nominatim leaves only when the interval since the one before
\* is over: none has been sent, or RateLimit ago.
LEMMA SendIsSpaced ==
    CallsInv /\ SpacedInv /\ [Next]_vars =>
      (phase = "geocode" /\ step # "sent" /\ step' = "sent" =>
          sinceSearch \in {RateLimit, None})
<1> SUFFICES ASSUME CallsInv, SpacedInv, [Next]_vars,
                    phase = "geocode", step # "sent", step' = "sent"
             PROVE  sinceSearch \in {RateLimit, None}
    OBVIOUS
<1> USE DEF CallsInv, CallsTypeOK, Calling, SpacedInv
<1>1. Send
  BY DEF Next, Step, Advance, AdvanceIdle, SyncHoldsLoop, TickStart, Limit, AttemptFails, PauseEnds, LocationFails, Located,
         BeginKnown, BeginUnknown, Geocoded, GeocodeFails, Routed, RoutedByDistance, Estimated,
         RoutingFails, PublishEnds, TickEnd, Call, NoCall, vars, call
<1>2. CASE step = "begin" /\ ~MustWait
  BY <1>2 DEF MustWait, Remaining
<1>3. CASE step = "limited" /\ timer = 0
  BY <1>3
<1> QED BY <1>1, <1>2, <1>3 DEF Send

\* Two requests to Nominatim are RateLimit apart, for any events, any number of
\* attempts and any failures.
THEOREM SearchesSpacedHolds == Spec => SearchesSpaced
<1>1. Init => SpacedInv
  BY DEF Init, SpacedInv
<1>2. Spec => []SpacedInv
  BY <1>1, CallsInvHolds, SpacedPreserved, PTL DEF Spec
<1> QED BY <1>2, CallsInvHolds, SendIsSpaced, PTL DEF Spec, SearchesSpaced

-----------------------------------------------------------------------------
\* Every event taken up ends with an estimate or without a place.
LEMMA ServedPreserved == CallsInv /\ ServedInv /\ [Next]_vars => ServedInv'
<1> SUFFICES ASSUME CallsInv, ServedInv, [Next]_vars, speed' # 0
             PROVE  /\ phase' \in {"next", "publish"} =>
                          active' \ todo' = estimated' \cup unresolved'
                    /\ phase' \in {"geocode", "routing"} =>
                          active' \ todo' = estimated' \cup unresolved' \cup {cur'}
    BY DEF ServedInv
<1> USE DEF CallsInv, CallsTypeOK, WorkInv, ServedInv
<1>1. CASE UNCHANGED <<speed, phase, work>>
  BY <1>1 DEF work
<1>2. CASE \/ Advance \/ AdvanceIdle \/ SyncHoldsLoop
           \/ Limit \/ Send \/ AttemptFails \/ PauseEnds
  BY <1>1, <1>2
  DEF Advance, AdvanceIdle, SyncHoldsLoop, Limit, Send, AttemptFails, PauseEnds, settings, call
<1>3. CASE TickStart \/ LocationFails \/ TickEnd
  BY <1>3 DEF TickStart, LocationFails, TickEnd, Call, NoCall
<1>4. CASE \E rows \in SUBSET Events : Located(rows)
  BY <1>4 DEF Located, Answered, NoCall
<1>5. CASE \E e \in Events : BeginKnown(e) \/ BeginUnknown(e)
  BY <1>5 DEF BeginKnown, BeginUnknown, Begin, Call, settings
<1>6. CASE Geocoded
  BY <1>6 DEF Geocoded, Answered, Call, settings
<1>7. CASE GeocodeFails
  BY <1>7 DEF GeocodeFails, GeocodeFailureKeepsLoop, Answered, NoCall, settings
<1>8. ASSUME NEW next \in {"publish", "quiet"}, phase = "routing", Estimated(next)
      PROVE  active' \ todo' = estimated' \cup unresolved' /\ phase' \in {"next", "publish"}
  BY <1>8 DEF Estimated, Call, NoCall, settings
<1>9. CASE RoutingFails
  BY <1>9 DEF RoutingFails, FallsBack, settings
<1>10. CASE PublishEnds
  BY <1>10 DEF PublishEnds, Answered, NoCall, settings
<1>11. CASE UNCHANGED vars
  BY <1>1, <1>11 DEF vars, call, settings
<1> QED
  BY <1>2, <1>3, <1>4, <1>5, <1>6, <1>7, <1>8, <1>9, <1>10, <1>11
  DEF Next, Step, Routed, RoutedByDistance, ComputedLocally, Answered

\* Between two events of the loop, each one done with has an estimate, or
\* Nominatim had no place for it, whichever services failed how often.
THEOREM EveryEventServedHolds == Spec => []EveryEventServed
<1>1. Init => ServedInv
  BY DEF Init, ServedInv
<1>2. ServedInv => EveryEventServed
  BY DEF ServedInv, EveryEventServed
<1> QED BY <1>1, <1>2, CallsInvHolds, ServedPreserved, PTL DEF Spec

-----------------------------------------------------------------------------
(***************************************************************************)
(* The sum of the pauses.  Pauses is defined by recursion on a number of   *)
(* any size: that there is such a function, and what it is like, is proved *)
(* by minimal counterexamples.                                             *)
(***************************************************************************)

\* A set of natural numbers has a least element.
LEMMA LeastNat ==
    ASSUME NEW T, T \subseteq Nat, T # {}
    PROVE  \E m \in T : \A n \in T : m <= n
<1> DEFINE R == {pair \in Nat \X Nat : pair[1] < pair[2]}
<1>1. IsWellFoundedOn(R, Nat)
  BY NatLessThanWellFounded DEF OpToRel
<1>2. PICK m \in T : \A n \in T : <<n, m>> \notin R
  <2> HIDE DEF R
  <2> QED BY <1>1, WFMin
<1>3. \A n \in T : n < m => <<n, m>> \in R
  OBVIOUS
<1> HIDE DEF R
<1>4. \A n \in T : ~(n < m)
  BY <1>2, <1>3, Zenon
<1>5. \A n \in T : m <= n
  BY <1>4
<1> QED BY <1>5

\* The sums of the first pauses, up to the n-th.
Sums(n, g) ==
    /\ g \in [0..n -> Nat]
    /\ g[0] = 0
    /\ \A i \in 1..n : g[i] = Pause(i) + g[i - 1]

\* There are such sums for any number of pauses.
LEMMA SumsExist == \A n \in Nat : \E g : Sums(n, g)
<1> DEFINE T == {n \in Nat : ~ \E g : Sums(n, g)}
<1> SUFFICES ASSUME T # {} PROVE FALSE
  OBVIOUS
<1>1. PICK m \in T : \A n \in T : m <= n
  <2> HIDE DEF T
  <2>1. T \subseteq Nat
    BY DEF T
  <2> QED BY <2>1, LeastNat
<1>2. CASE m = 0
  <2>1. Sums(0, [i \in 0..0 |-> 0])
    BY DEF Sums
  <2> QED BY <1>1, <1>2, <2>1
<1>3. CASE m # 0
  <2>1. m - 1 \in Nat /\ m - 1 \notin T
    BY <1>1, <1>3
  <2>2. PICK g : Sums(m - 1, g)
    BY <2>1
  <2> DEFINE h == [i \in 0..m |-> IF i = m THEN Pause(m) + g[m - 1] ELSE g[i]]
  <2>3. g[m - 1] \in Nat /\ Pause(m) \in Nat
    BY <2>1, <2>2, PauseIsNat DEF Sums
  <2>4. h \in [0..m -> Nat] /\ h[0] = 0
    BY <1>1, <1>3, <2>2, <2>3 DEF Sums
  <2>5. ASSUME NEW i \in 1..m
        PROVE  h[i] = Pause(i) + h[i - 1]
    <3>1. i - 1 \in 0..m /\ i \in 0..m /\ i - 1 # m
      BY <1>1
    <3>2. h[i - 1] = g[i - 1]
      BY <3>1
    <3>3. CASE i = m
      BY <3>1, <3>2, <3>3
    <3>4. CASE i # m
      <4>1. i \in 1..(m - 1)
        BY <1>1, <3>4
      <4> QED BY <2>2, <3>1, <3>2, <3>4, <4>1 DEF Sums
    <3> QED BY <3>3, <3>4
  <2>6. Sums(m, h)
    BY <2>4, <2>5 DEF Sums
  <2> QED BY <1>1, <2>6
<1> QED BY <1>2, <1>3

\* The sums do not depend on how many pauses follow.
LEMMA SumsUnique ==
    ASSUME NEW m \in Nat, NEW n \in Nat, NEW g, NEW h, Sums(m, g), Sums(n, h),
           NEW k \in Nat, k <= m, k <= n
    PROVE  g[k] = h[k]
<1> DEFINE T == {i \in Nat : i <= m /\ i <= n /\ g[i] # h[i]}
<1> SUFFICES ASSUME T # {} PROVE FALSE
  OBVIOUS
<1>1. PICK i \in T : \A j \in T : i <= j
  <2> HIDE DEF T
  <2>1. T \subseteq Nat
    BY DEF T
  <2> QED BY <2>1, LeastNat
<1>2. i # 0
  BY <1>1 DEF Sums
<1>3. i - 1 \notin T /\ i - 1 \in Nat /\ i \in 1..m /\ i \in 1..n
  BY <1>1, <1>2
<1>4. g[i - 1] = h[i - 1]
  BY <1>3
<1> QED BY <1>1, <1>3, <1>4 DEF Sums

\* Pauses is what its definition says.
LEMMA PausesDef == Pauses = [n \in Nat |-> IF n = 0 THEN 0 ELSE Pause(n) + Pauses[n - 1]]
<1> DEFINE f == [n \in Nat |-> (CHOOSE g : Sums(n, g))[n]]
<1>1. \A n \in Nat : Sums(n, CHOOSE g : Sums(n, g))
  BY SumsExist
<1>2. ASSUME NEW n \in Nat
      PROVE  f[n] = IF n = 0 THEN 0 ELSE Pause(n) + f[n - 1]
  <2>1. CASE n = 0
    BY <1>1, <2>1 DEF Sums
  <2>2. CASE n # 0
    <3>1. n - 1 \in Nat /\ n \in 1..n /\ n - 1 <= n
      BY <2>2
    <3>2. (CHOOSE g : Sums(n, g))[n] = Pause(n) + (CHOOSE g : Sums(n, g))[n - 1]
      BY <1>1, <3>1 DEF Sums
    <3>3. (CHOOSE g : Sums(n, g))[n - 1] = (CHOOSE g : Sums(n - 1, g))[n - 1]
      <4>1. Sums(n, CHOOSE g : Sums(n, g)) /\ Sums(n - 1, CHOOSE g : Sums(n - 1, g))
        BY <1>1, <3>1
      <4> QED BY <3>1, <4>1, SumsUnique
    <3> QED BY <2>2, <3>1, <3>2, <3>3
  <2> QED BY <2>1, <2>2
<1>3. f = [n \in Nat |-> IF n = 0 THEN 0 ELSE Pause(n) + f[n - 1]]
  <2>1. f = [n \in Nat |-> f[n]]
    OBVIOUS
  <2> HIDE DEF f
  <2> QED BY <1>2, <2>1
<1> HIDE DEF f
<1> QED BY <1>3 DEF Pauses

\* One pause more.
LEMMA PausesStep ==
    /\ Pauses[0] = 0
    /\ \A n \in Nat : Pauses[n + 1] = Pause(n + 1) + Pauses[n]
<1>1. /\ Pauses[0] = IF 0 = 0 THEN 0 ELSE Pause(0) + Pauses[0 - 1]
      /\ \A n \in Nat : n = 0 \/ Pauses[n] = Pause(n) + Pauses[n - 1]
  BY PausesDef
<1>2. \A n \in Nat : n + 1 \in Nat /\ n + 1 # 0 /\ (n + 1) - 1 = n
  OBVIOUS
<1> QED BY <1>1, <1>2

\* The sum of the pauses is a natural number, and grows.
LEMMA PausesGrow ==
    \A n \in Nat : Pauses[n] \in Nat /\ \A m \in 0..n : Pauses[m] <= Pauses[n]
<1> DEFINE T == {n \in Nat : ~(Pauses[n] \in Nat /\ \A m \in 0..n : Pauses[m] <= Pauses[n])}
<1> SUFFICES ASSUME T # {} PROVE FALSE
  OBVIOUS
<1>1. PICK n \in T : \A j \in T : n <= j
  <2> HIDE DEF T
  <2>1. T \subseteq Nat
    BY DEF T
  <2> QED BY <2>1, LeastNat
<1>2. n # 0
  BY <1>1, PausesStep
<1>3. n - 1 \in Nat /\ n - 1 \notin T
  BY <1>1, <1>2
<1>4. Pauses[n - 1] \in Nat /\ \A m \in 0..(n - 1) : Pauses[m] <= Pauses[n - 1]
  BY <1>3
<1>5. Pauses[n] = Pause(n) + Pauses[n - 1] /\ Pause(n) \in Nat
  <2>1. (n - 1) + 1 = n
    BY <1>1
  <2> QED BY <1>3, <2>1, PausesStep, PauseIsNat
<1>6. ASSUME NEW m \in 0..n
      PROVE  Pauses[m] <= Pauses[n]
  <2>1. CASE m = n
    BY <1>4, <1>5, <2>1
  <2>2. CASE m # n
    <3>1. m \in 0..(n - 1)
      BY <1>1, <2>2
    <3>2. Pauses[m] <= Pauses[n - 1] /\ Pauses[m] \in Nat
      <4>1. m \notin T /\ m \in Nat
        BY <1>1, <2>2
      <4> QED BY <1>4, <3>1, <4>1
    <3> QED BY <1>4, <1>5, <3>2
  <2> QED BY <2>1, <2>2
<1>7. Pauses[n] \in Nat
  BY <1>4, <1>5
<1> QED BY <1>1, <1>6, <1>7

-----------------------------------------------------------------------------
(***************************************************************************)
(* How long a tick has lasted, and how long it may still last.             *)
(***************************************************************************)

EventTime == 3 * LongestCall + MaxAttempts * RateLimit

\* The time of n events, and what an attempt for service p may have to wait.
Ahead(n) == n * EventTime

Wait(p) == IF p = "geocode" THEN RateLimit ELSE 0

\* When attempt a of a call begins at the latest, and how long the call can take.
Before(a, wait) == (a - 1) * (LongestAttempt + wait) + Pauses[a - 1]

CallTime(wait) == LongestCall + MaxAttempts * wait

\* The longest the running call can have lasted so far ...
Spent ==
    CASE step = "begin"   -> Before(attempt, Wait(phase))
      [] step = "limited" -> Before(attempt, Wait(phase)) + RateLimit - timer
      [] step = "sent"    -> Before(attempt, Wait(phase)) + Wait(phase) + LongestAttempt - timer
      [] step = "pause"   -> Before(attempt, Wait(phase)) - timer

\* ... and the longest the tick could last from its beginning on.
Left ==
    CASE phase = "location" -> LongestCall + Ahead(Cardinality(Events))
      [] phase = "geocode"  -> EventTime + Ahead(Cardinality(todo))
      [] phase = "routing"  -> 2 * LongestCall + Ahead(Cardinality(todo))
      [] phase = "publish"  -> LongestCall + Ahead(Cardinality(todo))

\* The time of the tick that no sync has taken.
Own == elapsed - held

TimeInv ==
    /\ phase \in Calling => Own + Left <= LongestTick + Spent
    /\ phase = "next" => Own + Ahead(Cardinality(todo)) <= LongestTick
    /\ phase = "idle" => Own <= LongestTick

\* A tick has not lasted less than the syncs within it.
LEMMA OwnIs == CallsTypeOK => Own \in Nat
  BY DEF CallsTypeOK, Own

\* The same of the state after a step.
LEMMA OwnIsNext == CallsTypeOK' => (Own \in Nat)'
  BY OwnIs, PTL

\* Only time itself makes a tick longer.
LEMMA OwnStill == UNCHANGED lasted => Own' = Own
  BY DEF lasted, Own

\* Products of naturals.
LEMMA TimesMore ==
    ASSUME NEW a \in Nat, NEW b \in Nat
    PROVE  /\ a * b \in Nat
           /\ (a + 1) * b = a * b + b
           /\ \A c \in Nat : a <= c => a * b <= c * b
  OBVIOUS

\* An attempt takes its own time, what it had to wait and the pause after it; a
\* call of no more than MaxAttempts of them no longer than CallTime.
LEMMA BeforeSteps ==
    ASSUME NEW a \in 1..MaxAttempts, NEW wait \in Nat
    PROVE  /\ Before(1, wait) = 0
           /\ Before(a, wait) \in Nat
           /\ Before(a + 1, wait) = Before(a, wait) + LongestAttempt + wait + Pause(a)
           /\ Before(a, wait) + LongestAttempt + wait <= CallTime(wait)
<1> DEFINE each == LongestAttempt + wait
<1>1. a - 1 \in Nat /\ each \in Nat /\ MaxAttempts - 1 \in Nat /\ a - 1 <= MaxAttempts - 1
  OBVIOUS
<1>2. /\ Pauses[a - 1] \in Nat /\ Pauses[a - 1] <= Pauses[MaxAttempts - 1]
      /\ Pauses[MaxAttempts - 1] \in Nat
  BY <1>1, PausesGrow
<1>3. Pauses[a] = Pause(a) + Pauses[a - 1] /\ Pause(a) \in Nat
  <2>1. (a - 1) + 1 = a
    OBVIOUS
  <2> QED BY <1>1, <2>1, PausesStep, PauseIsNat
<1>4. Before(1, wait) = 0
  BY PausesStep DEF Before
<1>5. /\ (a - 1) * each \in Nat
      /\ a * each = (a - 1) * each + each
      /\ a * each <= MaxAttempts * each
  <2>1. (a - 1) + 1 = a /\ a \in Nat /\ MaxAttempts \in Nat /\ a <= MaxAttempts
    OBVIOUS
  <2> HIDE DEF each
  <2> QED BY <1>1, <2>1, TimesMore
<1>6. MaxAttempts * each = MaxAttempts * LongestAttempt + MaxAttempts * wait
  OBVIOUS
<1>7. /\ Before(a, wait) = (a - 1) * each + Pauses[a - 1]
      /\ Before(a + 1, wait) = a * each + Pauses[a]
  BY DEF Before
<1>8. CallTime(wait) = MaxAttempts * LongestAttempt + Pauses[MaxAttempts - 1] + MaxAttempts * wait
  BY DEF CallTime, LongestCall
<1>9. MaxAttempts * LongestAttempt \in Nat /\ MaxAttempts * wait \in Nat /\ MaxAttempts * each \in Nat
  OBVIOUS
<1>10. each = LongestAttempt + wait
  OBVIOUS
<1> HIDE DEF each
<1> QED
  <2>1. Before(a, wait) \in Nat
    BY <1>2, <1>5, <1>7
  <2>2. Before(a + 1, wait) = Before(a, wait) + LongestAttempt + wait + Pause(a)
    BY <1>2, <1>3, <1>5, <1>7, <1>10
  <2>3. Before(a, wait) + LongestAttempt + wait <= CallTime(wait)
    BY <1>2, <1>5, <1>6, <1>7, <1>8, <1>9, <1>10
  <2> QED BY <1>4, <2>1, <2>2, <2>3

\* The quantities of TimeInv are natural numbers.
LEMMA TimesAre ==
    /\ LongestCall \in Nat /\ EventTime \in Nat /\ LongestTick \in Nat
    /\ LongestTick = LongestCall + Ahead(Cardinality(Events))
    /\ CallTime(0) = LongestCall
    /\ EventTime = CallTime(RateLimit) + 2 * LongestCall
    /\ CallTime(RateLimit) \in Nat
    /\ \A n \in Nat : /\ Ahead(n) \in Nat
                      /\ Ahead(n + 1) = Ahead(n) + EventTime
                      /\ \A m \in Nat : n <= m => Ahead(n) <= Ahead(m)
<1>1. Pauses[MaxAttempts - 1] \in Nat
  BY PausesGrow
<1>2. MaxAttempts * LongestAttempt \in Nat /\ MaxAttempts * RateLimit \in Nat
  BY TimesMore
<1>3. LongestCall \in Nat
  BY <1>1, <1>2 DEF LongestCall
<1>4. EventTime \in Nat
  BY <1>2, <1>3 DEF EventTime
<1>5. \A n \in Nat : /\ Ahead(n) \in Nat
                     /\ Ahead(n + 1) = Ahead(n) + EventTime
                     /\ \A m \in Nat : n <= m => Ahead(n) <= Ahead(m)
  BY <1>4, TimesMore DEF Ahead
<1>6. LongestTick = LongestCall + Ahead(Cardinality(Events))
  BY DEF LongestTick, Ahead, EventTime
<1>7. Cardinality(Events) \in Nat
  BY FS_CardinalityType
<1>8. LongestTick \in Nat
  BY <1>3, <1>5, <1>6, <1>7
<1>9. CallTime(0) = LongestCall /\ CallTime(RateLimit) = LongestCall + MaxAttempts * RateLimit
  <2>1. MaxAttempts * 0 = 0
    OBVIOUS
  <2> QED BY <1>3, <2>1 DEF CallTime
<1>10. EventTime = CallTime(RateLimit) + 2 * LongestCall /\ CallTime(RateLimit) \in Nat
  BY <1>2, <1>3, <1>9 DEF EventTime
<1> QED BY <1>3, <1>4, <1>5, <1>6, <1>8, <1>9, <1>10

\* There are no more events left than there are.
LEMMA TodoCount ==
    ASSUME NEW S \in SUBSET Events
    PROVE  /\ IsFiniteSet(S) /\ Cardinality(S) \in Nat /\ Cardinality(Events) \in Nat
           /\ Cardinality(S) <= Cardinality(Events)
           /\ \A e \in S : Cardinality(S) = Cardinality(S \ {e}) + 1
<1>1. IsFiniteSet(S) /\ Cardinality(S) <= Cardinality(Events)
  BY FS_Subset
<1>2. Cardinality(S) \in Nat /\ Cardinality(Events) \in Nat
  BY <1>1, FS_CardinalityType
<1>3. \A e \in S : Cardinality(S \ {e}) = Cardinality(S) - 1
  BY <1>1, FS_RemoveElement
<1> QED BY <1>1, <1>2, <1>3

\* A call lasts no longer than all its attempts.
LEMMA SpentIs ==
    CallsTypeOK /\ SpacedInv /\ phase \in Calling =>
        Spent \in Int /\ Spent <= CallTime(Wait(phase))
<1> SUFFICES ASSUME CallsTypeOK, SpacedInv, phase \in Calling
             PROVE  Spent \in Int /\ Spent <= CallTime(Wait(phase))
  OBVIOUS
<1> DEFINE b == Before(attempt, Wait(phase))
<1>1. /\ attempt \in 1..MaxAttempts /\ timer \in Nat
      /\ step \in {"begin", "limited", "sent", "pause"}
      /\ Wait(phase) \in Nat
      /\ step = "limited" => Wait(phase) = RateLimit
  BY DEF CallsTypeOK, SpacedInv, Wait
<1>2. b \in Nat /\ b + LongestAttempt + Wait(phase) <= CallTime(Wait(phase))
  BY <1>1, BeforeSteps
<1>3. CallTime(Wait(phase)) \in Int
  <2>1. CallTime(RateLimit) \in Int /\ CallTime(0) \in Int
    BY TimesAre
  <2>2. Wait(phase) = RateLimit \/ Wait(phase) = 0
    BY DEF Wait
  <2> QED BY <2>1, <2>2
<1>4. /\ step = "begin" => Spent = b
      /\ step = "limited" => Spent = b + RateLimit - timer
      /\ step = "sent" => Spent = b + Wait(phase) + LongestAttempt - timer
      /\ step = "pause" => Spent = b - timer
  BY DEF Spent
<1> HIDE DEF b
<1>5. step = "begin" => Spent \in Int /\ Spent <= CallTime(Wait(phase))
  BY <1>1, <1>2, <1>3, <1>4
<1>6. step = "limited" => Spent \in Int /\ Spent <= CallTime(Wait(phase))
  BY <1>1, <1>2, <1>3, <1>4
<1>7. step = "sent" => Spent \in Int /\ Spent <= CallTime(Wait(phase))
  BY <1>1, <1>2, <1>3, <1>4
<1>8. step = "pause" => Spent \in Int /\ Spent <= CallTime(Wait(phase))
  BY <1>1, <1>2, <1>3, <1>4
<1> QED BY <1>1, <1>5, <1>6, <1>7, <1>8

\* The same of the state after a step.
LEMMA SpentNext == CallsTypeOK' /\ SpacedInv' /\ (phase \in Calling)' => (Spent \in Int)'
<1>1. CallsTypeOK /\ SpacedInv /\ phase \in Calling => Spent \in Int
  BY SpentIs
<1> QED BY <1>1, PTL

\* What a tick may still last while it awaits service p.
LEMMA LeftIs ==
    ASSUME CallsTypeOK, phase \in Calling
    PROVE  /\ Left \in Nat
           /\ CallTime(Wait(phase)) \in Nat /\ CallTime(Wait(phase)) <= Left
           /\ phase = "location" => Left = LongestTick /\ Wait(phase) = 0
           /\ phase = "geocode" => /\ Left = EventTime + Ahead(Cardinality(todo))
                                   /\ Wait(phase) = RateLimit
           /\ phase = "routing" => /\ Left = 2 * LongestCall + Ahead(Cardinality(todo))
                                   /\ Wait(phase) = 0
           /\ phase = "publish" => /\ Left = LongestCall + Ahead(Cardinality(todo))
                                   /\ Wait(phase) = 0
<1>1. Cardinality(todo) \in Nat /\ Cardinality(Events) \in Nat
  BY TodoCount DEF CallsTypeOK
<1>2. /\ Ahead(Cardinality(todo)) \in Nat /\ Ahead(Cardinality(Events)) \in Nat
      /\ LongestCall \in Nat /\ EventTime \in Nat
  BY <1>1, TimesAre
<1>3. CASE phase = "location"
  BY <1>2, <1>3, TimesAre DEF Left, Wait
<1>4. CASE phase = "geocode"
  BY <1>2, <1>4, TimesAre DEF Left, Wait
<1>5. CASE phase = "routing"
  BY <1>2, <1>5, TimesAre DEF Left, Wait
<1>6. CASE phase = "publish"
  BY <1>2, <1>6, TimesAre DEF Left, Wait
<1> QED BY <1>3, <1>4, <1>5, <1>6 DEF Calling

\* Terms of both sides of TimeInv, put together.
LEMMA Slack ==
    ASSUME NEW e \in Int, NEW f \in Int, NEW s \in Int, NEW t \in Int,
           NEW rest \in Int, NEW longest \in Int, f + s <= e + t, e + rest <= longest + s
    PROVE  f + rest <= longest + t
  OBVIOUS

\* The tick and the call grow by the same unit of time.
LEMMA OneMore ==
    ASSUME NEW e \in Int, NEW f \in Int, NEW s \in Int, f <= e + 1
    PROVE  f + s <= e + (s + 1)
  OBVIOUS

\* The call may grow, and the tick not.
LEMMA CallGrows ==
    ASSUME NEW e \in Int, NEW s \in Int, NEW t \in Int, s <= t
    PROVE  e + s <= e + t
  OBVIOUS

\* Within a call the tick lasts no longer than the call does.
LEMMA WithinCall ==
    ASSUME CallsTypeOK, SpacedInv, CallsTypeOK', SpacedInv', TimeInv, phase \in Calling,
           UNCHANGED <<phase, todo>>, Own' + Spent <= Own + Spent'
    PROVE  TimeInv'
<1>1. /\ Spent \in Int /\ Left \in Int /\ LongestTick \in Int
      /\ Own \in Int /\ Own' \in Int
  <2>1. Spent \in Int /\ Left \in Int /\ LongestTick \in Int
    BY SpentIs, LeftIs, TimesAre
  <2>2. Own \in Int /\ Own' \in Int
    BY OwnIs, OwnIsNext
  <2> QED BY <2>1, <2>2
<1>2. Spent' \in Int
  <2>1. (phase \in Calling)'
    BY DEF Calling
  <2> QED BY <2>1, SpentNext
<1>3. Left' = Left
  BY DEF Left
<1>4. Own + Left <= LongestTick + Spent
  BY DEF TimeInv
<1>5. Own' + Left' <= LongestTick + Spent'
  BY <1>1, <1>2, <1>3, <1>4, Slack
<1>6. phase' # "next" /\ phase' # "idle"
  BY DEF Calling
<1> QED BY <1>5, <1>6 DEF TimeInv

\* A call that begins has lasted no time.
LEMMA CallBegins ==
    ASSUME NEW p, Call(p)
    PROVE  Spent' = 0
<1>1. phase' = p /\ step' = "begin" /\ attempt' = 1
  BY DEF Call
<1>2. Before(1, Wait(p)) = 0
  <2>1. Wait(p) \in Nat
    BY DEF Wait
  <2> QED BY <2>1, BeforeSteps
<1> QED BY <1>1, <1>2 DEF Spent

\* The steps within a call.
LEMMA TimeInCall ==
    ASSUME CallsInv, SpacedInv, CallsInv', SpacedInv', TimeInv,
           Advance \/ SyncHoldsLoop \/ Limit \/ Send \/ AttemptFails \/ PauseEnds
    PROVE  TimeInv'
<1> DEFINE b == Before(attempt, Wait(phase))
<1> DEFINE w == Wait(phase)
<1>1. CallsTypeOK /\ CallsTypeOK'
  BY DEF CallsInv
<1>2. /\ phase \in Calling /\ UNCHANGED <<phase, todo>> /\ attempt \in 1..MaxAttempts
      /\ timer \in Nat /\ Own \in Nat /\ step \in {"begin", "limited", "sent", "pause"}
  BY <1>1, OwnIs
  DEF CallsTypeOK, Advance, SyncHoldsLoop, Limit, Send, AttemptFails, PauseEnds, MustWait, work, Calling
<1>3. /\ w \in Nat /\ b \in Nat
      /\ Before(attempt + 1, Wait(phase)) = b + LongestAttempt + w + Pause(attempt)
      /\ Pause(attempt) \in Nat
  <2>1. Wait(phase) \in Nat
    BY DEF Wait
  <2> QED BY <1>2, <2>1, BeforeSteps, PauseIsNat
<1>4. /\ step = "begin" => Spent = b
      /\ step = "limited" => Spent = b + RateLimit - timer
      /\ step = "sent" => Spent = b + w + LongestAttempt - timer
      /\ step = "pause" => Spent = b - timer
  BY DEF Spent
<1> HIDE DEF b
<1>5. attempt' = attempt =>
         /\ step' = "begin" => Spent' = b
         /\ step' = "limited" => Spent' = b + RateLimit - timer'
         /\ step' = "sent" => Spent' = b + w + LongestAttempt - timer'
         /\ step' = "pause" => Spent' = b - timer'
  BY <1>2 DEF Spent, b
<1> HIDE DEF w
<1>6. Own' + Spent <= Own + Spent'
  <2>1. CASE Advance
    <3>1. /\ step' = step /\ attempt' = attempt /\ timer' = timer - 1 /\ Own' \in Nat
          /\ Own' <= Own + 1 /\ step # "begin" /\ timer > 0
      <4>1. step' = step /\ attempt' = attempt /\ timer > 0 /\ timer' = timer - 1
        BY <1>2, <2>1 DEF Advance, TimerRuns
      <4>2. Own' \in Nat /\ Own' <= Own + 1
        <5>1. (elapsed' = elapsed \/ elapsed' = elapsed + 1) /\ held' = held
          BY <2>1 DEF Advance
        <5>2. elapsed \in Nat /\ held \in Nat
          BY <1>1 DEF CallsTypeOK
        <5>3. Own' <= Own + 1
          BY <5>1, <5>2 DEF Own
        <5> QED BY <1>1, <5>3, OwnIsNext
      <4>3. step # "begin"
        BY <1>1, <4>1 DEF CallsTypeOK
      <4> QED BY <4>1, <4>2, <4>3
    <3>2. Spent' = Spent + 1 /\ Spent \in Int
      <4>1. CASE step = "limited"
        BY <1>2, <1>3, <1>4, <1>5, <3>1, <4>1
      <4>2. CASE step = "sent"
        BY <1>2, <1>3, <1>4, <1>5, <3>1, <4>2
      <4>3. CASE step = "pause"
        BY <1>2, <1>3, <1>4, <1>5, <3>1, <4>3
      <4>4. step \in {"limited", "sent", "pause"}
        BY <1>2, <3>1
      <4> QED BY <4>1, <4>2, <4>3, <4>4
    <3>3. Own \in Int /\ Own' \in Int /\ Own' <= Own + 1
      BY <1>2, <3>1
    <3> QED BY <3>2, <3>3, OneMore
  <2>2. CASE Limit
    <3>1. /\ step = "begin" /\ step' = "limited" /\ attempt' = attempt /\ Own' = Own
          /\ timer' = Remaining
      BY <2>2, OwnStill DEF Limit
    <3>2. Remaining \in 0..RateLimit
      <4>1. sinceLast \in 0..RateLimit \cup {None}
        BY <1>1 DEF CallsTypeOK
      <4> QED BY <4>1 DEF Remaining
    <3>3. Spent = b /\ Spent' = b + RateLimit - Remaining
      BY <1>4, <1>5, <3>1
    <3> QED BY <1>2, <1>3, <3>1, <3>2, <3>3
  <2>3. CASE Send
    <3>1. /\ step' = "sent" /\ timer' = LongestAttempt /\ attempt' = attempt /\ Own' = Own
          /\ step = "begin" \/ (step = "limited" /\ timer = 0)
      BY <2>3, OwnStill DEF Send
    <3>2. Spent' = b + w
      BY <1>3, <1>5, <3>1
    <3>3. step = "limited" => RateLimit = w
      BY DEF SpacedInv, Wait, w
    <3>4. Spent \in Int /\ Spent <= b + w
      BY <1>3, <1>4, <3>1, <3>3
    <3> QED BY <1>2, <1>3, <3>1, <3>2, <3>4
  <2>4. CASE AttemptFails
    <3>1. /\ step = "sent" /\ step' = "pause" /\ timer' = Pause(attempt) /\ attempt' = attempt + 1
          /\ Own' = Own
      BY <2>4, OwnStill DEF AttemptFails, NextAttempt
    <3>2. Spent = b + w + LongestAttempt - timer
      BY <1>4, <3>1
    <3>3. Spent' = Before(attempt + 1, Wait(phase)) - Pause(attempt)
      BY <1>2, <3>1 DEF Spent
    <3> QED BY <1>2, <1>3, <3>1, <3>2, <3>3
  <2>5. CASE PauseEnds
    <3>1. /\ step = "pause" /\ step' = "begin" /\ timer = 0 /\ attempt' = attempt
          /\ Own' = Own
      BY <2>5, OwnStill DEF PauseEnds
    <3> QED BY <1>2, <1>3, <1>4, <1>5, <3>1
  <2>6. CASE SyncHoldsLoop
    <3>1. /\ step' = step /\ attempt' = attempt /\ step \in {"limited", "sent", "pause"}
          /\ timer' = timer \/ timer' = timer - 1
      BY <1>2, <2>6 DEF SyncHoldsLoop, TimerRuns
    <3>2. Own' = Own
      <4>1. elapsed' = elapsed + 1 /\ held' = held + 1
        BY <2>6 DEF SyncHoldsLoop
      <4>2. elapsed \in Nat /\ held \in Nat
        BY <1>1 DEF CallsTypeOK
      <4> QED BY <4>1, <4>2 DEF Own
    <3>3. Spent \in Int /\ Spent' \in Int /\ Spent <= Spent'
      <4>1. CASE step = "limited"
        BY <1>2, <1>3, <1>4, <1>5, <3>1, <4>1
      <4>2. CASE step = "sent"
        BY <1>2, <1>3, <1>4, <1>5, <3>1, <4>2
      <4>3. CASE step = "pause"
        BY <1>2, <1>3, <1>4, <1>5, <3>1, <4>3
      <4> QED BY <3>1, <4>1, <4>2, <4>3
    <3>4. Own \in Int
      BY <1>2
    <3>5. Own + Spent <= Own + Spent'
      BY <3>3, <3>4, CallGrows
    <3> QED BY <3>2, <3>5
  <2> QED BY <2>1, <2>2, <2>3, <2>4, <2>5, <2>6
<1> QED BY <1>1, <1>2, <1>6, WithinCall

\* A call is over, whatever its outcome: the tick has had its time, or may go on
\* for what was left beyond the call.
LEMMA CallOver ==
    ASSUME CallsTypeOK, SpacedInv, TimeInv, phase \in Calling
    PROVE  /\ Own \in Nat
           /\ Own + Left <= LongestTick + CallTime(Wait(phase))
<1>1. /\ Spent \in Int /\ Spent <= CallTime(Wait(phase))
      /\ Left \in Int /\ LongestTick \in Int /\ CallTime(Wait(phase)) \in Int
  BY SpentIs, LeftIs, TimesAre
<1>2. Own \in Nat
  BY OwnIs
<1>3. Own + Left <= LongestTick + Spent
  BY DEF TimeInv
<1> QED BY <1>1, <1>2, <1>3

\* Whoever goes on after the call, with work for rest at most, is in time.
LEMMA GoesOn ==
    ASSUME CallsTypeOK, SpacedInv, TimeInv, phase \in Calling,
           NEW rest \in Nat, rest + CallTime(Wait(phase)) <= Left
    PROVE  Own + rest <= LongestTick
<1>1. Own \in Nat /\ Own + Left <= LongestTick + CallTime(Wait(phase))
  BY CallOver
<1>2. Left \in Nat /\ CallTime(Wait(phase)) \in Nat /\ LongestTick \in Nat
  BY LeftIs, TimesAre
<1> QED BY <1>1, <1>2

\* The event under way is done with, or has its estimate and a message to go.
LEMMA EventOver ==
    ASSUME CallsTypeOK, SpacedInv, TimeInv, phase \in {"geocode", "routing", "publish"}
    PROVE  /\ Own + Ahead(Cardinality(todo)) <= LongestTick
           /\ phase = "geocode" =>
                 Own + (2 * LongestCall + Ahead(Cardinality(todo))) <= LongestTick
           /\ phase = "routing" =>
                 Own + (LongestCall + Ahead(Cardinality(todo))) <= LongestTick
<1> DEFINE ahead == Ahead(Cardinality(todo))
<1>1. phase \in Calling
  BY DEF Calling
<1>2. Cardinality(todo) \in Nat
  BY TodoCount DEF CallsTypeOK
<1>3. /\ ahead \in Nat /\ LongestCall \in Nat /\ CallTime(RateLimit) \in Nat
      /\ CallTime(0) = LongestCall /\ EventTime = CallTime(RateLimit) + 2 * LongestCall
  BY <1>2, TimesAre
<1>4. /\ phase = "geocode" => Left = EventTime + ahead /\ Wait(phase) = RateLimit
      /\ phase = "routing" => Left = 2 * LongestCall + ahead /\ Wait(phase) = 0
      /\ phase = "publish" => Left = LongestCall + ahead /\ Wait(phase) = 0
  BY <1>1, LeftIs
<1> HIDE DEF ahead
<1>5. ASSUME phase = "geocode" PROVE Own + (2 * LongestCall + ahead) <= LongestTick
  <2>1. (2 * LongestCall + ahead) + CallTime(Wait(phase)) <= Left
    BY <1>3, <1>4, <1>5
  <2>2. 2 * LongestCall + ahead \in Nat
    BY <1>3
  <2> QED BY <1>1, <2>1, <2>2, GoesOn
<1>6. ASSUME phase = "routing" PROVE Own + (LongestCall + ahead) <= LongestTick
  <2>1. (LongestCall + ahead) + CallTime(Wait(phase)) <= Left
    BY <1>3, <1>4, <1>6
  <2>2. LongestCall + ahead \in Nat
    BY <1>3
  <2> QED BY <1>1, <2>1, <2>2, GoesOn
<1>7. ASSUME phase = "publish" PROVE Own + ahead <= LongestTick
  <2>1. ahead + CallTime(Wait(phase)) <= Left
    BY <1>3, <1>4, <1>7
  <2> QED BY <1>1, <1>3, <2>1, GoesOn
<1>8. Own \in Nat /\ LongestTick \in Nat
  BY OwnIs, TimesAre
<1>9. Own + ahead <= LongestTick
  <2>1. phase = "geocode" => Own + ahead <= LongestTick
    BY <1>3, <1>5, <1>8
  <2>2. phase = "routing" => Own + ahead <= LongestTick
    BY <1>3, <1>6, <1>8
  <2> QED BY <1>7, <2>1, <2>2
<1> QED BY <1>5, <1>6, <1>9 DEF ahead

\* The next event, or the end, is reached in time.
LEMMA BackInLoop ==
    ASSUME CallsTypeOK, SpacedInv, TimeInv, phase \in {"geocode", "routing", "publish"},
           NoCall("next"), UNCHANGED <<todo, Own>>
    PROVE  TimeInv'
<1>1. Own + Ahead(Cardinality(todo)) <= LongestTick
  BY EventOver
<1>2. phase' = "next"
  BY DEF NoCall
<1> QED BY <1>1, <1>2 DEF TimeInv, Calling

\* A call that begins is begun in time: as late as leaves it its own time, and
\* what comes after it.
LEMMA InTime ==
    ASSUME NEW p \in Calling, Call(p), Own' + Left' <= LongestTick
    PROVE  TimeInv'
<1>1. Spent' = 0
  BY CallBegins
<1>2. phase' = p
  BY DEF Call
<1>3. LongestTick + Spent' = LongestTick
  <2>1. LongestTick \in Nat
    BY TimesAre
  <2> QED BY <1>1, <2>1
<1>4. Own' + Left' <= LongestTick + Spent'
  BY <1>3
<1> QED BY <1>2, <1>4 DEF TimeInv, Calling

\* Every step keeps within what the tick has been given.
LEMMA TimePreserved ==
    CallsInv /\ SpacedInv /\ CallsInv' /\ SpacedInv' /\ TimeInv /\ [Next]_vars => TimeInv'
<1> SUFFICES ASSUME CallsInv, SpacedInv, CallsInv', SpacedInv', TimeInv, [Next]_vars
             PROVE  TimeInv'
    OBVIOUS
<1>1. /\ CallsTypeOK /\ CallsTypeOK' /\ Own \in Nat
      /\ todo \in SUBSET Events /\ todo' \in SUBSET Events
  BY OwnIs DEF CallsInv, CallsTypeOK
<1>2. /\ LongestCall \in Nat /\ LongestTick \in Nat /\ EventTime \in Nat
      /\ LongestTick = LongestCall + Ahead(Cardinality(Events))
      /\ Ahead(Cardinality(todo)) \in Nat /\ Ahead(Cardinality(todo')) \in Nat
      /\ Ahead(Cardinality(Events)) \in Nat
      /\ Ahead(Cardinality(todo')) <= Ahead(Cardinality(Events))
  <2>1. /\ Cardinality(todo) \in Nat /\ Cardinality(todo') \in Nat /\ Cardinality(Events) \in Nat
        /\ Cardinality(todo') <= Cardinality(Events)
    BY <1>1, TodoCount
  <2> QED BY <2>1, TimesAre
<1>3. CASE AdvanceIdle
  <2>1. phase' = "idle" /\ Own' = 0
    BY <1>3 DEF AdvanceIdle, call, Own
  <2> QED BY <1>2, <2>1 DEF TimeInv, Calling
<1>4. CASE Advance \/ SyncHoldsLoop \/ Limit \/ Send \/ AttemptFails \/ PauseEnds
  BY <1>4, TimeInCall
<1>5. CASE TickStart
  <2>1. Call("location") /\ Own' = 0 /\ phase' = "location"
    BY <1>5 DEF TickStart, Call, Own
  <2>2. Left' = LongestTick
    BY <1>2, <2>1 DEF Left
  <2>3. Own' + Left' <= LongestTick
    BY <1>2, <2>1, <2>2
  <2> QED BY <2>1, <2>3, InTime DEF Calling
<1>6. ASSUME phase = "location", Own' = Own PROVE Own + Ahead(Cardinality(Events)) <= LongestTick
  <2>1. Left = LongestTick /\ Wait(phase) = 0 /\ phase \in Calling
    BY <1>1, <1>6, LeftIs DEF Calling
  <2>2. Ahead(Cardinality(Events)) + CallTime(Wait(phase)) <= Left
    BY <1>2, <2>1, TimesAre
  <2> QED BY <1>1, <1>2, <2>1, <2>2, GoesOn
<1>7. CASE LocationFails
  <2>1. phase = "location" /\ Own' = Own /\ phase' = "idle"
    BY <1>7, OwnStill DEF LocationFails, Answered, NoCall
  <2>2. Own' <= LongestTick
    BY <1>1, <1>2, <1>6, <2>1
  <2> QED BY <2>1, <2>2 DEF TimeInv, Calling
<1>8. ASSUME NEW rows \in SUBSET Events, Located(rows) PROVE TimeInv'
  <2>1. phase = "location" /\ Own' = Own /\ phase' = "next"
    BY <1>8, OwnStill DEF Located, Answered, NoCall
  <2>2. Own' + Ahead(Cardinality(todo')) <= LongestTick
    BY <1>1, <1>2, <1>6, <2>1
  <2> QED BY <2>1, <2>2 DEF TimeInv, Calling
<1>9. ASSUME NEW e \in Events, Begin(e)
      PROVE  Own' = Own /\ Own + EventTime + Ahead(Cardinality(todo')) <= LongestTick
  <2>1. phase = "next" /\ e \in todo /\ todo' = todo \ {e} /\ Own' = Own
    BY <1>9, OwnStill DEF Begin
  <2>2. Cardinality(todo) = Cardinality(todo') + 1 /\ Cardinality(todo') \in Nat
    BY <1>1, <2>1, TodoCount
  <2>3. Ahead(Cardinality(todo)) = Ahead(Cardinality(todo')) + EventTime
    BY <2>2, TimesAre
  <2>4. Own + Ahead(Cardinality(todo)) <= LongestTick
    BY <2>1 DEF TimeInv
  <2> QED BY <1>1, <1>2, <2>1, <2>3, <2>4
<1>10. ASSUME NEW e \in Events, BeginKnown(e) PROVE TimeInv'
  <2>1. Begin(e) /\ Call("routing") /\ phase' = "routing"
    BY <1>10 DEF BeginKnown, Call
  <2>2. Left' = 2 * LongestCall + Ahead(Cardinality(todo'))
    BY <2>1 DEF Left
  <2>3. EventTime = CallTime(RateLimit) + 2 * LongestCall /\ CallTime(RateLimit) \in Nat
    BY TimesAre
  <2>4. Own' + Left' <= LongestTick
    BY <1>1, <1>2, <1>9, <2>1, <2>2, <2>3
  <2> QED BY <2>1, <2>4, InTime DEF Calling
<1>11. ASSUME NEW e \in Events, BeginUnknown(e) PROVE TimeInv'
  <2>1. Begin(e) /\ Call("geocode") /\ phase' = "geocode"
    BY <1>11 DEF BeginUnknown, Call
  <2>2. Left' = EventTime + Ahead(Cardinality(todo'))
    BY <2>1 DEF Left
  <2>3. Own' + Left' <= LongestTick
    BY <1>1, <1>2, <1>9, <2>1, <2>2
  <2> QED BY <2>1, <2>3, InTime DEF Calling
<1>12. CASE Geocoded
  <2>1. /\ phase = "geocode" /\ Call("routing") /\ phase' = "routing"
        /\ todo' = todo /\ Own' = Own
    BY <1>12, OwnStill DEF Geocoded, Answered, Call
  <2>2. Left' = 2 * LongestCall + Ahead(Cardinality(todo))
    BY <2>1 DEF Left
  <2>3. Own' + Left' <= LongestTick
    BY <1>1, <2>1, <2>2, EventOver
  <2> QED BY <2>1, <2>3, InTime DEF Calling
<1>13. CASE GeocodeFails
  <2>1. phase = "geocode" /\ NoCall("next") /\ UNCHANGED <<todo, Own>>
    BY <1>13, OwnStill DEF GeocodeFails, GeocodeFailureKeepsLoop, Answered
  <2> QED BY <1>1, <2>1, BackInLoop
<1>14. ASSUME NEW next \in {"publish", "quiet"}, phase = "routing", Estimated(next)
       PROVE  TimeInv'
  <2>1. UNCHANGED <<todo, Own>>
    BY <1>14, OwnStill DEF Estimated
  <2>2. CASE Call("publish")
    <3>1. phase' = "publish"
      BY <2>2 DEF Call
    <3>2. Left' = LongestCall + Ahead(Cardinality(todo))
      BY <2>1, <3>1 DEF Left
    <3>3. Own' + Left' <= LongestTick
      BY <1>1, <1>14, <2>1, <3>2, EventOver
    <3> QED BY <2>2, <3>3, InTime DEF Calling
  <2>3. CASE NoCall("next")
    BY <1>1, <1>14, <2>1, <2>3, BackInLoop
  <2> QED BY <1>14, <2>2, <2>3 DEF Estimated
<1>15. CASE RoutingFails \/ PublishEnds
  <2>1. /\ phase \in {"geocode", "routing", "publish"} /\ NoCall("next")
        /\ UNCHANGED <<todo, Own>>
    BY <1>15, OwnStill DEF RoutingFails, PublishEnds, ComputedLocally, Answered
  <2> QED BY <1>1, <2>1, BackInLoop
<1>16. CASE TickEnd
  <2>1. phase = "next" /\ phase' = "idle" /\ Own' = Own
    BY <1>16, OwnStill DEF TickEnd, NoCall
  <2>2. Own + Ahead(Cardinality(todo)) <= LongestTick
    BY <2>1 DEF TimeInv
  <2>3. Own' <= LongestTick
    BY <1>1, <1>2, <2>1, <2>2
  <2> QED BY <2>1, <2>3 DEF TimeInv, Calling
<1>17. CASE UNCHANGED vars
  <2>1. UNCHANGED <<phase, step, attempt, timer, todo, Own>>
    BY <1>17, OwnStill DEF vars, call, work
  <2> QED BY <2>1 DEF TimeInv, Left, Spent
<1> QED
  BY <1>3, <1>4, <1>5, <1>7, <1>8, <1>10, <1>11, <1>12, <1>13, <1>14, <1>15, <1>16, <1>17
  DEF Next, Step, Routed, RoutedByDistance, ComputedLocally, Answered

\* However many events there are and however often each service fails, a tick
\* lasts no longer than its attempts, pauses and waits for the rate limit, and
\* what syncs take of the event loop meanwhile.
THEOREM TickBoundedHolds == Spec => []TickBounded
<1>1. Init => SpacedInv
  BY DEF Init, SpacedInv
<1>2. Init => TimeInv
  <2>1. Init => phase = "idle" /\ Own = 0
    BY DEF Init, Own
  <2>2. LongestTick >= 0
    BY TimesAre
  <2> QED BY <2>1, <2>2 DEF TimeInv, Calling
<1>3. CallsInv /\ SpacedInv /\ TimeInv => TickBounded
  <2> SUFFICES ASSUME CallsInv, SpacedInv, TimeInv PROVE TickBounded
    OBVIOUS
  <2>1. CallsTypeOK /\ Own \in Nat /\ LongestTick \in Nat
    BY TimesAre, OwnIs DEF CallsInv
  <2>5. Own <= LongestTick => TickBounded
    BY <2>1 DEF TickBounded, Own, CallsTypeOK
  <2>2. CASE phase \in Calling
    <3>1. Own + 0 <= LongestTick
      <4>1. 0 + CallTime(Wait(phase)) <= Left
        BY <2>1, <2>2, LeftIs
      <4> QED BY <2>1, <2>2, <4>1, GoesOn
    <3> QED BY <2>1, <2>5, <3>1
  <2>3. CASE phase = "next"
    <3>1. Cardinality(todo) \in Nat
      BY <2>1, TodoCount DEF CallsTypeOK
    <3>2. Ahead(Cardinality(todo)) \in Nat
      BY <3>1, TimesAre
    <3>3. Own + Ahead(Cardinality(todo)) <= LongestTick
      BY <2>3 DEF TimeInv
    <3>4. Own <= LongestTick
      BY <2>1, <3>2, <3>3
    <3> QED BY <2>5, <3>4
  <2>4. CASE phase = "idle"
    BY <2>4, <2>5 DEF TimeInv
  <2> QED BY <2>1, <2>2, <2>3, <2>4 DEF CallsTypeOK
<1>4. Spec => []SpacedInv
  BY <1>1, CallsInvHolds, SpacedPreserved, PTL DEF Spec
<1>5. Spec => []TimeInv
  BY <1>2, <1>4, CallsInvHolds, TimePreserved, PTL DEF Spec
<1> QED BY <1>3, <1>4, <1>5, CallsInvHolds, PTL
=============================================================================
