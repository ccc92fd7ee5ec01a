--------------------------- MODULE DavPushProofs ----------------------------
(***************************************************************************)
(* What holds of the push subscriptions for all calendars, tokens,         *)
(* lifetimes and settings, over any number of crashes up to MaxCrashes.    *)
(*                                                                         *)
(* DavInv is the inductive invariant: the types, who uses which token,     *)
(* what the row and the server agree on, and how long a subscription of    *)
(* this process is still going to last.                                    *)
(***************************************************************************)
EXTENDS DavPush, FiniteSetTheorems, TLAPS

USE DavPushAssumption, DavNoneAssumption DEF historyVars

-----------------------------------------------------------------------------
\* The calendar c uses the token t: in its row, in the request under way, or in
\* a registration the server holds.
Uses(c, t) ==
    \/ HasRow(c) /\ t = subscriptions[c].token
    \/ request # None /\ request.calendar = c /\ request.token = t
    \/ registered[c][t] > 0

\* A token is generated once, and used for one calendar.
TokenInv ==
    /\ \A c \in Calendars, t \in Tokens : Uses(c, t) => t \in issued
    /\ \A c, d \in Calendars, t \in Tokens : Uses(c, t) /\ Uses(d, t) => c = d
    /\ request # None /\ HasRow(request.calendar)
          => request.token = subscriptions[request.calendar].token

\* What was granted is registered; until it is heard it is in no row.
AgreeInv ==
    /\ RowsAreRegistered
    /\ (request # None /\ request.granted > 0) =>
          /\ registered[request.calendar][request.token] = request.granted
          /\ request.calendar \in unheard
          /\ lifetime[request.calendar] = request.granted
          /\ request.expires \in {request.granted, None}

\* The time left on the server of the registration the row of c is about.
Left(c) == registered[c][subscriptions[c].token]

\* The subscription of c lasts, still, for more than t if it was granted for
\* longer than n intervals.
LastsBeyond(c, n, t) == lifetime[c] > n * Interval => Left(c) > t

\* How long it does so at each point of the loops: the next check is reached if
\* none was missed, or one was and two intervals were granted.
Lasts(c) ==
    /\ stage = "registering" => c \notin todo /\ misses[c] = 0 /\ Left(c) = lifetime[c]
    /\ stage = "serving" =>
          /\ misses[c] = 0 => LastsBeyond(c, 1, checkIn) /\ LastsBeyond(c, 2, Interval + checkIn)
          /\ misses[c] = 1 => LastsBeyond(c, 2, checkIn)
    /\ stage = "renewing" /\ c \in todo =>
          /\ misses[c] = 0 => LastsBeyond(c, 1, 0) /\ LastsBeyond(c, 2, Interval)
          /\ misses[c] = 1 => LastsBeyond(c, 2, 0)
    /\ stage = "renewing" /\ c \notin todo =>
          /\ misses[c] = 0 => LastsBeyond(c, 1, Interval) /\ LastsBeyond(c, 2, 2 * Interval)
          /\ misses[c] = 1 => LastsBeyond(c, 2, Interval)

\* A calendar of this process has a row that was heard of, or one check or two
\* have missed it and the next one will visit it.
FreshInv ==
    /\ fresh # {} => (Enabled /\ stage # "down")
    /\ stage \in {"registering", "renewing"} => Enabled
    /\ stage = "renewing" => (checkIn = 0 /\ \A c \in todo : Expiring(c))
    /\ \A c \in fresh :
          /\ HasRow(c)
          /\ misses[c] = 1 => Expiring(c)
          /\ (misses[c] = 0 /\ c \in unheard) =>
                (request # None /\ request.calendar = c /\ request.granted > 0)
          /\ stage = "registering" => c \notin todo
          /\ c \notin guessed => Lasts(c)

DavInv == DavTypeOK /\ TokenInv /\ AgreeInv /\ FreshInv

-----------------------------------------------------------------------------
\* Time left stays a natural number.
LEMMA LessIsNat == \A n \in Nat : Less(n) \in Nat /\ Less(n) <= n
  BY DEF Less

\* Types are preserved by every step.
LEMMA TypePreserved == DavTypeOK /\ [DavNext]_vars => DavTypeOK'
<1> SUFFICES ASSUME DavTypeOK, [DavNext]_vars PROVE DavTypeOK'
    OBVIOUS
<1> USE DEF DavTypeOK, Subscription, Request
<1>1. CASE Advance
  <2>1. subscriptions' \in [Calendars -> Subscription \cup {None}]
    BY <1>1, LessIsNat DEF Advance, HasRow
  <2>2. registered' \in [Calendars -> [Tokens -> Nat]]
    <3>1. \A c \in Calendars, t \in Tokens : Less(registered[c][t]) \in Nat
      BY LessIsNat
    <3> QED BY <1>1, <3>1 DEF Advance
  <2>3. checkIn' \in 0..Interval
    <3>1. checkIn \in Nat /\ Interval \in Nat
      OBVIOUS
    <3> QED BY <1>1, <3>1, LessIsNat DEF Advance
  <2> QED BY <1>1, <2>1, <2>2, <2>3 DEF Advance
<1>2. CASE StartRegistration
  BY <1>2 DEF StartRegistration, Start, Selected
<1>3. CASE StartSwitchedOff \/ StartDiscoveryFails
  BY <1>3 DEF StartSwitchedOff, StartDiscoveryFails, StartWithout, Start
<1>4. CASE RenewStart
  BY <1>4 DEF RenewStart
<1>5. CASE CheckMisfires
  BY <1>5 DEF CheckMisfires, Missed
<1>6. ASSUME NEW c \in Calendars, NotSupported(c) \/ DiscoverFails(c) PROVE DavTypeOK'
  BY <1>6 DEF NotSupported, DiscoverFails, Visited, Missed
<1>7. ASSUME NEW c \in Calendars, NEW t \in Tokens, Post(c, t) PROVE DavTypeOK'
  BY <1>7 DEF Post
<1>8. ASSUME NEW g \in Lifetimes, NEW header \in BOOLEAN, ServerRegisters(g, header) PROVE DavTypeOK'
  <2>1. request \in Request /\ g \in Nat
    BY <1>8 DEF ServerRegisters
  <2>2. registered' \in [Calendars -> [Tokens -> Nat]]
    BY <1>8, <2>1 DEF ServerRegisters
  <2>3. request' \in Request /\ request'.calendar = request.calendar
    BY <1>8, <2>1 DEF ServerRegisters
  <2> QED BY <1>8, <2>1, <2>2, <2>3 DEF ServerRegisters
<1>9. CASE Registered
  <2>1. request \in Request
    BY <1>9 DEF Registered
  <2> QED BY <1>9, <2>1 DEF Registered, ExpiresAt
<1>10. CASE PostFails
  <2>1. request \in Request
    BY <1>10 DEF PostFails
  <2> QED BY <1>10, <2>1 DEF PostFails, Visited, Missed
<1>11. CASE RegisterEnd \/ RenewEnd
  BY <1>11 DEF RegisterEnd, RegistersNoMore, RenewEnd
<1>12. CASE Crash
  BY <1>12 DEF Crash
<1>13. CASE UNCHANGED vars
  BY <1>13 DEF vars, codeVars
<1> QED
  BY <1>1, <1>2, <1>3, <1>4, <1>5, <1>6, <1>7, <1>8, <1>9, <1>10, <1>11, <1>12, <1>13
  DEF DavNext, Works, Refused

\* Every variable keeps its type.
THEOREM DavTypeCorrect == DavSpec => []DavTypeOK
<1>1. DavInit => DavTypeOK
  BY DEF DavInit, DavTypeOK
<1> QED BY <1>1, TypePreserved, PTL DEF DavSpec

-----------------------------------------------------------------------------
\* A step without a request takes no token into use; Post takes one, for one
\* calendar, that is this calendar's or nobody's.
LEMMA UsesShrink ==
    ASSUME DavTypeOK, [DavNext]_vars, TokenInv,
           \A c \in Calendars, t \in Tokens : ~Post(c, t)
    PROVE  /\ \A c \in Calendars, t \in Tokens : Uses(c, t)' => Uses(c, t)
           /\ issued' = issued
<1> USE DEF DavTypeOK, Subscription, Request
<1>1. CASE Advance
  <2>1. \A c \in Calendars : HasRow(c)' => HasRow(c) /\ subscriptions[c]'.token = subscriptions[c].token
    BY <1>1 DEF Advance, HasRow
  <2>2. \A c \in Calendars, t \in Tokens : registered[c][t]' > 0 => registered[c][t] > 0
    <3>1. \A c \in Calendars, t \in Tokens : registered[c][t]' = Less(registered[c][t])
      BY <1>1 DEF Advance
    <3>2. \A c \in Calendars, t \in Tokens : registered[c][t] \in Nat
      OBVIOUS
    <3> QED BY <3>1, <3>2, LessIsNat
  <2> QED BY <1>1, <2>1, <2>2 DEF Advance, Uses
<1>2. CASE ~Advance /\ UNCHANGED <<subscriptions, registered, issued, request>>
  BY <1>2 DEF Uses, HasRow
<1>3. ASSUME NEW g \in Lifetimes, NEW header \in BOOLEAN, ServerRegisters(g, header)
      PROVE  /\ \A c \in Calendars, t \in Tokens : Uses(c, t)' => Uses(c, t)
             /\ issued' = issued
  <2>1. request \in Request /\ request' \in Request
        /\ request'.calendar = request.calendar /\ request'.token = request.token
    BY <1>3 DEF ServerRegisters
  <2>2. \A c \in Calendars, t \in Tokens :
           registered[c][t]' = registered[c][t] \/ (c = request.calendar /\ t = request.token)
    BY <1>3, <2>1 DEF ServerRegisters
  <2> QED BY <1>3, <2>1, <2>2 DEF ServerRegisters, Uses, HasRow
<1>4. CASE Registered
  <2>1. request \in Request
    BY <1>4 DEF Registered
  <2>2. \A c \in Calendars : HasRow(c)' =>
           \/ HasRow(c) /\ subscriptions[c]'.token = subscriptions[c].token
           \/ c = request.calendar /\ subscriptions[c]'.token = request.token
    BY <1>4, <2>1 DEF Registered, HasRow
  <2> QED BY <1>4, <2>1, <2>2 DEF Registered, Uses
<1>5. CASE request' = None /\ UNCHANGED <<subscriptions, registered, issued>>
  BY <1>5 DEF Uses, HasRow
<1>6. CASE Start \/ RenewStart \/ CheckMisfires \/ RegisterEnd \/ RenewEnd \/ UNCHANGED vars
  <2>1. UNCHANGED <<subscriptions, registered, issued, request>>
    BY <1>6 DEF Start, RenewStart, CheckMisfires, RegisterEnd, RenewEnd, vars, codeVars
  <2> QED BY <2>1 DEF Uses, HasRow
<1>7. CASE Crash \/ PostFails \/ \E c \in Calendars : NotSupported(c) \/ DiscoverFails(c)
  BY <1>5, <1>7 DEF Crash, PostFails, NotSupported, DiscoverFails, Visited
<1> QED
  BY <1>1, <1>3, <1>4, <1>6, <1>7
  DEF DavNext, Works, Refused, StartRegistration, StartSwitchedOff, StartDiscoveryFails, StartWithout

\* Every step keeps tokens apart.
LEMMA TokenPreserved == DavTypeOK /\ TokenInv /\ [DavNext]_vars => TokenInv'
<1> SUFFICES ASSUME DavTypeOK, TokenInv, [DavNext]_vars PROVE TokenInv'
    OBVIOUS
<1>type. DavTypeOK'
  BY TypePreserved
<1>1. ASSUME NEW c \in Calendars, NEW t \in Tokens, Post(c, t) PROVE TokenInv'
  <2>1. \A d \in Calendars, u \in Tokens :
           Uses(d, u)' => Uses(d, u) \/ (d = c /\ u = t)
    BY <1>1 DEF Post, Uses, HasRow
  <2>2. Uses(c, t) \/ t \notin issued
    BY <1>1 DEF Post, CallbackTokens, Uses
  <2>3. issued' = issued \cup {t}
    BY <1>1 DEF Post
  <2>4. \A d, e \in Calendars, u \in Tokens : Uses(d, u)' /\ Uses(e, u)' => d = e
    BY <2>1, <2>2 DEF TokenInv
  <2>5. HasRow(c)' => t = subscriptions[c]'.token
    BY <1>1 DEF Post, CallbackTokens, HasRow
  <2>6. request'.calendar = c /\ request'.token = t
    BY <1>1 DEF Post
  <2> QED BY <2>1, <2>3, <2>4, <2>5, <2>6 DEF TokenInv
<1>2. CASE \A c \in Calendars, t \in Tokens : ~Post(c, t)
  <2>1. /\ \A c \in Calendars, t \in Tokens : Uses(c, t)' => Uses(c, t)
        /\ issued' = issued
    BY <1>2, UsesShrink
  <2>2. request' # None /\ HasRow(request.calendar)'
           => request'.token = subscriptions'[request'.calendar].token
    <3> SUFFICES ASSUME request' # None
        PROVE HasRow(request.calendar)' => request'.token = subscriptions'[request'.calendar].token
        OBVIOUS
    <3> USE DEF DavTypeOK, Subscription, Request
    <3>1. CASE Advance
      BY <3>1 DEF Advance, TokenInv, HasRow
    <3>2. ASSUME NEW g \in Lifetimes, NEW header \in BOOLEAN, ServerRegisters(g, header)
          PROVE  HasRow(request.calendar)' => request'.token = subscriptions'[request'.calendar].token
      BY <3>2 DEF ServerRegisters, TokenInv, HasRow
    <3>3. CASE UNCHANGED <<subscriptions, request>>
      BY <3>3 DEF TokenInv, HasRow
    <3>4. CASE Start \/ RenewStart \/ CheckMisfires \/ RegisterEnd \/ RenewEnd \/ UNCHANGED vars
      BY <3>3, <3>4 DEF Start, RenewStart, CheckMisfires, RegisterEnd, RenewEnd, vars, codeVars
    <3>5. ~(Registered \/ Crash \/ PostFails)
          /\ ~ \E c \in Calendars : NotSupported(c) \/ DiscoverFails(c)
      BY DEF Registered, PostFails, NotSupported, DiscoverFails, Visited, Crash
    <3> QED
      BY <1>2, <3>1, <3>2, <3>4, <3>5
      DEF DavNext, Works, Refused, StartRegistration, StartSwitchedOff, StartDiscoveryFails,
          StartWithout
  <2> QED BY <2>1, <2>2 DEF TokenInv
<1> QED BY <1>1, <1>2

-----------------------------------------------------------------------------
\* In the loops, and only there, a request is under way.
LEMMA RequestInLoop ==
    ASSUME DavTypeOK, request # None
    PROVE  /\ stage \in {"registering", "renewing"}
           /\ request \in Request /\ request.calendar \in todo
  BY DEF DavTypeOK

\* Only an answer that is lost parts a row from its registration.
LEMMA AgreePreserved == DavTypeOK /\ TokenInv /\ AgreeInv /\ [DavNext]_vars => AgreeInv'
<1> SUFFICES ASSUME DavTypeOK, TokenInv, AgreeInv, [DavNext]_vars PROVE AgreeInv'
    OBVIOUS
<1> USE DEF DavTypeOK, Subscription, Request, AgreeInv, RowsAreRegistered
<1>1. CASE Advance
  <2>1. request = None
    BY <1>1, RequestInLoop DEF Advance
  <2>2. ASSUME NEW c \in Calendars \ (unheard \cup guessed), HasRow(c)'
        PROVE  registered[c][subscriptions[c].token]' = subscriptions[c]'.left
    <3>1. HasRow(c) /\ subscriptions[c]' = [subscriptions[c] EXCEPT !.left = Less(@)]
      BY <1>1, <2>2 DEF Advance, HasRow
    <3>2. subscriptions[c] \in Subscription
      BY <3>1 DEF HasRow
    <3>3. subscriptions[c]'.token = subscriptions[c].token
          /\ subscriptions[c]'.left = Less(subscriptions[c].left)
      BY <3>1, <3>2
    <3>4. \A t \in Tokens : registered'[c][t] = Less(registered[c][t])
      BY <1>1 DEF Advance
    <3> QED BY <3>1, <3>2, <3>3, <3>4
  <2> QED BY <1>1, <2>1, <2>2 DEF Advance, HasRow
<1>2. ASSUME NEW c \in Calendars, NEW t \in Tokens, Post(c, t) PROVE AgreeInv'
  BY <1>2 DEF Post, HasRow
<1>3. ASSUME NEW g \in Lifetimes, NEW header \in BOOLEAN, ServerRegisters(g, header) PROVE AgreeInv'
  <2>1. request \in Request
    BY <1>3 DEF ServerRegisters
  <2> QED BY <1>3, <2>1 DEF ServerRegisters, HasRow
<1>4. CASE Registered
  <2>1. request \in Request
    BY <1>4 DEF Registered
  <2> QED BY <1>4, <2>1 DEF Registered, ExpiresAt, HasRow
<1>5. CASE request' = None /\ UNCHANGED <<subscriptions, registered, unheard, guessed>>
  BY <1>5 DEF HasRow
<1>6. CASE Start \/ RenewStart \/ CheckMisfires \/ RegisterEnd \/ RenewEnd \/ UNCHANGED vars
  <2>1. UNCHANGED <<subscriptions, registered, request, unheard, guessed, lifetime>>
    BY <1>6 DEF Start, RenewStart, CheckMisfires, RegisterEnd, RenewEnd, vars, codeVars
  <2> QED BY <2>1 DEF HasRow
<1>7. CASE Crash \/ PostFails \/ \E c \in Calendars : NotSupported(c) \/ DiscoverFails(c)
  BY <1>5, <1>7 DEF Crash, PostFails, NotSupported, DiscoverFails, Visited
<1> QED
  BY <1>1, <1>2, <1>3, <1>4, <1>6, <1>7
  DEF DavNext, Works, Refused, StartRegistration, StartSwitchedOff, StartDiscoveryFails, StartWithout

\* The part of FreshInv about one calendar.
FreshOne(c) ==
    /\ HasRow(c)
    /\ misses[c] = 1 => Expiring(c)
    /\ (misses[c] = 0 /\ c \in unheard) =>
          (request # None /\ request.calendar = c /\ request.granted > 0)
    /\ stage = "registering" => c \notin todo
    /\ c \notin guessed => Lasts(c)

\* What the invariants say at the moment of a check.
LEMMA CheckDue ==
    ASSUME DavTypeOK, AgreeInv, FreshInv, stage = "serving", checkIn = 0,
           NEW c \in fresh
    PROVE  /\ misses[c] = 1 => Expiring(c)
           /\ c \notin guessed => Lasts(c)
           /\ c \notin guessed /\ ~Expiring(c) => misses[c] # 1 /\ Left(c) \in Nat
           /\ c \notin guessed /\ misses[c] = 0 /\ ~Expiring(c) => Left(c) > 2 * Interval
<1>1. request = None
  BY RequestInLoop
<1>2. c \in Calendars /\ HasRow(c) /\ subscriptions[c] \in Subscription
  BY DEF DavTypeOK, FreshInv, HasRow
<1>3. misses[c] = 1 => Expiring(c)
  BY DEF FreshInv
<1>4. misses[c] = 0 => c \notin unheard
  BY <1>1 DEF FreshInv
<1>5. misses[c] = 0 /\ c \notin guessed => Left(c) = subscriptions[c].left
  BY <1>2, <1>4 DEF AgreeInv, RowsAreRegistered, Left
<1>6. c \notin guessed /\ misses[c] = 0 /\ ~Expiring(c) => Left(c) > 2 * Interval
  BY <1>2, <1>5 DEF Expiring, Subscription
<1>7. Left(c) \in Nat
  BY <1>2 DEF Left, DavTypeOK, Subscription
<1> QED BY <1>3, <1>6, <1>7 DEF FreshInv

\* What Lasts says survives where the grant, the row's registration, the misses
\* and the place in the loops do.
LEMMA LastsStays ==
    ASSUME NEW c \in Calendars, Lasts(c), Left(c)' = Left(c),
           lifetime'[c] = lifetime[c], misses'[c] = misses[c], stage' = stage,
           checkIn' = checkIn, c \in todo' <=> c \in todo
    PROVE  Lasts(c)'
  BY DEF Lasts, LastsBeyond

\* Every step keeps what FreshInv says of the calendars of this process.
LEMMA FreshPreserved ==
    DavTypeOK /\ TokenInv /\ AgreeInv /\ FreshInv /\ [DavNext]_vars => FreshInv'
<1> SUFFICES ASSUME DavTypeOK, TokenInv, AgreeInv, FreshInv, [DavNext]_vars
             PROVE  FreshInv'
    OBVIOUS
<1>type. DavTypeOK'
  BY TypePreserved
<1>one. \A c \in fresh : c \in Calendars /\ FreshOne(c) /\ subscriptions[c] \in Subscription
  BY DEF DavTypeOK, FreshInv, FreshOne, HasRow
<1>nat. \A c \in fresh : Left(c) \in Nat /\ lifetime[c] \in Nat /\ misses[c] \in 0..2
  BY <1>one DEF Left, DavTypeOK, Subscription
<1>int. Interval \in Nat \ {0} /\ checkIn \in 0..Interval
  BY DEF DavTypeOK
<1>1. CASE Advance
  <2>1. request = None
    BY <1>1, RequestInLoop DEF Advance
  <2>2. ASSUME NEW c \in fresh PROVE FreshOne(c)'
    <3>1. stage = "serving" /\ stage' = stage /\ checkIn > 0 /\ checkIn' = checkIn - 1
          /\ checkIn \in Nat
      BY <1>1, <2>2 DEF Advance, FreshInv, Less, DavTypeOK
    <3>2. HasRow(c) /\ subscriptions'[c] = [subscriptions[c] EXCEPT !.left = Less(@)]
      BY <1>1, <1>one DEF Advance, FreshOne
    <3>3. subscriptions'[c].token = subscriptions[c].token
          /\ subscriptions'[c].left = Less(subscriptions[c].left)
          /\ subscriptions'[c] \in Subscription
      BY <1>one, <3>2, LessIsNat DEF Subscription
    <3>4. HasRow(c)' /\ (Expiring(c) => Expiring(c)')
      BY <1>one, <3>2, <3>3, LessIsNat DEF HasRow, Expiring, Subscription
    <3>5. Left(c)' = Less(Left(c))
      BY <1>1, <1>one, <3>3 DEF Advance, Left, DavTypeOK, Subscription
    <3>6. ASSUME Lasts(c) PROVE Lasts(c)'
      <4>1. misses'[c] = misses[c] /\ lifetime'[c] = lifetime[c]
        BY <1>1 DEF Advance
      <4> QED BY <1>nat, <1>int, <3>1, <3>5, <3>6, <4>1 DEF Lasts, LastsBeyond, Less
    <3>7. FreshOne(c) /\ UNCHANGED <<misses, unheard, guessed, request>>
      BY <1>1, <1>one DEF Advance
    <3>8. misses[c] = 0 => c \notin unheard
      BY <2>1, <3>7 DEF FreshOne
    <3> QED BY <3>1, <3>4, <3>6, <3>7, <3>8 DEF FreshOne
  <2> QED BY <1>1, <2>2 DEF Advance, FreshInv, FreshOne, Enabled
<1>2. CASE StartRegistration \/ StartSwitchedOff \/ StartDiscoveryFails
  BY <1>2 DEF StartRegistration, StartSwitchedOff, StartDiscoveryFails, StartWithout, Start, FreshInv
<1>3. CASE Crash
  BY <1>3 DEF Crash, FreshInv
<1>4. CASE RenewStart
  <2>1. ASSUME NEW c \in fresh PROVE FreshOne(c)'
    <3>1. Left(c)' = Left(c) /\ (Expiring(c)' <=> Expiring(c)) /\ (HasRow(c)' <=> HasRow(c))
      BY <1>4 DEF RenewStart, Left, Expiring, HasRow
    <3>2. FreshOne(c) /\ UNCHANGED <<misses, unheard, guessed, request, lifetime>>
      BY <1>4, <1>one DEF RenewStart
    <3>3. stage = "serving" /\ checkIn = 0 /\ stage' = "renewing" /\ (c \in todo' <=> Expiring(c))
      BY <1>4, <1>one DEF RenewStart
    <3>4. ASSUME c \notin guessed PROVE Lasts(c)'
      <4>1. Lasts(c) /\ (~Expiring(c) => misses[c] # 1)
            /\ (misses[c] = 0 /\ ~Expiring(c) => Left(c) > 2 * Interval)
        BY <3>3, <3>4, CheckDue
      <4> QED BY <1>nat, <1>int, <3>1, <3>2, <3>3, <4>1 DEF Lasts, LastsBeyond
    <3> QED BY <3>1, <3>2, <3>3, <3>4 DEF FreshOne
  <2> QED BY <1>4, <2>1 DEF RenewStart, FreshInv, FreshOne, Enabled, Expiring, HasRow
<1>5. CASE CheckMisfires
  <2>1. ASSUME NEW c \in fresh PROVE FreshOne(c)'
    <3>1. Left(c)' = Left(c) /\ (Expiring(c)' <=> Expiring(c)) /\ (HasRow(c)' <=> HasRow(c))
      BY <1>5 DEF CheckMisfires, Left, Expiring, HasRow
    <3>2. misses'[c] = IF Expiring(c) /\ misses[c] < 2 THEN misses[c] + 1 ELSE misses[c]
      BY <1>5, <1>one DEF CheckMisfires, Missed, DavTypeOK
    <3>3. FreshOne(c) /\ UNCHANGED <<unheard, guessed, request, lifetime, stage>>
      BY <1>5, <1>one DEF CheckMisfires
    <3>4. stage = "serving" /\ checkIn = 0 /\ checkIn' = Interval
      BY <1>5 DEF CheckMisfires
    <3>5. ASSUME c \notin guessed PROVE Lasts(c)'
      <4>1. Lasts(c) /\ (~Expiring(c) => misses[c] # 1)
            /\ (misses[c] = 0 /\ ~Expiring(c) => Left(c) > 2 * Interval)
        BY <3>4, <3>5, CheckDue
      <4> QED BY <1>nat, <1>int, <3>1, <3>2, <3>3, <3>4, <4>1 DEF Lasts, LastsBeyond
    <3>6. misses'[c] = 1 => Expiring(c)
      BY <1>nat, <3>2, <3>3 DEF FreshOne
    <3>7. misses'[c] = 0 => misses[c] = 0
      BY <1>nat, <3>2
    <3> QED BY <3>1, <3>3, <3>4, <3>5, <3>6, <3>7 DEF FreshOne
  <2> QED BY <1>5, <2>1 DEF CheckMisfires, FreshInv, FreshOne, Enabled
<1>6. ASSUME NEW d \in Calendars, NotSupported(d) \/ DiscoverFails(d) PROVE FreshInv'
  <2>1. d \notin fresh
    BY <1>6, <1>one DEF NotSupported, DiscoverFails, Visited, FreshOne
  <2>2. ASSUME NEW c \in fresh PROVE FreshOne(c)'
    <3>1. Left(c)' = Left(c) /\ (Expiring(c)' <=> Expiring(c)) /\ (HasRow(c)' <=> HasRow(c))
      BY <1>6 DEF NotSupported, DiscoverFails, Visited, Left, Expiring, HasRow
    <3>2. c # d /\ misses'[c] = misses[c]
      BY <1>6, <1>one, <2>1 DEF NotSupported, DiscoverFails, Missed, DavTypeOK
    <3>3. /\ UNCHANGED <<unheard, guessed, lifetime, stage, checkIn>>
          /\ request = None /\ request' = None /\ todo' = todo \ {d}
      BY <1>6 DEF NotSupported, DiscoverFails, Visited
    <3>4. Lasts(c) => Lasts(c)'
      BY <1>one, <3>1, <3>2, <3>3, LastsStays
    <3> QED BY <1>one, <3>1, <3>2, <3>3, <3>4 DEF FreshOne
  <2> QED BY <1>6, <2>2 DEF NotSupported, DiscoverFails, Visited, FreshInv, FreshOne, Enabled, Expiring, HasRow
<1>7. ASSUME NEW d \in Calendars, NEW t \in Tokens, Post(d, t) PROVE FreshInv'
  <2>2. ASSUME NEW c \in fresh PROVE FreshOne(c)'
    <3>1. Left(c)' = Left(c) /\ (Expiring(c)' <=> Expiring(c)) /\ (HasRow(c)' <=> HasRow(c))
      BY <1>7 DEF Post, Left, Expiring, HasRow
    <3>2. /\ UNCHANGED <<unheard, guessed, lifetime, stage, checkIn, todo, misses>>
          /\ request = None
      BY <1>7 DEF Post
    <3>3. Lasts(c) => Lasts(c)'
      BY <1>one, <3>1, <3>2, LastsStays
    <3> QED BY <1>one, <3>1, <3>2, <3>3 DEF FreshOne
  <2> QED BY <1>7, <2>2 DEF Post, FreshInv, FreshOne, Enabled, Expiring, HasRow
<1>8. ASSUME NEW g \in Lifetimes, NEW header \in BOOLEAN, ServerRegisters(g, header) PROVE FreshInv'
  <2>1. request \in Request /\ request.calendar \in todo /\ stage \in {"registering", "renewing"}
    BY <1>8, RequestInLoop DEF ServerRegisters
  <2>g. g \in Nat \ {0}
    OBVIOUS
  <2>2. ASSUME NEW c \in fresh PROVE FreshOne(c)'
    <3>1. (Expiring(c)' <=> Expiring(c)) /\ (HasRow(c)' <=> HasRow(c))
      BY <1>8 DEF ServerRegisters, Expiring, HasRow
    <3>2. UNCHANGED <<guessed, stage, checkIn, todo, misses>>
          /\ unheard' = unheard \cup {request.calendar}
      BY <1>8 DEF ServerRegisters
    <3>3. CASE c = request.calendar
      <4>1. subscriptions[c].token = request.token /\ request.token \in Tokens
            /\ subscriptions' = subscriptions
        BY <1>8, <1>one, <2>1, <3>3 DEF ServerRegisters, TokenInv, FreshOne, Request
      <4>2. Left(c)' = g /\ lifetime'[c] = g
        BY <1>8, <1>one, <3>3, <4>1 DEF ServerRegisters, Left, DavTypeOK
      <4>3. stage = "renewing" /\ c \in todo'
        BY <1>one, <2>1, <3>2, <3>3 DEF FreshOne
      <4>4. Lasts(c)'
        BY <1>nat, <1>int, <2>g, <3>2, <4>2, <4>3 DEF Lasts, LastsBeyond
      <4>5. request' # None /\ request'.calendar = c /\ request'.granted > 0
        <5>1. request'.calendar = c /\ request'.granted = g /\ (IF header THEN g ELSE None) \in Nat \cup {None}
          BY <1>8, <2>1, <2>g, <3>3 DEF ServerRegisters, Request
        <5>2. request' \in Request
          BY <1>8, <2>1, <2>g, <5>1 DEF ServerRegisters, Request
        <5> QED BY <2>g, <5>1, <5>2 DEF Request
      <4>6. HasRow(c)' /\ (misses'[c] = 1 => Expiring(c)') /\ stage' # "registering"
        BY <1>one, <3>1, <3>2, <4>3 DEF FreshOne
      <4> QED BY <4>4, <4>5, <4>6 DEF FreshOne
    <3>4. CASE c # request.calendar
      <4>1. Left(c)' = Left(c) /\ lifetime'[c] = lifetime[c]
        BY <1>8, <1>one, <2>1, <3>4 DEF ServerRegisters, Left, DavTypeOK
      <4>2. Lasts(c) => Lasts(c)'
        BY <1>one, <3>2, <4>1, LastsStays
      <4>3. misses[c] = 0 => c \notin unheard
        BY <1>8, <1>one, <3>4 DEF ServerRegisters, FreshOne
      <4> QED BY <1>one, <3>1, <3>2, <3>4, <4>2, <4>3 DEF FreshOne
    <3> QED BY <3>3, <3>4
  <2> QED BY <1>8, <2>2 DEF ServerRegisters, FreshInv, FreshOne, Enabled, Expiring, HasRow
<1>9. CASE Registered
  <2>1. /\ request \in Request /\ request.calendar \in todo /\ request.calendar \in Calendars
        /\ stage \in {"registering", "renewing"} /\ request' = None
        /\ registered[request.calendar][request.token] = request.granted
        /\ lifetime[request.calendar] = request.granted
    BY <1>9, RequestInLoop DEF Registered, AgreeInv, Request
  <2>2. ASSUME NEW c \in fresh, c # request.calendar PROVE FreshOne(c)'
    <3>1. Left(c)' = Left(c) /\ (Expiring(c)' <=> Expiring(c)) /\ (HasRow(c)' <=> HasRow(c))
          /\ misses'[c] = misses[c]
      BY <1>9, <1>one, <2>1, <2>2 DEF Registered, Left, Expiring, HasRow, DavTypeOK
    <3>2. /\ UNCHANGED <<lifetime, stage, checkIn>>
          /\ todo' = todo \ {request.calendar} /\ unheard' = unheard \ {request.calendar}
          /\ (c \in guessed' <=> c \in guessed)
      BY <1>9, <2>2 DEF Registered
    <3>3. Lasts(c) => Lasts(c)'
      BY <1>one, <2>2, <3>1, <3>2, LastsStays
    <3>4. misses[c] = 0 => c \notin unheard
      BY <1>one, <2>2 DEF FreshOne
    <3> QED BY <1>one, <3>1, <3>2, <3>3, <3>4 DEF FreshOne
  <2>3. ASSUME NEW c \in Calendars, c = request.calendar PROVE FreshOne(c)'
    <3>1. subscriptions'[c] = [token |-> request.token, left |-> ExpiresAt(request)]
          /\ ExpiresAt(request) \in Nat
      BY <1>9, <2>1, <2>3 DEF Registered, ExpiresAt, DavTypeOK, Request
    <3>2. HasRow(c)'
      <4>1. subscriptions'[c] \in Subscription
        BY <2>1, <3>1 DEF Request, Subscription
      <4> QED BY <4>1 DEF HasRow, Subscription
    <3>3. misses'[c] = 0 /\ c \notin todo' /\ c \notin unheard' /\ stage' = stage
          /\ lifetime' = lifetime /\ registered' = registered
      BY <1>9, <2>1, <2>3 DEF Registered, DavTypeOK
    <3>4. Left(c)' = lifetime'[c]
      BY <2>1, <2>3, <3>1, <3>3 DEF Left
    <3>5. Lasts(c)'
      <4>1. lifetime'[c] \in Nat
        BY <1>type DEF DavTypeOK
      <4> QED BY <1>int, <2>1, <3>3, <3>4, <4>1 DEF Lasts, LastsBeyond
    <3> QED BY <2>1, <3>2, <3>3, <3>5 DEF FreshOne
  <2> QED BY <1>9, <2>1, <2>2, <2>3 DEF Registered, FreshInv, FreshOne, Enabled, Expiring, HasRow
<1>10. CASE PostFails
  <2>1. /\ request \in Request /\ request.calendar \in todo /\ request.calendar \in Calendars
        /\ stage \in {"registering", "renewing"}
    BY <1>10, RequestInLoop DEF PostFails, Request
  <2>2. ASSUME NEW c \in fresh PROVE FreshOne(c)'
    <3>1. Left(c)' = Left(c) /\ (Expiring(c)' <=> Expiring(c)) /\ (HasRow(c)' <=> HasRow(c))
      BY <1>10 DEF PostFails, Visited, Left, Expiring, HasRow
    <3>2. misses'[c] = IF c = request.calendar /\ misses[c] < 2 THEN misses[c] + 1 ELSE misses[c]
      BY <1>10, <1>one DEF PostFails, Missed, DavTypeOK
    <3>3. /\ UNCHANGED <<lifetime, stage, checkIn, guessed, unheard>>
          /\ todo' = todo \ {request.calendar} /\ request' = None
      BY <1>10 DEF PostFails, Visited
    <3>4. CASE c = request.calendar
      <4>1. stage = "renewing" /\ Expiring(c) /\ c \in todo /\ c \notin todo'
        BY <1>one, <2>1, <3>3, <3>4 DEF FreshInv, FreshOne
      <4>2. Lasts(c) => Lasts(c)'
        BY <1>nat, <1>int, <3>1, <3>2, <3>3, <3>4, <4>1 DEF Lasts, LastsBeyond
      <4>3. misses'[c] # 0
        BY <1>nat, <3>2, <3>4
      <4> QED BY <1>one, <3>1, <3>3, <4>1, <4>2, <4>3 DEF FreshOne
    <3>5. CASE c # request.calendar
      <4>1. misses'[c] = misses[c] /\ (c \in todo' <=> c \in todo)
        BY <3>2, <3>3, <3>5
      <4>2. Lasts(c) => Lasts(c)'
        BY <1>one, <3>1, <3>3, <4>1, LastsStays
      <4> QED BY <1>one, <3>1, <3>3, <3>5, <4>1, <4>2 DEF FreshOne
    <3> QED BY <3>4, <3>5
  <2> QED BY <1>10, <2>1, <2>2 DEF PostFails, Visited, FreshInv, FreshOne, Enabled, Expiring, HasRow
<1>11. CASE RegisterEnd \/ RenewEnd
  <2>0. todo = {} /\ stage \in {"registering", "renewing"} /\ stage' = "serving" /\ checkIn' = Interval
    BY <1>11 DEF RegisterEnd, RegistersNoMore, RenewEnd
  <2>1. ASSUME NEW c \in fresh PROVE FreshOne(c)'
    <3>1. Left(c)' = Left(c) /\ (Expiring(c)' <=> Expiring(c)) /\ (HasRow(c)' <=> HasRow(c))
      BY <1>11 DEF RegisterEnd, RenewEnd, Left, Expiring, HasRow
    <3>2. UNCHANGED <<misses, lifetime, guessed, unheard, request>>
      BY <1>11 DEF RegisterEnd, RenewEnd
    <3>3. Lasts(c) => Lasts(c)'
      BY <1>nat, <1>int, <2>0, <3>1, <3>2 DEF Lasts, LastsBeyond
    <3> QED BY <1>one, <2>0, <3>1, <3>2, <3>3 DEF FreshOne
  <2> QED BY <1>11, <2>1 DEF RegisterEnd, RegistersNoMore, RenewEnd, FreshInv, FreshOne, Enabled
<1>12. CASE UNCHANGED vars
  BY <1>12 DEF vars, codeVars, FreshInv, FreshOne, Lasts, LastsBeyond, Left, Expiring, HasRow, Enabled
<1> QED
  BY <1>1, <1>2, <1>3, <1>4, <1>5, <1>6, <1>7, <1>8, <1>9, <1>10, <1>11, <1>12
  DEF DavNext, Works, Refused

-----------------------------------------------------------------------------
\* The inductive invariant holds in every reachable state.
LEMMA DavInvariant == DavSpec => []DavInv
<1>1. DavInit => DavInv
  BY DEF DavInit, DavInv, DavTypeOK, TokenInv, AgreeInv, RowsAreRegistered, FreshInv, Uses, HasRow
<1>2. DavInv /\ [DavNext]_vars => DavInv'
  BY TypePreserved, TokenPreserved, AgreePreserved, FreshPreserved DEF DavInv
<1> QED BY <1>1, <1>2, PTL DEF DavSpec

\* A row and the registration it is about end at the same moment, unless an
\* answer of the server was lost, or did not say until when.
THEOREM RowsAreRegisteredHolds == DavSpec => []RowsAreRegistered
<1>1. DavInv => RowsAreRegistered
  BY DEF DavInv, AgreeInv
<1> QED BY <1>1, DavInvariant, PTL

\* A calendar this process has registered, for a lifetime it was told, goes on
\* being pushed until two renewals in a row have come to nothing or the grant
\* does not reach to the next check, whatever a server grants.
THEOREM LapsesOnlyAfterTwoMissesHolds == DavSpec => []LapsesOnlyAfterTwoMisses
<1>1. ASSUME DavInv PROVE LapsesOnlyAfterTwoMisses
  <2> SUFFICES ASSUME NEW c \in fresh \ guessed, misses[c] # 2,
                      ~(lifetime[c] <= (misses[c] + 1) * Interval)
               PROVE  Live(c)
      BY DEF LapsesOnlyAfterTwoMisses
  <2>1. DavTypeOK /\ FreshInv
    BY <1>1 DEF DavInv
  <2>2. c \in Calendars /\ HasRow(c) /\ Lasts(c) /\ misses[c] \in {0, 1} /\ stage # "down"
    BY <2>1 DEF DavTypeOK, FreshInv
  <2>3. Left(c) \in Nat /\ checkIn \in Nat /\ lifetime[c] \in Nat /\ Interval \in Nat \ {0}
    BY <2>1, <2>2 DEF DavTypeOK, Left, HasRow, Subscription
  <2>4. stage \in {"registering", "serving", "renewing"}
    BY <2>1, <2>2 DEF DavTypeOK
  <2>5. /\ misses[c] = 0 => lifetime[c] > 1 * Interval
        /\ misses[c] = 1 => lifetime[c] > 2 * Interval
    BY <2>3
  <2>6. Left(c) > 0
    BY <2>2, <2>3, <2>4, <2>5 DEF Lasts, LastsBeyond
  <2> QED BY <2>2, <2>6 DEF Live, Left
<1> QED BY <1>1, DavInvariant, PTL

\* No push ever resyncs another calendar than the one it is about.
THEOREM PushesFindTheirCalendarHolds == DavSpec => []PushesFindTheirCalendar
<1>1. DavInv => PushesFindTheirCalendar
  BY DEF DavInv, DavTypeOK, TokenInv, Uses, PushesFindTheirCalendar, FindSubscriptionByToken
<1> QED BY <1>1, DavInvariant, PTL

\* A calendar with a row is never registered under another token.
THEOREM NoSecondRegistrationHolds == DavSpec => NoSecondRegistration
<1> DEFINE NoSecond ==
        \A c \in Calendars, t \in Tokens :
           HasRow(c) /\ registered'[c][t] > registered[c][t] => t = subscriptions[c].token
<1>1. DavInv /\ [DavNext]_vars => NoSecond
  <2> SUFFICES ASSUME DavInv, [DavNext]_vars, NEW c \in Calendars, NEW t \in Tokens,
                      HasRow(c), registered'[c][t] > registered[c][t]
               PROVE  t = subscriptions[c].token
      OBVIOUS
  <2> USE DEF DavInv, DavTypeOK
  <2>1. CASE Advance
    <3>1. registered'[c][t] = Less(registered[c][t]) /\ registered[c][t] \in Nat
      BY <2>1 DEF Advance
    <3> QED BY <3>1, LessIsNat
  <2>2. ASSUME NEW g \in Lifetimes, NEW header \in BOOLEAN, ServerRegisters(g, header) PROVE t = subscriptions[c].token
    <3>1. request \in Request
      BY <2>2 DEF ServerRegisters
    <3>2. c = request.calendar /\ t = request.token
      BY <2>2, <3>1 DEF ServerRegisters, Request
    <3> QED BY <2>2, <3>2 DEF ServerRegisters, TokenInv
  <2>3. registered' # registered
    OBVIOUS
  <2>4. ~(RenewStart \/ CheckMisfires \/ RegisterEnd \/ RenewEnd \/ Registered \/ Start
          \/ PostFails \/ Crash \/ UNCHANGED vars)
    BY <2>3 DEF RenewStart, CheckMisfires, RegisterEnd, RenewEnd, Registered, Start,
                PostFails, Visited, Crash, vars, codeVars
  <2>5. \A d \in Calendars : ~NotSupported(d) /\ ~DiscoverFails(d) /\ \A u \in Tokens : ~Post(d, u)
    BY <2>3 DEF NotSupported, DiscoverFails, Visited, Post
  <2> QED
    BY <2>1, <2>2, <2>4, <2>5
    DEF DavNext, Works, Refused, StartRegistration, StartSwitchedOff, StartDiscoveryFails,
        StartWithout
<1> QED BY <1>1, DavInvariant, PTL DEF DavSpec, NoSecondRegistration

-----------------------------------------------------------------------------
\* What a running check is done with and did not fail to renew has time left.
CheckedInv ==
    stage = "renewing" =>
        \A c \in Calendars \ (todo \cup unheard \cup guessed) :
            HasRow(c) /\ misses[c] = 0 => subscriptions[c].left > 0

LEMMA CheckedPreserved == DavInv /\ CheckedInv /\ [DavNext]_vars => CheckedInv'
<1> SUFFICES ASSUME DavInv, CheckedInv, [DavNext]_vars, (stage = "renewing")',
                    NEW c \in Calendars, (c \notin todo \cup unheard \cup guessed)',
                    HasRow(c)', misses'[c] = 0
             PROVE  subscriptions'[c].left > 0
    BY DEF CheckedInv
<1> USE DEF HasRow
<1>a. DavTypeOK /\ AgreeInv
  BY DEF DavInv
<1>b. ASSUME stage = "renewing", c \notin todo \cup unheard \cup guessed,
             subscriptions'[c] = subscriptions[c], misses[c] = 0
      PROVE  subscriptions'[c].left > 0
  BY <1>b DEF CheckedInv
<1>1. CASE RenewStart
  <2>1. subscriptions[c] \in Subscription /\ ~(subscriptions[c].left <= Margin)
    BY <1>1, <1>a DEF RenewStart, Expiring, DavTypeOK
  <2>2. Margin \in Nat /\ subscriptions[c].left \in Nat
    BY <2>1, DavPushAssumption DEF Subscription
  <2> QED BY <1>1, <2>1, <2>2 DEF RenewStart
<1>2. CASE Registered
  <2>1. request \in Request /\ stage = "renewing"
    BY <1>2, <1>a DEF Registered, DavTypeOK
  <2>2. CASE c = request.calendar
    <3>1. subscriptions'[c].left = ExpiresAt(request)
      BY <1>2, <1>a, <2>2 DEF Registered, DavTypeOK
    <3>2. request.granted > 0 /\ request.expires \in {request.granted, None}
      BY <1>2, <1>a DEF Registered, AgreeInv
    <3> QED BY <3>1, <3>2, DavPushAssumption DEF ExpiresAt
  <2>3. CASE c # request.calendar
    BY <1>2, <1>b, <1>a, <2>1, <2>3 DEF Registered, DavTypeOK
  <2> QED BY <2>2, <2>3
<1>3. CASE PostFails
  <2>1. request \in Request /\ misses[c] \in 0..2 /\ stage = "renewing"
    BY <1>3, <1>a DEF PostFails, Visited, DavTypeOK
  <2>2. c # request.calendar
    BY <1>3, <2>1 DEF PostFails, Missed
  <2> QED BY <1>3, <1>b, <2>1, <2>2 DEF PostFails, Visited, Missed
<1>4. ASSUME NEW d \in Calendars, NEW t \in Tokens, Post(d, t)
      PROVE  subscriptions'[c].left > 0
  BY <1>4, <1>b DEF Post, historyVars
<1>5. ASSUME NEW g \in Lifetimes, NEW header \in BOOLEAN, ServerRegisters(g, header)
      PROVE  subscriptions'[c].left > 0
  BY <1>5, <1>b DEF ServerRegisters
<1>6. CASE UNCHANGED vars
  BY <1>6, <1>b DEF vars, codeVars, historyVars
<1>7. ~(Advance \/ StartRegistration \/ StartSwitchedOff \/ StartDiscoveryFails
        \/ CheckMisfires \/ RegisterEnd \/ RenewEnd \/ Crash)
  BY DEF Advance, StartRegistration, StartSwitchedOff, StartDiscoveryFails, StartWithout,
         CheckMisfires, RegisterEnd, RenewEnd, Crash
<1>8. \A d \in Calendars : ~NotSupported(d) /\ ~DiscoverFails(d)
  BY DEF NotSupported, DiscoverFails, Visited
<1> QED
  BY <1>1, <1>2, <1>3, <1>4, <1>5, <1>6, <1>7, <1>8 DEF DavNext, Works, Refused

\* A renewal check leaves nothing lapsed but what it failed to renew, for any
\* downtime before it and any lifetimes.
THEOREM CheckRevivesHolds == DavSpec => CheckRevives
<1> DEFINE Revives ==
        stage = "renewing" /\ stage' = "serving" =>
           \A c \in Calendars \ (unheard \cup guessed) :
               HasRow(c) => Live(c) \/ misses[c] > 0
<1>1. DavInit => CheckedInv
  BY DEF DavInit, CheckedInv
<1>2. DavInv /\ CheckedInv /\ [DavNext]_vars => Revives
  <2> SUFFICES ASSUME DavInv, CheckedInv, [DavNext]_vars, stage = "renewing", stage' = "serving",
                      NEW c \in Calendars \ (unheard \cup guessed), HasRow(c), ~(misses[c] > 0)
               PROVE  Live(c)
      OBVIOUS
  <2>1. DavTypeOK /\ RowsAreRegistered
    BY DEF DavInv, AgreeInv
  <2>2. misses[c] = 0
    BY <2>1 DEF DavTypeOK
  <2>3. todo = {}
    <3>1. stage' # stage
      OBVIOUS
    <3>2. ~(Advance \/ StartRegistration \/ StartSwitchedOff \/ StartDiscoveryFails \/ RenewStart
            \/ CheckMisfires \/ Registered \/ PostFails \/ RegisterEnd \/ Crash \/ UNCHANGED vars)
      BY <3>1 DEF Advance, StartRegistration, StartSwitchedOff, StartDiscoveryFails, StartWithout,
             Start, RenewStart, CheckMisfires, Registered, PostFails, Visited, RegisterEnd,
             RegistersNoMore, Crash, vars, codeVars
    <3>3. \A d \in Calendars :
             ~NotSupported(d) /\ ~DiscoverFails(d) /\ \A t \in Tokens : ~Post(d, t)
      BY <3>1 DEF NotSupported, DiscoverFails, Visited, Post
    <3>4. \A g \in Lifetimes, header \in BOOLEAN : ~ServerRegisters(g, header)
      BY <3>1 DEF ServerRegisters
    <3> QED BY <3>2, <3>3, <3>4 DEF DavNext, Works, Refused, RenewEnd
  <2> QED BY <2>1, <2>2, <2>3 DEF CheckedInv, RowsAreRegistered, Live
<1>3. DavSpec => []CheckedInv
  BY <1>1, CheckedPreserved, DavInvariant, PTL DEF DavSpec
<1> QED BY <1>2, <1>3, DavInvariant, PTL DEF DavSpec, CheckRevives

-----------------------------------------------------------------------------
Rows == {c \in Calendars : HasRow(c)}

\* The count is that of rows of calendars visited, and what was shown is what it
\* was, while rows are never deleted.
CountInv ==
    /\ stage = "registering" => count <= Cardinality(Rows \ todo)
    /\ stage # "registering" => count = 0
    /\ shown <= Cardinality(Rows)

\* More calendars, not fewer.
LEMMA CardinalityGrows ==
    ASSUME NEW S \in SUBSET Calendars, NEW T \in SUBSET Calendars, S \subseteq T
    PROVE  Cardinality(S) \in Nat /\ Cardinality(T) \in Nat /\ Cardinality(S) <= Cardinality(T)
<1>1. IsFiniteSet(T)
  BY FS_Subset
<1> QED BY <1>1, FS_Subset, FS_CardinalityType

\* No row is ever deleted.
LEMMA RowsStay == DavTypeOK /\ [DavNext]_vars => Rows \subseteq Rows'
<1> SUFFICES ASSUME DavTypeOK, [DavNext]_vars PROVE Rows \subseteq Rows'
    OBVIOUS
<1> USE DEF DavTypeOK, Subscription, Request
<1>1. CASE Advance
  <2>1. ASSUME NEW c \in Calendars, HasRow(c) PROVE HasRow(c)'
    <3>1. subscriptions[c] \in Subscription
          /\ subscriptions'[c] = [subscriptions[c] EXCEPT !.left = Less(@)]
      BY <1>1, <2>1 DEF Advance, HasRow
    <3>2. subscriptions'[c] \in Subscription
      BY <3>1, LessIsNat
    <3> QED BY <3>2 DEF HasRow
  <2> QED BY <2>1 DEF Rows
<1>2. CASE Registered
  <2>1. request \in Request
    BY <1>2 DEF Registered
  <2> QED BY <1>2, <2>1 DEF Registered, ExpiresAt, Rows, HasRow
<1>3. CASE UNCHANGED subscriptions
  BY <1>3 DEF Rows, HasRow
<1> QED
  BY <1>1, <1>2, <1>3
  DEF DavNext, Works, Refused, StartRegistration, StartSwitchedOff, StartDiscoveryFails,
      StartWithout, Start, RenewStart, CheckMisfires, RegisterEnd, RenewEnd, Post,
      ServerRegisters, PostFails, NotSupported, DiscoverFails, Visited, Crash, vars, codeVars

\* Every step keeps the counts within the rows.
LEMMA CountPreserved == DavTypeOK /\ CountInv /\ [DavNext]_vars => CountInv'
<1> SUFFICES ASSUME DavTypeOK, CountInv, [DavNext]_vars PROVE CountInv'
    OBVIOUS
<1>grow. Rows \subseteq Rows' /\ Rows \subseteq Calendars /\ Rows' \subseteq Calendars
  BY RowsStay DEF Rows
<1>nat. count \in Nat /\ shown \in Nat
  BY DEF DavTypeOK
<1>all. Cardinality(Rows) <= Cardinality(Rows') /\ Cardinality(Rows) \in Nat /\ Cardinality(Rows') \in Nat
  BY <1>grow, CardinalityGrows
<1>1. CASE Registered
  <2>1. request \in Request /\ request.calendar \in todo /\ stage \in {"registering", "renewing"}
    BY <1>1, RequestInLoop DEF Registered
  <2>2. stage' = stage /\ shown' = shown
    BY <1>1 DEF Registered
  <2>3. CASE stage = "renewing"
    BY <1>1, <1>all, <1>nat, <2>2, <2>3 DEF Registered, CountInv
  <2>4. CASE stage = "registering"
    <3> DEFINE S == Rows \ todo
    <3>1. S \cup {request.calendar} \subseteq (Rows \ todo)' /\ request.calendar \notin S
      BY <1>1, <1>grow, <2>1 DEF Registered, ExpiresAt, Rows, HasRow, DavTypeOK, Request
    <3>2. IsFiniteSet(S) /\ S \subseteq Calendars
      BY <1>grow, FS_Subset
    <3>3. Cardinality(S \cup {request.calendar}) = Cardinality(S) + 1
      BY <3>1, <3>2, FS_AddElement
    <3>4. Cardinality(S \cup {request.calendar}) <= Cardinality((Rows \ todo)')
          /\ Cardinality((Rows \ todo)') \in Nat /\ Cardinality(S) \in Nat
      <4>1. S \cup {request.calendar} \in SUBSET Calendars /\ (Rows \ todo)' \in SUBSET Calendars
        BY <1>grow, <2>1, <3>2 DEF DavTypeOK
      <4> QED BY <3>1, <3>2, <4>1, CardinalityGrows
    <3>5. count' = count + 1 /\ count <= Cardinality(S)
      BY <1>1, <2>4 DEF Registered, CountInv
    <3>6. count' <= Cardinality((Rows \ todo)')
      BY <1>nat, <3>3, <3>4, <3>5
    <3> QED BY <1>all, <1>nat, <2>2, <2>4, <3>6 DEF CountInv
  <2> QED BY <2>1, <2>3, <2>4
<1>2. CASE RegisterEnd
  <2>1. Rows \ todo = Rows
    BY <1>2 DEF RegisterEnd, RegistersNoMore
  <2> QED BY <1>2, <1>all, <1>nat, <2>1 DEF RegisterEnd, RegistersNoMore, CountInv
<1>3. CASE Crash
  BY <1>3, <1>all DEF Crash, CountInv
<1>4. CASE StartRegistration \/ StartSwitchedOff \/ StartDiscoveryFails
  <2>1. (Rows \ todo)' \in SUBSET Calendars
    BY <1>grow
  <2>2. Cardinality((Rows \ todo)') \in Nat
    BY <2>1, CardinalityGrows
  <2> QED BY <1>4, <1>all, <1>nat, <2>2
          DEF StartRegistration, StartSwitchedOff, StartDiscoveryFails, StartWithout, Start, CountInv
<1>5. CASE todo' \subseteq todo /\ UNCHANGED <<stage, count, shown>>
  <2>1. Rows \ todo \subseteq (Rows \ todo)'
    BY <1>5, <1>grow
  <2>2. Cardinality(Rows \ todo) <= Cardinality((Rows \ todo)')
        /\ Cardinality(Rows \ todo) \in Nat /\ Cardinality((Rows \ todo)') \in Nat
    BY <1>grow, <2>1, CardinalityGrows
  <2> QED BY <1>5, <1>all, <1>nat, <2>2 DEF CountInv
<1>6. CASE RenewStart \/ RenewEnd
  BY <1>6, <1>all, <1>nat DEF RenewStart, RenewEnd, CountInv
<1>7. CASE PostFails \/ \E c \in Calendars : NotSupported(c) \/ DiscoverFails(c)
  <2>1. UNCHANGED count
    BY <1>7 DEF PostFails, NotSupported, DiscoverFails
  <2>2. todo' \subseteq todo /\ UNCHANGED <<stage, shown>>
    BY <1>7 DEF PostFails, NotSupported, DiscoverFails, Visited
  <2> QED BY <1>5, <2>1, <2>2
<1> QED
  BY <1>1, <1>2, <1>3, <1>4, <1>5, <1>6, <1>7
  DEF DavNext, Works, Refused, Advance, CheckMisfires, Post, ServerRegisters, vars, codeVars

\* The dashboard never shows a subscription that is not stored.
THEOREM CountIsStoredHolds == DavSpec => []CountIsStored
<1>1. DavInit => DavTypeOK /\ CountInv
  <2>1. ASSUME DavInit PROVE CountInv
    <3>1. Cardinality(Rows) \in Nat
      BY CardinalityGrows DEF Rows
    <3> QED BY <2>1, <3>1 DEF DavInit, CountInv
  <2> QED BY <2>1 DEF DavInit, DavTypeOK
<1>2. DavTypeOK /\ CountInv /\ [DavNext]_vars => (DavTypeOK /\ CountInv)'
  BY TypePreserved, CountPreserved
<1>3. ASSUME DavTypeOK, CountInv PROVE CountIsStored
  <2>1. Rows \ todo \in SUBSET Calendars /\ Rows \in SUBSET Calendars
    BY DEF Rows
  <2>2. Cardinality(Rows \ todo) <= Cardinality(Rows) /\ Cardinality(Rows) \in Nat
        /\ Cardinality(Rows \ todo) \in Nat
    BY <2>1, CardinalityGrows
  <2>3. count <= Cardinality(Rows) /\ shown <= Cardinality(Rows)
    BY <1>3, <2>2 DEF CountInv, DavTypeOK
  <2> QED BY <2>3 DEF CountIsStored, Rows
<1> QED BY <1>1, <1>2, <1>3, PTL DEF DavSpec
=============================================================================
