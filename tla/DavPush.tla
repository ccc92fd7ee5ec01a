------------------------------ MODULE DavPush -------------------------------
(***************************************************************************)
(* WebDAV Push subscriptions: what the service has stored of them          *)
(* (davpush_subscriptions) and what the calendar server holds.             *)
(*                                                                         *)
(* They are registered at start-up, before the scheduler and the web       *)
(* server are up, and renewed by a job that runs every Interval.  Each     *)
(* registration is a POST, its effect on the server, and a row written     *)
(* when the answer has come; the process may die between any two of them.  *)
(* Registration and renewal never overlap, and a job takes no time on the  *)
(* scale of Interval: a request is given up after ten seconds.             *)
(*                                                                         *)
(* Moments are kept as the time left until them, 0 once they are past.     *)
(***************************************************************************)
EXTENDS Integers, FiniteSets

CONSTANTS
    Calendars,       \* the calendars of the account, by URL
    Supported,       \* those whose collection advertises webdav-push
    Tokens,          \* the callback tokens uuid4 may generate
    Configurations,  \* the settings the service may be started with
    Interval,        \* between two renewal checks (30 minutes)
    Margin,          \* margin_seconds: renewed when this little is left
    Asked,           \* ttl: the lifetime asked for (24 hours)
    Lifetimes,       \* what the server may grant instead
    LongSyncs,       \* whether a sync may hold the event loop for longer than
                     \* the scheduler lets a job be late (one second)
    MaxCrashes,      \* bound on the crashes
    None             \* Python's None

\* The margin covers two checks; what the server grants is its own business.
ASSUME DavPushAssumption ==
    /\ IsFiniteSet(Calendars)
    /\ Supported \subseteq Calendars
    /\ Interval \in Nat \ {0}
    /\ Margin \in Nat /\ Margin >= 2 * Interval
    /\ Asked \in Nat \ {0}
    /\ Lifetimes \subseteq Nat \ {0}
    /\ LongSyncs \in BOOLEAN
    /\ MaxCrashes \in Nat
    /\ Configurations \subseteq [davpush_enabled : BOOLEAN, callback_url : BOOLEAN,
                                 calendars : SUBSET Calendars]

\* Cardinality, subset and record facts need None outside the other values.
ASSUME DavNoneAssumption ==
    /\ None \notin Calendars
    /\ None \notin Nat
    /\ None \notin [token : Tokens, left : Nat]
    /\ None \notin [calendar : Calendars, token : Tokens, granted : Nat,
                    expires : Nat \cup {None}]

VARIABLES
    settings,       \* the settings of this process
    stage,          \* "down", "registering", "serving" or "renewing"
    subscriptions,  \* the row of each calendar, or None
    registered,     \* on the server: the time left of each registration
    issued,         \* the tokens generated so far
    todo,           \* the calendars the running loop has still to visit
    request,        \* the POST under way, or None
    checkIn,        \* the time until the next renewal check
    count,          \* the local of register_davpush_for_calendars
    shown,          \* ServiceStatus.davpush_subscription_count
    crashes,        \* crashes so far
    fresh,          \* history: calendars (re)registered since this start
    unheard,        \* history: calendars the server has registered since their
                    \* row was written
    guessed,        \* history: calendars whose row has the lifetime asked for,
                    \* of which the server granted another without saying so
    lifetime,       \* history: the lifetime last granted to each calendar
    misses          \* history: checks in a row that should have renewed a
                    \* subscription and did not; 2 stands for two or more

codeVars == <<settings, stage, subscriptions, todo, request, checkIn, count, shown>>
historyVars == <<fresh, unheard, guessed, lifetime, misses>>
vars == <<codeVars, registered, issued, crashes, historyVars>>

Subscription == [token : Tokens, left : Nat]
Request      == [calendar : Calendars, token : Tokens, granted : Nat,
                 expires : Nat \cup {None}]

DavTypeOK ==
    /\ settings \in Configurations
    /\ stage \in {"down", "registering", "serving", "renewing"}
    /\ subscriptions \in [Calendars -> Subscription \cup {None}]
    /\ registered \in [Calendars -> [Tokens -> Nat]]
    /\ issued \subseteq Tokens
    /\ todo \subseteq Calendars
    /\ request \in Request \cup {None}
    /\ request # None => request.calendar \in todo
    /\ todo # {} => stage \in {"registering", "renewing"}
    /\ checkIn \in 0..Interval
    /\ count \in Nat /\ shown \in Nat
    /\ crashes \in 0..MaxCrashes
    /\ fresh \subseteq Calendars /\ unheard \subseteq Calendars
    /\ guessed \subseteq Calendars /\ lifetime \in [Calendars -> Nat]
    /\ misses \in [Calendars -> 0..2]

-----------------------------------------------------------------------------
HasRow(c) == subscriptions[c] # None

\* Settings._validate_davpush: without a callback URL push is switched off.
Enabled == settings.davpush_enabled /\ settings.callback_url

\* Settings.calendar_filter and discover_calendars: no filter selects all.
Selected == IF settings.calendars = {} THEN Calendars ELSE settings.calendars

Serving == stage \in {"serving", "renewing"}

Live(c) == HasRow(c) /\ registered[c][subscriptions[c].token] > 0

Missed(C) == misses' = [c \in Calendars |-> IF c \in C /\ misses[c] < 2
                                            THEN misses[c] + 1 ELSE misses[c]]

DavInit ==
    /\ settings \in Configurations
    /\ stage = "down"
    /\ subscriptions = [c \in Calendars |-> None]
    /\ registered = [c \in Calendars |-> [t \in Tokens |-> 0]]
    /\ issued = {} /\ todo = {} /\ request = None
    /\ checkIn = 0 /\ count = 0 /\ shown = 0 /\ crashes = 0
    /\ fresh = {} /\ unheard = {} /\ guessed = {}
    /\ lifetime = [c \in Calendars |-> 0] /\ misses = [c \in Calendars |-> 0]

-----------------------------------------------------------------------------
(***************************************************************************)
(* Time, and the life of the process.                                      *)
(***************************************************************************)
Less(time) == IF time = 0 THEN 0 ELSE time - 1

\* The scheduler starts the check when it is due: time does not pass it.
Advance ==
    /\ \/ stage = "down" /\ UNCHANGED checkIn
       \/ stage = "serving" /\ (Enabled => checkIn > 0) /\ checkIn' = Less(checkIn)
    /\ subscriptions' = [c \in Calendars |->
           IF HasRow(c) THEN [subscriptions[c] EXCEPT !.left = Less(@)] ELSE None]
    /\ registered' = [c \in Calendars |-> [t \in Tokens |-> Less(registered[c][t])]]
    /\ UNCHANGED <<settings, stage, todo, request, count, shown,
                   issued, crashes, historyVars>>

Start ==
    /\ stage = "down"
    /\ settings' \in Configurations
    /\ UNCHANGED <<subscriptions, request, count, shown,
                   registered, issued, crashes, historyVars>>

StartRegistration ==
    /\ Start
    /\ Enabled'
    /\ stage' = "registering" /\ todo' = Selected'
    /\ UNCHANGED checkIn

\* Push is switched off, or discover_calendars has failed three times: the
\* service goes on without a registration.
StartWithout ==
    /\ Start
    /\ stage' = "serving"
    /\ checkIn' = Interval
    /\ UNCHANGED todo

StartSwitchedOff     == StartWithout /\ ~Enabled'
StartDiscoveryFails  == StartWithout /\ Enabled'

Crash ==
    /\ stage # "down" /\ crashes < MaxCrashes
    /\ crashes' = crashes + 1
    /\ stage' = "down"
    /\ todo' = {} /\ request' = None /\ checkIn' = 0
    /\ count' = 0 /\ shown' = 0
    /\ fresh' = {}
    /\ UNCHANGED <<settings, subscriptions, registered, issued,
                   unheard, guessed, lifetime, misses>>

-----------------------------------------------------------------------------
(***************************************************************************)
(* The two loops.                                                          *)
(***************************************************************************)
\* Mutant: a subscription with exactly the margin left is not renewed.
ExpiringStrictly(c) == HasRow(c) /\ subscriptions[c].left < Margin

\* Mutant: a subscription that has expired already is left alone.
ExpiringNotExpired(c) ==
    /\ HasRow(c)
    /\ subscriptions[c].left <= Margin /\ subscriptions[c].left > 0

Expiring(c) == HasRow(c) /\ subscriptions[c].left <= Margin

\* The check is due; the rows are read before the first request.
RenewStart ==
    /\ stage = "serving" /\ Enabled /\ checkIn = 0
    /\ stage' = "renewing"
    /\ todo' = {c \in Calendars : Expiring(c)}
    /\ UNCHANGED <<settings, subscriptions, request, checkIn, count, shown,
                   registered, issued, crashes, historyVars>>

\* A sync held the loop when the check was due: APScheduler lets it go.  Polls
\* and checks are added together, and each check is due with a poll.
CheckMisfires ==
    /\ LongSyncs
    /\ stage = "serving" /\ Enabled /\ checkIn = 0
    /\ checkIn' = Interval
    /\ Missed({c \in Calendars : Expiring(c)})
    /\ UNCHANGED <<settings, stage, subscriptions, todo, request, count, shown,
                   registered, issued, crashes, fresh, unheard, guessed, lifetime>>

\* Mutant: every registration generates a token.
CallbackTokensAlwaysNew(c) == Tokens \ issued

\* Mutant: new tokens are not unique.
CallbackTokensReused(c) == IF HasRow(c) THEN {subscriptions[c].token} ELSE Tokens

\* The token of the row, or a new one.
CallbackTokens(c) == IF HasRow(c) THEN {subscriptions[c].token} ELSE Tokens \ issued

\* _register_one up to its request.  A first registration has asked the
\* collection for its capabilities before; a renewal has not.
Post(c, t) ==
    /\ c \in todo /\ request = None
    /\ stage = "registering" => c \in Supported
    /\ t \in CallbackTokens(c)
    /\ issued' = issued \cup {t}
    /\ request' = [calendar |-> c, token |-> t, granted |-> 0, expires |-> None]
    /\ UNCHANGED <<settings, stage, subscriptions, todo, checkIn, count, shown,
                   registered, crashes, historyVars>>

\* The server creates a registration, or updates the one of that token.  Its
\* answer may say until when, in an Expires header.
ServerRegisters(g, header) ==
    /\ request # None /\ request.granted = 0
    /\ registered' = [registered EXCEPT ![request.calendar][request.token] = g]
    /\ request' = [request EXCEPT !.granted = g, !.expires = IF header THEN g ELSE None]
    /\ unheard' = unheard \cup {request.calendar}
    /\ lifetime' = [lifetime EXCEPT ![request.calendar] = g]
    /\ UNCHANGED <<settings, stage, subscriptions, todo, checkIn, count, shown,
                   issued, crashes, fresh, guessed, misses>>

\* Mutant: the lifetime asked for, whatever the answer says.
ExpiresAtAsked(answer) == Asked

\* The Expires header of the answer; without one, the lifetime asked for.
ExpiresAt(answer) == IF answer.expires = None THEN Asked ELSE answer.expires

\* The answer has come: the row is merged and committed.
Registered ==
    LET c == request.calendar
    IN  /\ request # None /\ request.granted > 0
        /\ subscriptions' = [subscriptions EXCEPT ![c] =
                                [token |-> request.token, left |-> ExpiresAt(request)]]
        /\ request' = None /\ todo' = todo \ {c}
        /\ count' = IF stage = "registering" THEN count + 1 ELSE count
        /\ fresh' = fresh \cup {c} /\ unheard' = unheard \ {c}
        /\ guessed' = IF request.expires = None /\ request.granted # Asked
                      THEN guessed \cup {c} ELSE guessed \ {c}
        /\ misses' = [misses EXCEPT ![c] = 0]
        /\ UNCHANGED <<settings, stage, checkIn, shown,
                       registered, issued, crashes, lifetime>>

Visited(c) ==
    /\ c \in todo /\ todo' = todo \ {c}
    /\ request' = None
    /\ UNCHANGED <<settings, stage, subscriptions, checkIn, shown,
                   registered, issued, crashes, fresh, unheard, guessed, lifetime>>

\* Mutant: a calendar counts before its registration has succeeded.
PostFailsCounted ==
    /\ request # None
    /\ Visited(request.calendar)
    /\ Missed({request.calendar})
    /\ count' = IF stage = "registering" THEN count + 1 ELSE count

\* Refused, or not answered in time, before or after the server took effect.
\* There is no second attempt: the next calendar is visited.
PostFails ==
    /\ request # None
    /\ Visited(request.calendar)
    /\ Missed({request.calendar})
    /\ UNCHANGED count

\* The answer to OPTIONS lacks webdav-push ...
NotSupported(c) ==
    /\ stage = "registering" /\ request = None
    /\ c \notin Supported
    /\ Visited(c)
    /\ UNCHANGED <<count, misses>>

\* ... also when it is an error answer, whose status is not looked at; or
\* OPTIONS or PROPFIND fail.
DiscoverFails(c) ==
    /\ stage = "registering" /\ request = None
    /\ c \in Supported
    /\ Visited(c)
    /\ Missed({c})
    /\ UNCHANGED count

\* Mutant: the loop can be left before its last calendar.
RegistersNoMoreEarly == stage = "registering" /\ request = None

RegistersNoMore == stage = "registering" /\ todo = {}

RegisterEnd ==
    /\ RegistersNoMore
    /\ stage' = "serving" /\ checkIn' = Interval
    /\ shown' = count /\ count' = 0
    /\ UNCHANGED <<settings, subscriptions, todo, request,
                   registered, issued, crashes, historyVars>>

RenewEnd ==
    /\ stage = "renewing" /\ todo = {}
    /\ stage' = "serving" /\ checkIn' = Interval
    /\ UNCHANGED <<settings, subscriptions, todo, request, count, shown,
                   registered, issued, crashes, historyVars>>

-----------------------------------------------------------------------------
\* What the webhook resyncs when a token is posted to it (PushStart of module
\* CalendarSync); nothing, answered with 404, for a token without a row.
FindSubscriptionByToken(t) == {c \in Calendars : HasRow(c) /\ subscriptions[c].token = t}

-----------------------------------------------------------------------------
Works ==
    \/ StartRegistration \/ StartSwitchedOff \/ RenewStart
    \/ \E c \in Calendars : NotSupported(c) \/ \E t \in Tokens : Post(c, t)
    \/ \E g \in Lifetimes, header \in BOOLEAN : ServerRegisters(g, header)
    \/ Registered \/ RegisterEnd \/ RenewEnd

Refused ==
    \/ StartDiscoveryFails \/ PostFails
    \/ \E c \in Calendars : DiscoverFails(c)

DavNext == Advance \/ Works \/ Refused \/ CheckMisfires \/ Crash

DavSpec == DavInit /\ [][DavNext]_vars

\* The clock and the process go on, and from some time on the server answers
\* the requests.  Nothing is said of checks that misfire: where LongSyncs holds
\* every one of them may.
FairDavSpec ==
    /\ DavSpec
    /\ WF_vars(Advance) /\ WF_vars(Works)
    /\ <>[][~Refused]_vars

-----------------------------------------------------------------------------
\* What the database believes in the server holds, to the moment it expires,
\* over crashes, restarts and renewals: only an answer that was lost, or one
\* that does not say what was granted, can part the row from the registration
\* of its token.
RowsAreRegistered ==
    \A c \in Calendars \ (unheard \cup guessed) : HasRow(c) =>
        registered[c][subscriptions[c].token] = subscriptions[c].left

\* The margin of an hour against a check every half hour: once registered by
\* this process under a lifetime it knows, a calendar stops being pushed only
\* after two renewals in a row have failed or were left out, or when what the
\* server granted does not reach to the next check: one interval, and another
\* one for a renewal that was missed.
LapsesOnlyAfterTwoMisses ==
    \A c \in fresh \ guessed :
        Live(c) \/ misses[c] = 2 \/ lifetime[c] <= (misses[c] + 1) * Interval

\* Re-registration renews: while a calendar has a row, the server never gets
\* a registration of it under another token, although every start registers.
NoSecondRegistration ==
    [][\A c \in Calendars, t \in Tokens :
          HasRow(c) /\ registered'[c][t] > registered[c][t]
             => t = subscriptions[c].token]_vars

\* A push for a registration that the server may still hold, even one whose
\* answer was lost, never resyncs another calendar than the one it is about.
PushesFindTheirCalendar ==
    \A c \in Calendars, t \in Tokens :
        registered[c][t] > 0 => FindSubscriptionByToken(t) \subseteq {c}

\* The dashboard never shows more subscriptions than there are rows.
CountIsStored ==
    /\ count <= Cardinality({c \in Calendars : HasRow(c)})
    /\ shown <= Cardinality({c \in Calendars : HasRow(c)})

\* A renewal check brings back what has lapsed: once it is over, every stored
\* subscription is pushed but those whose renewal has failed, however long the
\* service was down and whoever registered them, unless the server has granted
\* something that the row does not know of.
CheckRevives ==
    [][stage = "renewing" /\ stage' = "serving" =>
          \A c \in Calendars \ (unheard \cup guessed) :
              HasRow(c) => Live(c) \/ misses[c] > 0]_vars
=============================================================================
