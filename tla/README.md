# A verification of when2leave in TLA+

when2leave reads calendars over CalDAV, keeps one row per event instance in a
SQLite database, and for the events of the next hours asks again and again where
the user is and how long the way takes, until it is time to say "leave now" through
ntfy.  It is one asyncio process: everything that can go wrong between two `await`s,
between two transactions or between the calendar server and the database goes wrong
silently, and in most cases the result is a notification that is missing, late or
about the wrong place.

This directory holds TLA+ modules translated from the sources in `src/when2leave/`,
configurations that check them with TLC, and theorems about them checked by TLAPS.

## The system

| component | source | state | operations |
|---|---|---|---|
| notification decision | `notifier.py` | none (pure) | `compute_leave_at`, `_worsened`, `evaluate_notification` |
| ntfy publishing | `notifier.py` | none | `publish`, up to three posts |
| event store | `db.py` | tables `events`, `geocode_cache`, `location_updates`, `davpush_subscriptions`, `kv` | transactions of the components below |
| calendar sync | `tracker.py`, `caldav_sync.py` | `events`; `ServiceStatus.last_sync_at/_error` | `full_sync` (poll), `resync_calendar` (push), `_apply_calendar_sync`, `_upsert_event`, `_reconcile_states` |
| recompute tick | `tracker.py`, `geocoding.py`, `location.py`, `routing.py` | a session's copy of the ACTIVE rows; `events`; `geocode_cache` | `recompute_tick`, `_recompute_event`, `geocode_location`, `DbGeocodeCache.get/put` |
| DAV Push subscriptions | `davpush.py`, `tracker.py`, `web.py` | `davpush_subscriptions` | register, renew, look up a token, webhook |
| lifespan and scheduler | `main.py` | jobs | initial sync, initial tick, push registration, then the interval jobs |
| dashboard | `web.py` | none | read-only views |
| settings | `config.py` | constants | validation at start-up |

How they interact.  The scheduler starts `full_sync`, `recompute_tick` and the push
renewal, each at most once at a time; the webhook starts `resync_calendar` as a
background task.  All share one event loop and meet in the database.  `full_sync` and
`resync_calendar` contain no `await`: once begun they hold the loop to their end.
`recompute_tick` awaits Dawarich, Nominatim, the router and ntfy, and at each of these
awaits a sync may run.  The tick loads the ACTIVE rows once, after Dawarich has
answered, and commits once, after the last event, the columns that differ from what
it had loaded.  `geocode_cache` is written in transactions of its own.

What is hard, and what makes each component correct:

* *calendar sync*: events move between calendars, calendars disappear, one calendar of
  several fails, a push and a poll disagree about a calendar's name, time passes
  between fetching and reconciling.  Correct means: what is tracked is what the
  calendars hold, nothing stays tracked past its start, DONE is final.
* *recompute tick*: its copy of a row is old when it is used and older when it is
  written; every remote call may fail; a crash loses the session.  Correct means: each
  one-shot message is decided once per queueing of an event, syncs are not undone,
  everybody who should leave is told.
* *notification decision*: tiers are intervals of time, ticks are points of it, and
  what is compared with is the last message that was acknowledged.  Correct means: few
  messages, none late by more than the schedule makes it, none out of the blue.
* *remote calls*: each is retried, one is rate limited, all hold the tick.  Correct
  means: nobody suffers from another event's failure, Nominatim's limit is kept across
  retries, a tick ends in bounded time.
* *DAV Push*: registration on a server and a row in the database are two steps, and
  renewal races expiry.  Correct means: rows and registrations agree, no calendar is
  resynced for another, a subscription survives a failed renewal.

`PROJECT.json` lists these hazards at their lines, with the properties that cover
them.

## Modules

```
Notifier <- EventStore <- CalendarSync <- Tracker <- DocumentedClaims <- MCTracker
                       <- Recompute    <-    |
                          CalendarSync <- MCCalendarSync
EventLifecycle  (abstract; CalendarSync instantiates it)
TrackerProofs EXTENDS Tracker;  TrackerSafety EXTENDS TrackerProofs
TrackerLifecycle, TrackerGeocoding, SyncMirror EXTEND TrackerSafety

Notifier <- NotifyCycle;  Announcements  (abstract; NotifyCycle instantiates it)
NotifyCycleProofs EXTENDS NotifyCycle
DavPush <- PushClaims <- MCDavPush;  DavPushProofs EXTENDS DavPush
ServiceCalls <- MCServiceCalls;  ServiceCallsProofs EXTENDS ServiceCalls
```

**Notifier** has the decision functions.  A notification is its kind; times are
integers.

**EventStore** has the rows.  `events[k]` is the committed row of key `k` (a `uid`,
`recurrence_id` pair) or `NoRow`.  Columns that nothing reads back are left out.
`resolved` stands for `resolved_lat`, `resolved_lon`: it holds the *address* they were
found for, which is what tells right coordinates from wrong ones.

**CalendarSync** has the CalDAV server (`server`, `listed`: changed by `Edit` and
`RemoveCalendar` at any moment) and the syncs.  Because a sync never awaits, only the
world outside the process moves between its steps, so it is split where it reads the
server and commits: `FullSyncStart`, `SyncCalendar(c)` once per calendar (time-range
query, `_apply_calendar_sync`), `FullSyncFinish` (`_reconcile_states`, status), with
`DiscoveryFails` and `FetchFails`; `PushStart`, `ResyncCalendar`, `ResyncFinish`,
`ResyncFails` for a push.  `Returned` is the time-range query: overlap with
`[now, now + Lookahead)`, unreadable objects skipped.  `CalName[c]` is the display name
discovery gives a calendar, `c` itself its URL; `Selected` are the calendars that
CALENDAR_FILTER lets discovery return, which a push does not ask about.

**Recompute** has the tick, one action per await: `TickStart`, `LocationFetched` (loads
the rows) or `LocationFails`, then for each event, in any order, `BeginResolved`,
`BeginCached` or `BeginUnknown` according to where its coordinates are, `GeocodeFound`
or `GeocodeFails`, `RouteDone` (computes `leave_at`, decides, stores the state in the
session) or `RouteFails` (a fallback speed of 0), `PublishAcked`, `PublishRetried` or
`PublishGivesUp`, and `TickCommit`.
`loaded` is each row as the session loaded it and `sess` as it is now; `Flush` is
SQLAlchemy's UPDATE of the columns that changed.  A post that was not acknowledged may
have reached the phone.

**Tracker** composes them: `stage` follows the lifespan (initial sync, initial tick,
then everything), `SyncInLoop` needs the tick to be suspended (`LoopFree`),
`TickInLoop` needs no sync to be running, `Crash` loses memory and session and keeps
what was committed.  Four history variables only observe: `seen` (what the running
full sync found qualifying), `shots` (one-shot messages decided since the row was
queued), `heard` (those that reached the phone) and `unsent` (the rows with one that
was given up).

**EventLifecycle** is the abstract life of one event: QUEUED, ACTIVE, DONE, or
CANCELLED/DROPPED and back to QUEUED, with the conditions of time under which an event
may become ACTIVE or DONE, and the verdicts of the calendars without which it is
neither tracked nor closed.  `CalendarSync!FollowsLifecycle` is the refinement: it keeps
status, start and clock, and takes the verdicts from the server (`Verdicts`): a calendar
has a say on an event if it holds it, or if it is the one whose label the row has, and
says that the event qualifies or that it does not.  It asks less than the head of
`tracker.py` in two points, where it follows the code: an event
that has started no longer qualifies, so that a calendar may close it before it is
DONE, and one that is moved out of the window stays ACTIVE.

**NotifyCycle** takes one event and the decision functions of Notifier and adds what
Tracker leaves open: the schedule.  `due` is the time to the next tick.  A tick is three
steps: `TickDecides` (the row as loaded, `leave_at` with any of the travel times, the
decision), `PublishAcked` or `PublishUnheard` if there is a message, and `TickCommit`,
which writes the columns that differ from what was loaded.  `TickWithout` has no row to
work on, and `TickMissed` is a tick that comes to nothing (skipped, no location, no
coordinates, no route).  `Queue`, `Close` and `Reschedule` are what syncs do to the row,
also between the steps of a tick; the clock stands still while it runs.  History
variables say whether the running tick had loaded the row in the present cycle (`mine`),
which messages of this cycle's ticks were acknowledged (`said`) or lost (`lost`), whose
tier a tick of the cycle before has written into this one (`stale`), and the previous
`leave_at`.

**Announcements** is the abstract specification of what the user gets in one cycle: a
heads-up, again only when things got worse by more than the threshold since the last
one, one `leave_now` at most, or one `running_late` instead of all.
`NotifyCycle!KeepsPromise` is the refinement, `said` for `said`: it forgets clock, row
and schedule.

**ServiceCalls** has the calls of a tick with the time they take.  A call is
`Send`, `AttemptFails` and a pause (`wait_exponential`), up to `MaxAttempts` times;
one to Nominatim first asks the rate limiter (`Limit`), at each attempt.  The four
services share these actions, as they share tenacity's parameters in the code; `phase`
says which one is awaited.  What an answer does to the tick follows: `Located`,
`BeginKnown`/`BeginUnknown` (cache), `Geocoded` or `GeocodeFails`, `Routed`,
`RoutedByDistance` (the fallback, or the haversine provider, which sends nothing) or
`RoutingFails`, `PublishEnds`.  Time passes in `Advance` while the tick waits, in
`AdvanceIdle` between ticks, and in `SyncHoldsLoop` while a sync has the event loop a
suspended tick would go on in; `held` counts the last.

**DavPush** has the rows of `davpush_subscriptions` and the registrations the server
holds, each with the time left to it.  `StartRegistration` begins the loop over the
selected calendars at start-up, `RenewStart` the one over the rows about to expire;
`Post`, `ServerRegisters` and `Registered` are the three steps of `_register_one`, and
between any two of them `PostFails` or `Crash` may come.  The server may grant another
lifetime than the one asked for, with an `Expires` header or without; without one the row
gets the lifetime asked for (`ExpiresAt`), which `guessed` remembers.  `CheckMisfires` is
a check that a sync has held up (`LongSyncs`).  `Configurations` are the
settings a process may be started with: push switched off, another calendar filter.
`FindSubscriptionByToken` is the webhook's lookup, whose result `PushStart` of
CalendarSync resyncs.

**DocumentedClaims** and **PushClaims** state sentences of the README, docstrings and
comments of when2leave that the code does not keep.

## Runs

Passing runs (each finishes within three minutes with two workers):

| run | question | bounds |
|---|---|---|
| `sync_poll` | Does a full sync leave tracked what the calendars hold? `FullSyncMirrorsServer`, `QueuedBeyondWindow` | 2 keys in 2 calendars, 6 versions of an object (two qualifying, one per way of not qualifying, one unreadable), 2 edits, clock 0..5 |
| `sync_push` | What remains true when labels, homes and calendars get out of step, and is every tracked row let go in the end? `StartsAfterLastSync`, `QueuedBeyondWindow`, `DoneIsFinal`, `FollowsLifecycle`, `TrackedEventually` | 1 key in both of 2 calendars; pushes for one calendar, the other may be deleted; 2 changes on the server, clock 0..5 |
| `races` | What can a tick and a sync do to each other, and is everybody who stays ACTIVE told to leave, and if not, why? `OneShotInv`, `OneShotPerCycle`, `NeverGeocodesNothing`, `ResolvedIsCached`, `TickKeepsSyncWrites`, `AnnouncedEventually` | 1 key, 3 versions, 1 edit, travel time 1 or 2, 2 attempts, clock 0..4, routes may fail |
| `crashes` | Do two events of one tick, or a crash, spoil an event's bookkeeping? `OneShotPerCycle`, `ResolvedIsCached` | 2 keys (symmetric), 1 edit, 1 crash, a prep buffer of 1 |
| `notify_cycle` | Which messages does one event cause, and when? `KeepsPromise`, `SpamBound`, `TierHasItsMessage`, `AnnouncedInTime`, `LateOnlyWhenSurprised` | 3 starts, 4 travel times, a tick every 2, a lead of 7, 3 ticks missed in a row, clock 0..18 |
| `service_calls` | What does a tick's failing call do to the other calls, and how long can it all take? `EveryEventServed`, `SearchesSpaced`, `TickBounded`, `TickEnds` | 3 events at 2 addresses, 3 attempts, a rate limit of 2, syncs that hold the loop for up to 2, haversine and another provider, a speed of 0 |
| `dav_push` | Do rows and registrations agree, and does renewal come in time? `RowsAreRegistered`, `NoSecondRegistration`, `PushesFindTheirCalendar`, `LapsesOnlyAfterTwoMisses`, `CheckRevives`, `CountIsStored` | 3 calendars, one without push; 3 tokens; a check every 1, a margin of 2, a lifetime of 3 asked for and 2 or 3 granted; checks may misfire; 3 configurations, 1 crash |

Why the bounds are enough to be of use.  The clock runs past the start of the earliest
event, so events are queued, activated, started and expired, and a row is dropped and
queued again within one edit (an event that has started is dropped, then moved) or
two; what `races` checks of safety is also proved, for any number of edits.  Interference between a tick and syncs is about one row at a time, except for the
shared cache, session and commit, for which `crashes` has two; interference
between calendars needs two calendars and a key in both.  Durations are one or two
steps of the clock, which is where all comparisons of the code change.  `MaxEdits`,
`MaxCrashes`, `MaxMissed`, `MaxHeld`, `Horizon` and `MaxAttempts` are the only bounds of
the state space; `MaxAttempts` is a parameter of the code, 3 in the source.

In `notify_cycle` the clock stands still at `Horizon`, after the last start, while
ticks go on; `MaxMissed` bounds the missed ticks in a row, and three are enough to skip
the heads-up interval (`NotifyLead` 7, `Interval` 2), which otherwise has room for a
heads-up and two repetitions.  In `dav_push` time is unbounded
(what is stored is the time left, which ends at 0), so restarts after any downtime and
failures for any length of time are covered; one crash separates two configurations;
the ratio of margin and check is the smallest the assumptions allow, where one unit too
late shows, and the lifetimes granted lie around the two checks of the margin.  There is a token more than there are calendars with push, so
that one can get lost; where another would be, registering can only fail.  In `service_calls` an attempt lasts at most 1 and the
rate limit is 2, longer than the first pause, so that a retry may have to wait for it;
`MaxHeld` of 2 is enough for a sync to outlast an attempt, or two to come within one
tick.

The runs use `CHECK_DEADLOCK` as it is by default: a poll, a tick or the clock can
always go on, so nothing deadlocks.  Every property of a passing run has a mutant in `PROJECT.json`, a definition with
a plausible bug under which TLC finds the property violated.

Runs that show a disagreement between the code and its documents, each a finding in
`PROJECT.json`:

| run | what happens |
|---|---|
| `pushed_then_deleted` | a row inserted by a push is never dropped: it is labelled with the URL, not the name |
| `address_changed` | the travel time is still computed to the old address |
| `ntfy_outage` | a one-shot message that could not be published is never tried again |
| `never_registered` | a calendar whose push registration failed at start-up stays without until the next start |
| `renewals_misfire` | every renewal check is due with a poll; where a sync takes longer than a second each of them may be let go, and the subscription lapses |

The code has further behaviours that no run is spent on, because no document says
otherwise, because they are close to one of the findings, or, for the first two, because
all that differs from the documents is the status of a row.  Each is a behaviour of
the models:

* syncs: an event in progress ends as DROPPED, not DONE, because `_upsert_event` drops
  it before `_reconcile_states` could make it DONE (`tracker.py:8-9` and README.md:70
  have DONE); an ACTIVE event moved beyond the window stays ACTIVE (README.md:68-69 has
  QUEUED); an event moved to another calendar is dropped by the one sync and queued
  again by the other at every poll, which resets its notification state; the rows of a deleted calendar
  stay tracked until they expire; an event whose object cannot be parsed once is
  dropped; a calendar the filter leaves out is synced all the same when it is pushed; two
  calendars with the same display name share their rows, and the sync of each drops the
  rows that only the other's events keep;
* ticks: the commit of a tick overwrites the reset of a row that was dropped and queued
  again meanwhile, and the new cycle is silent (`stale` of NotifyCycle,
  `SilencedByOldTick` of Tracker); the message such a tick sends may be repeated word for
  word by the first tick of the new cycle, which `SpamBound` and `KeepsPromise` do not
  count as two of one cycle; a tick announces an event that a sync
  has cancelled since the tick loaded it; a message is sent twice around a crash
  between its publication and the commit;
* notifications: a heads-up that was lost is not repeated; an event postponed after
  its `leave_now` is not announced for its new time; the first comparison of a new
  cycle may be with the last message of the old one;
* pushes: rows of calendars that are no longer selected are renewed for ever, and with
  push switched off the webhook still answers for the rows there are; a registration
  that is granted for less than was asked, without an `Expires` header, lapses unnoticed
  until the row says so;
* calls: the retries of the calendar client sleep in the event loop; a fallback speed
  of 0 turns the fallback into a failure.

The properties that hold are stated so that they are true of this code and would not be
of a slightly different one.  `FullSyncMirrorsServer`, for instance, holds for polls
with every key in one calendar, none deleted and no two of one name; the findings and
behaviours above show that no condition can be dropped.  `LateOnlyWhenSurprised` and `AnnouncedInTime` depend on the
tick's schedule and would not hold in Tracker, where a tick comes at any time.
`LapsesOnlyAfterTwoMisses` needs the hour of margin to be two checks long, and says of a
server that grants less than two intervals only what such a lifetime can bridge.
`AnnouncedEventually` names the two ways in which somebody is left without the message:
every attempt to publish it was in vain, or the commit of a tick that began in the cycle
before has silenced this one.  `TierHasItsMessage` names the same two for every tier.
`TickBounded` gives the number to compare `RECOMPUTE_INTERVAL` with, to which comes what
syncs take of the loop meanwhile: with the defaults,
and attempts of ten seconds, 33 s for the location and some 100 s per event, so that a
tick over three events whose services come to an answer in their last attempts only
outlasts the default of five minutes and makes the next one skip, which is the
`TickMissed` of NotifyCycle.
`OneShotPerCycle` counts decisions, not deliveries, and
does not count a decision whose tick crashed before its commit.

## Fairness

Liveness is checked under `FairSyncSpec` and `FairTickSpec`.  They assume that the
clock advances (to `Horizon`), that the interval jobs fire again and again and asyncio
resumes a coroutine whose await is over (`main.py:101-126`), that a sync, which never
awaits, runs to its end, and that outages end: from some time on discovery, fetching
(except of deleted calendars), Dawarich, Nominatim, the router and ntfy succeed.  A weaker
assumption on outages would be wrong for the code, which gives up after three attempts
and waits for the next job.  An address Nominatim does not know counts as an outage
here; such an event is never announced.  `SF` on the tick is needed because a sync
that runs disables it for a moment.  `FairDavSpec` assumes the same of the push loops
and that from some time on requests succeed.  It assumes nothing of checks that
misfire: poll and renewal are added together, 900 and 1800 seconds apart, so that a sync
of more than a second may hold up every check for ever.  Whether there are such syncs is
the constant `LongSyncs`; `renewals_misfire` is about a service with them,
`never_registered` about one without.  `FairSpec` of ServiceCalls assumes only that time passes and that
a coroutine whose sleep or answer is due goes on, and nothing of the services:
`TickEnds` holds in every outage, and with any syncs that end.  An attempt is taken to end;
httpx's timeout bounds connecting and each read, so that a service that trickles its
answer for ever is excluded.  Nothing is assumed about users of the calendar or
about the number of crashes beyond the bounds.

## Proofs

The theorems are about five specifications: `Spec` of Tracker, `SyncSpec` of
CalendarSync (the syncs alone), `Spec` of NotifyCycle, `DavSpec` of DavPush and `Spec` of
ServiceCalls.  Every invariant, action property and refinement the passing runs check is
stated by a theorem.

### Tracker and CalendarSync

These theorems hold for every set of keys, calendars,
versions, travel times and every value of the durations and bounds, under the
assumptions named in the modules (`NotifierAssumption`, `StoreAssumption`,
`NoRowAssumption`, `SyncAssumption`, `RecomputeAssumption`, `TrackerAssumption`; they
say that durations are natural numbers and that special values are not ordinary ones).

* `TypeCorrect` (`TypeOK`), `OneShotInvHolds` (`OneShotInv`) and `OneShotHolds`
  (`OneShotPerCycle`), in TrackerProofs.
  Types and the bound on one-shots are not inductive on their own: a commit writes rows that must still exist to stay
  rows, and one more decision is excluded only because the first one is recorded.  The
  inductive invariant is `TypeOK /\ OneShotInv`.  `OneShotInv` says that a row a tick has
  loaded still exists and that a sync can only have reset its notification state
  (`SessionInv`), and that a one-shot decision is either in the database at a
  terminal tier or in the session about to be written there (`ShotInv`, `Recorded`).
  TLC checks `OneShotInv` in run `races`.  The proof has a lemma per operator
  (`UpsertType`, `ApplyType`, `ReconcileType`, `FlushType`, ...: what it makes of a row,
  and of its notification state), a lemma per side (`SyncStepType`, `TickStepType`,
  `SyncStepOneShot`, `TickStepOneShot`) with one step per action, and `NextInv`, which
  adds the environment and the crash.
* `StartsAfterLastSyncHolds` (`StartsAfterLastSync`), in TrackerSafety: strengthened by
  `LastSyncInv`, the latest completed sync is not later than the clock, nor than the
  `now` of a running sync; what `_upsert_event` and `_reconcile_states` leave tracked
  starts after the `now` they are given (`UpsertStart`, `ReconcileStart`).
* `TickKeepsSyncWritesHolds` (`TickKeepsSyncWrites`), an action property, from the same
  invariants and `FlushCalendar`.
* `DoneIsFinalHolds`, `QueuedBeyondWindowHolds` and `FollowsLifecycleHolds`, in
  TrackerLifecycle.  `RowMove(old, new, t, says)` lists what a transaction at time `t` may
  make of a row's status when `says` are the verdicts on it (`VerdictOf`: a calendar that
  is applied has a say on every row it touches).  One lemma per operator shows that it makes no other
  (`UpsertMove`, `ApplyMove`, `ReconcileMove`),
  and one per group of actions that every row makes such a move, or stays
  (`LifeOfApply`, `LifeOfFinish`, `LifeOfSync`, `RowsStill`; `LifeStep` for `Next`).
  `MoveOfRow` maps a move to a step of EventLifecycle.  A tick keeps the
  status of a row only because its session cannot write a status the row has lost:
  `Flush` writes the columns that changed, and the tick changes no status.
  `QueuedBeyondWindow` is not inductive: between the first step of a push and the
  end of its fetch the process is not idle, and if the fetch fails it is idle again
  with the rows of the poll before.  `QueuedInv` covers these states too.
* `NeverGeocodesNothingHolds` and `ResolvedIsCachedHolds`, in TrackerGeocoding.  `PlaceInv`
  separates what a sync may do to a row from what the tick relies on: a committed row
  that is tracked has an address, and one that is not may have lost it; a row of the
  session keeps the address it was loaded with.  The coordinates of both belong to
  an address in the cache, to which nothing but an address is ever added and from
  which nothing is removed, so that a crash between the transaction of the cache and
  that of the tick is harmless.
* `SyncTypeCorrect` (`SyncTypeOK`) and `FullSyncMirrorsServerHolds`
  (`FullSyncMirrorsServer`), in SyncMirror, about `SyncSpec`, and
  `FullSyncMirrorsInTracker`, the latter property for `Spec`.  What a poll mirrors has
  a hypothesis, `CalendarsApart`: no calendar is deleted, a key is in one calendar only, no two
  calendars have the same display name, and a calendar that is pushed has none, so that
  poll and push label its rows alike.  Each part is needed.  A calendar that is
  deleted leaves its rows behind; a key in two calendars is dropped by one sync as it is
  queued by the other; calendars of one name drop each other's rows; and a row with the
  label of a push is not found by the poll (`pushed_then_deleted`).  The
  configuration of `sync_poll` satisfies it.  `MirrorInv` follows the sync through its
  calendars: a key found qualifying has a tracked row, or one that was DONE; a key of a
  calendar the sync is done with and that was not found has no tracked row
  (`Mirrored`); both need that objects and rows stay where they belong (`HomeInv`).
  Edits between two fetches, polls that failed half way and pushes before the poll
  are all in `SyncSpec`, so the theorem is about them as well; `Spec` adds ticks, whose
  commit keeps a row's label (`FlushCalendar`), and crashes, in which the rows are as
  the calendars dealt with so far have left them.

### NotifyCycle

In NotifyCycleProofs, for any interval, lead, buffer, threshold, starts and travel times
(`NotifierAssumption`, `NotifyCycleAssumption`), any clock and any number of missed ticks.

* `CycleTypeCorrect`, `TierHasItsMessageHolds`, `SpamBoundHolds`, `AnnouncedInTimeHolds`,
  the action property `LateOnlyWhenSurprisedHolds` and the refinement
  `KeepsPromiseHolds`, all from one inductive invariant, `CycleInv`.
* Of the running tick it says (`SessionInv`) that its decision makes sense of the row as
  it loaded it (`Sensible`), and that only a new queueing parts the row from that; a
  cycle that begins during a tick has no message before the tick is over.
* Of the messages it says that while only heads-ups were sent, the last one heard is
  the one the next `leave_at` is compared with (`SaidInv`), so that each further one
  costs more than the threshold (`HeadsUpBound`).  That is `SpamBound` before the final
  message, and the refinement needs it to show that a repeated heads-up is one
  Announcements allows.  `TierInv` says of the tier about to be committed what
  `TierHasItsMessage` says of the one that is stored.
* Of the schedule it says (`TimeInv`) that as long as a tier waits, the next tick comes
  before the moment it waits for is over by more than the ticks missed explain: the
  `leave_at` of the last tick for every tier that is not terminal, the lead earlier
  before the first message.  `AnnouncedInTime`, which speaks of the clock, is not inductive without the
  time left to the next tick; and that running_late straight from silence takes a jump
  of `leave_at` is the second half of it, at the moment the tick comes.

### DavPush

In DavPushProofs, for all calendars, tokens, configurations and
lifetimes, whatever is granted and whether the answer says so or not.
`DavPushAssumption` says what the intervals have to satisfy: the margin is at least two
checks long; the source has an hour and half an hour.  `DavNoneAssumption` keeps `None` apart.

* `DavTypeCorrect` (`DavTypeOK`).
* `RowsAreRegisteredHolds`, `PushesFindTheirCalendarHolds` and
  `LapsesOnlyAfterTwoMissesHolds`, from the inductive invariant `DavInv`.  It adds to the
  types that a token is used for one calendar, be it by a row, a request or the server
  (`TokenInv`); that row and registration agree unless an answer was lost, is still on its way or
  did not say what was granted (`AgreeInv`); and how long
  a subscription lasts at each point of the loops (`FreshInv`, `Lasts`): if more than an
  interval was granted it outlives the next check, if more than two were it does so by
  another interval, or after one miss still outlives the next check, and the two checks
  of the margin leave just that.
* `CheckRevivesHolds` (`CheckRevives`), an action property, with `CheckedInv`: what the
  loop is done with and has not failed to renew has time left.
* `NoSecondRegistrationHolds`, an action property, from `TokenInv`.
* `CountIsStoredHolds` (`CountIsStored`), with `CountInv`: while the loop runs, its count
  is bounded by the rows of the calendars it has visited.

### ServiceCalls

In ServiceCallsProofs, for any number of events, any
attempts and any rate limit (`ServiceCallsAssumption`).

* `CallsTypeCorrect` (`CallsTypeOK`), with `WorkInv`: the event under way is one of this
  tick's, and nothing is left over between two ticks.
* `SearchesSpacedHolds` (`SearchesSpaced`), an action property: `SpacedInv` says that the
  limiter remembers the last request, and that a search that waits for its turn sleeps
  for exactly what is left of the interval.
* `EveryEventServedHolds` (`EveryEventServed`): `ServedInv` accounts for the event under
  way, in each phase.
* `TickBoundedHolds` (`TickBounded`).  `TimeInv` keeps an account: `Own`, and what is
  left of the tick from the beginning of the running call on (`Left`: this call, the
  later calls for this event, and `EventTime` for each event still to come), are never
  more than `LongestTick` and what the running call may have used so far (`Spent`).
  The time syncs have taken is not on the account (`Own`, which is `elapsed - held`):
  while a sync holds the loop sleeps go on, and what it holds up it pays for itself.
  `Spent` grows with each attempt by the attempt, the wait for the rate limit and the
  pause (`BeforeSteps`); when a call ends, however it ends, what it had been given pays
  for it (`CallOver`, `GoesOn`), and the next call begins with nothing spent
  (`CallBegins`).  The wait for the rate limit is counted per attempt, which is
  what the code does; an account per search would not be inductive.  `Pauses`, the sum of
  the pauses, is a recursive function on all numbers.  That such a function exists,
  that `Pauses` is one and that it grows is proved by minimal counterexamples
  (`LeastNat`, `SumsExist`, `SumsUnique`, `PausesDef`, `PausesGrow`), since the
  induction theorems of the library cannot be instantiated here.

### Only model-checked

The liveness properties, `TrackedEventually`, `AnnouncedEventually` and
`TickEnds`: fairness is beyond the proof system's reach.  And the runs that expect a
violation, each of which is one behaviour and proves itself.  The theorems do not
depend on the bounds `MaxEdits`, `MaxCrashes`, `MaxMissed` and `Horizon` other than
by allowing any value of them.

## What is not modelled, and why

* The intervals of the jobs, in Tracker: a poll or tick may begin whenever it could.
  This includes every schedule.  NotifyCycle and DavPush, which need the intervals of
  the tick and of the renewal, have them; in NotifyCycle the clock stands still
  during a tick, so that the times it promises are off by up to the length of one, and
  crashes are left to Tracker.
* DavPush and CalendarSync meet in the token only: CalendarSync takes the calendars
  that are pushed as a constant, and a push may come at any time, so that it covers
  every state of the subscriptions.
* `DavPushClient.unregister`, which nothing calls; `parse_duration`, a regular
  expression and a product; a calendar that is renamed between two syncs.
* `location_updates` and the dashboard: nothing reads them back.
* Recurrence expansion, iCalendar parsing, HTTP and JSON, the geometry of distances:
  libraries and pure computation; their outcomes (found, absent, unreadable, failed, a
  travel time) are in the models.
* A poll and a push never overlap, because neither awaits.  Two processes on one
  database are not considered.
* SQLite errors: a transaction is atomic and succeeds.

## Plan

Every safety property that is checked is proved.  What would say more:

* What `TickBounded` and NotifyCycle say together: with `LongestTick` and the interval, how
  many ticks in a row can be skipped, the `missed` of `AnnouncedInTime`.
* An upper bound of `LongestTick` in closed form, with the cap on the pauses.
