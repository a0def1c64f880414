# A verification of splitio/javascript-commons

TLA+ models of the common core of the Split JavaScript SDKs (`src/src`), checked
with TLC on small instances, and theorems about them checked with TLAPS.

Paths below are relative to `src/src` unless they start with `types/`.
`PROJECT.json` lists the components, the runs, the lines each definition
translates (`map`), the hazards of the code with the properties that watch them,
the mutants that show that each property can fail, and the theorems.

## 1. The system

A *factory* owns the storage, one *sync manager* and one or more *clients*. On
the client side there is a client per user key, sharing everything but their
memberships; on the server side there is one. JavaScript runs one piece of code
at a time: a call of the user, a timer, a response, a message, each followed by
the promise reactions it made due. The hard part of this code is what happens
between those pieces: state read before a request and used after it, timers that
outlive the run that set them, and several owners calling the same object.

| Component | State it keeps | Operations | What it talks to | What makes it correct |
|---|---|---|---|---|
| Sync task (`sync/syncTask.ts`) | `running`, `runningId`, `timeoutID`, `executing`, the promise chain | `execute`, `start`, `stop`, `isExecuting`, `isRunning` | under every poller and submitter | calls run one by one; polling neither dies nor doubles over restarts; `stop` is final |
| Submitters (`sync/submitters`) with the recorder caches, user consent and page listener | retained payload, retry counter, first-window timer; the caches' queues; `settings.userConsent` | post, retry, `start`/`stop` by sync manager and consent, flush, beacon | sync task, caches, HTTP | nothing tracked is lost or sent twice; consent is respected; destroy flushes |
| Notification keeper (`sync/streaming/SSEHandler`) | publishers and times per control channel, `hasResumed` | OPEN, OCCUPANCY, CONTROL | emits UP, DOWN and errors to the push manager | late or repeated messages change nothing; what is announced is what updates are filtered by |
| Push manager (`sync/streaming/pushManager.ts`), SSE client, authentication, backoff | flags `disconnected`, `disabled`; timers for refresh, opening and retry; connection and token; clients | `start`, `stop`, `add`, `remove`, all error handlers | keeper, sync manager | quiet once disconnected or disabled |
| Sync manager (`sync/syncManagerOnline.ts`) | `running`, `startFirstTime` | `start`, `stop`, `shared`, `flush` | push and polling managers, submitters | a running SDK polls, streams or is on its way to, never both; a stopped one is quiet; changes are fetched in the end |
| Polling managers (`sync/polling/pollingManager*.ts`) | sync tasks per key, smart pausing, smart ready | `start`, `stop`, `syncAll`, `add`, `remove` | updaters, readiness | memberships polled exactly while used; every client gets what it waits for |
| Definitions synchronisation (`sync/polling/updaters/definitionChangesUpdater.ts`, `sync/streaming/UpdateWorkers/DefinitionsUpdateWorker.ts`) | change numbers, worker flags, backoffs, task queue | poll, `put`, `stop`, retries, CDN bypass, instant update | storage, readiness, server behind a CDN | no change is skipped; a worker ends with what it was notified of |
| Definitions fetcher (`sync/polling/fetchers/splitChangesFetcher.ts`) | specification in use, time of the last check | fetch | HTTP client, perhaps a proxy | all that came by an older specification is replaced once the newer one works |
| Segments synchronisation (`segmentChangesUpdater.ts`, `SegmentsUpdateWorker.ts`) | change number per segment, worker per segment | fetch one or all, `put`, `stop` | storage, readiness | each segment is the outcome of a prefix of its changes |
| Memberships synchronisation (`mySegmentsUpdater.ts`, `MySegmentsUpdateWorker.ts`) | two workers per client with one delay; two caches | `put`, `stop`, fetch | push manager, sync task, CDN | an event taken on is pursued until stored or given up |
| Readiness (`readiness`) | flags of definitions and of each client, timers, listeners | emissions, `timeout`, `init`, `destroy`, promises of the status API | user code, sync | events once and in order; ready means fetched; promises agree with flags |
| Synchronous storages (`storages/inMemory`, `storages/inLocalStorage`) | definitions, rule-based segments, segments, memberships, with counters and indexes of them | update, kill, `clear`, rollout plan, validation of a persisted cache, save | all of the above | counters and indexes follow the contents; a cache that is loaded is of this SDK key and filter; what is saved is what there is |
| Asynchronous storages (`storages/inRedis`, `storages/pluggable`) | the same and the recorders, in a remote store; queues in memory | commands, pipelines, `popN`, posts by interval, disconnect | Redis or a wrapper, other SDKs | what is answered is stored; a record is taken out once; destroy waits for what is under way |
| Evaluator, matchers, versions (`evaluator`, `utils/Semver.ts`) | none | evaluation at once or read by read | storages | the treatment that the contents prescribe, whatever the order of answers |
| Clients, trackers, SDK manager (`sdkClient`, `trackers`, `sdkManager`) | attributes; LRU observer, impression queue, counts, unique keys | `getTreatment` and variants, `track`, attributes, views | evaluator, recorders, consent | an impression is queued or counted, never neither; declined consent keeps nothing |
| HTTP (`services`) | cached credential, promise of one, backoff | request, authenticate | auth server | one authentication at a time |
| Offline (`sync/offline`) | the mock as last parsed; shared clients that wait | `start`, `stop`, `shared` | settings, storage, readiness | the definitions become those of the mock; every client is told |
| Settings and validation (`utils/settingsValidation`, `utils/inputValidation`) | none | pure functions | factory, clients | |
| Telemetry, integrations, logger | counters | I/O, formatting | | |

Behaviours that are hard to test, and the properties for them, are the `hazards`
of `PROJECT.json`: 40 of them. The few without a property say why in their note.

## 2. Plan

All of the first plan's models exist, and what they promise for safety is proved, that of
`Clients` and one property of `DefinitionsSync` excepted. In the order of their importance:

1. `SyncTask` implementing `PeriodicTask`, and `Submitter`, which relies on it, composed
   by `Tasks`, with `TasksProofs`.
2. `PushState`, `SyncManager`, with `SyncManagerProofs`.
3. `ReadinessState`, `Readiness`, with `ReadinessProofs`.
4. `DefinitionsWorker`, `DefinitionsSync`, with `DefinitionsSyncProofs`.
5. `KeeperState`, `NotificationKeeper`, `MembershipsWorker`, `Memberships`, composed by
   `Notifications`, with `NotificationsProofs`.
6. `ClientPolling`, `ServerSegments`, `DefinitionsFetcher`, `Authenticator`, `Offline`,
   composed by `Polling`, with `PollingProofs`.
7. `AsyncDefinitions`, `AsyncRecorders`, composed by `AsyncStorage`, with
   `AsyncStorageProofs`.
8. `MemoryCaches`, `LocalCaches`, composed by `Storages`, with `StoragesProofs`.
9. `Matchers`, `Evaluator`, `Targeting`, `Trackers`, `Validation`, `Settings`, composed
   by `Clients`.

What is left. The properties of `Clients` stay with TLC: `Matchers`, `Evaluator` and
`Targeting` follow the structure of a definition with RECURSIVE operators, for which no
prover is available. Of models: the caches of telemetry, and two clients in `Memberships`
(see the hazard at `pushManager.ts:333`).

## 3. The modules

Conventions. Modules named `...State`, `...Worker` or `...Caches` hold
functions from state to state, one for each piece of code that runs without
interruption; the modules that own VARIABLES compose them, so that an action is a
whole handler with every listener that it triggers synchronously. A run has the name
of its module, `MC...` where constants need definitions, and `...Proofs` has the
theorems. A definition preceded by "Mutant" is a plausible bug, used to show
that a property can fail, and no specification uses it.

**Tasks** composes `SyncTask` and `Submitter` as alternatives (`part` says which one a
behaviour is of; the other stays at rest): the first is under the second, which takes of
it what is proved of it.

**SyncTask** (`sync/syncTask.ts`). `chain` holds the unresolved calls, each with
the run that issued it; `pending` the timers set and neither fired nor cleared;
`timeoutID` may name a timer that has fired. `Execute`, `Start`, `Stop` are the
calls; `Begin`, `Settle`, `Resolve` the promise reactions; `Elapse` the timer.
The task itself is external: it takes a while and never rejects.
`PeriodicTask` is what `ISyncTask` promises: alternately a turn and a period, and
nothing after `stop`.

**Submitter** (`sync/submitters/*`, `consent`, `listeners/browser.ts`,
`sdkLifecycle.ts`, recorder caches). One submitter, chosen by `kind` among the five
of the SDK; its sync task is reduced to what is proved of `SyncTask`: one timer or
one turn while running, neither when stopped. Items are numbers; a payload is a set
of them. `Post` pops the cache, `Accept` and `Fail` are the response; a failed post
may have arrived. `ByUser`, `ByEvent` and `ByReaction` keep the order of the event
loop: reactions run before the next event, and user code may make several calls
before they do. Size limits in bytes and payload formats are abstracted to items; the
page listener's fallback post is one nobody waits for. One client is modelled: shared
clients that go on tracking after the main one was destroyed are not.

**Notifications** composes two parts as alternatives (`part` says which one a behaviour
is of; the other stays at rest), which meet in the push manager only: `KeeperState` and
`NotificationKeeper` (`NotificationKeeper.ts`; the messages of each channel are fixed at
the start, occupancy and control by time, and delivered in any order, any number of
times), and `MembershipsWorker` and `Memberships` (`MySegmentsUpdateWorker.ts`,
`mySegmentsUpdater.ts`, the membership notifications of `pushManager.ts`; the two workers
of a client are a pair, for the delay they share; backoff and delay are timers that fire
at any time, and an answer is of any age that the CDN may have).

**PushState, SyncManager** (`pushManager.ts`, `SSEClient`, `Backoff.ts`,
`syncManagerOnline.ts`, and of the SSE handler and the keeper what reaches
them). A token is the set of keys it was granted for. Requests to authenticate
in flight are a sequence, answered in any order. `stale` is TRUE from a change
on the server until something tells the SDK or makes it fetch. Delays are not
modelled: timers fire in any order.

**ReadinessState, Readiness** (`readinessManager.ts`, `sdkReadinessManager.ts`,
`sdkClientMethodCS.ts`, `sdkLifecycle.ts`). Emissions are functions that call the
listeners in order, those that throw included. Fetches end by arriving, with or
without a change, or by failing; on the server side a forbidden one destroys the
client. The promises are those of `ready`, `whenReady` and `whenReadyFromCache`.

**DefinitionsWorker, DefinitionsSync** (`DefinitionsUpdateWorker.ts`,
`definitionChangesUpdater.ts`, `definitionsSyncTask.ts`). `log` is the sequence of
changes on the backend; an answer of the CDN may reflect any prefix of it, not
older than what a bypass asked for. Change numbers are positions of `log`, 0
standing for -1. Each cached name remembers the change it came from, and
`NothingWasMissed` says that these are not older than the change number covers. The
code breaks it (section 5), but only once a payload has set a change number back, which
the history variable `setBack` remembers: `NoLostChange` says that nothing else does.

**Polling** composes five parts as alternatives (`side` says which one a behaviour is
of; the others stay at rest), since they are never in one another's way:
`ClientPolling` (`pollingManagerCS.ts`; definitions are whether they use segments),
`ServerSegments` (`pollingManagerSS.ts`, `segmentChangesUpdater.ts`,
`SegmentsUpdateWorker.ts`; a change adds or removes one key), `DefinitionsFetcher`
(`splitChangesFetcher.ts`, `splitHttpClient.ts`; one flag and one rule-based segment;
the proxy is replaced at any time), `Authenticator` (`secureSplitHttpClient.ts`,
`authProvider.ts`, `Backoff.ts`) and `Offline` (`sync/offline`).

**MemoryCaches, LocalCaches, Storages** (`storages/inMemory`,
`storages/inLocalStorage`, `setRolloutPlan.ts`, `getRolloutPlan.ts`, and of
`definitionChangesUpdater.ts` the filters and the mutation). A definition carries its
traffic type, its sets and the types of its matchers, which is what the caches look
at. The items of localStorage are a function on the keys that exist; a wrapper keeps
them in memory and saves them as a whole, one save after the other. A session ends at
any time, its writes under way lost, and another one starts, perhaps with another SDK
key or filter.

**AsyncDefinitions, AsyncRecorders, AsyncStorage** (`storages/inRedis`,
`storages/pluggable`). An update is a set of chains of commands that advance in any
order; a command takes effect at once, and may fail or, with Redis, time out with or
without effect. Of two SDKs the producer writes definitions; consumers write records,
and a synchroniser, which is not in this repository, takes them out.

**Matchers, Evaluator, Targeting** (`evaluator`). The code evaluates a value or a
promise of one; here an evaluation has an outcome: a value, a rejection, or the reads
it waits for. `Targeting` says without reads and order what the treatment is, and
`TargetingIsKept` compares the two. Hashing is the constant `Bucket`.

**Trackers, Validation, Settings, Clients** (`trackers`, `utils/inputValidation`,
`utils/settingsValidation`, `sdkClient`, `sdkManager`). Calls of the application with
inputs valid and not, in a factory with any of the configurations of `MCClients`; with
an asynchronous storage several are under way while flags and segments change.

## 4. The runs

All bounds are CONSTANTS, named in the modules; what they leave out follows.

| Run | Question | Bounds and why they suffice |
|---|---|---|
| `tasks` | polling and calls over any restart; no item lost or sent twice, consent, flush | 3 runs, 3 queued calls, 3 timers: two old runs may be unresolved under a current one; 5 kinds, 3 items with caches of 2, 3 calls, 1 stray window: an overflow, an item after it, and a call behind a post in flight; the theorems of section 6 lift the bounds for safety |
| `notifications` | presence and announcements; events taken on are pursued and done | 2 channels, 2 messages of each type on each, 2 openings: one late and one new message per channel is what the order of times can confuse; 1 client, 2 changes per cache, 3 retries: one event while the one before it is delayed, retried or in flight |
| `sync_manager` | the hand-over of streaming and polling, in two lives | 2 keys, 2 authentications in flight, 2 pending reconnections, both sides, every error and control message, clients created and destroyed |
| `sync_manager_disabled` | the first finding of section 5 | one client, two starts |
| `readiness` | every order of creation, arrival, timeout, kill and destruction, in two lives | main and shared client: shared clients see each other only through the emitter of definitions; one listener that throws |
| `definitions_sync` | no change lost, references resolved, workers end | 2 flags, 1 rule-based segment, 3 changes, 1 failing request, 2 retries, 1 queued poll; workers may be stopped at any time |
| `definitions_payload` | the second finding of section 5 | 2 flags, 3 changes, 2 queued polls, no failure |
| `storages` | counters, indexes, validation and saves | 4 kinds of storage, 2 sessions, 2 updates: what one update leaves and the next one or the next session meets; at most 2 definitions in one answer; names with two versions, of which filters admit one; plans for all kinds but a wrapper |
| `storages_expired` | the third finding of section 5 | localStorage without plans, 3 sessions, 2 updates, 2 configurations |
| `async_storage` | updates that fail and are interrupted; records taken out once | 2 updates or kills, 1 fault, 2 connections of the producer; 3 records, 1 lost answer |
| `polling` | smart pausing and readiness; exact segments; recovery from a fallback; one authentication; the mock | 2 clients, 2 executions that wait; 2 segments with 2 changes in all, 2 attempts; 2 releases, 1 timed-out request; 2 callers, 3 tokens; 9 mocks, 2 edits |
| `evaluation` | the right treatment, of one version, and its impression | two flags, one a prerequisite of the other, rule-based segments one excluded from the other, 2 keys; an LRU cache of 1, so that one impression evicts another |

Where `CHECK_DEADLOCK FALSE` is set the environment may be used up: all messages
delivered (`notifications`), the SDK destroyed in its last life (`readiness`), all changes
made, records tracked, calls answered and sessions over (the others). `tasks`
and the two runs of `sync_manager` never stop.

Each property is stated in its module with the behaviour of the code it is about, and
`PROJECT.json` has a mutant of the code for it that the run catches.

Known limits of what they say, each a hazard of `PROJECT.json` with its line:

- `AnnouncedAsFiltered` is stated of the first connection: a reopened one announces UP
  while the keeper filters.
- `ReadyIsSynced` excepts a kill before the first fetch, which the code takes for the
  fetch; `ReadyWhenArrived` is stated of the first life.
- `DeclinedSendsOnlyRetained`: a payload retained for a retry is posted after consent
  was declined, by a call that was already chained.
- `NoLostChange` says nothing once a payload that waited behind a fetch has taken the
  change number back; `DoneMeansSynced` excepts a stopped worker with an execution in flight.
- `ViewsAreExact` leaves out the number of uses of segments after a rollout plan was set
  over a cache of localStorage (`drifted`); `LoadedCacheIsOurs` says nothing once items of
  one configuration were left under the hash of another (`mislabelled`, section 5).
- `IndexesFollow` says that traffic types are never counted too often; they may be
  counted too rarely when a count is deleted by a second command.
- `RecordedOnce` excepts counts that another SDK adds between two commands.
- `SegmentIsExact` states what holds until the first fetch of a segment fails while
  those of others go on; `ProxyIsRecovered` leaves out two paths that end the
  re-checks.
- `EveryClientArrives` leaves out clients whose definitions stop using segments before
  their memberships came, and a first mock equal to the parser's initial one.
- `notifications` has one client: with two, an instant update reaches the first only.

### Fairness

Only what the event loop and the network do is fair: reactions run, pending timers
fire, and requests end, one way or another. Nobody is assumed to call anything.
- `Tasks`: of the sync task, weak fairness of reactions, timers and the end of the task,
  which the code requires to settle. `Submitter`, `Storages`, `AsyncStorage`, `Readiness` and
  `Clients` are checked for safety only and need none.
- `SyncManager`: in addition an open connection does not outlive its token
  (`TokenExpires`), as the refresh or the server closes it, and polling polls.
- `DefinitionsSync`: strong fairness of the backoff timers, which wait only for code
  that runs. `Notifications`: of the memberships, weak fairness of responses and timers.
- `Polling`: timers and promises; of the memberships that a running task fetches over
  and over one is answered (strong fairness of `Fetched`, since failures alternate
  with it). Offline: the task goes on, timeouts fire, promises settle.

## 5. Findings

`sync_manager_disabled`: an SDK paused and resumed after streaming was disabled
neither polls nor streams: `pushManager.start` returns early when `disabled`, and
the resuming sync manager leaves polling to it, although the comment promises
that `start` "eventually emits PUSH_SUBSYSTEM_DOWN [...] or PUSH_SUBSYSTEM_UP".
`PROJECT.json` quotes the line.

`definitions_payload`: a payload that follows the change number of the cache when its
notification comes is applied after the executions queued before it, without comparing
again (`DefinitionsUpdateWorker.ts:92`). When those fetched a later change of the same
flag, the payload replaces it and takes the change number back, and a payload that
waits behind it may then raise it over the change that was replaced: no fetch asks for
it again. A test of the worker says of such a gap "Something was missed -> fetch split
changes".

`storages_expired`: `validateExpiration` returns as soon as the cache has expired, before
it compares the hash and writes that of the settings (`validateCache.ts:30`). The cache is
cleared, but what this session stores next stays under the hash of the configuration that
filled the expired cache: when that one comes back, it finds its own hash and serves, and
resumes from, the definitions of another SDK key or filter, although the comment of
`validateCache` says that the cache is cleaned if "its hash has changed".

The proof of `LoadedCacheIsOurs` found it: the property held with two sessions, and the
step `Validate` could not be proved. The history variable `mislabelled` remembers the ways
in which items get the wrong hash, and the theorem says that there are no others: this
one; a plan set over items of another configuration by a session that ends before they are
validated; and a storage wrapper that is loaded after the plan was set and replaces it
(the hazard at `validateCache.ts:45`).

## 6. Proofs

Every theorem is about all values of the constants that the named assumptions of the
modules allow, which say no more than that bounds are naturals, sets that the code
enumerates finite, and the main client one of the clients. Theorems are about `Spec`,
without fairness; the runs of `FairSpec` check the same formulas. Facts about sequences
and finite sets that several proofs need (`RemoveAtFacts`, `AppendFacts`, `InConcat`,
...) are lemmas, cited by name.

None of the invariants is inductive as the runs check it. What each proof had to add is
the part worth reading, and it is named where it is defined.

### Sync task and submitters

`TasksProofs` proves of a behaviour of the sync task, for every set of timers and every
bound, with `SyncTaskAssumption` (the bounds are naturals and `NoTimer` is no timer):

| Theorem | Statement |
|---|---|
| `SyncTaskTypeCorrect` | `Spec => []SyncTaskTypeOK` |
| `ExecutingCorrect` | `Spec => []ExecutingIsExact` |
| `PollingCorrect` | `Spec => []OneTurnPerRun` |
| `TimersCorrect` | `Spec => []TimersAreReachable` |
| `StopCorrect` | `Spec => StoppedMeansQuiet` |
| `Refinement` | `Spec => ImplementsPeriodicTask`: every step of the promise chain, run ids and timers is a step of `PeriodicTask` or a stutter |

`OneTurnPerRun` alone allows a stopped task
with a timer, whose firing would break it after the next start; hence
`TimersAreReachable`. And `Resolve` keeps it only because no call in the chain
carries a run id that has not been given out: a later start would take that call
for its own. The inductive invariant, `SyncTaskInv`, adds this, and that the oldest call is
"inFlight" or "settled" only if there is one. `StoppedMeansQuiet` and the refinement
follow from it step by step: `Resolve` ends a turn of the abstract task exactly when
`Rearms` holds.

The results justify the reduced sync task of `Submitter`.

Of a behaviour of the submitter it proves, for every set of kinds of submitters (any
number of retries), every queue size and every number of items, calls and stray timers,
with `SubmitterAssumption`:

| Theorem | Statement |
|---|---|
| `SubmitterTypeCorrect` | `Spec => []SubmitterTypeOK` |
| `NothingIsLost` | `Spec => []NothingVanishes` |
| `NothingIsSentTwice` | `Spec => []SentOnce` |
| `PostsAreBounded` | `Spec => []RetriesAreBounded` |
| `UnknownIsSilent` | `Spec => []UnknownOnlyQueues` |
| `DestroyIsAFlush` | `Spec => []DestroyFlushes` |
| `DeclinedPosts` | `Spec => DeclinedSendsOnlyRetained` |

They share one inductive invariant, `SubmitterInv`, in four parts. `Items`: what is retained is
exactly what is in flight (when the kind retries), and the cache holds items that
neither the submitter nor the server has seen; without it `Accept` could forget items
that were not in the post. `Attempts`: the posts of an item are bounded by the retry
counter, which is what makes the bound survive a payload that grows between two
posts. `Calls`: a post is the work of the oldest call, only destroy makes a "last"
call and only once, and while that call's post is in flight the cache is empty; this
is what carries `DestroyFlushes` through a destroy that finds older calls in the
chain. `Consent`: a submitter waiting for the user's answer has no timer, window or
call at all, and a declined one an empty cache. What a step may do to the chain is a
lemma of its own (`OtherCalls`, `DestroyCalls`): it keeps the calls, adds one or ends the
oldest.

The run checks `OneTurnPerRun`, `ImplementsPeriodicTask`, `NothingVanishes`, `SentOnce`,
`DestroyFlushes` and `DeclinedSendsOnlyRetained` on small instances; the other formulas
of the two tables are proved, and no run repeats them.

### Notifications

`NotificationsProofs` has an invariant for each part.

| Theorem | Statement |
|---|---|
| `PresenceCorrect` | `Spec => []PresenceIsLatest` |
| `AnnouncementsCorrect` | `Spec => []AnnouncedAsFiltered` |
| `PursuitCorrect` | `Spec => []TargetIsPursued` |
| `FreshnessCorrect` | `Spec => DoneMeansFresh` |

`KeeperInv` ties the times that decide which messages are news to what was delivered
(`TimeIsLatest`), the presence kept to the message of that time (`PresenceOfTime`), and
says what the first connection finds (`UnopenedIsInitial`). `MembershipsInv` is one
formula for each worker: what it owes is within what it pursues, that is still ahead of
what was brought (`Sound`), and a worker that handles an event has an execution to come
or a timer (`Tended`). The timer may be one that `stop` forgot to clear; this is why
`Waits` counts the orphaned delays. Each function of the worker is proved to leave its
worker sound and the other one alone (`Acts`, `Engages`), and the steps compose them.
`DoneMeansFresh` follows step by step: an event that is no longer owed is stored, was
given up or was dropped by a stop, unless the answer had no change number or an instant
update from before a stop is applied on top of it.

### Polling

`PollingProofs` has an invariant for each of four parts.

| Theorem | Statement |
|---|---|
| `PollingCorrect` | `Spec => []PolledWhenUsed` |
| `AuthenticationCorrect` | `Spec => []OneAuthentication` |
| `SegmentsCorrect` | `Spec => []SegmentIsExact` |
| `RecoveryCorrect` | `Spec => []ProxyIsRecovered` |

`ClientInv` says what the tasks do while a change of the definitions waits to be
announced: the announcement looks at the task of the main client only, so no other may
be out of step with it before (`MainLeads`). `AuthInv` orders calls and tokens
(`CallIsOld`): a call is not made again with the token it was refused for because tokens
are issued after all that were refused. `ServerInv` says that fetches in flight are of
the first execution, from the change numbers there are, one for each segment
(`FetchesAreOfFirst`); it holds until a fetch fails while others go on (`abandoned`), as
the property says. `FetcherInv` says of the request awaited where it started from and,
when no check is to come, that either all is clean or that request is the recovery
(`OnTheWay`): it is its answer that must leave all clean.

### Sync manager

| Theorem | Statement |
|---|---|
| `QuietCorrect` | `Spec => []DisconnectedIsQuiet` |
| `OneSourceCorrect` | `Spec => []OneSource` |

`IInv` of `SyncManagerProofs`. `OneSource` lets an SDK be on its way to streaming for a
reason that comes to nothing, so the invariant asks for one that its own event will not
take away (`Awake`): polling, a connection, a timer, or an authentication that will not
be found stale. And it says nothing while a start waits for the cache to be validated,
when a manager that already runs must be on its way, since `start` does nothing for it.

### Readiness

| Theorem | Statement |
|---|---|
| `EventsCorrect` | `Spec => []EventsInOrder` |
| `ReadyCorrect` | `Spec => []ReadyIsSynced` |
| `ArrivalsCorrect` | `Spec => []ReadyWhenArrived` |
| `PromisesCorrect` | `Spec => []PromisesKept` |

They share `IInv` of `ReadinessProofs`: what was heard is what the flags say
(`HeardAsFlagged`), a promise that waits listens to the event that resolves it and to
the one that rejects it (`Listening`), and waits for something that has not happened
unless a listener of the user throws (`Waits`, `Troubled`). Before that come lemmas on
what each function of the readiness manager does to one client, in which emissions call
listeners that throw.

### Definitions synchronisation

| Theorem | Statement |
|---|---|
| `ChangesCorrect` | `Spec => []NoLostChange` |
| `ReferencesCorrect` | `Spec => []RefsResolved` |

A change is lost long after the payload that causes it was taken for the next one, so
`IInv` of `DefinitionsSyncProofs` speaks of payloads that workers keep and executions wait
with (`PayloadsOK`), of the request in flight and what it asked for (`FetchOK`), and of
where change numbers and definitions come from (`CachesOK`). `RefsResolved` holds even
when changes are lost, by what a cache that has a definition must have (`Present`).

The proof corrected the property. It first said that nothing is lost as long as no
change number is set back *while a later payload waits*; the step that applies a fetch
could not be proved, and a larger instance showed why: after a payload set the number
back, an older answer of the CDN is accepted. Now `setBack` remembers that a payload
ever set a number back, and the theorem says that this is the only way to lose a change.

### Asynchronous storages

| Theorem | Statement |
|---|---|
| `RecordedCorrect` | `Spec => []RecordedOnce` |
| `DestroyCorrect` | `Spec => []DestroyKeepsAll` |
| `AnswersCorrect` | `Spec => []AnsweredIsStored` |
| `IndexesCorrect` | `Spec => []IndexesFollow` |

`RecordersInv` of `AsyncStorageProofs` follows what is recorded from place to place: taken
by the synchroniser, in a list, under way in a command, or in memory. It says which things
each place has (`Apart`), that none has one twice (`Orderly`), and that what the
synchroniser read of a list is still its head unless the list expired (`Reading`). The
running commands are a set, so that two equal ones would be one: commands that add to a
hash differ (`Distinct`), and the numbers add up over them (`Sums`). That nothing is cut
off at the end is what the disconnection waits for (`Connected`).

`DefinitionsInv` describes a storage between two commands of parallel chains, where
neither `AnsweredIsStored` nor `IndexesFollow` says anything. The storage of another SDK
key is cleared before anything is written (`Owned`). What an update that has not failed
has to write is written or in a call that will write it (`Written`). And while no command
failed, calls are about different names, so that a flag set lists each name, and a
traffic type counts it, as the call of that name has left it so far (`Indexes`, `Counts`);
a command changes that for its own name only (`OtherNames`), and a count by one exactly
when the set of counted names changes by one (`CountChange`). That `IndexesFollow` bounds
the counts from above only is all there is to prove: a count that came to 0 is deleted by
another command, which takes away what a call in between added.

### Synchronous storages

| Theorem | Statement |
|---|---|
| `StoragesInvariant` | `Spec => []StoragesInv` |
| `ViewsCorrect` | `Spec => []ViewsAreExact` |
| `CacheCorrect` | `Spec => []LoadedCacheIsOurs` |
| `SavesCorrect` | `Spec => []SavedWhenQuiet` |
| `PlanCorrect` | `Spec => []PlanRoundtrip` |

They hold for any rules, keys, segments, configurations and filters, any number of updates
and sessions, and plans for every kind of storage, wrappers included. The hypotheses are
`CachesAssumption` and `StoragesAssumption`: rules, flag sets and segments are finite, a
rule has a traffic type, flag sets and segments of the constants, and an SDK filters by
flag sets or by names, not by both.

The caches are updated by folds over sets of rules, names and flag sets, and their
counters are numbers of rules. Induction over a set needs no operator as a parameter when
it is done once for each operator that is folded, from a least set where it fails
(`LeastSet`, `SubsetInduction`): these are the lemmas `Folds...`. On them rest lemmas for
every operation of the caches. In memory each keeps a cache in `ExactDefs` or `ExactRBs`,
where the counts and indexes are a function of the rules, and so a plan taken from one
cache and set into an empty one gives the same cache (`DefsAreEnough`). In the items, where
a key goes when its count does and definitions and rule-based segments share one count,
each keeps what was exact (`Tallied`) and says which keys it leaves alone (`At`). The reset
of memberships, which skips the common prefix of two sorted lists, leaves the listed names
whatever was stored, lists with repeated names included (`ResetSegmentsIs`).

`StoragesInv` is these facts in every session and for every copy that a wrapper has or
that is on its way to it (`CopiesStep`: a copy is an older copy, aged or not, or the items
of a wrapper that is up), the chain of saves (`ChainOfSaves`: one write at a time, and the
last one brings what the items are), and which configuration the rules are of (`Labels`).
The last is what `CacheIsOurs` leaves out: between sessions the items are of the
configuration of their hash (`Labelled`); a session with a plan has its own rules before
it has its hash; and `validateCache`, which takes items without a change number for no
cache, is right because those have no rules (`Whole`).

### Only model-checked

- Liveness (`KeepsPolling`, `CatchesUp`, `WorkEnds`, `EventsAreDone`, `EveryClientArrives`)
  and the violation of `StaleIsTemporary`: TLAPS proves neither liveness under fairness
  nor ENABLED.
- `DoneMeansSynced`, a property of steps of `DefinitionsSync`, which holds while requests
  fail less often than the worker retries: the bound on failures of the run, and nothing
  that the code guarantees.
- The invariants of `Clients` (section 2 says why).

## 7. What is not modelled

- Time: delays, periods and the growth of the backoff; timers fire in any order.
- Contents: payloads are sets of items, tokens sets of keys or numbers; parsing of
  messages, decompression, base64, hashing, formatting, URLs, headers, logging.
- Telemetry counters and the one post of the configuration when the SDK is ready;
  the filter of the unique-keys tracker; integrations.
- The validation of SDK keys and the count of factories per key; the growth of
  LocalStorage; options and TLS of the Redis connection.
- In the offline mode, whitelists of keys (the parser of the settings makes none) and
  parsers that throw.
- Code that nothing calls (`evaluateDefaultTreatment`, `getDefaultTreatment` in
  `evaluator/index.ts`).
