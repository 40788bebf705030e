# Verification of Grafana: alerting, locks, sessions, requests and live data

TLA+ modules, TLC configurations and TLAPS proofs for the parts of Grafana
whose correctness rests on ordering, concurrency and failure. In the backend
(`src/pkg`, Go) the centre is unified alerting (`src/pkg/services/ngalert`): a
scheduler turns ticks into evaluations of alert rules, a state manager turns
the results into states, rows and notifications. Around it are the ticker that
drives the scheduler and the server lock that keeps several servers from doing
the same work. In the front end (`src/public/app`, TypeScript) it is what every
page shares: the service that all requests go through, the jobs that keep the
session's token valid, together with the servers that rotate it, and the
streams of Grafana Live.

Paths below are relative to `src/`. A module is `X.tla`; `MCX.tla` gives its
constants their values for TLC; `XProofs.tla` has its theorems. `PROJECT.json`
maps each definition to the lines it stands for and lists the runs, the
hazards, the findings, the theorems, and for each property a change of one
definition (marked "Mutant" in the module) that breaks it.

1. [Inventory](#1-inventory)
2. [What is modelled, and where](#2-what-is-modelled-and-where)
3. [Runs and bounds](#3-runs-and-bounds)
4. [Fairness](#4-fairness)
5. [Proofs](#5-proofs)
6. [What the code does not keep](#6-what-the-code-does-not-keep)
7. [What is only model-checked, and what is not
   modelled](#7-what-is-only-model-checked-and-what-is-not-modelled)
8. [Plan](#8-plan)

## 1. Inventory

### 1.1 How the parts interact

    clock --> ticker --tick--> schedulePeriodic --eval / update--> rule routine (one per rule)
                                 ^   |                                  |
         alert_rule (database) --+   | stop                             v
              ^                      +----> (context) ----------> state manager --rows--> alert_instance
              |                                                         |
         API, provisioning                                              v
                                            alerts router --> internal / external Alertmanagers

Several servers share one database. Each runs all of this by itself; the only
protocol between them is in the tables, above all `server_lock`, under which
migrations, clean-ups and other singletons run, and `user_auth_token`, which
requests of one session reach through any of them.

    panel, page --fetch--> queue, worker --request--> server: look the token up --> user_auth_token
       |                      |  401                                                   ^
       |                      +----> auth check: ping or rotation ---------------------+
       |                                                                               |
       |    rotation job (one per tab) ------------------------------------------------+
       |         |  reads and sets, with the answers of all calls
       |         +----> cookies (one jar for all tabs)
       |
       +--subscribe--> data stream --> channel --websocket--> Live in the server

Each page runs on one thread. What interleaves there are answers, timers and
callbacks that call back; tabs share only the cookies.

### 1.2 Components that are modelled

**Interval ticker** (`pkg/util/ticker/ticker.go`). State: the last mark handed
out, two unbuffered channels. Operations: `New` rounds the present down to a
mark, a goroutine (`run`) offers each next mark once the wall clock has reached
it and else sleeps, `Stop` sends without blocking. Hard: the wall clock is set
while the goroutine sleeps on the monotonic clock; the receiver is slower than
the interval; `Stop` comes between two selects. Correct if ticks are due, on
the marks, consecutive, and all of them arrive.

**Alert rule scheduler** (`schedule/{schedule,registry,fetcher,jitter}.go`).
State: the rules fetched last (`schedulableAlertRules`), the registry of
routines (`registry`), one goroutine per rule with its `currentFingerprint`,
and any number of short-lived goroutines that hold an evaluation or an update
for a routine. On a tick it fetches the rules if their versions changed, starts
routines for new rules, hands over evaluations and updates, and stops the
routines of rules that are gone. Hard: hand-overs overtake each other, each
first draining the channel of what another sender blocks on; a rule is deleted
or created again while its routine evaluates, retries or waits; a query fails;
shutdown at any point. Correct if registries and routines stay in step, states
never mix two versions of a rule, a deleted or paused rule loses its states,
the scheduler follows the database, and nothing is left behind or waits for ever.

**Alert rule store** (`store/alert_rule.go`). The table `alert_rule` and its
versions; its operations are the scheduler's environment. Correct, for the
scheduler, if equal versions mean equal rules.

**Alert state manager** (`state/{manager,state,cache,compat,persister_sync}.go`).
State: the cache of states, what was last sent. Operations: the next state of
each result (`setNextState` and its handlers), stale series, persistence,
sending and sending again, the reset of an updated rule, `Warm` after a start.
Hard: the process dies between the write of a state and its message; a
statement fails; evaluations are late or missed while Alertmanager forgets;
labels that come and go change the key of a row. Correct if a firing alert is
known to Alertmanager from beginning to end, the pending period is respected,
and a restart goes on where the process died.

**Alert instance store** (`store/instance_database.go`). The rows of
`alert_instance`; single statements that may fail.

**Server lock** (`pkg/infra/serverlock`). State: one row per action.
`LockAndExecute` grants by a conditional UPDATE of a version;
`LockExecuteAndRelease` inserts and deletes the row and overtakes one that is
too old. Hard: servers race for a row, hesitate between two statements, die
with the lock, and have clocks that differ, in a column of whole seconds.
Correct if grants are spaced, at most one executes, and a dead holder's lock
does not stay.

**Backend request service**
(`public/app/core/services/{backend_srv,FetchQueue,FetchQueueWorker,ResponseQueue}.ts`).
State: an entry per request, Pending or InProgress, the worker's waiting
updates, the responses subscribed to, the rotation in progress. Operations:
fetch, unsubscribe, cancel by requestId or all, an answer, a 401 and the check
it waits for. Hard: all of it is synchronous callbacks inside callbacks; a
request that starts cancels another one whose subscriber changes the queue that
is being handed out; the worker acts on updates that are older than the queue;
a request that waits for a check keeps its slot. Correct if an answer that was
superseded never comes, slots come back, no request waits while there is room,
and every request ends.

**User sessions: token rotation**
(`public/app/core/services/{context_srv,backend_srv}.ts`,
`pkg/services/auth/authimpl/auth_token.go`, `pkg/services/authn`,
`pkg/api/user_token.go`). State: a row of `user_auth_token` with the token, the
one before, whether it was seen and when it was rotated; the cookies; a job per
tab. Operations: look up, rotate, the job, the check after a 401, the redirect
of a page. Hard: tabs and servers rotate at once, answers are late or lost, and
only the token before the current one is known besides it. Correct if the
browser keeps a token that the servers know.

**Grafana Live in the browser** (`public/app/features/live`,
`StreamingDataFrame.ts`). State: the open channel, a data stream with the last
rows, a copy per panel. Operations: subscribe, leave, receive, two timers that
close what nobody listens to, disconnect and reconnect, a slow browser. Hard:
panels get the whole frame once and then what is new, some of it later and at
once; somebody comes back before a timer fires. Correct if each panel shows
what the stream has, nobody listens to a closed channel, and channels are
closed when everybody has gone.

### 1.3 Components that are not modelled yet

| component | state and operations | hard | correct if |
| --- | --- | --- | --- |
| Stream manager, `live/runstream/manager.go` | streams by channel, a watcher and a run loop for each; submit, stop without subscribers, data source change, shutdown | the watcher and the run loop both clean up; resubmission beside a stream that ends | one stream per channel, on current settings, none without subscribers, shutdown ends all |
| Alerts router and senders, `ngalert/sender` | where each organisation's alerts go, external senders with queues; synchronise, send | the choice is read twice while it is synchronised; queues drop | an alert reaches one of the chosen Alertmanagers, or is sent again |
| Asynchronous persister, `state/persister_async.go` | a timer and the whole cache; `FullSync` | reads states while routines change them; an empty cache; the last sync at shutdown | rows become what the cache was, deleted states do not come back |
| Multi-organisation Alertmanager, `ngalert/notifier` | Alertmanagers by organisation; create, apply configuration, stop, delete | alerts arrive while they are created or stopped | each organisation has one, stopped ones are gone from disk |
| Remote and forked Alertmanagers, `ngalert/remote` | readiness, last sync; send state and configuration on an interval | errors of one side, readiness checks, sync on shutdown | the internal one never depends on the remote one |
| State historian, `state/historian` | none; records transitions in goroutines of its own | best effort | nothing depends on it |
| Alert rule evaluator, `ngalert/eval` | none; queries to results | errors, timeouts | pure function of frames |
| Alerting API and provisioning | the database | transactions, optimistic versions | each write is one transaction |
| Legacy alert migration, `ngalert/migration` | the database; runs once at the start under the server lock | failure half way, reverting | all or nothing |
| Server expressions, `pkg/expr` | a graph per query; topological order | cycles, errors of a node | each node after those it reads |
| Live in the server: channels, managed streams, pipeline | the last frame of each channel; publish, subscribe | belongs to the library (centrifuge) | the last frame is kept |
| Plugin manager and processes, `pkg/plugins` | processes, a poll that restarts them; start, stop, decommission | a poll beside a stop or a decommission | a stopped plugin is not started again |
| Login attempts | rows in a window; count, add, delete old | count and add are two statements | blocks after the limit |
| Secrets, `pkg/services/secrets` | data keys, a cache with expiry; rotate, re-encrypt | rotation beside encryption with a cached key | everything stays decryptable |
| Background services, `pkg/server` | an errgroup; run, shut down | order, a service that does not return | all are cancelled once one fails |
| Remote cache, key-value store, local cache | rows or a map with expiry | two writers of one key | the last write is read |
| HTTP API, dashboards, folders, users, access control | the database | data, not control | requests are authorised, versions conflict |
| SQL store and migrations | the database | external: row locks, unique keys, transactions | as the code uses them |
| Data source plugins | clients of other services | external answers | parsing |
| Rest of the front end | the page: dashboards, panels, queries, Explore, plugins | an answer for a dashboard or query that was left | what is shown belongs to what was asked last |
| Build, packaging, docs, devenv | none | | |

## 2. What is modelled, and where

### 2.1 `TickSource`, `Ticker`

`TickSource` is the promise: a source that hands out consecutive marks, each no
earlier than the clock reached it, until it is closed. `Ticker` is the code:
the goroutine `run` (`pc`: between its selects, offering, or waiting on the
timer) and the receiver, `schedulePeriodic` (`rpc`), which takes a tick,
processes it, and on cancellation waits for the routines and stops the ticker.
`now` is the wall clock. It may be set forward and back (`AdjustClock`), and a
sleep on the monotonic clock may end at any wall-clock time (`TimerFires` has
no guard on `now`). `Ticker` implements `TickSource` with `closed <- rpc =
"done"`.

| code | definition |
| --- | --- |
| `getStartTick` | `StartTick` |
| `run`: the comparison, the send, the timer | `LookAtClock`, `Deliver`, `TimerFires` |
| `Stop` | `Stop` |
| `schedulePeriodic`'s select, `Run`'s context | `TickProcessed`, `SeeCancel`, `RoutinesDone`, `CancelRun` |

### 2.2 `Scheduler`

One action per step between which the goroutines can interleave.

| code | definition |
| --- | --- |
| `updateSchedulableAlertRules`: the two queries, each of which may fail | `Tick`, `TickKeysFail`, `FetchRules`, `FetchRulesFails` |
| `processTick`'s loop; `getOrCreateInfo` | `DispatchKnown`, `DispatchNew` |
| the `time.AfterFunc` of each evaluation; `deleteAlertRule` | `SetTimers`, `DeleteRule` |
| `alertRuleInfo.eval`: first and second select | `EvalDrain`, `EvalSend` |
| `alertRuleInfo.update`: first and second select | `UpdateDrain`, `UpdateSend` |
| `ruleRoutine`: its select | `ReceiveSameUpdate`, `ReceiveUpdate`, `ReceiveEval`, `RoutineDone` |
| `ruleRoutine`: attempts, `evaluate`, retries | `BeginAttempt`, `EvaluateReturns`, `EvaluateFails`, `EvaluateCancelled`, `Retry`, `BackoffCancelled`, `ProcessResults` |
| `InsertAlertRules`, `UpdateAlertRules`, `DeleteAlertRulesByUID` | `InsertAlertRule`, `UpdateAlertRule`, `DeleteAlertRule` |

An unbuffered channel is the sequence of the senders blocked on it (`evalCh`,
`updateCh`); a cancelled context empties it. Senders past their first select
are in `draining` and `posting`, those whose goroutine has not run yet in
`timers` and `updates`: this is what makes every reordering possible.

A rule is its `content`, which stands for all that the fingerprint is computed
from (`IsPaused` included, as the set `Paused`), and its `version`. `states` is
the content that the cached states of a rule were computed from, `"warm"` for
those `Warm` read at the start. The state manager behind it is one assignment
here; `StateManager` has it in detail. A panic ends the process (`panicked`).

### 2.3 `StateManager`

One rule, one series, one routine; time in units. A tick is at each multiple
of `Interval`.

| code | definition |
| --- | --- |
| `setNextState` and the handlers of each result | `NextState`, `ResultNormal`, `ResultAlerting`, `ResultNoData`, `ResultError`, `ResultKeepLast` |
| `ProcessEvalResults`, `deleteStaleStatesFromCache` | `ProcessEvalResults`, `IsStale`, `Missing` |
| `SyncStatePersister` | `DeleteAlertStates`, `SaveAlertStates`, and either failing |
| `FromStateTransitionToPostableAlerts`, `NeedsSending`, `StateToPostableAlert` | `SendAlerts`, `NeedsSending`, `Alert`, `Told` |
| `DeleteStateByRuleUID`, `FromAlertsStateToStoppedAlert` | `RemoveByRuleUID`, `DeleteAlertInstancesByRule` (or its failure), `SendStoppedAlerts` |
| `Warm` | `Warm`, `WarmFails`, `Restored` |

The process may die before any step (`Crash`), which empties the cache and the
batch it works on and keeps `rows` and `am`, what Alertmanager was told last.
`labelled` is whether a state has the labels `ref_id` and `datasource_uid` that
an error of a query adds. They are part of the key of the row and, after a
restart, of the cache ID, but not of the cache ID while the process runs: hence
two `Ids`. History variables: `breached`, the tick since which no result denied
the condition; `lost`, whether a crash came between an evaluation and its write;
`relabelled`, whether an error has ever added labels.

An evaluation ends before the next tick or does not take place (`Pass`), and
all the time it takes passes before the messages are sent; no earlier step
reads the clock, so this is the latest each message can be.

### 2.4 `VersionedLock`, `Lease`, `ReleasableLock`

`VersionedLock` is `LockAndExecute`: `GetRow` and `CreateLock` are
`getOrCreate`, whose INSERT the unique index may reject; `CheckInterval` is
`isLockWithinInterval` on the server's copy; `ReadClock` takes the argument of
the UPDATE of `acquireLock`, whose outcomes are `AcquireLock` (one row
affected), `AcquireLockMissed` (none) and `AcquireLockUnknown` (the UPDATE took
effect and its answer was lost). `grant` is history: the number of the last
grant, when its UPDATE took effect, and how long before that its server had read
the clock.

`ReleasableLock` is `LockExecuteAndRelease` and its variant with retries:
`SelectRow` and `SelectNothing` are the SELECT ... FOR UPDATE, `LockExists`,
`LockTimedOut` and `Overtake` what it does with a row, `CreateLock` the INSERT,
`ExecuteFunc` and `ReleaseLock` the rest. Its times are ages, so that it runs
for ever in a finite number of states.

`Lease` is the promise: one owner at a time, who has the lock until he gives it
back or dies; the lock of an owner who died is overtaken only when its term is
over by some clock. `ReleasableLock` implements it: `Owner` is the server that
executes the function or releases the lock, `age` the row's, `Term` is
`MaxInterval`, and a stamp may be `Second - 1 + MaxRun` old when the INSERT or
the UPDATE takes effect. `VersionedLock` has no owner: what it promises is
`GrantsAreSpaced`.

Both have clocks up to `Skew` ahead of true time and a column that holds whole
`Second`s. `serverlock.go:27` asks callers not to use both on one action, so
the two do not meet in a module.

### 2.5 `RequestService`, `BackendSrv`

All of it runs on one thread, and rxjs Subjects call their subscribers at once.
`calls` is the stack of calls that are open; a browser event (an answer, a
click) comes when it is empty. The worker's `concatMap` does not reenter: while
it hands out `list`, updates wait in `snapshots`, of which the number of
requests in progress is that of the moment of the update and the entries are
those of now. Requests are the numbers 1 to N, where the code has UUIDs.

| code | definition |
| --- | --- |
| `fetch`, `FetchQueue.add` | `Fetch`, `Add` |
| `fetch`'s unsubscribe function, `setDone` | `Done`, `Unsubscribe` |
| `FetchQueueWorker`: filter, concatMap, precedence and limit | `Publish`, `ToFetch`, `NextUpdate`, `Rest` |
| `ResponseQueue`: `setInProgress`, `internalFetch`, the response | `Start`, `Listen` |
| `resolveCancelerIfExists`, `cancelAllInFlightRequests` | actions of these names |
| `handleStreamResponse`, `handleStreamError` | `Succeed`, `Fail`, `Error`, `LoginPing`, `RotateToken`, `JoinRotation`, `Authorized` |

`RequestService` is the promise: a request is made once, starts at most once,
after those of its class (data or api) that were made before it, and never after
it ended. `BackendSrv` implements it with `unmade <- fresh`, `waiting` the
entries that are pending, `before` their order, and `running <- inProgress`.
The promise does not say how many run at once (section 6).

A subscriber's callback may make new requests (`Reissues`) and then
unsubscribes from all the requests it has (`consumerOf`), as `forkJoin` and
`merge` do.

### 2.6 `SessionRotation`

The tabs of one browser, any number of servers, and one row. A token is the
number of rotations since it was made: 0 is `auth_token`, 1 `prev_auth_token`,
and the row does not know the older ones. Times are relative to now. Nothing
orders the calls: any answer may come before any other, or be lost, and each
sets the cookies when it comes. History variables: `held`, whether the browser
has been given the row's token; `missed`, how many rotations passed it by since
it last had the row's token, because their answers were lost or set the cookies
back after a newer one (2 stands for more).

| code | definition |
| --- | --- |
| `LookupToken`, `NeedsRotation`, `Session.Authenticate` | `Found`, `RowLooked`, `NeedsRotation`, `Authenticate` |
| `RotateToken` (singleflight), `rotateToken` | `JoinFlight`, `LookupToken`, `RotateToken` |
| `WriteSessionCookie`, `NextRotation` | `SetCookies`, `NextRotation` |
| `scheduleTokenRotationJob`, `rotateToken`, `setLoggedOut` | `Reschedule`, `RunJob`, `JobAnswer`, `SetLoggedOut` |
| `handleStreamError` after a 401 | `Request`, `RequestAnswer`, `CheckAnswer` |
| `RotateUserAuthTokenRedirect`, `notAuthorized` | `Load`, `PageAnswer` |

### 2.7 `LiveStream`

One channel ID: the channel objects that come and go under it (`chan`, of which
`open` is the service's), the data stream and the panels. A row is the number
it was published with, so that a copy can be compared with its original. A
packet has up to `MaxPacket` rows, or none. An empty frame takes the first ones
as they are, however many; later ones are cut to what the stream keeps (`Push`),
and what is sent of a packet is the slice that `getValuesFromLastPacket` takes,
which counts from the other end when the packet is longer than that
(`LastPacket`).

| code | definition |
| --- | --- |
| `CentrifugeService.getChannel`, `getStream`, `getDataStream` | `GetChannel`, `Listen`, `GetDataStream` |
| `CentrifugeLiveChannel`: subscription events | `OnSubscribed`, `OnError`, `OnUnsubscribed`, `Publish`, `OnDisconnect` |
| its `disconnectIfNoListeners`, `disconnect` | `StopListening`, `ChannelTimer` |
| `LiveDataStream`: `onNext`, `process`, `get` | `OnStatus`, `Process`, `Prepared`, `Emit`, `FullFrame` |
| its `shutdownIfNoSubscribers` | `Unsubscribe`, `Shutdown` |
| `StreamingDataFrame.push`, `pushNewValues` | `Push`, `NewValues` |
| `bufferIfNot`, `liveTimer` | `Receive`, `Measure` |

### 2.8 How the modules meet

`Ticker` contains the receiving loop of the scheduler, and what it promises
(`TickSource`) is what `Scheduler`'s `Tick` takes for granted: consecutive
ticks, none early. `RequestService` and `Lease` are promises of the same kind
to callers that have no module of their own. `Scheduler` treats the state manager as a register per rule
and shows under which conditions one routine at a time writes it;
`StateManager` is what one such routine does. The two locks stand alone.

`BackendSrv` and `SessionRotation` share `handleStreamError`. The first has a
401 and the check that follows as events that may come at any time, and asks
what they do to the queue. The second has the tokens that decide about them,
and no queue. `LiveStream` meets neither: its connection is a websocket of its
own.

## 3. Runs and bounds

| run | module, cfg | bounds | shows |
| --- | --- | --- | --- |
| `ticker` | `MCTicker` | 8 instants, marks 2 apart, 2 clock changes | ticks are due and on marks; consecutive, none dropped or repeated (`ImplementsTickSource`); the receiver catches up; `Run` returns |
| `scheduler` | `MCScheduler` | 1 key, contents `a`, `b` (every second tick) and `p` (paused), 2 routines, 2 attempts, 2 writes after the start | one live routine per key, registries in sync, states never mix two versions, no states without a routine |
| `scheduler_live` | `MCScheduler`, `MCSchedulerLive.cfg` | the same, 1 routine, 1 write | the scheduler follows the database, paused and deleted rules lose their states, senders are released, shutdown ends |
| `versioned_lock` | `MCVersionedLock` | 3 servers, interval of 2 seconds of 2 units, skew 1, 6 seconds | two grants are the interval apart, less a second, the skew and the lateness of the earlier UPDATE |
| `releasable_lock` | `MCReleasableLock` | 3 servers, 2 of which retry, interval 5, run 2, second 2, skew 1 | at most one executes; the lock passes on when it was given back or its owner died and `maxInterval` is over (`ImplementsLease`); a dead holder is overtaken, so that who waits does not retry for ever |
| `state_manager` | `MCStateManager` | 3 rules, 5 ticks, 2 missed in a row, 1 failing statement, 1 restart, 1 update | alerts do not end while they fire, the pending period is respected, a restart goes on where the process died, rows before messages |
| `backend_srv` | `MCBackendSrv` | 6 requests (4 of data, 1 api, 1 check), 2 slots, 2 with one requestId, 1 request made within a callback | superseded answers do not come, slots come back, none waits while there is room, each starts once and in its turn (`ImplementsRequestService`), every request ends |
| `session` | `MCSessionRotation` | 2 tabs, 1 in use, 2 servers, interval 4, urgent 3, leeway 1, delay 1, answers in any order, any number lost | between rotations the browser has a token the row knows unless it missed two, the previous token is accepted until the browser has the new one, the expiry cookie is early |
| `live` | `MCLiveStream` | 2 panels that show 2 rows, 1 listener, packets and frames of up to 2 rows, 2 rows published, 2 schemas, 2 channels, 2 waiting messages, 1 timer | copies are in sync, nobody hears a closed channel, channels are released |

Three more runs have one property each and are expected to find it violated; see
[section 6](#6-what-the-code-does-not-keep).

Why these bounds are enough for what the properties ask:

* *Ticker.* With eight instants and marks two apart, up to three marks fall due
  while the receiver is busy, and a change of the clock can cross several.
* *Scheduler.* The hazards are within one key; keys share only the loop and
  the registry, whose safety is proved for any number of keys. Two writes give
  update and pause in either order, update after update, and deletion and
  creation again. Two routines let the one that was stopped still work beside
  the one that follows it. Ticks count modulo `Cycle` = 2, enough for two
  frequencies; a tick waits until no evaluation with its number is in flight,
  which bounds the senders for a routine to two. That is enough for each to drain
  or overtake the other.
* *Scheduler, liveness.* Each property says what happens when the rule stays
  as it is, so one write that the scheduler may be late in seeing is enough.
  The write is an update or a deletion; a key that is used again after its
  deletion is outside (`retired`), as the code then may keep the old rule
  (section 6). With two writes the graph is too large for the check of
  liveness.
* *Locks.* Three servers: one that holds or hesitates and two that race. A
  second is two units, so that truncation and skew of half a second both show.
  In `MCVersionedLock` time ends after three intervals; in `MCReleasableLock`
  it does not end.
* *State manager.* A pending period of two intervals takes three ticks to fire,
  a stale series two intervals, and five ticks leave room for both before or
  after a restart. `ResendDelay` is one interval, its least value with an effect;
  `EndsAt` is four intervals away. The three rules have the defaults, a pending
  period with errors of queries, and NoData as Alerting with errors that keep
  the last state. `MaxMissed` = 2 lets ticks be missed beyond the one that
  `KnownWhileFiring` allows for, as the other properties have no such limit.

* *Request service.* Two slots and four data requests make the worker choose
  and the rest wait; the api request and the check, which goes past the limit,
  both compete. One request made within a callback is enough for an update in
  the middle of a hand-out. Each request is made once, so `EveryRequestEnds` is
  about any number of them only as far as six can hold each other up.
* *Session.* A tick is some 20 seconds. The rotation interval is shortened to
  the least in which a token becomes urgent before it is due; two jobs of two
  tabs, the check of one of them and a page that loads rotate through two
  servers at once. Time does not end: ages stop at the interval and expiries at
  -2. Tokens stop at 3, and at most three rotations are under way.
* *Live.* A panel that appends and one that shows the last packet cover both
  actions of a frame. A frame of one or two rows, then packets of none, one or
  two, fill the two rows that are kept, go past them by one and by two, and
  replace them as a whole; `DefaultLength` = 1 lets a first packet be longer
  than the stream keeps. Two channels allow one to be closed beside the
  next one.

What single properties say that is easy to miss:

* `StatesMatchFingerprint` excepts the time in which a stopped routine of the
  same key still works, since then two write the states (a hazard without a
  property, section 7).
* `KnownWhileFiring` is about alerts Alertmanager was told of, with at most one
  tick missed. `EndsAt` is four times the longer of interval and `ResendDelay`
  away, which leaves nothing to spare when the two are equal, as in the run:
  a message late by almost an interval, a repetition at the second tick after it,
  that tick missed, and the next message late again. It is proved when the
  delay is at most the interval or at least a third longer (section 5). Real
  intervals are multiples of 10 s and `ResendDelay` is 30 s.
* `ForRespected` excepts histories in which an error added labels, and
  `PendingPeriodObserved`, without the exception, is violated (section 6).
* `GrantsAreSpaced` says `MaxInterval - Second - Skew - late`, not
  `MaxInterval`: a truncated stamp and a fast clock each shorten the interval,
  and so does `late`, the time the earlier server took from `time.Now()` to its
  UPDATE. Both ends of the distance are the moments at which the UPDATEs took
  effect. How late the second one is does not matter.
* `SlotsAreReturned` and `ImplementsRequestService` are checked for subscribers
  with one request each; with several both are violated (`backend_srv_groups`).
* `ImplementsLease` asks for more than `MutualExclusion`, whose `MaxRun` says
  nothing of a server that died: its lock, too, is overtaken only when some
  clock says that `maxInterval` is over.
* `TokenIsKnown` is about the times when no rotation is under way, and excepts
  histories in which the browser missed two rotations since it last had the
  row's token: their answers were lost, or came before those of older rotations,
  which set the cookies back. One such rotation is tolerated, however many are
  under way. `ExpiryIsEarly` and `PreviousIsAccepted` need no such limit.
* `PreviousIsAccepted` is about requests and page loads with the token before
  the current one. `auth_token_seen` says that the browser was given the current
  one (`SeenWasHeld`); it need not have it any more.
* `DeadLockIsOvertaken` is about each server that waits, a lone one too. A retry
  is a step within the same call and does not count; the call may end without
  the lock where the code ends it.
* `FollowsDatabase` and `PausedIsCleaned` leave out keys that were deleted once.
* `HeardIsOpen` and `Released` take it that nobody leaves a channel twice within
  250 ms (`MaxTimers` = 1); see section 6.
* `InSync` holds when no packet is longer than a panel shows (`ShortPackets`);
  section 6 says what a longer one does. It is about panels for which nothing waits, and about the rows that are
  kept, not about rows published while the page was disconnected: those are
  missing from the stream itself.
* `MutualExclusion` rests on `MaxRun + Second + Skew <= MaxInterval`, an ASSUME.
  It is what the comment on `maxInterval` demands of callers, made precise.

## 4. Fairness

Safety is checked and proved without any. The liveness properties assume:

* *Ticker*: both goroutines are scheduled and a sleep ends (weak fairness of
  their steps). Go's select picks at random among the cases that are ready, so
  neither the tick nor `ctx.Done` is passed over for ever (strong fairness of
  `Deliver` and `SeeCancel`). Processing of a tick and the routines' return end
  by `Scheduler`'s `ShutdownCompletes`. Nobody has to cancel or set the clock.
* *Scheduler*: the same for every goroutine and select; a query of the database
  does not fail for ever (strong fairness of `Tick` and `FetchRules`); an
  evaluation returns, with results or an error, because its context has a
  timeout. It need not ever succeed: `FollowsDatabase` is about evaluations
  that begin. The API need not write, nor anybody shut down.
* *Releasable lock*: time passes, calls go on, functions return, and the
  database grants row locks in turn (strong fairness of the SELECT and of the
  DELETE, which wait for other transactions). Nobody has to call. Servers may
  fail at any step, and need not.

* *Request service*: a call on the stack is executed, which is what a thread
  does; a request on the network is answered, if only by the browser's time
  limit (weak fairness of its answers). Nobody has to make, cancel or
  leave a request.
* *Live*: timers run (weak fairness of the two). The connection need not come
  back, and the server need not publish.

`StateManager`, `VersionedLock` and `SessionRotation` have no liveness property.
For the last, the natural one, that a tab shows the page again in the end, does
not hold: a page load that two other rotations overtake ends at the login form.

## 5. Proofs

Each theorem holds for every value of the constants that satisfies the ASSUME of
its module: any number of keys, routines and servers, any interval, and any
number of steps. The bounds of section 3 (`MaxWrites`, `MaxTime`, `MaxFailures`
and so on) are constants too, of which nothing is used but that they are
naturals. (`MaxPacket`, the length of packets in `LiveStream`, is a parameter;
see `ShortPackets` below.)

| theorem | says |
| --- | --- |
| `TickerProofs!TypeCorrect`, `TicksDue` | types; a tick is a mark that the wall clock has shown |
| `TickerProofs!Refinement` | `Ticker` implements `TickSource` |
| `SchedulerProofs!TypeCorrect`, `OneRoutine`, `RegistriesAgree` | types; at most one routine per key that was not stopped; registries in sync between ticks |
| `SchedulerProofs!StatesOfOneVersion`, `StatesHaveRoutine` | `StatesMatchFingerprint`: states never mix two versions of a rule; `NoOrphanedStates`: a deleted rule leaves none behind |
| `StateManagerProofs!TypeCorrect`, `SavedFirst`, `PendingPeriod` | types; rows before messages; `ForRespected` |
| `StateManagerProofs!OneEpisode` | `EpisodeSurvivesRestart`: after a restart an alert goes on with the start it had |
| `StateManagerProofs!KnownAsLongAsItFires`, if `DelayInProportion` | `KnownWhileFiring`: Alertmanager does not see a firing alert end |
| `VersionedLockProofs!TypeCorrect`, `GrantsCounted`, `GrantsSpaced` | types; the version counts the grants; the UPDATEs that grant the lock are spaced, less the lateness of the earlier one |
| `ReleasableLockProofs!TypeCorrect`, `Exclusion`, `LockKept` | types; mutual exclusion; the row of a running server stays |
| `ReleasableLockProofs!Refinement` | `ReleasableLock` implements `Lease` |
| `BackendSrvProofs!TypeCorrect`, `NothingWaitsInVain`, `OneResponse` | types; `WorkConserving`; `OnePerRequestId` |
| `BackendSrvProofs!SlotsReturned`, if `OwnSubscriber` | `SlotsAreReturned`: at rest the entries are the requests with an open subscriber |
| `BackendSrvProofs!Refinement`, if `OwnSubscriber` | `BackendSrv` implements `RequestService` |
| `SessionRotationProofs!TypeCorrect`, `ExpiryEarly` | types; the expiry cookie passes before the token is due |
| `SessionRotationProofs!PreviousAccepted` | `PreviousIsAccepted`: the previous token is good for `Urgent` unless the browser was given the new one |
| `SessionRotationProofs!TokenKnown` | `TokenIsKnown`: between rotations the browser has a token that the row knows, unless it missed two |
| `LiveStreamProofs!TypeCorrect` | types, and no panel keeps more rows than it shows |
| `LiveStreamProofs!PanelsInSync`, if `ShortPackets` | `InSync`: a panel for which nothing waits shows what the stream has |
| `LiveStreamProofs!ListenersAreHeard`, as long as `LeftOnce` | `HeardIsOpen`: the channel somebody listens to is the open one |

Every property of a run that is expected to pass has its theorem, except those
about liveness (section 7). `GrantsCounted` and `LockKept` state
`VersionCountsGrants` and `LockIsKept`, of which no run asks separately: a row
made twice breaks `GrantsAreSpaced` as well, and a row that is gone while its
owner executes breaks `ImplementsLease`. Five theorems have a hypothesis beside
the ASSUME of the module:

* `DelayInProportion`: `ResendDelay <= Interval`, or `4 * Interval <= 3 *
  ResendDelay`. The delay of the code is 30 s (`state/manager.go:23`) and
  intervals are multiples of 10 s (`setting_unified_alerting.go:60`): 10 s and
  20 s are in the second case, all others in the first. Without such a
  bound the property is false; see section 6.
* `OwnSubscriber` (two theorems): no two requests have one subscriber. The run
  `backend_srv_groups` shows what happens else.
* `ShortPackets`: no packet is longer than a panel shows. In the code a panel
  shows `request.maxDataPoints ?? 500` rows (`DataSourceWithBackend.ts:440`), and
  a packet is what a data source sends at once; nothing in the code compares the
  two, and section 6 says what a longer packet does.
* `LeftOnce`: a channel has at most one timer. `LiveStream` bounds them by
  `MaxTimers`, and section 6 says what a second one does.

Two assumptions beside the plain ranges of constants are there for the provers:
`BackendSrv` takes the requests to be 1 to N, where the code has UUIDs, and
`LiveStream` takes `None` to be none of the records it stands beside.

How they go:

* *Ticker.* `TicksAreDue` is inductive together with `tick = last` (what the
  receiver took last is what the ticker offered last) and `now <= reached`. Two
  lemmas are arithmetic: `StartTick` is a mark at most one interval back, and
  the mark after a mark is a mark. For the refinement, `Deliver` maps to the
  source's handing out, the end of `Run` to its closing, and all else stutters.
* *Scheduler.* `RegistryInSync` speaks of the time between ticks. `IInv` says
  what is true inside one: while the loop runs (`InLoop`), the rules it has passed
  have routines, the ones before it are in `pending`, and every other routine is
  in `registered`; after it (`InDeletion`) the registry is the rules fetched and
  what is still to be stopped. `RoutineData` says that a routine has a key from
  its start on, without which `OneLiveRoutine` does not survive a deletion.
* *Scheduler, states.* A routine changes its fingerprint in two places, and
  both reset the states first unless the routine has just started. Beside the
  two properties, each of which is used in the steps of the other, the proof
  needs that a routine that works has the fingerprint of its job
  (`JobIsCurrent`), through any number of attempts and waits between them.
  Nothing has to be known of the senders: whatever a routine receives, and in
  whatever order, it compares first.
* *State manager, rows before messages.* The routine takes several steps from
  the evaluation to the message. `IInv` follows the state through them: the
  transition in `batch` is the state in the cache (`Batched`), a state
  evaluated at this tick has a transition to save (`Unsaved`), and a due tick
  has not been evaluated (`InTime`). The order of deletion and write matters
  when a stale state has the key of the current one.
* *State manager, pending period.* The property is about Alerting states in the
  cache. `PInv` also says of Pending ones that the condition has held since
  they started, and says both of the row `plain`, from which a restart goes on
  (`RowObserved`), except while a statement that will replace the row is still to
  come. It is relative to histories with no failed statement, no lost
  evaluation and no relabelled state (`Regular`): in all others
  `ForRespected` says nothing, and `PendingPeriodObserved` shows that the last
  exception is needed (section 6).
* *State manager, restarts.* While nothing denies the condition, the row, the
  state in the cache and the alert that was told have one start (`SameAlert`,
  of the row also while the process is down). What could break it is a message
  with a newer start about an alert that goes on: an alert that is not over
  started before the tick that is due (`ToldBefore`). Which state or row may
  have which labels, be resolved, or be in the batch is an invariant of its own
  (`SInv`), which the next proof uses as well.
* *State manager, sending again.* What Alertmanager was told is reckoned back to
  the evaluation of its message (`SentTick`): the message was at most an
  interval after it, and every evaluation after the message that did not send
  another came less than `ResendDelay` later (`Kept`). The rest is arithmetic on ticks
  (`EndsLater`): with one tick missed the next evaluation that has to send comes
  before the end. With a delay of at most an interval every evaluation
  sends; with a longer one the bound is one delay, one missed tick and two late
  messages against four delays, which three quarters make true.
* *Versioned lock.* A copy of the row is the row unless its version is older
  (`CopyOfRow`), so the UPDATE takes effect only if nothing happened since the
  copy was made; then the interval that the copy showed to be over
  (`AfterCheck`) is over since the last grant (`RowOfGrant`). Rounding down to
  seconds is a lemma.
* *Releasable lock.* A server that runs has a row younger than its run plus a
  second (`RowIsRecent`), which no clock sees as timed out as long as the run
  is at most `MaxRun`; hence nobody runs once a lock is overtaken
  (`LockIsDead`). The row lock makes reading and overtaking it one step
  (`RowIsLocked`).
* *Releasable lock, lease.* The owner is the server that holds the lock, the
  age that of the row. UPDATE, INSERT and DELETE map to overtaking, taking and
  giving back, a failure to death if its server is the owner, all else stutters.
  Some time passes between the check that the lock is over and the UPDATE;
  in between the row is locked and gets only older (`LeaseIsOver`).
* *Session.* Whatever is to be true of the cookies has to be true of each answer
  that may still set them: `CallOK` has `ExpiryIsEarly` of the cookies under way
  (`Early`), and that only rotations bring any. A call that carries the row's token
  was sent when the browser had it, so that what its lookup marks as seen was
  held (`SeenWasHeld`); `PreviousAccepted` is then one step. `Busy` keeps a
  job and a page that loads from answering for each other. A lemma for each
  kind of step says what it does to the calls (`SendsCall`, `LooksUp`, `Rotates`,
  `TakesAnswer`, `LosesCall`, `Passes`), and is used for all the actions of that kind.
* *Session, known tokens.* The invariant for `TokenIsKnown` is `Lag`: the answer
  with each token newer than the browser's is still under way, or, if it missed
  one rotation, with each but one. It is a statement about a set, so that the
  order in which the answers come need not be known. A rotation adds the answer
  of the row's token. An answer that brings a newer token leaves fewer that are
  newer still; one that brings an older token than the browser has, or is lost,
  is one that the browser misses. When no rotation is under way no answer is
  (`CallOK`), and what is missed is all the browser is behind.
* *Request service, worker.* The stack has a shape (`WorkerInv`): a busy worker
  is on it once, with the request it starts above it. `UpdateInv` says that no
  update is lost: the last one the worker has, in hand or waiting, is what it
  would be if it were made now. At rest this is `WorkConserving`.
* *Request service, superseded answers.* A request that is about to be listened
  to has cancelled what has its requestId, but the calls that do so are still
  open. So `OnePerRequestId` is inductive with `Superseded`: above each listen on the
  stack is the call that ends any older response with its requestId.
* *Request service, slots.* `EntriesInv` has entries and subscribers agree,
  `ListInv` has what the worker hands out still waiting, `CallsInv` says what
  each call on the stack may still do to either, and `AuthFirst` that a check,
  which nobody counts, is the next to start. With a subscriber per request the
  end of one takes no other from the list; this is where `OwnSubscriber` is used.
* *Request service, order.* Add is the making of a request, Start its beginning
  and Done its end; all else stutters. `QueueInv` has it that what starts is
  still waiting. `ListOrder` adds that what was made before a request of the
  worker's list, and is of its class, is before it in the list: so the head of the
  list is the oldest of its class among all that wait, also those that came after
  the list was made. Lemmas say what `Only`, and with it `ToFetch`, keep of the
  order of a sequence (`PrecedesOnly`, `ToFetchOrder`).
* *Live, copies.* `Follows` compares a panel with the stream when the messages
  that wait are counted in: what it shows, with the rows of those added, ends
  like the stream. A message with a schema or an error replaces the frame, so
  nothing needs to be known of what is before it. `PanelInv` is about one
  panel and `StreamInv` about all; what a row added or a frame made does to the
  last rows of a sequence is proved in lemmas about `LastRows`, `RowsOf`
  and `Flatten`. `ShortPackets` is used where a packet is pushed (`PushFacts`):
  the stream keeps at least as many rows as any panel shows, hence the whole
  packet, and what is sent of it is all of it. Types and lengths do not need it.
* *Live, channels.* A channel that has a timer is the open one (`OpenInv`): it
  is closed by its own timer only, if it has one at most.

Where these proofs need induction (over the requests the worker has yet to look
at, and over the messages that wait) it is a lemma about a set of naturals,
by way of a least counterexample.

## 6. What the code does not keep

Three runs check a statement of a comment or a test and find it violated.
`PROJECT.json` quotes each and has the details.

| run | property | what happens |
| --- | --- | --- |
| `scheduler_nil` | `RuleIsNotNil` | A routine resets its state after its rule has left `schedulableAlertRules` and before it is stopped: `ResetStateByRuleUID` calls a method of a nil rule, a few lines above its test for nil, and panics. |
| `backend_srv_groups` | `SlotsAreReturned` | The worker's list, made from a stale update, has two requests of one subscriber. The first is cancelled as the list is handed out, its subscriber leaves both, and the second is started all the same: `setInProgress` makes a new entry, which nobody sets Done. |
| `live_initial` | `InitialFirst` | `hasAtLeastOnePacket` asks for the number of rows of the last packet. After a packet without rows the frame that the next panel brings is appended to the rows of all panels. |

Six more statements are in the modules without a run. TLC finds each violated when
it takes the place of the properties in the main configuration of its module:

* `StopStops` (`Ticker`): `Stop` does not block and is lost when the goroutine
  is between two selects. The goroutine stays, blocked on a channel nobody reads.
* `SkipMeansUnchanged` (`Scheduler`): a rule deleted and created again under its
  UID between two ticks has version 1 again, "no changes detected": the old one
  is evaluated until some other rule changes (`registry.go:205`). `FollowsDatabase`
  and `PausedIsCleaned` hold for keys that were never deleted.
* `FiringIsSent` (`StateManager`): `LastSentAt` is the time of the last message
  of any kind about the series. An alert that fires within `ResendDelay` of one
  is held back like a repetition, and never sent if it is over at the next tick.
* `PendingPeriodObserved` (`StateManager`): an error of a query changes the
  labels and thereby the key of the row. The row from before stays; a restart
  restores its Pending state with its old start, and the series fires at once.
* `NeverRefused` (`ReleasableLock`): two servers that both find no row both
  insert it. The second gets the error of the unique index, which is not the
  one that retries wait for, and returns it.
* `NobodyLoggedOut` (`SessionRotation`): any 401 of the check after a 401
  counts as the end of the session (`backend_srv.ts:403`), also that of a ping
  with a token that only needs to be rotated, as after a lost answer; the page
  is reloaded though the session lives.

Also seen while reading, with no run of its own:

* `serverlock.go:88` reads the clock for the argument of the UPDATE, before it
  waits for the database: a server that hesitates there is granted the lock with
  an old stamp, and the next grant may follow sooner by as much. `GrantsAreSpaced`
  says so.
* `registry.go:111` says that an update whose version is not later than the
  current one changes nothing; `ruleRoutine` compares fingerprints and
  takes an older one, too. `StatesMatchFingerprint` and `FollowsDatabase` hold
  all the same: the next evaluation brings back the newer one.
* `registry.go:89` speaks of making sure that there is no concurrent send; two
  senders that have both drained block side by side, and the older one
  may be received last.
* With a `ResendDelay` somewhat longer than the interval `KnownWhileFiring` does
  not hold: with 9 and 11 units, a message late by almost an interval, a
  repetition held back at the tick after it, and the next tick missed, the alert
  ends (TLC finds it with `MaxTime` = 54 and `MaxMissed` = 2). The code is safe by its
  numbers: only intervals of 25 to 29 s would do this, which the toggle
  `configurableSchedulerTick` alone allows (`setting_unified_alerting.go:318`).
* `state.go:412` has its comparison the wrong way round; the code is right.
* `state.go:48` says that `Resolved` is false after the transition;
  `manager.go:508` sets it for a stale series but does not clear it, so that a
  resolved alert may be sent as resolved twice.

(Paths in `pkg/services/ngalert/schedule` and `pkg/services/ngalert/state`.)

In the front end (`public/app/core/services`, `public/app/features/live`):

* *Request service.* More than `Limit` data requests can run at once: a waiting
  update has the number in progress of its moment. So says the model; the test
  `FetchQueueWorker.test.ts:64` looks at updates one at a time.
* *Session.* While three rotations are under way at once, and when the answers of
  two rotations were lost or overtaken by that of an older one, the browser has a
  token that the row does not know: a call that it makes then ends at the login
  form. The answer of an older rotation that comes last sets the cookies back,
  also after the newer token was seen: the browser then rotates again, with
  the previous token. With one tab instead of two `setLoggedOut` is never called.
* *Live: long packets.* A packet longer than the stream keeps is cut as it is
  appended, and `getValuesFromLastPacket` (`StreamingDataFrame.ts:430`) then slices
  from a negative index: of a packet of 3 rows, of which 2 are kept, it returns
  1, and a panel that appends it shows other rows than the stream has. The first
  packet of a frame is not cut at all (line 349). With `MaxPacket` = 3 and panels
  that append and show 2 rows TLC finds `InSync` violated after one packet.
* *Live: shared arrays.* A panel that replaces its rows takes the arrays of the
  message itself and cuts them to what it shows (line 396); another such panel,
  and the next who gets the message from the ReplaySubject, get the cut ones. The
  assumption that no packet is longer than such a panel shows excludes it.
* *Live: two timers.* When everybody leaves a channel, somebody comes back and
  leaves again within 250 ms, two timers of one channel run. The first closes
  it, the second "closes" it again and removes from the service whatever
  channel is open under that ID by then (`channel.ts:130`, `service.ts:141`):
  its listeners hear nothing more. With `MaxTimers` = 2, TLC finds
  `HeardIsOpen` violated.
* *Live: before the first connection.* A channel that is closed while it waits
  for the connection is initialised all the same (`service.ts:150`); its
  subscription belongs to nobody.
* *Live: the shutdown of a stream.* `get` clears the timer before anyone
  subscribes to what it returns (`LiveDataStream.ts:229`), and the end of a
  stream with subscribers sets one whose second shutdown removes a newer stream.
* *Live: data gaps.* `channel.ts:144` makes a first message of the schema only,
  "to avoid having data gaps", and line 148 sends the last packet that had a
  schema with its rows all the same: a listener who comes later gets an old
  row, and then the next new one.
* *Live: repeated rows.* The answer to a subscription after a reconnection
  may have the last row, which the stream then has twice.

## 7. What is only model-checked, and what is not modelled

Only model-checked:

* every liveness property: `CatchesUp`, `RunReturns`, `FollowsDatabase`,
  `PausedIsCleaned`, `DeletedIsCleaned`, `SendersReleased`,
  `ShutdownCompletes`, `DeadLockIsOvertaken`, `EveryRequestEnds`, `Released`
  (tlapm 1.4.5 does not support ENABLED, which fairness rests on).

Left out of the modules, beside what `PROJECT.json` notes of each component:

* *Scheduler*: metrics, tracing, folder titles, and the branch for intervals
  that are no multiple of the base interval, which the store's validation rejects.
* *State manager*: several series of one rule (they meet in the batch of a
  result, not in each other's state), `applyNoDataAndErrorToAllStates` and
  `doNotSaveNormalState`, images, annotations and reasons, and batches of 200
  rows.
* *Alerting, not in a module.* A stale state that was resolved before is
  resolved again (`manager.go:508`); the process may die after the write of a
  Normal state and before its alert is resolved (`compat.go:148`); rows survive
  when the cache is empty (`manager.go:231`, `instance_database.go:203`);
  alerts may fall between two reads of the router, or out of a sender's queue
  (`sender/router.go:300`, `sender/notifier.go:325`).
* *Request service*: what is sent and how an answer is parsed, alerts shown to
  the user, the inspector, searches.
* *Session*: how a session is made, expires, is revoked or deleted;
  `DeleteSessionCookie`; `TryRotateToken`, which nothing calls. The two lookups
  of a call that rotates are one, and so are the two statements of a lookup.
* *Live*: the time before the first connection, field filters, labels and time
  windows of a frame, presence, queries over the socket, the web worker. Arrays
  are values: that panels which replace share those of a message, and that the
  first packet of a frame is appended to where the channel keeps it as its
  header, is left out.
* *The old and the new routine of one key.* A routine that was stopped deletes
  the states of its key when it ends, also those that a new routine of
  a rule created again has just made (`schedule.go:572`). The code allows this
  and no comment denies it; the properties of `Scheduler` step around it.
* *Data races.* With the asynchronous persister, `setNextState` changes states
  that `FullSync` reads (`cache.go:361`); the synchronous persister, which is the
  default and the one modelled, runs in the routine itself.
* *Databases.* Row locks, unique indexes and atomic statements are assumed as the
  code uses them, and as MySQL and PostgreSQL have them. SQLite has no FOR UPDATE
  and restarts one of two conflicting transactions instead.

## 8. Plan

Done: the ticker and its abstract source, the scheduler with the store as its
environment, the state manager with the instance store, both server locks; then
the request service, the rotation of sessions and the streams of Grafana Live
in the browser; the promises of the request service and of the lock with
leases; the proofs of section 5. The order was by how much rests on
each.

Next, modules:

1. `RunStream`, the stream manager: submissions, watchers, run loops and
   shutdown. Properties: entries of the map belong to live routines; update calls
   return; streams without subscribers stop; changed settings are picked up;
   and, expected to be violated, at most one live stream per channel.
2. `AlertsRouter` with a sender's queue: the two reads of the choice beside a
   synchronisation; an alert dropped or lost is sent again by the state
   manager, whose promise (`KnownWhileFiring`) becomes an abstract module that
   both `StateManager` and the router are related to.
3. `AsyncPersister` composed with the cache of `StateManager`: rows follow the
   cache, also when it becomes empty, and at shutdown.
4. `RuleLifecycle`: two routines of one key over the operations of
   `StateManager`, for the overlap above.
5. `MultiOrgAlertmanager`, then the forked Alertmanagers.
6. The data key cache of secrets, plugin processes, and the front end's query
   runners (`PanelQueryRunner`, Explore's `query.ts`), whose queries go through
   `BackendSrv`.
7. `LiveStream` from before the first connection, with several channels.

Next, abstract specifications: the scheduler as "each rule in the database is
evaluated as it is, one evaluation at a time"; an alert's life as Alertmanager
sees it.

Next, proofs: the refinements above, and of `LiveStream` what holds of a panel
when packets are longer than it shows.

New runs keep the shape of those of section 3: one for safety and, with fairness
and without symmetry, one for liveness, each of a few minutes at most.
