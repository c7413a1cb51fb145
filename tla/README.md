# A verification project for zabbix_ddl_monitor

zabbix_ddl_monitor reads from Zabbix which leased lines hang on which edge routers, logs in
to the routers, pings every line from its router at the line's own interval, and sends the
results back to Zabbix. This directory holds TLA+ models of the program, the TLC
configurations that check them and the theorems TLAPS proves about them. `PROJECT.json` maps
every definition to the source lines it stands for.

## 1. Inventory

| Part | State | Operations | Talks to |
|---|---|---|---|
| Connection state machine (`connection/state_manager.go`, `pooled_connection.go`) | `state`, `healthStatus`, `consecutiveFailures`, `usingCount`, `rebuilding`, `markedForRebuild`, `driver` | `tryAcquireForTask`, `release`, `beginHealthCheck`/`recordHealthCheck`, `beginRebuild`/`completeRebuild`, `beginClose`/`completeClose`, `safeClose`, `forceClose` | called by the pool under `conn.mu`, or without it |
| Connection pool (`connection/pool_enhanced.go`) | a map of connections per protocol, statistics, event channel, `isShuttingDown` | `GetWithContext`, `Release`, `WarmUp`, the health, cleanup, rebuild, metrics and event tasks, `RebuildConnection*`, `Close` | scheduler (Get/Release), driver factory, rebuild manager |
| Rebuild manager (`connection/rebuild_manager.go`) | none of its own | `ShouldRebuild`, `EvaluateAndMark`, events | pool |
| Retry, backoff, circuit breaker (`connection/resilience.go`) | breaker state, failure and success counts | `Execute`, `allowRequest`, `recordResult` | pool (retrier only) |
| Drivers (`connection/scrapli_driver.go`, factories) | session, `closed`, context | `Connect`, `Execute`, `GetPrompt`, `Close` | router, by SSH |
| Asynchronous executor (`task/async_executor.go`, `task/executor.go`) | `taskChan`, `stopChan`, workers | `Start`, `Submit`, `worker`, `processTask`, `Stop` | scheduler (callback), driver |
| Router scheduler, interval queues (`manager/router_scheduler.go`, `interval_queue.go`) | lines, one queue per interval, `connSemaphore`, `stopChan` | `Start`, `executeTasksAsync`, `executeIndividualPing`, `OnLine*`, `Stop` | pool, executor, aggregator |
| Manager (`manager/manager.go`) | `routerLines`, `schedulers` | `fullSync`, `processLineEvent`, `ensureScheduler`, delayed removal, `Stop` | syncer (subscription), schedulers |
| Configuration syncer (`syncer/`) | `lines`, `version`, `subscribers` | `fetchLines` (template chain, macros), `sync`, `detectChanges`, `notifyAll`, `Subscribe`, `Close` | Zabbix API, manager |
| Aggregator, Zabbix sender (`task/aggregator.go`, `zabbixSenderHandler.go`) | event channel, buffer, handlers, sender connections | `Submit`, `worker`, `flush`, `Stop` | callbacks, Zabbix |
| Ping task (`task/ping.go`) | none | `BuildCommand`, `ParseOutput`, one parser per platform | executor, aggregator |
| Configuration builders, metrics, `main` | - | defaults, counters, wiring | all |

What is hard here is concurrency. The pool is shared by task workers, a health checker, a
cleanup task, rebuild workers, warm-up goroutines and `Close`, under two kinds of locks that
are dropped and taken again inside one operation (look up, then acquire; decide, then
evict; check, then rebuild). The scheduler's resources (a semaphore slot and a connection)
pass from the goroutine that takes them to one that gives them back. Configuration changes reach
the schedulers along a lossy, unordered path. `PROJECT.json` lists under "hazards" each
place where this may go wrong.

What makes each part correct:

* pool: one user per connection; no connection stranded in a busy state; an open session is
  always somewhere it will be found; what is in the map is usable; the map is bounded; one
  rebuild per connection, which ends; unhealthy connections leave;
* scheduler and executor: slots and connections neither lost nor returned twice; slots come
  back; `Stop` returns;
* manager and syncer: a router with lines has a running scheduler; one without lines loses it;
  the manager's lists converge to the configuration whatever notifications are lost; a
  configured line is probed at its interval;
* aggregator: every accepted result is handed to the handlers once; the buffer stays bounded;
  nothing is left behind by `Stop`, which returns;
* configuration: a line gets the settings of the nearest level that sets them;
* ping task: no loss is reported that was not measured, and a dead line is seen to be dead;
* driver: calls return though the router is silent; no open session is lost; one command at a time
  on a session;
* breaker: it opens at its limit, lets a bounded number of calls through while half-open, and closes when the router is
  back (which, as it is configured, it does not).

## 2. Modules

| Module | Models |
|---|---|
| `ConnState` | the states, the transition relation, the health after a run of failures |
| `ConnPool` | one driver pool with its goroutines |
| `MC_ConnPool` | symmetry and model values for TLC |
| `Lease` | what a pool promises its callers; `ConnPool` implements it |
| `ConnPoolProofs` | types, exclusive use, health, rebuild ownership, the refinement of `Lease` |
| `ConnPoolSessionProofs` | nil drivers, open drivers, connections that are not Idle, the size of the map |
| `ScrapliDriver` | one driver: its calls, the goroutines they leave behind, `Connect` and `Close` |
| `MC_ScrapliDriver` | model values for TLC |
| `ScrapliDriverProofs` | theorems about `ScrapliDriver` |
| `Resilience` | callers that retry through one circuit breaker |
| `MC_Resilience` | model values for TLC |
| `ResilienceProofs` | theorems about `Resilience` |
| `TaskPipeline` | queue workers, semaphore, executor and `Stop` of one router |
| `MC_TaskPipeline` | model values for TLC |
| `TaskPipelineProofs` | theorems about `TaskPipeline` |
| `LineConfig` | template chain, macro precedence, from Zabbix' answers to lines, as operators |
| `LineConfigProofs` | induction and recursion over the naturals, and theorems about `LineConfig` |
| `SchedulerQueues` | the lines and interval queues of one router scheduler, as operators on a record |
| `LineSync` | syncer, subscription, manager and the schedulers' line callbacks, composed with `LineConfig` and `SchedulerQueues` |
| `MC_LineSync` | which configurations Zabbix may have |
| `LineSyncProofs` | theorems about `LineSync` |
| `PingTask` | the parsers and the classification of errors, as operators |
| `Aggregator` | submission, workers, buffer, flushes, the Zabbix handler, `Stop`, composed with `PingTask` |
| `MC_Aggregator` | the exchanges with the routers |
| `AggregatorProofs` | theorems about `Aggregator` |

A definition headed "Fault" is a plausible mistake in the operation that follows it. None is
part of a specification; each serves to show that the properties can tell the mistake from
the code.

### ConnPool

The variables are the fields of the connections (one function or set over `Conn` per field),
the map `pool`, what `Close` and the cleanup have taken out of the map and not yet closed
(`toClose`, `evicted`), and for every goroutine a label `pc` and the connection `ref` it points to.
An action is one critical section, or one read or write outside any lock:

* a borrower (a task worker, the capability preload, or the health check) goes through
  `GetWithContext`, `Lookup`, `tryAcquireForTask`, or `StartCreate`, `Create`, `AddNew`, then
  `activateConnection`; it may execute (`acquireUse`, `BeginExecute`, `EndExecute`), check the health
  (`beginHealthCheck`, `defaultHealthCheck`, `recordHealthCheck`), and `Release`;
* a rebuild worker goes through the phases of `performCoreRebuild`: `canStartRebuild` (no
  lock), `beginRebuild`, `beginClose`, `DropDriver`, `RemoveOld`, `completeClose`,
  `createReplacementConnection`, `InsertNew`, `completeRebuild`;
* warm-up goroutines (`WarmCreate`, `WarmAdd`), the cleanup task (`shouldCleanupConnection`,
  `Evict`, then `forceClose` in a goroutine of its own), `Close` (`CloseBegin`, `CloseDrain`,
  `safeClose`).

Abstractions. Clock comparisons are free choices: any timeout may or may not have expired.
The driver is "none", "live", "closed" or "nil"; a probe of a live driver may fail. Whether a rebuild
strategy wants a connection rebuilt is a free choice. An identity of `Conn` is used for one
connection only, as in the code, where ids are unique: when they are used up, creation fails.
Statistics, traces, metrics and logging are left out. The pool's own
`sendEvent` recovers from a send on a closed channel and is left out;
`RebuildManager.sendEvent` does not, so a rebuild event after `Close` ends the process
(`crashed`), as does calling a nil driver outside a recover. `crashed` stands for these panics of the pool's own
code. A driver is seen from outside: a call on it returns, with an error if it was closed meanwhile. Inside, the `Close` of
an eviction (`forceClose`) that meets a borrower's first `Connect` may set `d.driver` to nil under it, and the worker panics
(`scrapli_driver.go:347`, without a recover up to `async_executor.go:174`). That is `ScrapliDriver`'s subject
(`HarmNeedsOverlap`). In `ConnPool` the borrower then goes on where the code has ended, which only adds behaviours, so that
what is shown of the pool's state holds of the code up to such a panic too.

### Lease

The abstract specification of the pool: `Grant` a connection that nobody has and that is in service,
`GiveBack`, `Retire` a connection (found Unhealthy, or Closing or Closed), and `ShutDown`, after which nothing
is promised, because `Close` releases what is in use. `ConnPool` maps a borrower's lease to
the connection it points to between `tryAcquireForTask` (or `AddNew`) and `Release`. A rebuild that
closes a connection in use retires it while it is lent, which `Lease` allows: that the
user finds out only by an error is the violation `pool_teardown` shows.

### ScrapliDriver

The variables are `d.closed`, `d.driver`, `d.channel` (named by the `network.Driver` object they belong to),
and for each call what its caller sees (`caller`) and where its code is (`body`), which may go on
after the caller has timed out. `GetPromptWithContext` runs `GetPrompt`, with its `Connect`, in the
goroutine; `Execute` connects itself and leaves only the sending to a goroutine. An action is one
critical section of `d.mu`, one unlocked access of `Connect` to a field, or one call of scrapligo.
`Connect` is cut at each of its unlocked reads and writes, as it holds the lock only for its first
look; `Close` at its sleep. The pool's promise (`Lease`) is the guard of `Begin`: one call at a time.
scrapligo (external) is assumed to give a driver a session when `Open` succeeds and to end it
when `Close` is called; a second `Open` may succeed and then replaces the session.

### Resilience

`allowRequest` (`Admit`, `Refuse`) and `recordResult` (`recordSuccess`, `recordFailure`) are the critical
sections of the breaker, `Operation` what runs between them; `Execute`, `Attempt`, `ShouldRetry`, `Delay`,
`Cancelled` the retrier's loop. `due` says whether `nextRetryTime` has passed. `up`
is the router. The failure rate is compared as a fraction of integers. `RequestBound` bounds the requests
counted while the breaker is closed, which the code counts without end. The pool's
`connectionRetryExecutor` is the retrier alone; no production code installs the breaker.

### TaskPipeline

`sem` counts the slots of `connSemaphore`, `leased` the connections tasks have, `taskChan`
the queued tasks. A queue worker goes from `executeTasksAsync` through one round of
`NextLine`, `AcquireSlot`, `GetConnection`, `Submit` per line; an executor worker through
`Receive`, `processTask`, `Callback`. `StopBegin`, `StopExecutor`, `StopEnd` are the three
waits of `RouterScheduler.Stop`. A `select` takes any of its ready cases. `GetConnection` stands for the pool, of
which `ConnPool` shows what it promises: an answer is a connection for this task alone, or an error.

### LineConfig, SchedulerQueues and LineSync

`LineConfig` takes a `Configuration` (the listed hosts, the macros at the global level, on templates and on hosts, and
the templates the API fails to return) to the lines: `build` walks the templates depth first, one `visit` after the
other (the list `todo` is the stack of the recursive calls still to make), and skips
one it has seen; `deepestFirst` is the sort, `mergeMacros` the writes in order, `parseDurationFromMacro` and
`routerOf` the defaults. `sort.Slice` is an insertion sort up to twelve elements, and so is `deepestFirst`; the proofs use only
that it returns the same nodes with falling depths. `Effective` is the reference it is checked against: the nearest
level that sets a macro wins, the host before its templates, these before their parents, all before the
global macros. Of the macros, the router's address and the interval are kept, which decide on which scheduler and
in which queue a line is. A host without a template would make `mergeMacros` index an empty
slice; that hosts have one is an assumption. A template that could be reached at two distances would keep the
depth of its first visit, which need not be the smaller one; `LevelsAssumption` says there is none, because Zabbix refuses to
link a template to a host twice, over whichever other templates. Only the settings need it: that the walk
ends, and misses nothing, is proved without.

`lines` is the syncer's map, `batch[k]` what the `notifyAll` goroutine of sync `k` has still to
send, `inbox` the events sent and not yet processed (the subscriber's channel and the manager's
`eventBuffer` are both first-in first-out, and are one queue here). `rl` is
`Manager.routerLines`, `cur` its `schedulers` map, in which a scheduler is the number of its
generation; `timers[r][g]` counts the pending removals that hold scheduler `g` of router `r`,
`running[r]` the generations nobody has stopped. `sch[r]` is the scheduler in the map: its
list of lines, its queues by interval, the queues that have a worker (`served`) and the pending destructions of
empty queues.

`Sync` is one `sync` that finds a difference, with `detectChanges`; `Notify` one send of `notifyAll`,
which holds the syncer's read lock meanwhile (`sending`), so that `Sync`, `Subscribe` and
`GetLines` wait for it. `FullSyncRead` and `FullSyncApply` are the two halves of `fullSync`, between
which the configuration may change; `FullSyncGiveUp` its five minutes without lines. `LineCreate`,
`LineUpdate`, `LineDelete` are the cases of `processLineEvent` with the callbacks they make,
`RemoveTimer` the delayed removal, `SchedulerStart` the goroutine that runs `Start`,
`QueueExpire` the delayed destruction of a queue.

Two details of Go matter. A scheduler gets the manager's slice and keeps it, so both
share a backing array: while `shared` holds, what the manager writes in place or shifts shows in the
scheduler's list of known lines (`SeeWrite`, `SeeShift`), until an `append` or a full sync moves
the manager's list to another array (`Unshare`). `room` is the capacity of that array, which
doubles (`Grown`, external: the runtime's growth of small slices). And a map is iterated in
any order: `Notify` and `Orders` choose.

Abstractions. There is no clock: a timer fires at any time after it was set. A router whose
connection settings are rejected is a member of `InvalidRouter`. The settings of a line
that no property tells apart (identifier, user, platform) are left out; the other fields of
the hash would only add updates that leave the interval alone, which `LineUpdate` allows for.
`zabbix` is the configuration of the last sync, `Zabbix` bounds what it may be, `MaxSyncs` the number of changes.

### PingTask and Aggregator

An exchange with a router is its platform, the error `Execute` returned if any, and of the output
what the parsers look for: whether there is a summary line, the loss it shows, whether requests timed out
before it. The parsers answer with a status and perhaps a loss. Searching a line for "0 percent" is
asking whether the percentage ends in 0, and that is how it is modelled. `Execute` is the executor's core with the
classification of errors; the scheduler asks for no retries.

A result is in `eventChan`, in the hands of a goroutine (`local`: the event a worker has received
or the batch it has swapped out), in `buffer`, or in `handled`. `Submit` is the non-blocking
send; `Receive` and `processEvent` a worker's turn; `TimerFlush` the buffer manager's; `FlushCheck`
the look at the buffer's length without the lock, `FlushSwap` the swap under it, `handleEvents` the
handlers' turn, in which `MetricOf` says which item a result becomes (the loss as a
percentage, or an error detail) and `SendMetrics` (external) lets Zabbix store any of them.
`LeaveOnStop`, `StopBegin`, `StopWait`, `StopEnd` are the shutdown.

A send on the closed channel panics in the callback, where `processTask` recovers it: the result is
refused. The handlers that log and count are left out, as are the statistics and the sender's health
monitor. `main` closes the Zabbix sender before it stops the aggregator; the sender's `Close` leaves it
usable, so the last batch is still sent.

## 3. Runs

| Run | Instance | Checks | Result |
|---|---|---|---|
| `pool_exclusive` | 2 connections, 2 borrowers, 1 rebuild worker | `TypeOK`, `ExclusiveUse`, `NoStrandedConnection`, `NilDriverAnnounced`, `PoolBound`, `UnhealthyIsFinal`, `KeepsPromise` | holds, 2.3 million states |
| `pool_rebuild` | 2 connections, 1 borrower, 2 rebuild workers, 1 warm-up, Degraded rebuilt too | `RebuildOwnership`, `NoLeakedDriver`, `PoolDriversLive` | holds, 6.0 million |
| `pool_liveness` | 2 connections, 1 borrower, 1 rebuild worker | `RebuildEnds`, `UnhealthyLeaves` | holds, 0.4 million |
| `pool_teardown` | as above | `NoTeardownInUse` | violated |
| `driver` | a health check, a command, an interactive command, 2 `Close`s | `HarmNeedsOverlap`, `OneUnlessTimedOut`, `LostForGood`, `CallsReturn`, `GoroutinesEnd` | holds, 128 thousand |
| `resilience` | 3 callers, 2 attempts, 3 successes needed and 2 calls admitted | `ClosedWithinLimit`, `TrialBounded`, `WedgedForGood`, `ExecuteReturns` | holds, 126 thousand |
| `breaker_recovery` | 2 callers, `DefaultCircuitBreakerConfig` | `Recovers` | violated |
| `tasks` | 2 queues, 2 workers, 2 slots, 2 lines | `TypeOK`, `ResourcesOwned`, `RoomForEveryTask`, `SlotsComeBack`, `StopReturns` | holds, 32 thousand |
| `lines` | 2 lines, 3 templates, 2 routers (one invalid), 2 intervals, 3 changes, channel of 1 | `TypeOK`, `EffectiveSettings`, `LinesHaveScheduler`, `EmptySchedulerTimed`, `ListedOnce`, `ManagerConverges` | holds, 222 thousand |
| `lines_monitored` | 2 lines, 2 routers, 2 intervals, 2 changes | `MonitoredAsConfigured` | violated |
| `aggregator` | 3 results, 2 workers, channel of 2, buffer of 2 | `TypeOK`, `HandledOnce`, `BufferBounded`, `StopDrains`, `NoFalseAlarm`, `DeadLineSeen`, `AcceptedHandled`, `StopReturns` | holds, 21 thousand |
| `ping_loss` | 2 results, one of an NX-OS router | `LossAsMeasured` | violated |

Bounds. `MaxConnections = 1` in the pool runs puts the pool at its limit from the second
request on; with one connection more than the limit a replacement, an evicted and a new
connection coexist. Two borrowers, or two rebuild workers, suffice for each pairwise race; every
property but `PoolBound` is about one connection and two goroutines. `PoolBound` is checked where two borrowers race to
create a connection beside a rebuild; that a replacement or a warm-up really exceeds the limit takes a third connection or a
warm-up goroutine, and is covered by the theorem. The unhealthy
threshold is 2 in `pool_rebuild`, so that Degraded is passed on the way, and 1 elsewhere.
The connections, borrowers, rebuild workers and warm-up goroutines are symmetric;
`pool_liveness` is checked without symmetry. In `tasks`
the semaphore is as large as the channel, the tightest case the assumption allows (the code has
2 and 30). In `driver` a health check may leave its
`Connect` behind for the two commands that follow, and the second `Close` meets the first in its sleep. In `resilience`
three callers are enough for two late results in a later phase of the breaker, `MinRequests` is above `MaxRequests`, as in
both configurations of the repository (30 and 5 by default, 5 and 3 in `basic_functionality_test.go`), and the failures that
open the breaker are fewer than the successes that would close it. `breaker_recovery` takes the default values themselves; its
`RequestBound` of 21 leaves room for the 20 failures that open the breaker. In `lines` a line moves between routers and intervals, one more line keeps its router from
being empty, three changes give two notifying goroutines beside a sync, and a channel of one place drops
events; both lines share a parent template, one has a second template that may override it or be unreadable, and a malformed interval
falls back to the default. In `aggregator` a channel of two places refuses the third result, a buffer of two is filled by
two workers at once, and the three results are a line that is down, one that is up and a failed check; the theorems cover every exchange.
Deadlock is not checked: a pool, a router or an aggregator that has been closed, or whose
process has ended, stops, and the changes of the configuration are bounded.

The four violated properties are what design documents and comments say:

* `NoTeardownInUse`: `HEALTH_REBUILD_DESIGN.md` (11.1) concludes that health check, task and
  rebuild do not race because `canStartRebuild` and `beginRebuild` make sure that the
  connection is idle. `canStartRebuild` looks without a lock, and `beginRebuild` does not look at
  Acquired, Executing or the use count. A borrower that acquires the connection in between has
  its driver closed and set to nil.
* `MonitoredAsConfigured`: `spec/line_monitoring/design-human.md` says that the manager passes a
  change on to the `RouterScheduler`, which updates itself. A queue made by a callback after
  `Start` has no worker; and a scheduler that exists is not told of what a full sync changes. In both
  cases a configured line is not probed, with nothing left to be done.
* `LossAsMeasured`: the comments of the parsers say that the loss is taken from the output. The test for
  "0.00% packet loss" comes first in `parseCiscoNxosOutput` and is met by "100.00% packet loss": a dead line behind
  an NX-OS router is reported without loss. The other parsers look for 100 first, but take 20, 40,
  60 and 80 percent for 0 in the same way (`NoFalseAlarm` and `DeadLineSeen` say what remains true).
* `Recovers`: the comments on `DefaultCircuitBreakerConfig` speak of a quick recovery and of five half-open calls that test
  it. `recordResult` closes the breaker after `MinRequests` (30) results, `allowRequest` admits calls only until
  `MaxRequests` (5) are counted, and nothing else leads out of half-open: the router is back, five calls succeed, and every
  later call is refused (`WedgedForGood` says that this is final, whatever the configuration). The pool is built without a
  breaker, so that nothing in production meets it.

Other statements of the repository that the code does not keep, visible in the models without a run of
their own: the map may exceed `MaxConnections` by one connection per rebuild worker and warm-up goroutine, which insert
without a count check (`PoolBound` is what holds); `RouterScheduler.Stop` returns while tasks are still queued, whose
slots and connections are lost (its comment says that it waits for all tasks); a worker of the aggregator
that sees `stopChan` leaves what is in `eventChan` (`docs/main_analysis.md` says the remaining results are processed);
the cleanup may delete and close a connection that a borrower has acquired since the decision
(`pool_enhanced.go:1552` says that a connection in use should not be cleaned up), which leaves neither a session
nor a busy connection behind (`NoLeakedDriver`, `NoStrandedConnection`).

Fairness. A rebuild that has begun is a goroutine whose every wait has a timeout: weak
fairness. The cleanup loop visits every id once per period, so a connection that must be
removed whenever it is looked at is eventually decided upon although other steps intervene:
strong fairness on that decision, weak fairness on the deletion that follows. `CloseDrain` waits only for background tasks that watch the cancelled context.
Executor workers and queue workers are goroutines; `Execute` has a timeout; blocked senders on a Go channel are served
in order and `select` chooses at random, whence strong fairness on taking a
slot and on seeing a closed `stopChan`. Nothing obliges a caller to get, release or close, a
ticker to tick, or `Stop` to be called. The properties allow for the end of the process.
In `LineSync` weak fairness on `Notify`, on the three cases of `processLineEvent`, on
`Subscribe` and on the two halves of the full sync: goroutines that run to their end, and a ticker of six
hours. Nothing obliges Zabbix to change or a removal timer to fire. In `Aggregator` weak
fairness on what the workers, the flushes, the timer (which is set again after each flush) and `Stop` do, and
strong fairness on leaving when `stopChan` is closed, as `select` chooses at random among ready
cases.

In `ScrapliDriver` weak fairness on what a call does by itself and on its caller: goroutines run, contexts expire, and
scrapligo's `Open` has a timeout. Nothing makes a router answer a command, so a spawned goroutine may hang as long as
scrapligo does. In `Resilience` weak fairness on the clock and the callers (tasks are scheduled for ever), and
strong fairness on `Attempt`: a caller that comes to the breaker again and again is not cancelled just before it every time.

`StopReturns` assumes that the router's context is cancelled. `Manager.Stop` does so first; the two
other callers of `Stop` (a router that lost its lines, in `fullSync` and in the delayed removal) do not, and there a queue
worker that waits for a slot kept by a dropped task waits for ever, with `m.mu` held by the caller.

## 4. Theorems

All hold for any number of connections and goroutines and any limits that satisfy the
`ASSUME`s (`ConnPoolConstants`, `ScrapliConstants`, `ResilienceConstants`, `TaskPipelineConstants`,
`LineConfigAssumption`, `LevelsAssumption`, `LineSyncAssumption`, `AggregatorConstants`), which TLC evaluates in the runs of the module. The
assumptions are finiteness, disjointness of the kinds of goroutines, positive limits, and for the
pipeline that the channel is at least as large as the semaphore (the code has ten places per worker
and three workers, against two slots).

| Theorem | States |
|---|---|
| `TypeCorrect` | `Spec => []TypeOK` of the pool, with use counts in `Nat` |
| `HeldExclusively` | `Spec => []ExclusiveUse` |
| `NoRecovery` | `Spec => UnhealthyIsFinal` |
| `OneRebuildPerConnection` | `Spec => []RebuildOwnership` |
| `ImplementsLease` | `Spec => KeepsPromise`: the pool implements `Lease` |
| `NilIsAnnounced` | `Spec => []NilDriverAnnounced` |
| `MapDriversLive` | `Spec => []PoolDriversLive` |
| `NoDriverLeaks` | `Spec => []NoLeakedDriver` |
| `NobodyStranded` | `Spec => []NoStrandedConnection` |
| `BoundedPool` | `Spec => []PoolBound` |
| `TypeCorrect` (driver, breaker) | `Spec => []TypeOK` |
| `OverlapNeedsTimeout` | `Spec => []OneUnlessTimedOut` |
| `SafeWithoutOverlap` | `Spec => []HarmNeedsOverlap` |
| `LostStaysLost` | `Spec => LostForGood` |
| `ClosedLimit` | `Spec => []ClosedWithinLimit` |
| `TrialsBounded` | `Spec => []TrialBounded`, for every configuration |
| `WedgeIsFinal` | `Spec => WedgedForGood`, for every configuration |
| `PipelineTypeCorrect` | `Spec => []TypeOK` of the pipeline |
| `SlotsAndConnectionsOwned` | `Spec => []ResourcesOwned` |
| `SubmitNeverFull` | `Spec => []RoomForEveryTask` |
| `RoutersWithLinesServed` | `Spec => []LinesHaveScheduler` |
| `IdleSchedulersTimed` | `Spec => []EmptySchedulerTimed` |
| `NoLineTwice` | `Spec => []ListedOnce` |
| `RepairedForGood` | `Spec => FullSyncRepairs`: a full sync repairs the lists, and only a change of the configuration unsettles them |
| `LinesAsConfigured` | `Spec => []EffectiveSettings` |
| `TypesKept` | `Spec => []TypeOK` of `LineSync` |
| `ChainComplete` | `buildTemplateChain` ends, and holds every template above the host once, whatever cycles the links have |
| `FetchedSettings` | for every configuration `fetchLines` gives the lines and settings `Effective` promises |
| `AggregatorTypeCorrect` | `Spec => []TypeOK` of the aggregator, with percentages in ping items |
| `ResultsHandledOnce` | `Spec => []HandledOnce` |
| `BufferIsBounded` | `Spec => []BufferBounded` |
| `StoppedDrained` | `Spec => []StopDrains` |
| `AlarmsAreReal` | `Spec => []NoFalseAlarm`, for every exchange |
| `DeadLinesAreSeen` | `Spec => []DeadLineSeen`, for every exchange |
| `OnlyRoundLossesWrong` | `Spec => []MeasuredUnlessRound`: how far the finding of `ping_loss` reaches |

*Pool.* `TypeOK` alone is not inductive, because `EndExecute` subtracts one from a use count.
`TypeInv` adds `ControlOK` (which labels a kind of goroutine can be at, and that it has a
connection there) and `UseCounted` (the use count of a connection is the number of
borrowers between `acquireUse` and `releaseUse`). `UseInv` adds that a held connection is not Idle
(`HeldNotIdle`), hence not available to a second borrower; that it has one holder
(`HeldByOne`); and that it was not Unhealthy when taken and is only made so by its own holder's check
(`HeldNotUnhealthy`), from which `NoRecovery` follows since only a holder records a
successful check. All three are stated up to the moment `Close` drains the map, where the code
gives them up. `RebuildOwnership` is inductive given `TypeInv`.
`ImplementsLease` splits the steps: those that leave leases and service alone (`BorrowerQuiet`, `RebuilderQuiet`,
`OthersQuiet`) are stutters; an acquisition is a `Grant` because of `HeldNotIdle`; a health check that finds
the connection Unhealthy, and `beginClose`, are a `Retire`; `CloseDrain` is the `ShutDown`, after which every step is
allowed.

*Sessions.* Everything rests on `MakerInv`: a connection under construction (`add`, `warmadd`, `insert`) is known to its
maker only, has an open driver and is Idle, so that inserting it or throwing it away disturbs nobody. `TearInv` says that
what a rebuild has taken past phase 3.1 is Closing or Closed for good and that only such a connection has a nil driver, which
gives `NilIsAnnounced`: a nil driver is met only where the state says so, and the other panic needs a closed event channel. `SessionInv` adds that the map, `evicted` and `toClose` are disjoint, so that closing a driver never
touches the map, and that an open driver is in one of them or with its maker. For `NobodyStranded`, `HolderInv` ties the state of a held
connection to its holder's label, or to a rebuild that has begun to close it; it is stated of the connections in the map only and
therefore survives `Close`, which releases the others on their users' behalf.

*Bound.* `PoolBound` is not inductive: a worker may insert its replacement into a full map, after the cleanup has evicted
the old connection and a borrower has taken the place. The invariant `SlotBound` counts the map together with the connections a
worker can still replace (`Pending`: one per worker), and `PlaceBound` the map together with those a worker has closed and can
still replace, against the connections closed so far (`Shut`). A borrower's insertion keeps both by the second count check; a
rebuild's because it gives up its own place: its old connection has left the map (`ReplacedOut`), no other worker owns it
(`RebuildOwnership`), and one that is about to begin will be refused, the connection being Closed (`TearInv`). `beginClose` takes
a place for a connection that was not closed before (`ClosedOnce`).

*Driver.* `OneUnlessTimedOut` follows from what a caller and its body may be at together (a call that
sends has a caller that waits or has timed out) and from one call at a time. `HarmNeedsOverlap`
needs where `Connect` may be without an overlap: one call at most, with `d.driver` the object it opened, and no `Close`
past its beginning.

*Breaker.* `ClosedLimit` is inductive: the failure that reaches the limit is the one that opens. `TrialBounded` is inductive
because it counts the results together with the calls under way: an admission finds fewer than `MaxRequests` results, and at most
all the other callers under way; a result takes its call from one count to the other; `InFlightKept` and `RecordLeaves` say what a step does to
the calls under way. `WedgeIsFinal` needs no invariant: without a call under way no result comes, and no call is admitted. Neither
assumes anything of the limits but that they are positive.

*Pipeline.* The invariant is `TypeOK`, `ControlOK` and `Owned`: the slots taken are those of the queue workers
between `AcquireSlot` and `Submit`, of the queued tasks and of the busy executor
workers. `CountMoves` says what moving one goroutine does to such a count. `RoomForEveryTask`
follows: a submitting worker holds one of the slots itself.

*Lines.* The invariant `IInv` is the types of the manager's and the syncer's variables, `MapRuns` (the
scheduler in the map has not been stopped), `MapHasLines` (a router with lines has one in the map) and
`EmptySchedulerTimed`. The last is needed for the first: a removal timer stops the generation it
holds and takes out of the map whichever is there, and only because the lists are looked at again,
and because every scheduler without lines has its own timer, do the two agree.

`TypesKept` adds two invariants. `Bounded` is about the syncer, the channel and the snapshot. `Managed` says that a list
fits its array, that what runs was handed out, and that every scheduler is well formed; the last is not inductive by
itself: when the manager deletes a line, the shift moves entries of the array that the scheduler reads as its own list, and
what it then reads past the manager's length must still be a line. `Fits` is the strengthening: while the array is shared, the
scheduler's list begins with the lines of the manager's, is at least as long, and belongs to the scheduler in the map. It was
model-checked on the states of `lines` and `lines_monitored` before it was proved. A creation keeps it in two ways (`CreatedFits`): the
line shows in the scheduler's list and is taken for a duplicate there, or both lists end at the same place and both are
appended to. `CapacityEnough` is an induction over the length.

`NoLineTwice` needs the types only: a list of a full sync has one entry per key of the map, a creation looks first, an update
keeps the line, a deletion removes one entry. `RepairedForGood` is the safety part of `ManagerConverges`: `Settled` (the lists match, no event
is on its way and no snapshot differs from the map) is kept by every step but `Sync`, and the end of a full sync
whose snapshot is current leads to matching lists from any state. `Settled` and `FullSyncRepairs` are in `LineSyncProofs`.

*Configuration.* The definitions of `LineConfig` are recursive functions, and what such a function computes takes an induction.
The library states induction for an operator, which the provers cannot instantiate; `LineConfigProofs` therefore derives what it needs
for sets and functions, from the least element of a set of naturals (`WFMin`): `NatSetInduction`, `PrimitiveRecursion`
(a function defined by recursion exists), `TailRecursion` (for `build`, whose argument gets no smaller in any obvious
sense) and `FiniteRecursion`. The walk ends because a visit either shortens `todo` or puts a template on the
chain that was not there, and there are finitely many. Its invariant `WalkInv` says that the chain and `todo` hold nodes at a depth where
their template is above the host, that no template is twice on the chain, and that the parents of a
chain node are on the chain or still to visit; at the end nothing is left to visit, hence `ChainComplete`. A reached template
is at most as far as there are templates, so its one distance (`LevelsAssumption`) is its depth. The sort returns the same nodes with falling
depths (`DeepestFirstSorts`), the merge keeps the last value that is set (`MergeKeepsLast`), and the last layer that sets a macro
is the host, or a template of the least depth among those that set it, or the global one: the value of `Effective`.
`LinesAsConfigured` follows because every `Sync` stores what `fetchLines` returned and no other step touches it.

*Aggregator.* Every action but `Submit` moves results from the front of one place to the end of
another, and `MovesKeepOnce` says that such a move keeps every result at one position. `Inv` adds to
`TypeOK` what a goroutine may have in its hands at each label (`HandsOK`) and in which order `Stop` goes
(`StopOrder`: once it flushes, the others have left). `BufferBounded` needs that a worker that
fills the buffer is counted as flushing from that very step, and that the unlocked look does
not send it away while the buffer is full. What Zabbix has stored is always the item of some result (`SentInv`), so that
`AlarmsAreReal` and `DeadLinesAreSeen` come down to a case analysis of the parsers.

`OnlyRoundLossesWrong` is the same case analysis: the percentage stored is the measured one, unless it is a multiple of ten (Comware
reads the number itself) or a VRP router has listed a request that timed out.

Every invariant and every action property the passing runs check is proved. Only model-checked are the liveness properties
(`RebuildEnds`, `UnhealthyLeaves`, `CallsReturn`, `GoroutinesEnd`, `ExecuteReturns`, `SlotsComeBack`, both `StopReturns`,
`AcceptedHandled`, `ManagerConverges`): fairness and `ENABLED` are out of the prover's reach. The four runs that
expect a violation are TLC's alone.

## 5. Not modelled

The metrics, configuration builders, logging and formatting carry no control. The text of the commands and the
round trip times are left out of `PingTask`, and `parseGenericOutput`, which no platform reaches. Unused code
(`replaceConnection`, `ShutdownGraceful`, `SubmitWithTimeout`, `OnLineReset`, the load balancers, the driver's `SendConfig`) is
left out, as is `SSHDriver`: the ping task exists for the Scrapli protocol only. Of the syncer and
the manager, the computation of the hash, the monitoring of status,
`Subscription.Close` and `Manager.Stop`'s order of closing are left out; what `Manager.Stop` does to one
router is in `TaskPipeline`. `JSONFileHandler`, which `main` does not install, would block on itself with a batch of two (it locks
inside the loop and defers the unlock).

## 6. Plan

Done: all modules of section 2 with their runs, and the theorems of section 4. Next, in this order:

1. `Lease` in place of `GetConnection` in `TaskPipeline`, so that what the pool promises is composed with
   what the pipeline assumes.
