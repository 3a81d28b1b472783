# Verification of the Distributed Queue Engine

TLA+ models of the queue engine in `src/`, their model checking with TLC, and
proofs about them with TLAPS. Paths below are relative to the directory that
holds `src/` and `tla/`; the engine's own sources are in `src/src/`.

- [1. The system](#1-the-system): components, state, operations, hazards
- [2. The modules](#2-the-modules): which module stands for which code
- [3. What is checked](#3-what-is-checked): runs, bounds, fairness
- [4. What is proved](#4-what-is-proved)
- [5. Where code and documents disagree](#5-where-code-and-documents-disagree)
- [6. What is not modelled](#6-what-is-not-modelled)
- [7. Plan](#7-plan)

## 1. The system

Producers add jobs to named queues in Redis; worker processes poll for them and
run a processor; other processes recover jobs whose worker died, prune the
history, fire cron jobs and serve an API. No process talks to another one
except through Redis: Lua scripts (atomic), single commands, pipelines (not
atomic) and published messages (delivered to whoever listens at that moment).

| Component | State it keeps | Operations | Interacts through |
|---|---|---|---|
| Lua scripts and keys (`lua/*.lua`, `keys.ts`) | per queue: a hash per job; sorted sets waiting, delayed, completed, failed, cancelled, limiter; hash active (id to last heartbeat); a key per idempotency key | enqueue, moveToActive, complete, fail, heartbeat, cleanStalled, cancel, cleanup, updateProgress | called by everybody below |
| Producer API (`Queue.ts`, `types.ts`) | none | add, getJob, the read-only queries | enqueue, hgetall |
| Worker (`Worker.ts`) | running flag, activeJobsCount, activeJobs, cancelledJobs, timers | start, poll, processJob, sendHeartbeats, stop with drain, status | moveToActive, hgetall, complete, fail, heartbeat, the channel of cancel messages |
| Watchdog (`Queue.ts:251-283`) | a timer | checkStalled | cleanStalled |
| Cleanup (`Queue.ts:182-246`) | a timer | runCleanup | cleanup |
| Cancellation (`Queue.ts:161-180`) | none | cancel | cancel, a published message |
| Queue administration (`Queue.ts:285-380`) | the pause key | retry, retryAll, clearCompleted, pause, resume | reads followed by pipelines |
| Scheduler (`Scheduler.ts`, `Queue.ts:418-457`) | hash cron, a lock per job name | tick, addRepeatable, removeRepeatable | hgetall, SET NX PX, add, hset, hdel |
| Shutdown and wiring (`shutdown.ts`, `server.ts`, `redis.ts`) | "registered", a connection with a retry count | start of workers, timers, handlers; reconnection; per signal: stop workers, timers, scheduler, server, connections | Worker.stop, the connection |
| Worker registry (`Worker.ts:334-378`) | status hashes with a TTL | publish, delete; read by the API | pipelines, SCAN |
| Latency statistics (`Worker.ts:280-288`, `Queue.ts:129-158`) | the latency set | a sample per completed job, a trim, percentiles | pipelines |
| HTTP API (`api.ts`) | none; the routes, in order | one handler per route | Queue, SCAN |
| Dashboard (`dashboard/src/App.tsx`) | selected queue and filter, what it shows, requests in flight | polls, selections, buttons | the API |

### What makes each part correct

- **Scripts.** No script checks which worker calls it, and each one is handed a
  time that its caller read before the call. Whatever the order of calls, a job
  must stay in a set that leads back to a worker, must leave *delayed* when it is
  promoted, and must not be given up before its attempts are used; the limiter
  must not overrun its limit when clocks disagree.
- **Workers and watchdog.** A job whose worker dies anywhere between
  `moveToActive` and `complete` must be taken up again; a job whose worker lives,
  drains or waits must not be. Both depend on the ages of heartbeats, and the
  heartbeat timer stops while `stop()` still waits for the job.
- **Cancellation.** It races claim, run, completion and retry.
- **Idempotent add.** What `add` returns is decided by a second round trip, after
  the original job may have been completed, cancelled or deleted.
- **Administration.** retry, retryAll and clearCompleted read and then write with
  pipelines, between whose commands anybody may run.
- **Scheduler.** A lock that nobody releases must outlive the span from the read
  of the definitions to the write of the next time, or an occurrence fires twice;
  a crash at any await must not silence a job.

- **Poll loop.** A poll reads `running` once and the pause key before each claim,
  and its await may last longer than a `stop()`, a `start()` or a `pauseQueue()`:
  what it may still start is bounded, and the status hash must exist exactly as
  long as the worker runs.
- **Process.** Two signals start two shutdowns, each calls `stop()` of every
  worker; a clean exit must not abandon a job that ran, and every shutdown must
  end although jobs, clients and Redis may not answer.
- **Console.** Answers overtake each other and arrive after the operator selected
  something else; the page must end by showing what is true, and a click must not
  reach another queue's job.

`PROJECT.json` ("hazards") lists each of these at its line with the properties
that cover it.

## 2. The modules

```
RedisData              sorted sets and hashes as functions
  QueueStore           the keys and scripts; callers unconstrained
    QueueStoreProofs     theorems about QueueStore
    WorkerPool           processes with timers, pcs, crashes; clock
      PoolRequirements     what the pool must guarantee; refinement mapping
        WorkerPoolProofs     theorems about the pool (with QueueStoreProofs)
                             and its refinement of JobContract
        DocumentedClaims     sentences of the repository the code does not keep
    QueueAdmin           operators whose pipelines are interleaved
      IdempotentAdd        producers that wait for enqueue and getJob
        CallerProofs         theorems about both (with QueueStoreProofs)
  LatencyStats         the latency set and the percentiles
    LatencyProofs        theorems about them
JobContract            the abstract promise about a job (no Redis, no clock)
CronScheduler          ticks, locks and definitions
  CronProofs             theorems about it
WorkerLoop             one worker over several queues: polls, pause, start, stop, registry
  WorkerLoopProofs       theorems about it
ProcessLife            one process: main, outages, signals, exit
  ProcessProofs          theorems about it
QueueApi               the router and what its handlers change
  Dashboard            an open page, its operator and the answers on their way
    DashboardProofs      theorems about the page and the router
MCPool MCAdmin MCDashboard    constants for TLC
```

**RedisData** models Redis, which is not in the repository, from the commands
the scripts send. A sorted set is a function from members to scores, a missing key
the empty function. Redis runs a script without interleaving, so one script call
is one action.

**QueueStore** has one action per outcome of each script. Some correspondences:

| Definition | Code |
|---|---|
| `Enqueue` | enqueue.lua, with the priority map of `Queue.add` and the default attempts of `createJob` |
| `MoveToActive` / `NoneReady` | moveToActive.lua: limiter window, promotion of due jobs and the claim in one step |
| `Complete`, `FailRetry`, `FailFinal`, `Heartbeat` | complete.lua, fail.lua, heartbeat.lua, callable for every id ever handed out |
| `CleanStalled` | cleanStalled.lua: active entries older than the timeout go to waiting, the hash keeps its status |
| `Cancel`, `PruneCompleted/Failed/Cancelled` | cancel.lua (no check of its caller's id: `StrayId` are ids that never existed) and cleanup.lua |
| `HDelOrphan` | the `hdel` of `Worker.poll` |

A job hash is the record of the fields the scripts decide by; `data` says whether
the serialised job is there, because `HSET` on a deleted hash creates one that has
a status and nothing else. `issued` and `handed` are history variables.

**WorkerPool** is the system of processes. A worker's `pc` names the await it is
at; between two awaits JavaScript does not interleave. A worker has one job at a
time, because a successful poll returns without scheduling another one until the
job is over (`Worker.ts:222-226`). `Stop`, `Exit`, `Crash`, `Restart` model
`Worker.stop`, the drain, a kill, and `restart: always` of `docker-compose.yml`.
The clock is shared here (clocks that disagree are covered by QueueStore, and
the proof that every step of the pool is one of QueueStore, section 4). `Timely = TRUE` says that due timers fire, a worker that has a
reply goes on, and a timed out drain ends, before the clock advances; `Timely =
FALSE` says nothing about time.

**JobContract** is the abstract specification: one runner per job, attempts are
counted, only a job whose runner is gone is run again, and done stays done.
`PoolRequirements` maps the pool to it with `INSTANCE ... WITH`: the phase of a
job comes from its status and the sets it is in, the holder from the workers'
`pc`. Its property `KeepsContract` is the refinement.

**QueueAdmin** models the read-then-pipeline operations command by command, and
**IdempotentAdd** `Queue.add` as its callers see it, with the operators and all
scripts, cleanup included, between its two round trips. What `add` would return is
read off the hash (`Returned`); `cleaned` remembers the jobs that were over when a
cleanup or a clearCompleted deleted their hash. **CronScheduler** has every await of
`Scheduler.tick`. Ticks and not replicas are its processes, since
`setInterval` starts a tick while an earlier one waits.

**WorkerLoop** complements WorkerPool: there one queue and everything that can
happen to a job, here one Worker object with several queues and everything that
can happen to its loop. A chain is one sequence of polls, each started by the one
before; `start()` begins one, and `stop()` ends none that is under way. Jobs are
only counted. The rotation is the code's: `currentQueueIndex` is read at each pass
of the loop, set by a claim and moved on by a poll that found nothing. The status
hash (`listed`) is published by the interval, by every completed job and by
`start()`, and deleted by `stop()`; `timer` and `leaked` keep apart the interval
that `workerStatusTimer` refers to and those it no longer does. A
publication may fail, and so may the deletion: the code ignores both
(`Worker.ts:126, 292, 337, 339`). `missed` counts the intervals since the hash was
written, and the hash expires when they are as many as its TTL has (`StatusLife`; 45 s
and 15 s in the code) although an interval runs, or when none runs.

**ProcessLife** follows one process through `main()`, an outage with the limited
`retryStrategy`, and `shutdown()`, which SIGTERM and SIGINT each start once. A
poll is reduced to "claiming" and "busy"; a timeout may fire at any moment. A job
ends when Redis takes `complete` or `fail` (`JobEnds`). When it takes neither, since
the connection has ended or it answers with errors, the rejection of `fail` in the
catch of `processJob` (`Worker.ts:305`) is handled by nobody (`Worker.ts:222`), and
Node 20 ends the process with code 1 (`ReportFails`).

**QueueApi** has the routes in the order of their registration and a handler for
each; the first route that fits answers. **Dashboard** is a page as a client of
it: the requests in flight with what their closures captured, in three groups
(refreshes, reads of the pause key, clicks), answered and applied in any order.
Abstractions: the jobs of a queue are a version number that every change raises
(up to `MaxVersion`, above which changes are not told apart), the pause key is the
number of its changes, and a read sees some version between its request and its
answer.

**LatencyStats** has the two commands of the latency pipeline as separate steps,
because a pipeline is not atomic and can lose its second command.

## 3. What is checked

### Runs that pass

| Run | Question | Properties |
|---|---|---|
| `store_race` | All scripts in every order, late and repeated, with clocks that disagree, jobs of one and of two attempts, a rate limit, cancellation and ids that never existed: is a job lost, promoted twice, started after it was cancelled, or the limit overrun? | `StoreTypeOK` `NoJobLost` `DelayedIsolated` `LimiterBound` `CancelPreventsStart` |
| `admin_race` | Do interleaved retry, retryAll and clearCompleted pipelines lose a job or spoil its attempts, and what does a duplicate `add` return that waits for `getJob` meanwhile? | `AdminTypeOK` `RetryKeepsJobs` `NoEarlyFailure` `AnswersTheOriginal` |
| `pool_timely` | Two workers, two jobs, crashes, drains, restarts, retries, cleanup: does a timely pool keep the contract, and is every job settled? | `PoolTypeOK` `OnePlace` `LiveJobsKept` `KeepsContract` `EventuallySettled` |
| `pool_cancel` | With cancellation at every step, cleanup, and errors after `complete`: do two workers ever run one job? | `OneRunner` |
| `cron_timely` | Do overlapping ticks fire each occurrence once, and every due definition eventually? | `CronTypeOK` `FiredOnce` `DueIsFired` |
| `worker_loop` | A worker over two queues, stopped and started at any await, with pauses, orphans, a rate limit, failing commands and failing publications: what still starts after a pause or a stop, is a running worker listed and a stopped one forgotten, is every queue served? | `LoopTypeOK` `PauseHolds` `StopHolds` `RunningIsListed` `StoppedIsForgotten` `QueuesAreServed` |
| `process_life` | Two workers, both signals, one outage, reports that Redis refuses: does a clean exit abandon a job, does every shutdown end, does every worker serve again after the outage? | `ProcessTypeOK` `CleanExit` `ShutdownEnds` `ServesAfterOutage` |
| `console` | The page against the API over two queues: do clicks reach the right jobs, and does the page end by showing what is true? | `DashTypeOK` `NoStrayJobs` `ViewConverges` |

Notes on what the properties mean:

- `OnePlace`, `LiveJobsKept` and `KeepsContract` are stated for a timely system
  without cancellation and without errors after `complete`, since outside those
  circumstances the code does not keep them: `complete` does not check who holds
  the job, and the catch of `processJob` fails a job that was already completed.
  `OneRunner` holds with both.
- `FiredOnce` is stated for ticks that take at most half the life of the lock
  from `hgetall` to `hset`. The lock alone does not give it: a second tick that
  read the old definition finds the first one's lock expired and fires again. The
  run has `MaxSpan = 1` and a lock of 2; an occurrence may fire once more for each
  tick that died between its `add` and its `hset`.
- `AnswersTheOriginal` excepts an original that was over and whose hash a cleanup or
  a clearCompleted deleted while its key lived on: `add` then returns a job nobody
  stored (section 5). It says that nothing else does that: no run, recovery, late
  report, cancellation, retry or expiry of the key between `enqueue` and `getJob`.
- `PauseHolds` and `StopHolds` count per poll chain: each chain that was under way
  may take one more job, and there are as many chains as calls of `start()`. In TLC
  the bound is put to the test with one chain; with `MaxAdds = 2` two chains cannot
  exceed it. `StopIsKept` and `PauseIsKept` (section 4) are about any number.
- `RunningIsListed` does not say that a running worker is always listed: it is not
  when as many publications in a row failed or were missed as fit in the TTL, or when
  the first one of its `start()` failed. It says that nothing else takes it off the
  list, in whatever order `start()` and `stop()` overlap, and that one publication
  that succeeds puts it back.
- `StoppedIsForgotten` excepts two intervals the code cannot clear: one that
  `start()` creates after `stop()` was called during its await (until `stop()` is
  called again), and one that a second `start()` replaced. It is written as "again
  and again unlisted, unless ..."; a stopped worker stays unlisted for good because
  its chains end, and with them the publications.
- `QueuesAreServed` speaks of producers that pause: a queue that gets jobs without
  end keeps `currentQueueIndex` (`Worker.ts:214`) and starves the ones after it.
- `CleanExit` is about jobs that ran when the first signal came: Redis has taken the
  result, or the failure, of each before the process exits with 0. A job whose claim
  was under way is not counted by the drain, and is left to the watchdog.
- `ServesAfterOutage` excepts processes whose retries are over, which poll in vain
  (section 5), and those that ended because a job could not be reported.
- `NoStrayJobs` is about the page's clicks. `cancel` takes any id, so other clients
  can list one that was never added; here they name only ids that are listed.
- `ViewConverges` is about a page that got its list of queues; nothing asks for the
  list again. Other clients change jobs but not the pause key.

### Runs that show a disagreement

`claim_cancel_delayed`, `claim_backoff`, `claim_cron_removed` and
`claim_clear_route`; section 5.

### Bounds

| Bound | Value | Why it is enough |
|---|---|---|
| jobs | 2, and an id that is no job's, in `store_race`; 2 in `pool_timely`; 1 in `pool_cancel` and `admin_race` | scripts treat jobs alike except for their order in a set, which two show; the one-job runs ask about several actors at one job |
| `Worker` | 2 | the old and the new holder of a job |
| `Time`, `MaxTime` | two times that are further apart than every timeout in the script runs; 13 to 15 from `Epoch` 11 in the pool | long enough for claim, crash or drain, stall, recovery and a second run; `Epoch` exceeds the priority scores 1, 5 and 10, as milliseconds do |
| `StallTimeout`, `HeartbeatInterval`, `DrainTimeout` | 2, 1, 1 in the timely runs | the engine's proportion: 15 s heartbeat and 30 s drain in a 60 s stall timeout (`Worker.ts:22,109`, `server.ts:69`): `HeartbeatInterval + DrainTimeout <= StallTimeout`, here with equality |
| `MaxFails` | 2 or 3, 1 in `store_race` | with `maxAttempts` 2 the retry and the final failure, and in `pool_timely` room beyond it; in `store_race` a job fails once, for good when it has one attempt |
| `MaxDeaths` | 1 | one crash or stop, of a worker that may then restart |
| `Recoverable` | TRUE for liveness | a worker dies only while the clock has room for the watchdog to find its job (`RoomFor`); FALSE elsewhere |
| `Add` | `clock + delay <= MaxTime` | a delayed job is due before the clock stops |
| `MaxAborts`, `Slot` | 1, 2 | one tick dies at any await; two ticks in flight. `Abort` requires the lock to expire before the clock stops |
| `MaxResets`, `Admin` | 1, 2 | two operators at one job: both may have passed the guard of the bound, so a second reset meets the first one's consequences |
| `Cleanup` | none in `store_race`; by age in `admin_race` and `pool_cancel`; by count in `pool_timely`, which has two jobs | scripts, operators and idempotency keys meet cleanup in `admin_race`, where the hashes it deletes matter; `store_race` has neither operators nor keys; the theorems about scripts are for any options |
| `Producer` | 1 in `admin_race` | producers do not read each other's state; the original may be anybody's |
| `Retention` | beyond the clock in the pool runs | the 24 h trim of complete.lua happens in `store_race`, where it is 1 and another job completes |
| `NQueues`, `MaxStarts`, `Concurrency` | 2, 2, 1 | two queues to rotate over, two chains; a chain runs one job, so more concurrency lets both chains run, and less than two lets one wait for the other |
| `MaxAdds`, `MaxQueued`, `MaxErrors` of WorkerLoop | 2, 1, 1 | a job for each chain and each queue; one command fails at any await, or one publication or deletion |
| `StatusLife` | 1 | the hash does not survive one missed publication, so that one failure shows what three do in the code; `RunningStaysListed` is about any number |
| `MaxClicks`, `NReads`, `NAsks` | 2, 2, 2 | two clicks or selections whose answers overtake each other and a poll; refreshes that answers start are not bounded by `NReads` |
| `MaxRetries`, `MaxOutages`, `MaxSignals` | 2, 1, 2 | reconnection succeeds or gives up; two signals, the same or both |

The boundary `HeartbeatInterval + DrainTimeout = StallTimeout` is reached in
`pool_cancel` (a watchdog that recovers at the timeout instead of after it breaks
`OneRunner`). In `pool_timely` the bound on recoverable deaths leaves only early
drains, so there `LiveJobsKept` tests the heartbeats of jobs that run long.

Workers (`AnyWorker`) and operators (`AnyAdmin`) are symmetric in the runs that
say so; no liveness property is checked with symmetry. `CHECK_DEADLOCK FALSE` is
set because a system whose jobs are over, or whose clock has reached its bound,
really has nothing to do.

### Fairness

`FairPoolSpec`: weak fairness of each worker's own steps (an await is answered and
a processor ends), of its heartbeat timer, of `Exit` (the drain has a timeout), of
`Restart` (`restart: always`), of the watchdog's interval and of the clock. Nothing
is assumed of crashes, stops, cancellation, cleanup or the producers, and there is
no strong fairness. `FairCronSpec`: each slot's timer fires, an await is answered,
the clock advances; registrations, removals and aborts are not fair.
`LoopFairness`: the steps of each chain (a timer fires, Redis answers, a processor
ends), the await of `start()`, the passing of a limiter window and the expiry of
the status hash; nothing of errors, pauses, stops, starts or producers.
`DashFairness`: both intervals, and the oldest request of each group is answered
and applied, so none waits for ever. `ProcessFairness`: reconnection attempts,
polls, and the steps of each shutdown; nothing makes a processor end, a report be
taken, or a signal come. All fairness is weak.

`EventuallySettled` says that every stored job ends completed or failed, queued
nowhere and run by nobody, for ever after. It needs the watchdog: a poll that waits
for `moveToActive` while `stop()` is called still claims a job, which the drain
does not count (`Worker.ts:135`), so a clean exit can leave a job in *active*.

## 4. What is proved

TLAPS checks these for every value of the constants that satisfies the
assumptions named in each module.

**QueueStoreProofs** (`IdAssumption`, `NumberAssumption`: finite sets of natural
numbers as ids, natural times and options), for callers that call any script for
any id at any time:

| Theorem | Statement | Argument |
|---|---|---|
| `TypeCorrectness` | `StoreSpec => []StoreTypeOK` | inductive; one lemma per group of callers |
| `NoJobIsLost` | `StoreSpec => []NoJobLost` | inductive with the type invariant: each script moves an id between two keys in one step, and writes the status that names the second |
| `DelayedIsIsolated` | `StoreSpec => []DelayedIsolated` | needs `IsolationInv`: an id in a set of runnable jobs was issued or is stray (`OnlyIssuedRun`), so `enqueue` cannot put a job back into *delayed*, and an active job was handed out (`OnlyHandedActive`), so recovery brings back handed jobs only |
| `NoJobFailsEarly` | `StoreSpec => []NoEarlyFailure` | no other script writes `FAILED`, and the only one that resets attempts is enqueue, of a new id |
| `LimiterIsBounded` | `StoreSpec => []LimiterBound` | the window is counted and filled in one script, so a script that adds a job has just counted fewer than the limit; cardinalities by `FiniteSetTheorems` |
| `CancelledNeverStarts` | `StoreSpec => CancelPreventsStart` | an action property: a job that was never handed out is not active, so no script but enqueue puts it into waiting |

**WorkerPoolProofs** (also `PoolAssumption`, `ClockAssumption`: the priority scores
lie before `Epoch`, `Epoch <= MaxTime`, and `Time` holds the clock's readings and
the run times computed from them), for any number of workers and jobs:

| Theorem | Statement | Argument |
|---|---|---|
| `PoolTypesAreCorrect` | `PoolSpec => []PoolTypeOK` | `TypesInv`, which adds a bound on attempts: run times are then in `Time` |
| `PoolUsesTheScripts` | `PoolSpec => StoreSpec` | each action of the pool is one of QueueStore with the clock as its time, or leaves the keys alone; every theorem above is thereby one about the pool |
| `PoolLosesNoJob` | `PoolSpec => []NoJobLost` | the two before |
| `OneRunnerAlways` | `PoolSpec => [](KeepsTime => OneRunner)` | `CustodyInv` |
| `LiveJobsAreKept` | `PoolSpec => [](KeepsTime /\ "cancel" \notin Ops => LiveJobsKept)` | `CustodyInv`, and that a worker's job is in *active* until it reports or ends: only the watchdog could take it |

| `ContractIsKept` | `Calm` implies `PoolSpec => KeepsContract`: the pool implements JobContract | `CalmInv`; one lemma per group of actions says which step of the contract it is, or that it is none |
| `EveryJobHasOnePlace` | `Calm` and `MaxTime < Epoch + Retention` imply `PoolSpec => []OnePlace` | `CalmInv`, `NoJobLost`, and `CompletedKept`: a completed job is listed with a time that is too young to be trimmed |

`KeepsTime` is `Timely` with `HeartbeatInterval + DrainTimeout <= StallTimeout`; the
engine's 15 s, 30 s and 60 s satisfy it. `OneRunner` alone is not inductive: a
worker might hold a job that waits, or whose heartbeat is old enough for the
watchdog. `CustodyInv` excludes that. A job in somebody's hands was handed out, is
not waiting, and its heartbeat, if there is one, is younger than the timer allows
(`Secure`); a worker that drains, and so no longer beats, has not drained longer
than `DrainTimeout` (`Draining`); and no job has two holders. The sum of the two
durations is what keeps `CleanStalled` away.

`Calm` is `KeepsTime`, an engine in which nobody cancels and nothing throws after
`complete`, and attempts that are not negative. These are the circumstances in
which the code keeps the contract (section 3): a cancelled job that is delayed
runs after all, and a job that is failed after it completed is run again. `CalmInv` adds to `CustodyInv` that each key lists what its name says
(`Orderly`): a waiting job is WAITING, or ACTIVE when the watchdog brought it back,
and not active; open jobs have attempts left; completed and failed jobs have that
status; a job whose hash is gone is in no set. It is what makes the phase that
`PoolRequirements` reads from the keys change only as JobContract allows.
`MaxTime < Epoch + Retention` says that the first completed job is not yet 24 h old:
`complete.lua:23` then trims ids whose hashes stay, and such a job is in none of the
six sets, so `OnePlace` ends with the first trim.

**CallerProofs** (assumptions of QueueStoreProofs), for any number of operators and
producers, and every script between any two of their commands:

| Theorem | Statement | Argument |
|---|---|---|
| `AdminTypesAreCorrect` | `AdminSpec => []AdminTypeOK` | an operator's call is a record of what it has still to send; what `hset` and `zadd` reset is one of the ids it read |
| `RetriesKeepJobs` | `AdminSpec => []RetryKeepsJobs` | `AllKept`: every stored job is in the set its status names, or an operator is at the `hset` or `zadd` that makes it so. `StepKeepsJob` of QueueStoreProofs says that no script takes a job out of reach, job by job, so it is usable where `NoJobLost` as a whole does not hold |
| `RetriesFailNoJobEarly` | `AdminSpec => []NoEarlyFailure` | a pipeline writes WAITING with its zero attempts in one `hset` |
| `ProducersUseTheScripts` | `AddSpec => AdminSpec` | every step of a producer is one script call, or none |
| `AddReturnsTheOriginal` | `AddSpec => []AnswersTheOriginal` | `AddInv`: the hash of a stored job keeps its data, until a cleanup or a clearCompleted deletes it when the job is over (`DataStays`: pruning and `del` take members of the history sets only, and no other step deletes a hash or its data); an idempotency key and a pending answer name a job that was stored (`OriginalsAreStored`) |

**CronProofs** (`CronAssumption`), for any names, registrations, ticks in flight and
intervals:

| Theorem | Statement | Argument |
|---|---|---|
| `CronTypes` | `CronSpec => []CronTypeOK`, timely or not | `TypeInv`: what a tick works on is in the copy it read |
| `OccurrencesFireOnce` | `Timely` and `2 * MaxSpan <= LockTime` imply `CronSpec => []FiredOnce` | `OnceInv`, below |

`FiredOnce` counts; the invariant says who could fire once more. `ClockInv`: a tick
is within its span, a tick that works under a lock is alone under it and the lock
outlives the tick, what a tick visits was due when it read, the time it saves is
later than all that was fired, and a registration that is not yet written is nowhere.
`OnceInv`: when an occurrence was fired as often as it may be, either the tick that
fired it has yet to save, or the occurrence is over: it is not in the hash, no tick
is about to add it, and each tick with a copy of it finds the lock held until its own
span ends (`Barred`). Such a tick read before the save, hence its span ends within
two spans of the moment the lock was taken; that is where `2 * MaxSpan <= LockTime`
is needed. The engine's lock lives two poll intervals (`Scheduler.ts:76`), so a tick
may take one.

**WorkerLoopProofs** (`LoopAssumption`), for any number of queues, any concurrency
and any bounds:

| Theorem | Statement | Argument |
|---|---|---|
| `LoopTypes` | `LoopSpec => []LoopTypeOK` | with `EachHasItsStart`: the chains alive and the calls of `start()` under way are no more than the calls made, so a new chain has a slot |
| `StopIsKept` | `LoopSpec => []StopHolds` | `StopInv`: the jobs started since `stop()` and the chains still past the read of `running` are together no more than the calls of `start()` |
| `PauseIsKept` | `LoopSpec => []PauseHolds` | `PauseInv`: the same for each paused queue and the chains that are at its claim |
| `RunningStaysListed` | `LoopSpec => []RunningIsListed` | `StatusInv`: a running worker with no `start()` under way has its interval, and is listed or has missed all its hash can miss; with `listed` alone it is not inductive, since the hash of a worker without an interval may expire |

Both counts rest on one lemma about a step of a chain (`ChainMoves`) and on
cardinalities of sets of chains.

**ProcessProofs** (`ProcessAssumption`), for any set of workers and any bounds:

| Theorem | Statement | Argument |
|---|---|---|
| `ProcessTypes` | `ProcessSpec => []ProcessTypeOK` | `TypeInv`: `retryStrategy` is asked only while it has not given up |
| `ExitIsClean` | `ProcessSpec => []CleanExit` | `DrainInv`: a job that is owed still runs, since only a result that Redis took ends it in a process that lives; a worker that a shutdown found clean owes none, and a shutdown that closes the server found all of them clean |

**DashboardProofs** (`DashboardAssumption`, `ApiAssumption`), for any queues, jobs,
filters, clicks and requests in flight:

| Theorem | Statement | Argument |
|---|---|---|
| `DashTypes` | `DashSpec => []DashTypeOK` | `DashInv`: requests in flight carry what the handlers capture, and exist only after a queue was selected |
| `ClicksReachOwnJobs` | `DashSpec => []NoStrayJobs` | `OnlyClearCancels`: every other request of the page fits some route, and the route of `cancel` has another method or length; a retry lists only what the queue listed |

**LatencyProofs** (the premises of each theorem are in its `ASSUME`):

| Theorem | Statement | Argument |
|---|---|---|
| `LatencySetIsBounded` | at most `Cap` samples and those whose trim is outstanding | a trim leaves at most `Cap`; the cardinality of what it drops is counted by rank |
| `SlowestAreKept` | what a trim drops is no slower than what it keeps | ranks follow the scores; a set has a first member because strict subsets of a finite set are well-founded |
| `PositionIsNearestRank` | `Math.ceil(p / 100 * n) - 1`, counted from 1, is the nearest rank, and the clamp never changes it | integer division |
| `PercentilesAreOrdered` | p50 <= p95 <= p99 | the position is monotonic and the samples are sorted |

### What is only model-checked

Every invariant and action property of the passing runs, and the refinement, is
proved, some under the premises named above. TLC alone checks the liveness
properties: `EventuallySettled`, `DueIsFired`, `StoppedIsForgotten`,
`QueuesAreServed`, `ShutdownEnds`, `ServesAfterOutage` and `ViewConverges`. They need
fairness, and with it ENABLED, which is out of the prover's reach. So is what a
run shows to be violated (section 5). The premises of the proofs are not proved
either: that due timers fire and replies are used in time (`Timely`) is an
assumption about the host.

## 5. Where code and documents disagree

| Run | The document | The code |
|---|---|---|
| `claim_cancel_delayed` | `Queue.ts:162`: a delayed job "will be moved to cancelled" | cancel.lua has no delayed key; its id stays in the delayed set, from which moveToActive promotes what is due |
| `claim_backoff` | `fail.lua:24` "Add back to waiting set with delay", `tests/verify-phase19.ts:55` | the retry time becomes a score in a set whose first member is taken whatever its score: the retry waits for one poll |
| `claim_cron_removed` | `Queue.ts:451` "Removes a repeatable job definition by name" | a tick that read the definition writes it back after the removal |
| `claim_clear_route` | `README.md:205` "Clear old completed jobs", `api.ts:181` | `DELETE /queues/:name/jobs/:id` (`api.ts:152`) is registered first and takes the request: a job named `completed` is cancelled and nothing is cleared. The page's button sends it (`App.tsx:332`) |

Others were met while reading and have no run:

- `Worker.ts:228` "Orphaned ID? Just remove it": moveToActive has by then written
  into the missing hash, so the worker finds a job, without an id, and runs it.
- `types.ts:29`: duplicates "return the original job" within 24 h. The cleanup that
  `server.ts:68` starts keeps the last 500 of each history and deletes the hashes of
  older ones at any age, and their keys live on: add then finds nothing
  (`Queue.ts:54`) and returns the job it built (`Queue.ts:62`), which was never stored.
- `.agents/workflows/phase.txt:999`: the watchdog moves a job back "with an
  incremented attempt count".
  cleanStalled.lua does not touch the attempts: a job that kills its worker is
  recovered for ever. JobContract's `Recover` keeps the count as the code does.
- Intervals that outlive a stop: one that `start()` creates after `stop()`, and one
  beside which a second `start()` creates another (`Worker.ts:86-99`), renew the
  status hash of a stopped worker; nothing refers to the second kind any more.
- `Worker.ts:167` and `:180` speak of a round robin. A claim leaves
  `currentQueueIndex` at the queue it came from (`Worker.ts:214`), so a queue that
  always has jobs starves those after it.
- `Worker.ts:287` trims "the newest 1000" latencies, but the set is ordered by
  duration: the slowest are kept (`SlowestAreKept`).
- `concurrency` (`README.md:89,125,155`) never raises the number of jobs above one
  per poll chain (`Worker.ts:222`).
- `redis.ts:11` logs "Shutting down." after the last reconnection and nothing shuts
  down: without a running job the process lives on, and its polls are rejected for
  ever, so that `restart: always` (`docker-compose.yml`) never acts. With a running
  job it ends by an unhandled rejection (`ReportFails`), during a drain too.
- `/health` counts keys `queue:*:worker:*`, which nothing writes, so its
  `activeWorkers` is always 0.
- The live feed (`server.ts:162-175`, `README.md:43`): no published message has a
  `queueName`, and enqueue publishes a plain `job_added`, which `JSON.parse` rejects.
- `HEARTBEAT_INTERVAL_MS` and `STALL_THRESHOLD_MS` of `config.ts` are read by nothing:
  the worker's interval is 15 s and the server passes 60 s.
- Status hashes are named after the pid, which is the same in every container.
- A clean drain can leave a job that was claimed and not yet counted
  (`README.md:45`, `Worker.ts:135`), and a signal before the handlers are
  registered (`server.ts:190`) kills the process; both are left to the watchdog.

## 6. What is not modelled

- `updateProgress` (it writes one field, and only of a hash that exists), the
  throughput counters and the published progress messages: no decision reads them.
- Of the API: `/health`, checks of parameters and bodies, the window of jobs a
  listing returns. Of the page: the worker panel, the chart, the live feed, and
  other clients that pause a queue.
- The fields of a status hash, and processes with equal pids.
- Configuration, logging, script loading, and the load, benchmark and verification
  scripts: I/O without state of their own.
- A Redis that is connected and never answers: `deleteWorkerStatus` is awaited
  outside the drain's timeout (`Worker.ts:126`), so `stop()`, and with it a shutdown,
  would wait for it. `ShutdownEnds` takes every command to be answered or rejected.
- HSET and EXPIRE of a status hash as two steps; a slow publication that arrives after
  a later one. The end of the process by a rejected `fail` in WorkerPool and
  WorkerLoop: for the pool it is a crash, which `Crash` covers, and WorkerLoop follows
  one process that lives.
- Loss of Redis data, and a Redis that restarts between two commands. A command
  whose connection fails surfaces as an exception: in a worker that is the catch of
  `processJob` (`"postError"`), in a tick `Abort`, and an exception in poll leads to
  the next poll (`PollError` of WorkerLoop, the outage of ProcessLife).
- Payloads, results, error texts and stack traces.

The hazards that no property covers are marked in `PROJECT.json` with the reason.

## 7. Plan

Done: the scripts, the pool, producers, operators and scheduler; the poll loop with
pause, rotation and registry; the process with its outages and signals; the API's
routes and the page; the latency set. Proved: section 4.

Left to prove:

1. The contract with errors after `complete` (`postError`) and with cancellation: which
   weaker contract the code keeps then, and `OneRunnerAlways` as its first part.
2. `OnePlace` beyond the first 24 h, with a seventh place: hashes that `complete.lua`
   no longer lists.
3. An upper bound on what `LimiterBound` says about starts, on top of SlidingWindow.
4. For liveness, the safety half: which steps lower a measure of what is left to do
   (the attempts of `EventuallySettled`, the chains of `StoppedIsForgotten`).

Left to model:

1. **SlidingWindow**: the limiter with a clock, and what the limit means per window
   when a job is started twice in it.
2. A liveness property of retried jobs under producers that pause, as
   `QueuesAreServed` is one of queues.
3. A run of LatencyStats, with a bound on the pipelines that lose their trim.
