----------------------------- MODULE WorkerPool -----------------------------
(***************************************************************************)
(* The processes that share one queue: producers, workers that poll, run,  *)
(* beat, drain and die, the watchdog, and an operator who cancels and      *)
(* cleans up.  They touch the queue through the scripts of QueueStore only *)
(* and read the clock when they call one.                                  *)
(*                                                                         *)
(* A worker runs one job at a time: poll starts a job and returns, and the *)
(* next poll of that chain starts when the job is over (Worker.ts:222-226).*)
(* Between two awaits a worker's code runs without interleaving, so each   *)
(* pc below is an await of poll or processJob.                             *)
(***************************************************************************)
EXTENDS QueueStore

CONSTANTS
    Worker,         \* the worker processes
    Epoch,          \* the time at which the system starts
    MaxTime,        \* bound: the clock stops here
    Delay,          \* the options.delay of the producers
    HeartbeatInterval,
    DrainTimeout,   \* timeoutMs of Worker.stop
    BackoffType,    \* options.backoff.type, "none" without options.backoff
    BackoffDelay,   \* options.backoff.delay, 1000 ms when there is none
    MaxDeaths,      \* bound: how often workers crash or are stopped
    Ops,            \* which of "cancel", "cleanup" and "postError" can happen
    Timely,         \* TRUE when timers fire on time and a reply is not late
    Recoverable     \* bound: TRUE when workers die only while the clock has
                    \* time left for the watchdog to find their job stalled

ASSUME PoolAssumption ==
    /\ JobId # {}
    /\ Epoch \in Nat \ {0} /\ MaxTime \in Nat /\ Delay \subseteq Nat
    /\ HeartbeatInterval \in Nat \ {0} /\ DrainTimeout \in Nat
    /\ BackoffType \in {"none", "fixed", "exponential"} /\ BackoffDelay \in Nat
    /\ MaxDeaths \in Nat /\ {Timely, Recoverable} \subseteq BOOLEAN
    /\ Ops \subseteq {"cancel", "cleanup", "postError"}

\* calculateNextRunAt: how long after its failure a job is to run again.
Backoff(attemptsMade) ==
    IF BackoffType = "exponential" THEN BackoffDelay * 2 ^ attemptsMade ELSE BackoffDelay

\* Time holds every reading of the clock and every time computed from one.
ASSUME ClockAssumption ==
    /\ Epoch <= MaxTime
    /\ \A t \in Epoch .. MaxTime :
          t \in Time /\ \A n \in 0 .. MaxFails : t + Backoff(n) \in Time

VARIABLES
    clock,          \* Date.now(), the same at every process
    pc,             \* where each worker waits
    cur,            \* the job the worker was handed last
    seen,           \* job.attempts as the worker read it
    timer,          \* time since the heartbeat timer fired
    stopAt,         \* when stop() was called, Never before
    cancelledJobs,  \* the ids each worker was told are cancelled
    notices,        \* cancel messages published and not yet received
    deaths          \* how many crashes and stops have happened

workerVars == <<pc, cur, seen, timer, stopAt, cancelledJobs>>
poolVars == <<clock, workerVars, notices, deaths>>
vars == <<storeVars, poolVars>>

Never == 0

\* "idle": between two polls.  "polling": poll found running true and waits
\* for moveToActive.  "claimed": waits for hgetall.  "orphan": waits for hdel.
\* "running": waits for the processor, "ghost" without knowing the job's id.
\* "recorded": complete is done, waits for the latency pipeline.
\* "down": the process does not run.
PC == {"idle", "polling", "claimed", "orphan", "running", "ghost", "recorded", "down"}

PoolInit ==
    /\ StoreInit
    /\ clock = Epoch
    /\ pc = [w \in Worker |-> "idle"]
    /\ cur = [w \in Worker |-> CHOOSE j \in JobId : TRUE]
    /\ seen = [w \in Worker |-> 0]
    /\ timer = [w \in Worker |-> 0]
    /\ stopAt = [w \in Worker |-> Never]
    /\ cancelledJobs = [w \in Worker |-> {}]
    /\ notices = {}
    /\ deaths = 0

Goto(w, to) == pc' = [pc EXCEPT ![w] = to]
Up(w) == pc[w] # "down"
Stopping(w) == stopAt[w] # Never

\* activeJobs: what sendHeartbeats reports.  processJob adds the job and its
\* finally takes it out.
Beating(w) == pc[w] \in {"running", "recorded"}

\* The worker's activeJobsCount is zero: poll counts a job after hgetall.
NothingCounted(w) == pc[w] \in {"idle", "polling", "claimed", "orphan"}

-----------------------------------------------------------------------------
(* Queue.add                                                               *)

\* Bound: a delayed job is due before the clock stops.
Add(j, p, a, k, delay) ==
    /\ clock + delay <= MaxTime
    /\ Enqueue(j, p, a, k, clock + delay, clock)
    /\ UNCHANGED poolVars

-----------------------------------------------------------------------------
(* Worker.poll and Worker.processJob                                       *)

\* poll goes on only while running; a stopped worker ends its chain here.
BeginPoll(w) ==
    /\ pc[w] = "idle"
    /\ ~Stopping(w)
    /\ Goto(w, "polling")
    /\ UNCHANGED <<storeVars, clock, cur, seen, timer, stopAt, cancelledJobs, notices, deaths>>

FindNothing(w) ==
    /\ pc[w] = "polling"
    /\ NoneReady(clock)
    /\ Goto(w, "idle")
    /\ UNCHANGED <<clock, cur, seen, timer, stopAt, cancelledJobs, notices, deaths>>

\* moveToActive runs even if stop() was called since poll looked.
Claim(w, j) ==
    /\ pc[w] = "polling"
    /\ MoveToActive(j, clock)
    /\ Goto(w, "claimed")
    /\ cur' = [cur EXCEPT ![w] = j]
    /\ UNCHANGED <<clock, seen, timer, stopAt, cancelledJobs, notices, deaths>>

\* hgetall and hydrateJob: what the worker finds decides what it does.
\* Without data the hydrated job has no id, so it cannot be known as cancelled.
Fetch(w) ==
    LET hash == job[cur[w]]
        dropped == hash.data /\ cur[w] \in cancelledJobs[w]
    IN  /\ pc[w] = "claimed"
        /\ Goto(w, CASE hash.status = "NONE" -> "orphan"
                     [] dropped              -> "idle"
                     [] hash.data /\ ~dropped -> "running"
                     [] OTHER                -> "ghost")
        /\ seen' = [seen EXCEPT ![w] = hash.attempts]
        /\ cancelledJobs' = [cancelledJobs EXCEPT ![w] =
                                IF dropped THEN @ \ {cur[w]} ELSE @]
        /\ UNCHANGED <<storeVars, clock, cur, timer, stopAt, notices, deaths>>

RemoveOrphan(w) ==
    /\ pc[w] = "orphan"
    /\ HDelOrphan(cur[w])
    /\ Goto(w, "idle")
    /\ UNCHANGED <<clock, cur, seen, timer, stopAt, cancelledJobs, notices, deaths>>

\* A job without id is completed or failed under the keys of queue
\* "undefined": nothing changes in this queue.
EndGhost(w) ==
    /\ pc[w] = "ghost"
    /\ Goto(w, "idle")
    /\ UNCHANGED <<storeVars, clock, cur, seen, timer, stopAt, cancelledJobs, notices, deaths>>

\* The processor returned and complete ran.
Succeed(w) ==
    /\ pc[w] = "running"
    /\ Complete(cur[w], clock)
    /\ Goto(w, "recorded")
    /\ UNCHANGED <<clock, cur, seen, timer, stopAt, cancelledJobs, notices, deaths>>

\* The finally of processJob.
Forget(w) ==
    /\ Goto(w, "idle")
    /\ cancelledJobs' = [cancelledJobs EXCEPT ![w] = @ \ {cur[w]}]

RecordLatency(w) ==
    /\ pc[w] = "recorded"
    /\ Forget(w)
    /\ UNCHANGED <<storeVars, clock, cur, seen, timer, stopAt, notices, deaths>>

NextRunAt(attemptsMade) == clock + Backoff(attemptsMade)

\* The processor threw; or, after complete, the latency pipeline or a
\* listener of "completed" did, which the same catch handles.
Fail(w) ==
    /\ pc[w] = "running" \/ (pc[w] = "recorded" /\ "postError" \in Ops)
    /\ FailRetry(cur[w], NextRunAt(seen[w])) \/ FailFinal(cur[w], clock)
    /\ Forget(w)
    /\ UNCHANGED <<clock, cur, seen, timer, stopAt, notices, deaths>>

-----------------------------------------------------------------------------
(* Heartbeats, stop, crash and restart                                     *)

Beat(w) ==
    /\ Up(w) /\ ~Stopping(w)
    /\ timer[w] = HeartbeatInterval
    /\ timer' = [timer EXCEPT ![w] = 0]
    /\ IF Beating(w) /\ cur[w] \in DOMAIN active
         THEN Heartbeat(cur[w], clock)
         ELSE UNCHANGED storeVars
    /\ UNCHANGED <<clock, pc, cur, seen, stopAt, cancelledJobs, notices, deaths>>

\* Bound: there is time for the watchdog to find the job stalled.
RoomFor(d) == Recoverable => clock + d < MaxTime

\* Worker.stop: no new poll, no more heartbeats, no subscription.
Stop(w) ==
    /\ Up(w) /\ ~Stopping(w)
    /\ deaths < MaxDeaths
    /\ RoomFor(DrainTimeout + StallTimeout)
    /\ stopAt' = [stopAt EXCEPT ![w] = clock]
    /\ deaths' = deaths + 1
    /\ UNCHANGED <<storeVars, clock, pc, cur, seen, timer, cancelledJobs, notices>>

Down(w) ==
    /\ Goto(w, "down")
    /\ stopAt' = [stopAt EXCEPT ![w] = Never]
    /\ cancelledJobs' = [cancelledJobs EXCEPT ![w] = {}]
    /\ UNCHANGED <<storeVars, clock, cur, seen, timer, notices>>

\* stop() resolved, with nothing counted or after the drain timeout, and
\* the shutdown handler ends the process.
Exit(w) ==
    /\ Up(w) /\ Stopping(w)
    /\ NothingCounted(w) \/ clock >= stopAt[w] + DrainTimeout
    /\ Down(w)
    /\ UNCHANGED deaths

Crash(w) ==
    /\ Up(w)
    /\ deaths < MaxDeaths
    /\ RoomFor(StallTimeout)
    /\ Down(w)
    /\ deaths' = deaths + 1

\* restart: always
Restart(w) ==
    /\ pc[w] = "down"
    /\ Goto(w, "idle")
    /\ timer' = [timer EXCEPT ![w] = 0]
    /\ UNCHANGED <<storeVars, clock, cur, seen, stopAt, cancelledJobs, notices, deaths>>

-----------------------------------------------------------------------------
(* The watchdog, the operator and the clock                                *)

Watchdog ==
    /\ CleanStalled(clock)
    /\ UNCHANGED poolVars

\* Queue.cancel publishes to the workers subscribed at that moment.
CancelJob(j) ==
    /\ "cancel" \in Ops
    /\ j \in issued
    /\ Cancel(j, clock)
    /\ notices' = notices \cup {<<w, j>> : w \in {v \in Worker : Up(v) /\ ~Stopping(v)}}
    /\ UNCHANGED <<clock, workerVars, deaths>>

Notify(w, j) ==
    /\ <<w, j>> \in notices
    /\ notices' = notices \ {<<w, j>>}
    /\ cancelledJobs' = [cancelledJobs EXCEPT ![w] =
                            IF Up(w) /\ ~Stopping(w) THEN @ \cup {j} ELSE @]
    /\ UNCHANGED <<storeVars, clock, pc, cur, seen, timer, stopAt, deaths>>

CleanUp ==
    /\ "cleanup" \in Ops
    /\ \E c \in Cleanup : \/ PruneCompleted(c, clock)
                          \/ PruneFailed(c, clock)
                          \/ PruneCancelled(c, clock)
    /\ UNCHANGED poolVars

\* A timely system: a timer that is due fires, a worker that knows its job
\* starts it and a drain that timed out ends before time goes on.
InTime(w) ==
    Up(w) => /\ Stopping(w) \/ timer[w] < HeartbeatInterval
             /\ pc[w] \notin {"claimed", "orphan"}
             /\ Stopping(w) => clock < stopAt[w] + DrainTimeout

Tick ==
    /\ clock < MaxTime
    /\ Timely => \A w \in Worker : InTime(w)
    /\ clock' = clock + 1
    /\ timer' = [w \in Worker |->
                    IF timer[w] < HeartbeatInterval THEN timer[w] + 1 ELSE timer[w]]
    /\ UNCHANGED <<storeVars, pc, cur, seen, stopAt, cancelledJobs, notices, deaths>>

-----------------------------------------------------------------------------
Run(w) ==
    \/ BeginPoll(w) \/ FindNothing(w) \/ (\E j \in JobId : Claim(w, j))
    \/ Fetch(w) \/ RemoveOrphan(w) \/ EndGhost(w)
    \/ Succeed(w) \/ Fail(w) \/ RecordLatency(w)

PoolNext ==
    \/ \E j \in JobId, p \in Priority, a \in Attempts, k \in IdemKey \cup {NoKey},
          delay \in Delay : Add(j, p, a, k, delay)
    \/ \E w \in Worker : Run(w) \/ Beat(w) \/ Stop(w) \/ Exit(w) \/ Crash(w) \/ Restart(w)
    \/ Watchdog
    \/ CleanUp
    \/ \E j \in JobId : CancelJob(j) \/ \E w \in Worker : Notify(w, j)
    \/ Tick

PoolSpec == PoolInit /\ [][PoolNext]_vars

\* Every process that runs goes on running: an await is answered, a timer
\* fires, the container is restarted, the watchdog's interval comes round,
\* and a processor ends.
PoolFairness ==
    /\ \A w \in Worker : WF_vars(Run(w)) /\ WF_vars(Beat(w))
                            /\ WF_vars(Exit(w)) /\ WF_vars(Restart(w))
    /\ WF_vars(Watchdog)
    /\ WF_vars(Tick)

FairPoolSpec == PoolSpec /\ PoolFairness
=============================================================================
