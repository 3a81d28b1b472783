-------------------------- MODULE WorkerPoolProofs --------------------------
(***************************************************************************)
(* What holds of the processes for every number of workers and jobs: they  *)
(* use the scripts as QueueStore allows, so that every invariant proved of *)
(* the scripts holds of them; their variables keep their types; as long as *)
(* timers fire in time, a job has one runner; and as long as nobody        *)
(* cancels as well, the pool implements JobContract.                       *)
(***************************************************************************)
EXTENDS PoolRequirements, QueueStoreProofs

\* What one process sends reads the clock, and the clock is a time.
LEMMA ClockIsTime == ASSUME NEW t \in Epoch .. MaxTime PROVE t \in Time
  BY ClockAssumption

\* The next run of a failed job is a time as well.
LEMMA NextRunIsTime ==
    ASSUME clock \in Epoch .. MaxTime, NEW n \in 0 .. MaxFails
    PROVE  NextRunAt(n) \in Time
  BY ClockAssumption DEF NextRunAt

\* Jobs are ids.
LEMMA JobsAreIds == JobId \subseteq Id
  BY DEF Id

-----------------------------------------------------------------------------
(* The processes use the scripts as QueueStore allows                      *)

\* What a worker does between two awaits is a script call or changes no key.
LEMMA RunUsesScripts ==
    ASSUME PoolTypeOK, NEW w \in Worker, Run(w)
    PROVE  [StoreNext]_storeVars
<1>1. clock \in Time /\ cur[w] \in Id /\ NextRunAt(seen[w]) \in Time
  BY ClockIsTime, NextRunIsTime, JobsAreIds DEF PoolTypeOK
<1>2. CASE BeginPoll(w) \/ Fetch(w) \/ EndGhost(w) \/ RecordLatency(w)
  BY <1>2 DEF BeginPoll, Fetch, EndGhost, RecordLatency
<1>3. CASE FindNothing(w)
  BY <1>1, <1>3 DEF FindNothing, StoreNext, Poll
<1>4. ASSUME NEW j \in JobId, Claim(w, j) PROVE StoreNext
  BY <1>1, <1>4, JobsAreIds DEF Claim, StoreNext, Poll
<1>5. CASE RemoveOrphan(w)
  BY <1>1, <1>5 DEF RemoveOrphan, StoreNext, Finish
<1>6. CASE Succeed(w)
  BY <1>1, <1>6 DEF Succeed, StoreNext, Finish
<1>7. CASE Fail(w)
  BY <1>1, <1>7 DEF Fail, StoreNext, Finish
<1>8. QED BY <1>2, <1>3, <1>4, <1>5, <1>6, <1>7 DEF Run

\* So is what a timer or the end of a process does.
LEMMA LifeUsesScripts ==
    ASSUME PoolTypeOK, NEW w \in Worker,
           Beat(w) \/ Stop(w) \/ Exit(w) \/ Crash(w) \/ Restart(w)
    PROVE  [StoreNext]_storeVars
<1>1. clock \in Time /\ cur[w] \in Id
  BY ClockIsTime, JobsAreIds DEF PoolTypeOK
<1>2. CASE Beat(w)
  BY <1>1, <1>2 DEF Beat, StoreNext, Finish
<1>3. CASE Stop(w) \/ Exit(w) \/ Crash(w) \/ Restart(w)
  BY <1>3 DEF Stop, Exit, Crash, Restart, Down
<1>4. QED BY <1>2, <1>3

\* So is what happens outside the workers.
LEMMA SystemUsesScripts ==
    ASSUME PoolTypeOK,
           \/ Watchdog \/ CleanUp \/ Tick
           \/ \E j \in JobId : CancelJob(j) \/ \E v \in Worker : Notify(v, j)
    PROVE  [StoreNext]_storeVars
<1>1. clock \in Time
  BY ClockIsTime DEF PoolTypeOK
<1>2. CASE Watchdog
  BY <1>1, <1>2 DEF Watchdog, StoreNext, Maintain
<1>3. CASE CleanUp
  BY <1>1, <1>3 DEF CleanUp, StoreNext, Maintain
<1>4. CASE Tick
  BY <1>4 DEF Tick
<1>5. ASSUME NEW j \in JobId, CancelJob(j) PROVE StoreNext
  BY <1>1, <1>5, JobsAreIds DEF CancelJob, StoreNext, Maintain
<1>6. ASSUME NEW j \in JobId, NEW v \in Worker, Notify(v, j) PROVE UNCHANGED storeVars
  BY <1>6 DEF Notify
<1>7. QED BY <1>2, <1>3, <1>4, <1>5, <1>6

\* A producer's add is a script call too.
LEMMA AddUsesScripts ==
    ASSUME PoolTypeOK, NEW j \in JobId, NEW p \in Priority, NEW a \in Attempts,
           NEW k \in IdemKey \cup {NoKey}, NEW d \in Delay, Add(j, p, a, k, d)
    PROVE  StoreNext
<1>1. clock \in Time /\ clock + d \in Time
  BY ClockIsTime, PoolAssumption DEF PoolTypeOK, Add
<1>2. QED BY <1>1 DEF Add, StoreNext, Produce

\* Every step of the processes is a step of QueueStore or changes no key.
LEMMA StepUsesScripts ==
    ASSUME PoolTypeOK, [PoolNext]_vars PROVE [StoreNext]_storeVars
<1>1. CASE UNCHANGED vars
  BY <1>1 DEF vars
<1>2. CASE \E j \in JobId, p \in Priority, a \in Attempts, k \in IdemKey \cup {NoKey},
              d \in Delay : Add(j, p, a, k, d)
  BY <1>2, AddUsesScripts
<1>3. CASE \E w \in Worker : Run(w)
  BY <1>3, RunUsesScripts
<1>4. CASE \E w \in Worker : Beat(w) \/ Stop(w) \/ Exit(w) \/ Crash(w) \/ Restart(w)
  BY <1>4, LifeUsesScripts
<1>5. CASE Watchdog \/ CleanUp \/ Tick
           \/ \E j \in JobId : CancelJob(j) \/ \E v \in Worker : Notify(v, j)
  BY <1>5, SystemUsesScripts
<1>6. QED BY <1>1, <1>2, <1>3, <1>4, <1>5 DEF PoolNext

-----------------------------------------------------------------------------
(* Type correctness                                                        *)

\* What a worker reads from attempts, and computes a backoff from, is bounded.
AttemptsBounded == \A j \in Id : job[j].attempts <= MaxFails

\* Only fail raises attempts, and it is not called at the bound.
LEMMA StepAttempts ==
    ASSUME StoreTypeOK, AttemptsBounded, [StoreNext]_storeVars
    PROVE  AttemptsBounded'
<1> USE DEF AttemptsBounded, StoreTypeOK, Hash
<1>1. CASE UNCHANGED storeVars
  BY <1>1 DEF storeVars
<1>2. CASE Produce
  BY <1>2, NumberAssumption DEF Produce, Enqueue, Store, NewHash
<1>3. CASE Poll
  BY <1>3 DEF Poll, NoneReady, MoveToActive, history
<1>4. ASSUME NEW j \in Id, NEW now \in Time,
             \/ HDelOrphan(j) \/ Complete(j, now) \/ Heartbeat(j, now)
             \/ CleanStalled(now) \/ Cancel(j, now)
      PROVE  AttemptsBounded'
  BY <1>4 DEF HDelOrphan, Complete, Heartbeat, CleanStalled, Cancel, history
<1>5. ASSUME NEW j \in Id, NEW now \in Time, FailRetry(j, now) \/ FailFinal(j, now)
      PROVE  AttemptsBounded'
  BY <1>5, NumberAssumption DEF FailRetry, FailFinal, CountFailure
<1>6. ASSUME NEW c \in Cleanup, NEW now \in Time,
             PruneCompleted(c, now) \/ PruneFailed(c, now) \/ PruneCancelled(c, now)
      PROVE  AttemptsBounded'
  <2>1. \A S : \A i \in Id : Pruned(S)[i].attempts <= MaxFails
    BY NumberAssumption DEF Pruned, Absent
  <2>2. QED BY <1>6, <2>1 DEF PruneCompleted, PruneFailed, PruneCancelled
<1>7. ASSUME NEW k \in IdemKey, IdemExpire(k) PROVE AttemptsBounded'
  BY <1>7 DEF IdemExpire, history
<1>8. CASE Finish
  BY <1>4, <1>5, <1>8 DEF Finish
<1>9. CASE Maintain
  <2>1. ASSUME NEW now \in Time, CleanStalled(now) PROVE AttemptsBounded'
    BY <2>1 DEF CleanStalled, history
  <2>2. QED BY <1>4, <1>6, <1>9, <2>1 DEF Maintain
<1>10. QED BY <1>1, <1>2, <1>3, <1>7, <1>8, <1>9 DEF StoreNext

\* The part of PoolTypeOK that is not about the keys.
ProcessTypeOK ==
    /\ clock \in Epoch .. MaxTime
    /\ pc \in [Worker -> PC]
    /\ cur \in [Worker -> JobId]
    /\ seen \in [Worker -> 0 .. MaxFails]
    /\ timer \in [Worker -> 0 .. HeartbeatInterval]
    /\ stopAt \in [Worker -> {Never} \cup Epoch .. MaxTime]
    /\ cancelledJobs \in [Worker -> SUBSET JobId]
    /\ notices \subseteq Worker \X JobId
    /\ deaths \in 0 .. MaxDeaths

\* An await of a worker that ends leaves its variables well typed.
LEMMA RunTypeOK ==
    ASSUME PoolTypeOK, AttemptsBounded, NEW w \in Worker, Run(w)
    PROVE  ProcessTypeOK'
<1> USE DEF ProcessTypeOK, PoolTypeOK, PC
<1>1. CASE BeginPoll(w) \/ FindNothing(w) \/ RemoveOrphan(w) \/ EndGhost(w) \/ Succeed(w)
  BY <1>1 DEF BeginPoll, FindNothing, RemoveOrphan, EndGhost, Succeed, Goto
<1>2. ASSUME NEW j \in JobId, Claim(w, j) PROVE ProcessTypeOK'
  BY <1>2 DEF Claim, Goto
<1>3. CASE Fetch(w)
  <2>1. job[cur[w]].attempts \in 0 .. MaxFails
    BY JobsAreIds, NumberAssumption DEF AttemptsBounded, StoreTypeOK, Hash
  <2>2. \E to \in {"orphan", "idle", "running", "ghost"} : pc' = [pc EXCEPT ![w] = to]
    <3> DEFINE hash == job[cur[w]]
               dropped == hash.data /\ cur[w] \in cancelledJobs[w]
               to == CASE hash.status = "NONE" -> "orphan"
                       [] dropped -> "idle"
                       [] hash.data /\ ~dropped -> "running"
                       [] OTHER -> "ghost"
    <3>1. pc' = [pc EXCEPT ![w] = to]
      BY <1>3 DEF Fetch, Goto
    <3>2. to \in {"orphan", "idle", "running", "ghost"}
      OBVIOUS
    <3>3. QED BY <3>1, <3>2
  <2>3. cancelledJobs' \in [Worker -> SUBSET JobId]
    BY <1>3 DEF Fetch
  <2>4. QED BY <1>3, <2>1, <2>2, <2>3 DEF Fetch
<1>4. CASE RecordLatency(w) \/ Fail(w)
  BY <1>4 DEF RecordLatency, Fail, Forget, Goto
<1>5. QED BY <1>1, <1>2, <1>3, <1>4 DEF Run

\* So does every other step.
LEMMA StepProcessTypeOK ==
    ASSUME PoolTypeOK, AttemptsBounded, [PoolNext]_vars
    PROVE  ProcessTypeOK'
<1> USE DEF ProcessTypeOK, PoolTypeOK, PC
<1>1. CASE UNCHANGED vars
  BY <1>1 DEF vars, poolVars, workerVars
<1>2. ASSUME NEW j \in JobId, NEW p \in Priority, NEW a \in Attempts,
             NEW k \in IdemKey \cup {NoKey}, NEW d \in Delay, Add(j, p, a, k, d)
      PROVE  ProcessTypeOK'
  BY <1>2 DEF Add, poolVars, workerVars
<1>3. ASSUME NEW w \in Worker, Beat(w) \/ Restart(w) PROVE ProcessTypeOK'
  BY <1>3, PoolAssumption DEF Beat, Restart, Goto
<1>4. ASSUME NEW w \in Worker, Stop(w) PROVE ProcessTypeOK'
  BY <1>4, PoolAssumption DEF Stop
<1>5. ASSUME NEW w \in Worker, Exit(w) \/ Crash(w) PROVE ProcessTypeOK'
  BY <1>5, PoolAssumption DEF Exit, Crash, Down, Goto
<1>6. CASE Watchdog \/ CleanUp
  BY <1>6 DEF Watchdog, CleanUp, poolVars, workerVars
<1>7. ASSUME NEW j \in JobId, CancelJob(j) PROVE ProcessTypeOK'
  BY <1>7 DEF CancelJob, workerVars
<1>8. ASSUME NEW j \in JobId, NEW w \in Worker, Notify(w, j) PROVE ProcessTypeOK'
  BY <1>8 DEF Notify
<1>9. CASE Tick
  BY <1>9, PoolAssumption DEF Tick
<1>10. QED
  BY <1>1, <1>2, <1>3, <1>4, <1>5, <1>6, <1>7, <1>8, <1>9, RunTypeOK DEF PoolNext

\* The types of all variables, with the bound of what a worker reads.
TypesInv == PoolTypeOK /\ AttemptsBounded

\* Before the first step every worker is idle and every key is empty.
LEMMA InitTypes == PoolInit => TypesInv
<1> SUFFICES ASSUME PoolInit PROVE TypesInv
  OBVIOUS
<1>1. (CHOOSE j \in JobId : TRUE) \in JobId
  BY PoolAssumption
<1>2. ProcessTypeOK
  BY <1>1, PoolAssumption, ClockAssumption, NumberAssumption DEF PoolInit, ProcessTypeOK, PC
<1>3. StoreTypeOK
  BY InitTypeOK DEF PoolInit
<1>4. AttemptsBounded
  BY NumberAssumption DEF PoolInit, StoreInit, Absent, AttemptsBounded
<1>5. QED BY <1>2, <1>3, <1>4 DEF TypesInv, PoolTypeOK, ProcessTypeOK

\* Every step of the processes keeps the types.
LEMMA StepTypes == TypesInv /\ [PoolNext]_vars => TypesInv'
<1> SUFFICES ASSUME TypesInv, [PoolNext]_vars PROVE TypesInv'
  OBVIOUS
<1>1. [StoreNext]_storeVars
  BY StepUsesScripts DEF TypesInv
<1>2. StoreTypeOK' /\ AttemptsBounded'
  BY <1>1, StepTypeOK, StepAttempts DEF TypesInv, PoolTypeOK
<1>3. ProcessTypeOK'
  BY StepProcessTypeOK DEF TypesInv
<1>4. QED BY <1>2, <1>3 DEF TypesInv, PoolTypeOK, ProcessTypeOK

\* The variables of all processes and keys keep their types, however many
\* workers, jobs and failures there are (src/src/Worker.ts:10-52).
THEOREM PoolTypesAreCorrect == PoolSpec => []PoolTypeOK
<1>1. TypesInv => PoolTypeOK
  BY DEF TypesInv
<1>2. QED BY <1>1, InitTypes, StepTypes, PTL DEF PoolSpec

\* However slow, dead or out of step the processes are, and whatever the
\* operator does, they use the scripts only in the ways QueueStore allows: so
\* what is proved of StoreSpec holds of the whole system.
THEOREM PoolUsesTheScripts == PoolSpec => StoreSpec
<1>1. PoolInit => StoreInit
  BY DEF PoolInit
<1>2. PoolTypeOK /\ [PoolNext]_vars => [StoreNext]_storeVars
  BY StepUsesScripts
<1>3. QED BY <1>1, <1>2, PoolTypesAreCorrect, PTL DEF PoolSpec, StoreSpec

\* No crash, drain, late reply or cancellation of any number of processes
\* leaves a job that has not completed where nothing finds it.
THEOREM PoolLosesNoJob == PoolSpec => []NoJobLost
  BY PoolUsesTheScripts, NoJobIsLost, PTL

-----------------------------------------------------------------------------
(* One runner: the custody of a job                                        *)

\* Timers fire in time, and a heartbeat's age and a drain fit in the stall
\* timeout (15 s and 30 s in 60 s by default).
KeepsTime == Timely /\ HeartbeatInterval + DrainTimeout <= StallTimeout

\* The worker may still call a script about the job it was handed.
Has(w) == pc[w] \in {"claimed", "orphan", "running", "recorded"}

\* How old the job's heartbeat can be: younger than the timer while the worker
\* beats, and no older than one interval when stop() ended that.
HeartbeatIsYoung(w) ==
    /\ pc[w] \in {"claimed", "orphan"} => active[cur[w]] = clock
    /\ IF Stopping(w) THEN stopAt[w] - active[cur[w]] <= HeartbeatInterval
                      ELSE clock - active[cur[w]] <= timer[w]

\* No second worker can be handed the job: it is not queued, and will not be
\* found stalled.
Secure(w) ==
    Has(w) => /\ cur[w] \in handed \ DOMAIN waiting
              /\ cur[w] \in DOMAIN active => HeartbeatIsYoung(w)

\* A drain ends in time, and with the process.
Draining(w) ==
    IF Up(w) THEN Stopping(w) => stopAt[w] <= clock /\ clock <= stopAt[w] + DrainTimeout
             ELSE ~Stopping(w)

\* OneRunner with what it needs: a runner keeps others from becoming one.
Custody ==
    /\ \A w \in Worker : Secure(w) /\ Draining(w)
    /\ \A v, w \in Worker : Has(v) /\ Has(w) /\ cur[v] = cur[w] => v = w

CustodyInv == TypesInv /\ IsolationInv /\ (KeepsTime => Custody)

\* A step of another process leaves a worker where it is,
Still(v) == UNCHANGED <<pc[v], cur[v], timer[v], stopAt[v]>>

\* and does not queue its job, or give it another heartbeat.
Kept(v) ==
    Has(v) => /\ cur[v] \in handed' \ DOMAIN waiting'
              /\ cur[v] \in DOMAIN active' =>
                    cur[v] \in DOMAIN active /\ active'[cur[v]] = active[cur[v]]

\* What a step leaves alone stays secure.
LEMMA StillSecure ==
    ASSUME NEW v \in Worker, Secure(v), Draining(v), Still(v), Kept(v), clock' = clock
    PROVE  Secure(v)' /\ Draining(v)'
  BY DEF Secure, Draining, Still, Kept, Has, HeartbeatIsYoung, Up, Stopping

\* A step of one worker keeps custody if it is secure afterwards, disturbs no
\* other, and takes no job another one has.
LEMMA OneMoves ==
    ASSUME Custody, NEW w \in Worker, clock' = clock,
           \A v \in Worker \ {w} : Still(v) /\ Kept(v),
           Secure(w)', Draining(w)',
           \A v \in Worker \ {w} : Has(w)' /\ Has(v) => cur[v] # cur'[w]
    PROVE  Custody'
<1>1. \A v \in Worker : Secure(v)' /\ Draining(v)'
  BY StillSecure DEF Custody
<1>2. ASSUME NEW u \in Worker, NEW v \in Worker, Has(u)', Has(v)', cur'[u] = cur'[v]
      PROVE  u = v
  <2>1. \A x \in Worker \ {w} : Has(x)' => Has(x) /\ cur'[x] = cur[x]
    BY DEF Still, Has
  <2>2. CASE u = w \/ v = w
    BY <1>2, <2>1, <2>2
  <2>3. CASE u # w /\ v # w
    BY <1>2, <2>1, <2>3 DEF Custody
  <2>4. QED BY <2>2, <2>3
<1>3. QED BY <1>1, <1>2 DEF Custody

\* Steps of a worker that leave the queue alone.
LEMMA QuietCustody ==
    ASSUME TypesInv, IsolationInv, Custody, NEW w \in Worker,
           \/ BeginPoll(w) \/ FindNothing(w) \/ Fetch(w)
           \/ EndGhost(w) \/ RecordLatency(w)
    PROVE  Custody'
<1> USE DEF TypesInv, PoolTypeOK
<1>1. UNCHANGED <<waiting, active, handed, clock, cur, timer, stopAt>>
  BY DEF BeginPoll, FindNothing, NoneReady, Fetch, EndGhost, RecordLatency, storeVars, history
<1>2. /\ Has(w)' => Has(w) /\ pc[w] = "claimed"
      /\ pc[w] # "down" /\ pc'[w] # "down"
      /\ \A v \in Worker \ {w} : pc'[v] = pc[v]
  <2>1. CASE Fetch(w)
    BY <2>1 DEF Fetch, Goto, Has
  <2>2. CASE BeginPoll(w) \/ FindNothing(w) \/ EndGhost(w) \/ RecordLatency(w)
    BY <2>2 DEF BeginPoll, FindNothing, EndGhost, RecordLatency, Forget, Goto, Has
  <2>3. QED BY <2>1, <2>2
<1>3. \A v \in Worker : Kept(v)
  BY <1>1 DEF Kept, Custody, Secure
<1>4. \A v \in Worker \ {w} : Still(v)
  BY <1>1, <1>2 DEF Still
<1>5. Secure(w)' /\ Draining(w)'
  BY <1>1, <1>2 DEF Custody, Secure, HeartbeatIsYoung, Draining, Up, Stopping, Has
<1>6. \A v \in Worker \ {w} : Has(w)' /\ Has(v) => cur[v] # cur'[w]
  BY <1>1, <1>2 DEF Custody
<1>7. QED BY <1>1, <1>3, <1>4, <1>5, <1>6, OneMoves

\* A claim takes a job out of the waiting or the delayed set, where no job is
\* that some worker has.
LEMMA ClaimCustody ==
    ASSUME TypesInv, IsolationInv, Custody, NEW w \in Worker, NEW j \in JobId, Claim(w, j)
    PROVE  Custody'
<1> USE DEF TypesInv, PoolTypeOK
<1>1. /\ j \in DOMAIN waiting \cup DOMAIN delayed
      /\ DOMAIN waiting' \subseteq (DOMAIN waiting \cup DOMAIN delayed) \ {j}
      /\ active' = Put(active, j, clock) /\ handed' = handed \cup {j}
  BY PromotedFacts DEF Claim, MoveToActive, IsFirst, Drop, Restrict
<1>2. /\ UNCHANGED <<clock, timer, stopAt>>
      /\ pc[w] = "polling" /\ pc'[w] = "claimed" /\ cur'[w] = j
      /\ \A v \in Worker \ {w} : pc'[v] = pc[v] /\ cur'[v] = cur[v]
  BY DEF Claim, Goto
<1>3. \A v \in Worker : Has(v) => cur[v] \notin DOMAIN waiting \cup DOMAIN delayed
  BY DEF Custody, Secure, IsolationInv, DelayedIsolated
<1>4. \A v \in Worker : Kept(v)
  BY <1>1, <1>3 DEF Kept, Custody, Secure, Put
<1>5. Secure(w)' /\ Draining(w)'
  <2>1. active'[j] = clock
    BY <1>1 DEF Put
  <2>2. Draining(w)'
    BY <1>2 DEF Custody, Draining, Up, Stopping
  <2>3. HeartbeatIsYoung(w)'
    BY <1>2, <2>1, <2>2, PoolAssumption DEF HeartbeatIsYoung, Draining, Up, Stopping, Never
  <2>4. QED BY <1>1, <1>2, <2>2, <2>3 DEF Secure
<1>6. QED BY <1>1, <1>2, <1>3, <1>4, <1>5, OneMoves DEF Still

\* The end of a job touches that job only, and leaves it to others.
LEMMA EndCustody ==
    ASSUME TypesInv, IsolationInv, Custody, NEW w \in Worker,
           RemoveOrphan(w) \/ Succeed(w) \/ Fail(w)
    PROVE  Custody'
<1> USE DEF TypesInv, PoolTypeOK
<1>1. /\ Has(w) /\ active' = Drop(active, {cur[w]}) /\ handed' = handed
      /\ DOMAIN waiting' \subseteq DOMAIN waiting \cup {cur[w]}
      /\ UNCHANGED <<clock, cur, timer, stopAt>>
  <2>1. CASE RemoveOrphan(w)
    BY <2>1 DEF RemoveOrphan, HDelOrphan, Has, history
  <2>2. CASE Succeed(w)
    BY <2>2 DEF Succeed, Complete, Has, history
  <2>3. CASE Fail(w)
    BY <2>3 DEF Fail, FailRetry, FailFinal, CountFailure, Has, Put, history
  <2>4. QED BY <2>1, <2>2, <2>3
<1>2. /\ pc'[w] \in {"idle", "recorded"}
      /\ pc'[w] = "recorded" => waiting' = waiting
      /\ \A v \in Worker \ {w} : pc'[v] = pc[v]
  BY DEF RemoveOrphan, Succeed, Complete, Fail, Forget, Goto
<1>3. \A v \in Worker \ {w} : Has(v) => cur[v] # cur[w]
  BY <1>1 DEF Custody
<1>4. \A v \in Worker \ {w} : Kept(v)
  BY <1>1, <1>3 DEF Kept, Custody, Secure, Drop, Restrict
<1>5. Secure(w)' /\ Draining(w)'
  <2>1. Secure(w)'
    BY <1>1, <1>2 DEF Custody, Secure, Has, Drop, Restrict
  <2>2. Draining(w)'
    BY <1>1, <1>2 DEF Custody, Draining, Up, Stopping, Has
  <2>3. QED BY <2>1, <2>2
<1>6. QED BY <1>1, <1>2, <1>3, <1>4, <1>5, OneMoves DEF Still

\* A heartbeat, a stop or the end of a process.
LEMMA LifeCustody ==
    ASSUME TypesInv, Custody, NEW w \in Worker,
           Beat(w) \/ Stop(w) \/ Exit(w) \/ Crash(w) \/ Restart(w)
    PROVE  Custody'
<1> USE DEF TypesInv, PoolTypeOK
<1>1. /\ UNCHANGED <<waiting, handed, clock, cur>>
      /\ \A v \in Worker \ {w} : Still(v)
      /\ Has(w)' => Has(w) /\ pc'[w] = pc[w]
  BY DEF Beat, Heartbeat, Stop, Exit, Crash, Down, Restart, Goto, Still, Has, storeVars, history
<1>2. \A v \in Worker \ {w} : Has(w)' /\ Has(v) => cur[v] # cur'[w]
  BY <1>1 DEF Custody
<1>3. CASE Beat(w)
  <2>1. /\ UNCHANGED <<pc, stopAt>> /\ timer'[w] = 0 /\ Up(w) /\ ~Stopping(w)
        /\ \/ active' = active /\ (Beating(w) => cur[w] \notin DOMAIN active)
           \/ active' = Put(active, cur[w], clock) /\ Beating(w)
    BY <1>3 DEF Beat, Heartbeat, storeVars
  <2>2. Beating(w) => Has(w)
    BY DEF Beating, Has
  <2>3. \A v \in Worker \ {w} : Kept(v)
    <3>1. CASE active' = active
      BY <1>1, <3>1 DEF Kept, Custody, Secure
    <3>2. CASE active' = Put(active, cur[w], clock) /\ Beating(w)
      BY <1>1, <2>2, <3>2 DEF Kept, Custody, Secure, Put
    <3>3. QED BY <2>1, <3>1, <3>2
  <2>4. Secure(w)'
    <3>1. CASE ~Beating(w)
      BY <1>1, <2>1, <3>1 DEF Custody, Secure, Has, Beating, HeartbeatIsYoung, Stopping
    <3>2. CASE Beating(w) /\ active' = active /\ cur[w] \notin DOMAIN active
      <4>1. cur'[w] \notin DOMAIN active' /\ cur'[w] \in handed' \ DOMAIN waiting'
        BY <1>1, <2>2, <3>2 DEF Custody, Secure
      <4>2. QED BY <4>1 DEF Secure
    <3>3. CASE Beating(w) /\ active' = Put(active, cur[w], clock)
      <4>1. active'[cur[w]] = clock
        BY <3>3 DEF Put
      <4>2. HeartbeatIsYoung(w)'
        BY <1>1, <2>1, <4>1 DEF HeartbeatIsYoung, Stopping
      <4>3. QED BY <1>1, <2>2, <3>3, <4>2 DEF Custody, Secure
    <3>4. QED BY <2>1, <3>1, <3>2, <3>3
  <2>5. Draining(w)'
    BY <2>1 DEF Draining, Up, Stopping
  <2>6. QED BY <1>1, <1>2, <2>3, <2>4, <2>5, OneMoves
<1>4. CASE Stop(w)
  <2>1. /\ UNCHANGED <<active, pc, timer>> /\ stopAt'[w] = clock /\ clock # Never
        /\ Up(w) /\ ~Stopping(w)
    BY <1>4, PoolAssumption DEF Stop, storeVars, Never
  <2>2. \A v \in Worker \ {w} : Kept(v)
    BY <1>1, <2>1 DEF Kept, Custody, Secure
  <2>3. Draining(w)'
    BY <1>1, <2>1, PoolAssumption DEF Draining, Up
  <2>4. Secure(w)'
    <3>1. SUFFICES ASSUME Has(w), cur[w] \in DOMAIN active
                   PROVE  HeartbeatIsYoung(w)'
      BY <1>1, <2>1 DEF Custody, Secure, Has
    <3>2. active[cur[w]] \in Int /\ timer[w] \in 0 .. HeartbeatInterval
      BY <3>1 DEF StoreTypeOK, IsScored
    <3>3. /\ clock - active[cur[w]] <= timer[w]
          /\ pc[w] \in {"claimed", "orphan"} => active[cur[w]] = clock
      BY <2>1, <3>1 DEF Custody, Secure, HeartbeatIsYoung
    <3>4. QED BY <1>1, <2>1, <3>2, <3>3, PoolAssumption DEF HeartbeatIsYoung, Stopping
  <2>5. QED BY <1>1, <1>2, <2>2, <2>3, <2>4, OneMoves
<1>5. CASE Exit(w) \/ Crash(w) \/ Restart(w)
  <2>1. active' = active /\ ~Has(w)'
    BY <1>5 DEF Exit, Crash, Down, Restart, Goto, Has, storeVars
  <2>2. \A v \in Worker \ {w} : Kept(v)
    BY <1>1, <2>1 DEF Kept, Custody, Secure
  <2>3. Draining(w)'
    BY <1>5 DEF Custody, Exit, Crash, Down, Restart, Goto, Draining, Up, Stopping
  <2>4. Secure(w)'
    BY <2>1 DEF Secure
  <2>5. QED BY <1>1, <1>2, <2>2, <2>3, <2>4, OneMoves
<1>6. QED BY <1>3, <1>4, <1>5

\* A step outside the workers keeps custody if it queues no job a worker has.
LEMMA NobodyMoves ==
    ASSUME Custody, clock' = clock, \A v \in Worker : Still(v) /\ Kept(v)
    PROVE  Custody'
<1>1. \A v \in Worker : Secure(v)' /\ Draining(v)'
  BY StillSecure DEF Custody
<1>2. QED BY <1>1 DEF Custody, Still, Has

\* The watchdog finds no job stalled that a worker has.
LEMMA NotStalled ==
    ASSUME TypesInv, Custody, KeepsTime, NEW w \in Worker, Has(w)
    PROVE  cur[w] \notin Stalled(clock)
<1> USE DEF TypesInv, PoolTypeOK
<1>1. SUFFICES ASSUME cur[w] \in DOMAIN active
               PROVE  clock - active[cur[w]] <= StallTimeout
  BY NumberAssumption DEF Stalled, StoreTypeOK, IsScored
<1>2. /\ HeartbeatIsYoung(w) /\ Draining(w) /\ Up(w)
      /\ active[cur[w]] \in Int /\ timer[w] \in 0 .. HeartbeatInterval
      /\ stopAt[w] \in Int
  BY <1>1, PoolAssumption DEF Custody, Secure, Has, Up, StoreTypeOK, IsScored, Never
<1>3. CASE Stopping(w)
  BY <1>2, <1>3, PoolAssumption, NumberAssumption DEF HeartbeatIsYoung, Draining, KeepsTime
<1>4. CASE ~Stopping(w)
  BY <1>2, <1>4, PoolAssumption, NumberAssumption DEF HeartbeatIsYoung, KeepsTime
<1>5. QED BY <1>3, <1>4

\* So it gives no such job to another worker.
LEMMA WatchdogCustody ==
    ASSUME TypesInv, Custody, KeepsTime, Watchdog
    PROVE  Custody'
<1>1. /\ DOMAIN waiting' = DOMAIN waiting \cup Stalled(clock)
      /\ active' = Drop(active, Stalled(clock)) /\ handed' = handed
      /\ clock' = clock /\ \A v \in Worker : Still(v)
  BY DEF Watchdog, CleanStalled, history, poolVars, workerVars, Still
<1>2. \A v \in Worker : Kept(v)
  BY <1>1, NotStalled DEF Kept, Custody, Secure, Drop, Restrict
<1>3. QED BY <1>1, <1>2, NobodyMoves

\* Producers add jobs no worker has; cancel and cleanup queue nothing.
LEMMA OperatorCustody ==
    ASSUME TypesInv, IsolationInv, Custody,
           \/ \E j \in JobId, p \in Priority, a \in Attempts, k \in IdemKey \cup {NoKey},
                 d \in Delay : Add(j, p, a, k, d)
           \/ \E j \in JobId : CancelJob(j) \/ \E v \in Worker : Notify(v, j)
           \/ CleanUp
    PROVE  Custody'
<1>1. clock' = clock /\ \A v \in Worker : Still(v)
  BY DEF Add, CancelJob, Notify, CleanUp, poolVars, workerVars, Still
<1>2. ASSUME NEW j \in JobId, NEW p \in Priority, NEW a \in Attempts,
             NEW k \in IdemKey \cup {NoKey}, NEW d \in Delay, Add(j, p, a, k, d)
      PROVE  \A v \in Worker : Kept(v)
  <2>1. /\ j \notin handed /\ active' = active /\ handed' = handed
        /\ DOMAIN waiting' \subseteq DOMAIN waiting \cup {j}
    BY <1>2 DEF Add, Enqueue, Store, Put, IsolationInv, OnlyIssuedRun
  <2>2. QED BY <2>1 DEF Kept, Custody, Secure
<1>3. ASSUME NEW j \in JobId, CancelJob(j) PROVE \A v \in Worker : Kept(v)
  BY <1>3 DEF CancelJob, Cancel, Drop, Restrict, history, Kept, Custody, Secure
<1>4. ASSUME NEW j \in JobId, NEW w \in Worker, Notify(w, j) PROVE \A v \in Worker : Kept(v)
  BY <1>4 DEF Notify, storeVars, Kept, Custody, Secure
<1>5. ASSUME CleanUp PROVE \A v \in Worker : Kept(v)
  <2>1. UNCHANGED <<waiting, active, handed>>
    BY <1>5 DEF CleanUp, PruneCompleted, PruneFailed, PruneCancelled, history
  <2>2. QED BY <2>1 DEF Kept, Custody, Secure
<1>6. QED BY <1>1, <1>2, <1>3, <1>4, <1>5, NobodyMoves

\* Time passes only when no timer is due.
LEMMA TickCustody ==
    ASSUME TypesInv, Custody, KeepsTime, Tick
    PROVE  Custody'
<1> USE DEF TypesInv, PoolTypeOK
<1>1. /\ UNCHANGED <<waiting, active, handed, pc, cur, stopAt>> /\ clock' = clock + 1
      /\ \A w \in Worker : timer'[w] = IF timer[w] < HeartbeatInterval THEN timer[w] + 1
                                        ELSE timer[w]
      /\ \A w \in Worker : InTime(w)
  BY DEF Tick, KeepsTime, storeVars, history
<1>2. ASSUME NEW w \in Worker PROVE Draining(w)'
  <2>1. stopAt[w] \in Int /\ clock \in Int
    BY PoolAssumption DEF Never
  <2>2. QED BY <1>1, <2>1, PoolAssumption DEF Custody, Draining, InTime, Up, Stopping
<1>3. ASSUME NEW w \in Worker PROVE Secure(w)'
  <2>1. SUFFICES ASSUME Has(w), cur[w] \in DOMAIN active
                 PROVE  HeartbeatIsYoung(w)'
    BY <1>1 DEF Custody, Secure, Has
  <2>2. /\ HeartbeatIsYoung(w) /\ Up(w) /\ InTime(w)
        /\ active[cur[w]] \in Int /\ timer[w] \in Int
    BY <1>1, <2>1, PoolAssumption DEF Custody, Secure, Has, Up, StoreTypeOK, IsScored
  <2>3. QED BY <1>1, <2>2 DEF HeartbeatIsYoung, InTime, Stopping
<1>4. QED BY <1>1, <1>2, <1>3 DEF Custody, Has

\* Every step keeps custody, in a system whose timers fire in time.
LEMMA StepCustody ==
    ASSUME CustodyInv, KeepsTime, [PoolNext]_vars
    PROVE  Custody'
<1> USE DEF CustodyInv
<1>1. CASE UNCHANGED vars
  <2>1. clock' = clock /\ \A v \in Worker : Still(v) /\ Kept(v)
    BY <1>1 DEF vars, storeVars, poolVars, workerVars, Still, Kept, Custody, Secure
  <2>2. QED BY <2>1, NobodyMoves
<1>2. ASSUME NEW w \in Worker, Run(w) PROVE Custody'
  BY <1>2, QuietCustody, ClaimCustody, EndCustody DEF Run
<1>3. ASSUME NEW w \in Worker, Beat(w) \/ Stop(w) \/ Exit(w) \/ Crash(w) \/ Restart(w)
      PROVE  Custody'
  BY <1>3, LifeCustody
<1>4. CASE Watchdog \/ Tick
  BY <1>4, WatchdogCustody, TickCustody
<1>5. CASE \/ \E j \in JobId, p \in Priority, a \in Attempts, k \in IdemKey \cup {NoKey},
                d \in Delay : Add(j, p, a, k, d)
           \/ \E j \in JobId : CancelJob(j) \/ \E v \in Worker : Notify(v, j)
           \/ CleanUp
  BY <1>5, OperatorCustody
<1>6. QED BY <1>1, <1>2, <1>3, <1>4, <1>5 DEF PoolNext

\* Initially no worker has a job.
LEMMA InitCustody == PoolInit => CustodyInv
<1> SUFFICES ASSUME PoolInit PROVE CustodyInv
  OBVIOUS
<1>1. TypesInv /\ IsolationInv
  BY InitTypes, InitIsolation DEF PoolInit
<1>2. Custody
  BY DEF PoolInit, Custody, Secure, Draining, Has, Up, Stopping
<1>3. QED BY <1>1, <1>2 DEF CustodyInv

\* The invariant is inductive.
LEMMA StepCustodyInv == CustodyInv /\ [PoolNext]_vars => CustodyInv'
<1> SUFFICES ASSUME CustodyInv, [PoolNext]_vars PROVE CustodyInv'
  OBVIOUS
<1>1. TypesInv' /\ [StoreNext]_storeVars
  BY StepTypes, StepUsesScripts DEF CustodyInv, TypesInv
<1>2. IsolationInv'
  BY <1>1, StepIsolation DEF CustodyInv, TypesInv, PoolTypeOK
<1>3. (KeepsTime => Custody)'
  BY StepCustody DEF KeepsTime
<1>4. QED BY <1>1, <1>2, <1>3 DEF CustodyInv

\* In a system whose timers fire in time, whatever is cancelled, cleaned up,
\* crashes, drains or fails after complete, no two workers of any number run
\* one job at the same time (the watchdog of src/src/Queue.ts:268 and the
\* heartbeats of src/src/Worker.ts:314 against each other).
THEOREM OneRunnerAlways == PoolSpec => [](KeepsTime => OneRunner)
<1>1. CustodyInv => (KeepsTime => OneRunner)
  BY DEF CustodyInv, Custody, OneRunner, Has
<1>2. QED BY <1>1, InitCustody, StepCustodyInv, PTL DEF PoolSpec

-----------------------------------------------------------------------------
(* The jobs of live processes stay theirs                                  *)

\* LiveJobsKept, one worker at a time.
Listed(w) == pc[w] \in {"claimed", "running"} => cur[w] \in DOMAIN active

\* Nobody but the operator takes a job away from the worker that has it.
LEMMA StepListed ==
    ASSUME CustodyInv, KeepsTime, "cancel" \notin Ops, [PoolNext]_vars,
           \A w \in Worker : Listed(w), NEW v \in Worker
    PROVE  Listed(v)'
<1> USE DEF CustodyInv, Listed
<1>0. Custody /\ (pc[v] \in {"claimed", "running"} => Has(v))
  BY DEF Has
<1>1. CASE UNCHANGED <<active, pc, cur>>
  BY <1>1
<1>2. ASSUME NEW w \in Worker, RemoveOrphan(w) \/ Succeed(w) \/ Fail(w)
      PROVE  Listed(v)'
  <2>1. /\ Has(w) /\ active' = Drop(active, {cur[w]}) /\ cur' = cur
        /\ \A u \in Worker \ {w} : pc'[u] = pc[u]
        /\ pc'[w] \notin {"claimed", "running"}
    BY <1>2 DEF RemoveOrphan, HDelOrphan, Succeed, Complete, Fail, FailRetry, FailFinal,
                CountFailure, Forget, Goto, Has, TypesInv, PoolTypeOK
  <2>2. v # w /\ Has(v) => cur[v] # cur[w]
    BY <1>0, <2>1 DEF Custody
  <2>3. QED BY <1>0, <2>1, <2>2 DEF Drop, Restrict
<1>3. ASSUME NEW w \in Worker, NEW j \in JobId, Claim(w, j) PROVE Listed(v)'
  BY <1>3 DEF Claim, MoveToActive, Put, Goto, TypesInv, PoolTypeOK
<1>4. ASSUME NEW w \in Worker,
             \/ BeginPoll(w) \/ FindNothing(w) \/ Fetch(w)
             \/ EndGhost(w) \/ RecordLatency(w)
      PROVE  Listed(v)'
  <2>1. /\ UNCHANGED <<active, cur>>
        /\ \A u \in Worker \ {w} : pc'[u] = pc[u]
        /\ pc'[w] \in {"claimed", "running"} => pc[w] = "claimed"
    <3>1. CASE Fetch(w)
      BY <3>1 DEF Fetch, Goto, storeVars
    <3>2. CASE BeginPoll(w) \/ FindNothing(w) \/ EndGhost(w) \/ RecordLatency(w)
      BY <3>2 DEF BeginPoll, FindNothing, NoneReady, EndGhost, RecordLatency, Forget,
                  Goto, storeVars, history, TypesInv, PoolTypeOK
    <3>3. QED BY <1>4, <3>1, <3>2
  <2>2. QED BY <2>1
<1>5. ASSUME NEW w \in Worker, Beat(w) \/ Stop(w) \/ Exit(w) \/ Crash(w) \/ Restart(w)
      PROVE  Listed(v)'
  <2>1. /\ cur' = cur /\ DOMAIN active \subseteq DOMAIN active'
        /\ \A u \in Worker : pc'[u] \in {"claimed", "running"} => pc'[u] = pc[u]
    BY <1>5 DEF Beat, Heartbeat, Put, Stop, Exit, Crash, Down, Restart, Goto, storeVars,
                TypesInv, PoolTypeOK
  <2>2. QED BY <2>1
<1>6. CASE Watchdog
  <2>1. active' = Drop(active, Stalled(clock)) /\ UNCHANGED <<pc, cur>>
    BY <1>6 DEF Watchdog, CleanStalled, poolVars, workerVars
  <2>2. Has(v) => cur[v] \notin Stalled(clock)
    BY <1>0, NotStalled
  <2>3. QED BY <1>0, <2>1, <2>2 DEF Drop, Restrict
<1>7. ASSUME NEW j \in JobId, NEW p \in Priority, NEW a \in Attempts,
             NEW k \in IdemKey \cup {NoKey}, NEW d \in Delay, Add(j, p, a, k, d)
      PROVE  UNCHANGED <<active, pc, cur>>
  BY <1>7 DEF Add, Enqueue, poolVars, workerVars
<1>8. ASSUME NEW j \in JobId, CancelJob(j) \/ \E w \in Worker : Notify(w, j)
      PROVE  UNCHANGED <<active, pc, cur>>
  BY <1>8 DEF CancelJob, Notify, storeVars
<1>9. CASE CleanUp \/ Tick \/ UNCHANGED vars
  BY <1>1, <1>9 DEF CleanUp, PruneCompleted, PruneFailed, PruneCancelled, history, Tick,
                    vars, storeVars, poolVars, workerVars
<1>10. QED
  BY <1>1, <1>2, <1>3, <1>4, <1>5, <1>6, <1>7, <1>8, <1>9 DEF PoolNext, Run

\* In a system whose timers fire in time and in which nobody cancels, a job
\* that some process was handed stays in the active hash until that process
\* reports or ends: heartbeats and drains of any length that together fit in
\* the stall timeout keep the watchdog away (src/src/Worker.ts:116).
THEOREM LiveJobsAreKept ==
    PoolSpec => [](KeepsTime /\ "cancel" \notin Ops => LiveJobsKept)
<1> DEFINE NoneCancel == KeepsTime /\ "cancel" \notin Ops
           ListedInv == NoneCancel => \A w \in Worker : Listed(w)
<1>1. PoolInit => ListedInv
  BY DEF PoolInit, Listed
<1>2. CustodyInv /\ ListedInv /\ [PoolNext]_vars => ListedInv'
  BY StepListed DEF KeepsTime
<1>3. ListedInv => (NoneCancel => LiveJobsKept)
  BY DEF Listed, LiveJobsKept, Holds
<1> HIDE DEF ListedInv
<1>4. QED BY <1>1, <1>2, <1>3, InitCustody, StepCustodyInv, PTL DEF PoolSpec

-----------------------------------------------------------------------------
(* The jobs of a calm system: a job is in one place, and the pool          *)
(* implements JobContract under the mapping of PoolRequirements            *)

\* The circumstances the contract is meant for: a heartbeat and a drain fit in
\* the stall timeout, nobody cancels, nothing fails after complete, and
\* options.attempts is no negative number.
Calm ==
    /\ KeepsTime
    /\ {"cancel", "postError"} \cap Ops = {}
    /\ Attempts \subseteq Nat

-----------------------------------------------------------------------------
(* Every key lists the jobs its name says                                  *)

Open(j) == job[j].status \in {"WAITING", "ACTIVE"}

\* A job of a stalled worker waits as ACTIVE.
Orderly(j) ==
    /\ IF job[j].data THEN j \in issued /\ job[j].status # "NONE" ELSE job[j] = Absent
    /\ Open(j) => job[j].attempts < job[j].maxAttempts
    /\ j \in DOMAIN waiting => Open(j) /\ j \notin DOMAIN active
    /\ j \in DOMAIN delayed => job[j].status = "WAITING"
    /\ j \in DOMAIN active => job[j].status = "ACTIVE"
    /\ j \in DOMAIN completed => job[j].status = "COMPLETED"
    /\ j \in DOMAIN failed => job[j].status = "FAILED"
    /\ j \notin DOMAIN cancelled

InOrder == \A j \in Id : Orderly(j)

\* A job whose hash a step leaves alone stays in order when it joins no list,
\* or joins the waiting set from one that no process works on.
LEMMA StillOrderly ==
    ASSUME NEW i \in Id, Orderly(i), job'[i] = job[i], i \in issued => i \in issued',
           i \in DOMAIN waiting' => Open(i) /\ i \notin DOMAIN active',
           i \in DOMAIN delayed' => i \in DOMAIN delayed,
           i \in DOMAIN active' => i \in DOMAIN active,
           i \in DOMAIN completed' => i \in DOMAIN completed,
           i \in DOMAIN failed' => i \in DOMAIN failed,
           cancelled' = cancelled
    PROVE  Orderly(i)'
  BY DEF Orderly, Open, Absent

\* A producer's job is new, and listed once.
LEMMA EnqueueOrderly ==
    ASSUME StoreTypeOK, InOrder, Attempts \subseteq Nat,
           NEW j \in JobId, NEW p \in Priority, NEW a \in Attempts,
           NEW k \in IdemKey \cup {NoKey}, NEW runAt \in Time, NEW now \in Time,
           Enqueue(j, p, a, k, runAt, now)
    PROVE  InOrder'
<1>1. /\ j \in Id /\ j \notin issued /\ issued' = issued \cup {j}
      /\ job' = [job EXCEPT ![j] = NewHash(p, a)]
      /\ UNCHANGED <<active, completed, failed, cancelled>>
      /\ DOMAIN waiting' \subseteq DOMAIN waiting \cup {j}
      /\ DOMAIN delayed' \subseteq DOMAIN delayed \cup {j}
  BY DEF Enqueue, Store, Put, Id
<1>2. ASSUME NEW i \in Id, i # j PROVE Orderly(i)'
  <2>1. Orderly(i) /\ job'[i] = job[i]
    BY <1>1, <1>2 DEF InOrder, StoreTypeOK
  <2>2. i \in DOMAIN waiting => Open(i) /\ i \notin DOMAIN active
    BY <2>1 DEF Orderly
  <2>3. QED BY <1>1, <1>2, <2>1, <2>2, StillOrderly
<1>3. Orderly(j)'
  <2>1. job[j].status = "NONE"
    BY <1>1 DEF InOrder, Orderly, Absent
  <2>2. /\ j \notin DOMAIN waiting /\ j \notin DOMAIN delayed /\ j \notin DOMAIN active
        /\ j \notin DOMAIN completed /\ j \notin DOMAIN failed /\ j \notin DOMAIN cancelled
    BY <1>1, <2>1 DEF InOrder, Orderly, Open
  <2>3. job'[j] = NewHash(p, a) /\ MaxAttempts(a) > 0
    BY <1>1 DEF StoreTypeOK, MaxAttempts
  <2>4. QED BY <1>1, <2>2, <2>3 DEF Orderly, Open, NewHash
<1>4. QED BY <1>2, <1>3 DEF InOrder

\* The job a worker is handed was queued, and is so no more.
LEMMA MoveOrderly ==
    ASSUME StoreTypeOK, IsolationInv, InOrder, NEW j \in Id, NEW now \in Time,
           MoveToActive(j, now)
    PROVE  InOrder' /\ (Open(j) /\ j \notin DOMAIN active)
<1>1. /\ j \in DOMAIN waiting \cup UpTo(delayed, now)
      /\ DOMAIN waiting' = (DOMAIN waiting \cup UpTo(delayed, now)) \ {j}
      /\ DOMAIN delayed' = DOMAIN delayed \ UpTo(delayed, now)
      /\ DOMAIN active' = DOMAIN active \cup {j}
      /\ UpTo(delayed, now) \subseteq DOMAIN delayed
  BY PromotedFacts DEF MoveToActive, Put, Drop, Restrict, IsFirst
<1>2. /\ job' = [job EXCEPT ![j].status = "ACTIVE"]
      /\ UNCHANGED <<completed, failed, cancelled, issued>>
  BY DEF MoveToActive
<1>3. DOMAIN delayed \cap (DOMAIN waiting \cup DOMAIN active) = {}
  BY DEF IsolationInv, DelayedIsolated
<1>4. Orderly(j) /\ Open(j) /\ j \notin DOMAIN active
  BY <1>1, <1>3 DEF InOrder, Orderly, Open
<1>5. ASSUME NEW i \in Id, i # j PROVE Orderly(i)'
  <2>1. Orderly(i) /\ job'[i] = job[i]
    BY <1>2, <1>5 DEF InOrder, StoreTypeOK
  <2>2. /\ i \in DOMAIN waiting => Open(i) /\ i \notin DOMAIN active
        /\ i \in DOMAIN delayed => Open(i)
    BY <2>1 DEF Orderly, Open
  <2>3. QED BY <1>1, <1>2, <1>3, <1>5, <2>1, <2>2, StillOrderly
<1>6. Orderly(j)'
  <2>1. /\ job'[j].status = "ACTIVE" /\ job'[j].data = job[j].data
        /\ job'[j].attempts = job[j].attempts /\ job'[j].maxAttempts = job[j].maxAttempts
    BY <1>2 DEF StoreTypeOK, Hash
  <2>2. job[j].data
    BY <1>4 DEF Orderly, Open, Absent
  <2>3. j \notin DOMAIN waiting' /\ j \notin DOMAIN delayed'
    BY <1>1, <1>3
  <2>4. QED BY <1>2, <1>4, <2>1, <2>2, <2>3 DEF Orderly, Open
<1>7. QED BY <1>4, <1>5, <1>6 DEF InOrder

\* A worker that was handed the job and still has it in the active hash may
\* report how it ended.
LEMMA ReportOrderly ==
    ASSUME StoreTypeOK, IsolationInv, InOrder, NEW j \in Id, NEW now \in Int,
           j \in DOMAIN active,
           Complete(j, now) \/ FailRetry(j, now) \/ FailFinal(j, now)
    PROVE  InOrder'
<1>1. /\ job[j].data /\ job[j].status = "ACTIVE" /\ j \in issued
      /\ j \notin DOMAIN waiting /\ j \notin DOMAIN delayed
      /\ j \notin DOMAIN completed /\ j \notin DOMAIN failed /\ j \notin DOMAIN cancelled
  BY DEF InOrder, Orderly, Absent
<1>2. /\ DOMAIN active' = DOMAIN active \ {j}
      /\ UNCHANGED <<delayed, cancelled, issued>>
      /\ DOMAIN waiting' \subseteq DOMAIN waiting \cup {j}
      /\ DOMAIN completed' \subseteq DOMAIN completed \cup {j}
      /\ DOMAIN failed' \subseteq DOMAIN failed \cup {j}
      /\ \A i \in Id \ {j} : job'[i] = job[i]
  BY DEF Complete, FailRetry, FailFinal, CountFailure, Put, Drop, Restrict, history,
         StoreTypeOK
<1>3. ASSUME NEW i \in Id, i # j PROVE Orderly(i)'
  <2>1. Orderly(i) /\ (i \in DOMAIN waiting => Open(i) /\ i \notin DOMAIN active)
    BY DEF InOrder, Orderly
  <2>2. QED BY <1>2, <1>3, <2>1, StillOrderly
<1>4. Orderly(j)'
  <2>1. job[j].attempts \in Nat /\ job[j].maxAttempts \in Int
    BY DEF StoreTypeOK, Hash
  <2>2. CASE Complete(j, now)
    <3>1. /\ job'[j].status = "COMPLETED" /\ job'[j].data = job[j].data
          /\ UNCHANGED <<waiting, failed>>
      BY <2>2 DEF Complete, StoreTypeOK, Hash
    <3>2. QED BY <1>1, <1>2, <3>1 DEF Orderly, Open
  <2>3. CASE FailRetry(j, now)
    <3>1. /\ job'[j].status = "WAITING" /\ job'[j].data = job[j].data
          /\ job'[j].attempts = job[j].attempts + 1
          /\ job'[j].maxAttempts = job[j].maxAttempts
          /\ job[j].attempts + 1 < job[j].maxAttempts
          /\ UNCHANGED <<completed, failed>>
      BY <2>3 DEF FailRetry, CountFailure, StoreTypeOK, Hash
    <3>2. QED BY <1>1, <1>2, <3>1 DEF Orderly, Open
  <2>4. CASE FailFinal(j, now)
    <3>1. /\ job'[j].status = "FAILED" /\ job'[j].data = job[j].data
          /\ UNCHANGED <<waiting, completed>>
      BY <2>4 DEF FailFinal, CountFailure, StoreTypeOK, Hash
    <3>2. QED BY <1>1, <1>2, <3>1 DEF Orderly, Open
  <2>5. QED BY <2>2, <2>3, <2>4
<1>5. QED BY <1>3, <1>4 DEF InOrder

\* The watchdog queues the jobs it finds stalled, and no others.
LEMMA RecoverOrderly ==
    ASSUME StoreTypeOK, InOrder, NEW now \in Int, CleanStalled(now)
    PROVE  InOrder'
<1>1. /\ DOMAIN waiting' = DOMAIN waiting \cup Stalled(now)
      /\ DOMAIN active' = DOMAIN active \ Stalled(now)
      /\ Stalled(now) \subseteq DOMAIN active
      /\ UNCHANGED <<job, delayed, completed, failed, cancelled, issued>>
  BY DEF CleanStalled, Stalled, Drop, Restrict, history
<1>2. ASSUME NEW i \in Id PROVE Orderly(i)'
  <2>1. /\ Orderly(i)
        /\ i \in DOMAIN waiting => Open(i) /\ i \notin DOMAIN active
        /\ i \in DOMAIN active => Open(i)
    BY DEF InOrder, Orderly, Open
  <2>2. QED BY <1>1, <2>1, StillOrderly
<1>3. QED BY <1>2 DEF InOrder

\* Cleanup removes settled jobs, from their list and with their hash.
LEMMA PruneOrderly ==
    ASSUME StoreTypeOK, InOrder, NEW c, NEW now \in Int,
           PruneCompleted(c, now) \/ PruneFailed(c, now) \/ PruneCancelled(c, now)
    PROVE  /\ InOrder'
           /\ \E S \in SUBSET Id :
                 /\ job' = Pruned(S) /\ UNCHANGED <<active, issued>>
                 /\ \A i \in S : job[i].status \in {"COMPLETED", "FAILED"}
<1>1. \A z, x : x \in Expired(z, c, now) => x \in DOMAIN z
  BY DEF Expired, UpTo, Lowest
<1>2. PICK S : /\ job' = Pruned(S)
               /\ \/ S \subseteq DOMAIN completed /\ completed' = Drop(completed, S)
                     /\ UNCHANGED <<failed, cancelled>>
                  \/ S \subseteq DOMAIN failed /\ failed' = Drop(failed, S)
                     /\ UNCHANGED <<completed, cancelled>>
                  \/ S \subseteq DOMAIN cancelled /\ S # {}
               /\ UNCHANGED <<waiting, delayed, active, issued>>
  BY <1>1 DEF PruneCompleted, PruneFailed, PruneCancelled, history
<1>3. ~(S \subseteq DOMAIN cancelled /\ S # {})
  BY DEF InOrder, Orderly, StoreTypeOK, IsScored
<1>4. S \subseteq Id /\ \A i \in S : job[i].status \in {"COMPLETED", "FAILED"}
  BY <1>2, <1>3 DEF InOrder, Orderly, StoreTypeOK, IsScored
<1>5. ASSUME NEW i \in Id PROVE Orderly(i)'
  <2>1. Orderly(i) /\ (i \in DOMAIN waiting => Open(i) /\ i \notin DOMAIN active)
    BY DEF InOrder, Orderly
  <2>2. /\ DOMAIN completed' \subseteq DOMAIN completed
        /\ DOMAIN failed' \subseteq DOMAIN failed
        /\ cancelled' = cancelled
    BY <1>2, <1>3 DEF Drop, Restrict
  <2>3. CASE i \notin S
    <3>1. job'[i] = job[i]
      BY <1>2, <2>3 DEF Pruned
    <3>2. QED BY <1>2, <2>1, <2>2, <3>1, StillOrderly
  <2>4. CASE i \in S
    <3>1. job'[i] = Absent
      BY <1>2, <2>4 DEF Pruned
    <3>2. /\ i \notin DOMAIN waiting /\ i \notin DOMAIN delayed /\ i \notin DOMAIN active
          /\ i \notin DOMAIN cancelled
      BY <1>4, <2>1, <2>4 DEF Orderly, Open
    <3>3. i \notin DOMAIN completed' /\ i \notin DOMAIN failed'
      BY <1>2, <1>3, <2>1, <2>4 DEF Orderly, Drop, Restrict
    <3>4. QED BY <1>2, <2>2, <3>1, <3>2, <3>3 DEF Orderly, Open, Absent
  <2>5. QED BY <2>3, <2>4
<1>6. QED BY <1>2, <1>4, <1>5 DEF InOrder

-----------------------------------------------------------------------------
(* The calm system                                                         *)

\* No worker has heard of a cancellation, or will.
Unnoticed == notices = {} /\ \A w \in Worker : cancelledJobs[w] = {}

\* What the contract needs besides the types and the custody of jobs.
CalmState == InOrder /\ Unnoticed /\ \A w \in Worker : Listed(w)

\* The job of a worker that runs it is open, in the active hash and nowhere
\* else.
LEMMA HeldIsActive ==
    ASSUME TypesInv, CalmState, NEW w \in Worker, pc[w] \in {"claimed", "running"}
    PROVE  /\ cur[w] \in JobId /\ cur[w] \in Id /\ cur[w] \in DOMAIN active
           /\ job[cur[w]].data /\ job[cur[w]].status = "ACTIVE"
  BY JobsAreIds DEF TypesInv, PoolTypeOK, CalmState, Listed, InOrder, Orderly, Absent

\* So no script that removes an orphan ever finds one.
LEMMA OrphanIsNowhere ==
    ASSUME InOrder, NEW j \in Id, HDelOrphan(j), StoreTypeOK
    PROVE  DOMAIN active' = DOMAIN active
<1>1. job[j].status = "NONE"
  BY DEF HDelOrphan, InOrder, Orderly, Absent
<1>2. j \notin DOMAIN active
  BY <1>1 DEF InOrder, Orderly
<1>3. QED BY <1>2 DEF HDelOrphan, Drop, Restrict

\* What a worker does between two awaits keeps the keys in order.
LEMMA RunOrder ==
    ASSUME Calm, CustodyInv, CalmState, NEW w \in Worker, Run(w)
    PROVE  InOrder'
<1> USE DEF CustodyInv, TypesInv, PoolTypeOK, CalmState
<1>0. clock \in Time /\ clock \in Int
  BY ClockIsTime, PoolAssumption
<1>1. CASE BeginPoll(w) \/ FindNothing(w) \/ Fetch(w) \/ EndGhost(w) \/ RecordLatency(w)
  BY <1>1 DEF BeginPoll, FindNothing, NoneReady, Fetch, EndGhost, RecordLatency,
              storeVars, history, InOrder, Orderly, Open
<1>2. ASSUME NEW j \in JobId, Claim(w, j) PROVE InOrder'
  BY <1>0, <1>2, JobsAreIds, MoveOrderly DEF Claim
<1>3. CASE RemoveOrphan(w)
  <2>1. cur[w] \in Id /\ HDelOrphan(cur[w])
    BY <1>3, JobsAreIds DEF RemoveOrphan
  <2>2. DOMAIN active' = DOMAIN active
    BY <2>1, OrphanIsNowhere
  <2>3. UNCHANGED <<job, waiting, delayed, completed, failed, cancelled, issued>>
    BY <2>1 DEF HDelOrphan, history
  <2>4. QED BY <2>2, <2>3 DEF InOrder, Orderly, Open
<1>4. CASE Succeed(w)
  BY <1>0, <1>4, HeldIsActive, ReportOrderly DEF Succeed
<1>5. CASE Fail(w)
  <2>1. pc[w] = "running"
    BY <1>5 DEF Fail, Calm
  <2>2. NextRunAt(seen[w]) \in Int
    BY NextRunIsTime, TimeIsInt
  <2>3. QED BY <1>0, <1>5, <2>1, <2>2, HeldIsActive, ReportOrderly DEF Fail
<1>6. QED BY <1>1, <1>2, <1>3, <1>4, <1>5 DEF Run

\* So does every other step.
LEMMA StepOrder ==
    ASSUME Calm, CustodyInv, CalmState, [PoolNext]_vars
    PROVE  InOrder'
<1> USE DEF CustodyInv, TypesInv, PoolTypeOK, CalmState
<1>0. clock \in Time /\ clock \in Int
  BY ClockIsTime, PoolAssumption
<1>1. CASE UNCHANGED storeVars
  BY <1>1 DEF storeVars, InOrder, Orderly, Open
<1>2. ASSUME NEW j \in JobId, NEW p \in Priority, NEW a \in Attempts,
             NEW k \in IdemKey \cup {NoKey}, NEW d \in Delay, Add(j, p, a, k, d)
      PROVE  InOrder'
  <2>1. clock + d \in Time
    BY <1>2, ClockIsTime, PoolAssumption DEF Add
  <2>2. QED BY <1>0, <1>2, <2>1, EnqueueOrderly DEF Add, Calm
<1>3. ASSUME NEW w \in Worker, Beat(w) PROVE InOrder'
  <2>1. CASE Heartbeat(cur[w], clock)
    <3>1. DOMAIN active' = DOMAIN active
      BY <2>1 DEF Heartbeat, Put
    <3>2. UNCHANGED <<job, waiting, delayed, completed, failed, cancelled, issued>>
      BY <2>1 DEF Heartbeat, history
    <3>3. QED BY <3>1, <3>2 DEF InOrder, Orderly, Open
  <2>2. QED BY <1>1, <1>3, <2>1 DEF Beat
<1>4. ASSUME NEW w \in Worker, Stop(w) \/ Exit(w) \/ Crash(w) \/ Restart(w)
      PROVE  UNCHANGED storeVars
  BY <1>4 DEF Stop, Exit, Crash, Restart, Down
<1>5. CASE Watchdog
  BY <1>0, <1>5, RecoverOrderly DEF Watchdog
<1>6. CASE CleanUp
  BY <1>0, <1>6, PruneOrderly DEF CleanUp
<1>7. ASSUME NEW j \in JobId, CancelJob(j) \/ \E w \in Worker : Notify(w, j)
      PROVE  UNCHANGED storeVars
  BY <1>7 DEF CancelJob, Notify, Calm
<1>8. CASE Tick \/ UNCHANGED vars
  BY <1>1, <1>8 DEF Tick, vars
<1>9. QED
  BY <1>1, <1>2, <1>3, <1>4, <1>5, <1>6, <1>7, <1>8, RunOrder DEF PoolNext

\* Nobody cancels, so nobody is told.
LEMMA StepUnnoticed ==
    ASSUME Calm, TypesInv, Unnoticed, [PoolNext]_vars
    PROVE  Unnoticed'
<1> USE DEF TypesInv, PoolTypeOK, Unnoticed
<1>1. ASSUME NEW w \in Worker, Run(w) PROVE Unnoticed'
  BY <1>1 DEF Run, BeginPoll, FindNothing, Claim, Fetch, RemoveOrphan, EndGhost, Succeed,
              Fail, RecordLatency, Forget
<1>2. ASSUME NEW w \in Worker, Beat(w) \/ Stop(w) \/ Exit(w) \/ Crash(w) \/ Restart(w)
      PROVE  Unnoticed'
  BY <1>2 DEF Beat, Stop, Exit, Crash, Down, Restart
<1>3. ASSUME NEW j \in JobId, NEW p \in Priority, NEW a \in Attempts,
             NEW k \in IdemKey \cup {NoKey}, NEW d \in Delay, Add(j, p, a, k, d)
      PROVE  Unnoticed'
  BY <1>3 DEF Add, poolVars, workerVars
<1>4. CASE Watchdog \/ CleanUp \/ Tick \/ UNCHANGED vars
  BY <1>4 DEF Watchdog, CleanUp, Tick, vars, poolVars, workerVars
<1>5. ASSUME NEW j \in JobId, CancelJob(j) \/ \E w \in Worker : Notify(w, j)
      PROVE  Unnoticed'
  BY <1>5 DEF CancelJob, Notify, Calm
<1>6. QED BY <1>1, <1>2, <1>3, <1>4, <1>5 DEF PoolNext

CalmInv == CustodyInv /\ (Calm => CalmState)

\* Initially every list is empty,
LEMMA InitOrder == StoreInit => InOrder
  BY NothingScored DEF StoreInit, Absent, InOrder, Orderly, Open

\* and nobody was told anything.
LEMMA InitCalm == PoolInit => CalmInv
<1> SUFFICES ASSUME PoolInit PROVE CustodyInv /\ CalmState
  BY DEF CalmInv
<1>1. CustodyInv
  BY InitCustody
<1>2. Unnoticed /\ \A w \in Worker : Listed(w)
  BY DEF PoolInit, Unnoticed, Listed
<1>3. InOrder
  BY InitOrder DEF PoolInit
<1>4. QED BY <1>1, <1>2, <1>3 DEF CalmState

\* The invariant is inductive.
LEMMA StepCalm == CalmInv /\ [PoolNext]_vars => CalmInv'
<1> SUFFICES ASSUME CalmInv, [PoolNext]_vars PROVE CalmInv'
  OBVIOUS
<1>1. CustodyInv'
  BY StepCustodyInv DEF CalmInv
<1>2. ASSUME Calm PROVE CalmState'
  <2>1. CustodyInv /\ TypesInv /\ CalmState /\ KeepsTime /\ "cancel" \notin Ops
    BY <1>2 DEF CalmInv, CustodyInv, Calm
  <2>2. InOrder'
    BY <1>2, <2>1, StepOrder
  <2>3. Unnoticed'
    BY <1>2, <2>1, StepUnnoticed DEF CalmState
  <2>4. \A v \in Worker : Listed(v)'
    BY <2>1, StepListed DEF CalmState
  <2>5. QED BY <2>2, <2>3, <2>4 DEF CalmState
<1>3. Calm' <=> Calm
  BY DEF Calm, KeepsTime
<1>4. QED BY <1>1, <1>2, <1>3 DEF CalmInv

-----------------------------------------------------------------------------
(* What the contract sees of a job                                         *)

Budget(j) == IF job[j].data THEN job[j].maxAttempts ELSE 0

\* The phase of a job, by its status and the active hash.
PhasesFit ==
    \A j \in JobId :
        /\ j \notin issued => PhaseOf(j) = "new"
        /\ j \in issued /\ ~job[j].data => PhaseOf(j) = "gone"
        /\ job[j].status = "COMPLETED" => PhaseOf(j) = "done"
        /\ job[j].status = "FAILED" => PhaseOf(j) = "dead"
        /\ Open(j) => PhaseOf(j) = IF j \in DOMAIN active THEN "running" ELSE "ready"

\* It is so while the keys are in order.
LEMMA PhaseFacts == InOrder => PhasesFit
  BY JobsAreIds DEF InOrder, Orderly, Absent, Open, PhaseOf, PhasesFit

HoldersFit ==
    \A j \in JobId : /\ \A w \in Worker : Holds(w, j) => HolderOf(j) = w
                     /\ ~Held(j) => HolderOf(j) = Nobody

\* One worker at most holds a job, so HolderOf is that one.
LEMMA HolderFacts == Custody => HoldersFit
<1> SUFFICES ASSUME Custody, NEW j \in JobId, NEW w \in Worker, Holds(w, j)
             PROVE  HolderOf(j) = w
  BY DEF HolderOf, HoldersFit
<1>1. \A v \in Worker : Holds(v, j) => v = w
  BY DEF Custody, Holds, Has
<1>2. (CHOOSE v \in Worker : Holds(v, j)) = w
  BY <1>1
<1>3. QED BY <1>2 DEF HolderOf, Held

\* Fit is what every step of a calm system starts from and ends in.
Fit == Calm /\ CalmInv /\ HoldersFit /\ PhasesFit

\* The facts hold before and after every step.
LEMMA CalmIsFit == Calm /\ CalmInv /\ [PoolNext]_vars => Fit /\ Fit'
<1>1. CalmInv /\ Calm => Fit
  BY HolderFacts, PhaseFacts DEF CalmInv, CustodyInv, CalmState, Calm, Fit
<1>2. (CalmInv /\ Calm => Fit)'
  BY <1>1, PTL
<1>3. Calm' <=> Calm
  BY DEF Calm, KeepsTime
<1>4. QED BY <1>1, <1>2, <1>3, StepCalm

\* The contract sees no change of the job.
SameView(j) ==
    /\ PhaseOf(j)' = PhaseOf(j) /\ HolderOf(j)' = HolderOf(j)
    /\ job'[j].attempts = job[j].attempts /\ Budget(j)' = Budget(j)

\* That is so when its hash and holders stay.
LEMMA ViewKept ==
    ASSUME Fit, Fit', NEW j \in JobId,
           job'[j] = job[j], j \in issued' <=> j \in issued,
           j \in DOMAIN active' <=> j \in DOMAIN active,
           \A w \in Worker : Holds(w, j)' <=> Holds(w, j)
    PROVE  SameView(j)
<1>1. PhaseOf(j)' = PhaseOf(j)
  BY DEF PhaseOf
<1>2. HolderOf(j)' = HolderOf(j)
  BY DEF Fit, HoldersFit, Held
<1>3. QED BY <1>1, <1>2 DEF Budget, SameView

\* A step that changes the view of no job is none of the contract.
LEMMA SameViews ==
    ASSUME \A j \in JobId : SameView(j) PROVE UNCHANGED Contract!contract
  BY DEF SameView, Budget, Contract!contract

-----------------------------------------------------------------------------
(* Every step of the pool is one of the contract, or none                  *)

\* An add that stores a job submits it.
LEMMA AddSubmits ==
    ASSUME Fit, Fit', NEW j \in JobId, NEW p \in Priority, NEW a \in Attempts,
           NEW k \in IdemKey \cup {NoKey}, NEW d \in Delay, Add(j, p, a, k, d)
    PROVE  Contract!Next
<1> USE DEF CalmInv, CustodyInv, TypesInv, PoolTypeOK, CalmState
<1>0. j \in Id /\ Orderly(j) /\ StoreTypeOK
  BY JobsAreIds DEF Fit, InOrder
<1>1. /\ j \notin issued /\ issued' = issued \cup {j}
      /\ job' = [job EXCEPT ![j] = NewHash(p, a)]
      /\ UNCHANGED <<active, pc, cur>>
  BY DEF Add, Enqueue, Store, poolVars, workerVars
<1>2. \A w \in Worker, i \in JobId : Holds(w, i)' <=> Holds(w, i)
  BY <1>1 DEF Holds
<1>3. \A i \in JobId \ {j} : SameView(i)
  BY <1>0, <1>1, <1>2, ViewKept, JobsAreIds DEF StoreTypeOK
<1>4. job[j] = Absent /\ job'[j] = NewHash(p, a) /\ j \notin DOMAIN active
  BY <1>0, <1>1 DEF Orderly, StoreTypeOK, Absent, Open, Fit, IsolationInv, OnlyIssuedRun
<1>5. PhaseOf(j) = "new" /\ PhaseOf(j)' = "ready"
  BY <1>1, <1>4 DEF Fit, PhasesFit, Open, NewHash
<1>6. HolderOf(j)' = HolderOf(j)
  BY <1>2 DEF Fit, HoldersFit, Held
<1>7. job'[j].attempts = job[j].attempts /\ Budget(j)' = MaxAttempts(a) /\ Budget(j) = 0
  BY <1>4 DEF Absent, NewHash, Budget
<1>8. Contract!Submit(j, MaxAttempts(a))
  BY <1>3, <1>5, <1>6, <1>7 DEF Contract!Submit, SameView, Budget
<1>9. QED BY <1>8 DEF Contract!Next

\* A poll that returns a job starts it.
LEMMA ClaimStarts ==
    ASSUME Fit, Fit', NEW w \in Worker, NEW j \in JobId, Claim(w, j)
    PROVE  Contract!Next
<1> USE DEF CalmInv, CustodyInv, TypesInv, PoolTypeOK, CalmState
<1>0. j \in Id /\ InOrder /\ InOrder' /\ StoreTypeOK /\ IsolationInv /\ clock \in Time
  BY JobsAreIds, ClockIsTime DEF Fit
<1>1. MoveToActive(j, clock)
  BY DEF Claim
<1>2. Open(j) /\ j \notin DOMAIN active
  BY <1>0, <1>1, MoveOrderly
<1>3. /\ job' = [job EXCEPT ![j].status = "ACTIVE"] /\ issued' = issued
      /\ DOMAIN active' = DOMAIN active \cup {j}
  BY <1>1 DEF MoveToActive, Put
<1>4. /\ pc[w] = "polling" /\ pc' = [pc EXCEPT ![w] = "claimed"]
      /\ cur' = [cur EXCEPT ![w] = j]
  BY DEF Claim, Goto
<1>5. /\ \A i \in JobId : ~Holds(w, i) /\ (Holds(w, i)' <=> i = j)
      /\ \A v \in Worker \ {w}, i \in JobId : Holds(v, i)' <=> Holds(v, i)
  BY <1>4 DEF Holds, Fit
<1>6. \A i \in JobId \ {j} : SameView(i)
  <2>1. SUFFICES ASSUME NEW i \in JobId, i # j PROVE SameView(i)
    OBVIOUS
  <2>2. job'[i] = job[i]
    BY <1>0, <1>3, <2>1, JobsAreIds DEF StoreTypeOK
  <2>3. \A v \in Worker : Holds(v, i)' <=> Holds(v, i)
    BY <1>5, <2>1
  <2>4. QED BY <1>3, <2>1, <2>2, <2>3, ViewKept
<1>7. /\ job'[j].status = "ACTIVE" /\ job'[j].data = job[j].data
      /\ job'[j].attempts = job[j].attempts /\ job'[j].maxAttempts = job[j].maxAttempts
  BY <1>0, <1>3 DEF StoreTypeOK, Hash
<1>8. PhaseOf(j) = "ready" /\ PhaseOf(j)' = "running"
  BY <1>2, <1>3, <1>7 DEF Fit, PhasesFit, Open
<1>9. HolderOf(j)' = w
  BY <1>5 DEF Fit, HoldersFit
<1>10. \A i \in JobId : HolderOf(i) # w
  BY <1>5, NobodyAssumption DEF Fit, HoldersFit, Held
<1>11. Contract!Start(j, w)
  BY <1>6, <1>7, <1>8, <1>9, <1>10, NobodyAssumption DEF Contract!Start, SameView, Budget
<1>12. QED BY <1>11 DEF Contract!Next

\* The job of a worker that reports is that worker's until then, and nobody's
\* afterwards; the other jobs are not touched.
LEMMA ReportEnds ==
    ASSUME Fit, Fit', NEW w \in Worker, pc[w] = "running", NEW j \in JobId, j = cur[w],
           NEW to \in {"recorded", "idle"}, Goto(w, to), cur' = cur, issued' = issued,
           active' = Drop(active, {j}),
           \A i \in Id \ {j} : job'[i] = job[i]
    PROVE  /\ \A i \in JobId \ {j} : SameView(i)
           /\ PhaseOf(j) = "running" /\ j \notin DOMAIN active'
           /\ HolderOf(j) = w /\ HolderOf(j)' = Nobody
<1> USE DEF CalmInv, CustodyInv, TypesInv, PoolTypeOK, CalmState
<1>1. j \in Id /\ j \in DOMAIN active /\ job[j].status = "ACTIVE"
  BY HeldIsActive DEF Fit
<1>2. DOMAIN active' = DOMAIN active \ {j}
  BY DEF Drop, Restrict
<1>3. /\ \A v \in Worker \ {w}, i \in JobId : Holds(v, i)' <=> Holds(v, i)
      /\ \A i \in JobId : ~Holds(w, i)' /\ (Holds(w, i) <=> i = j)
  BY DEF Holds, Goto, Fit
<1>4. \A v \in Worker \ {w} : ~Holds(v, j)
  <2>1. Custody
    BY DEF Fit, Calm
  <2>2. QED BY <2>1 DEF Custody, Holds, Has
<1>5. HolderOf(j) = w /\ HolderOf(j)' = Nobody
  <2>1. ~Held(j)'
    BY <1>1, <1>3, <1>4 DEF Held
  <2>2. HoldersFit'
    BY DEF Fit
  <2>3. QED BY <1>1, <1>3, <2>1, <2>2 DEF Fit, HoldersFit
<1>6. ASSUME NEW i \in JobId, i # j PROVE SameView(i)
  <2>1. job'[i] = job[i]
    BY <1>6, JobsAreIds
  <2>2. \A v \in Worker : Holds(v, i)' <=> Holds(v, i)
    BY <1>3, <1>6
  <2>3. QED BY <1>2, <1>6, <2>1, <2>2, ViewKept
<1>7. PhaseOf(j) = "running"
  BY <1>1 DEF Fit, PhasesFit, Open
<1>8. QED BY <1>2, <1>5, <1>6, <1>7

\* A processor that returned ends the run,
LEMMA SuccessEnds ==
    ASSUME Fit, Fit', NEW w \in Worker, Succeed(w)
    PROVE  Contract!Next
<1> USE DEF CalmInv, CustodyInv, TypesInv, PoolTypeOK, CalmState
<1>0. PICK j \in JobId : j = cur[w]
  BY DEF Fit
<1>1. pc[w] = "running" /\ Goto(w, "recorded") /\ cur' = cur /\ Complete(j, clock)
  BY <1>0 DEF Succeed
<1>2. j \in Id /\ StoreTypeOK
  BY JobsAreIds DEF Fit
<1>3. /\ job' = [job EXCEPT ![j].status = "COMPLETED"] /\ issued' = issued
      /\ active' = Drop(active, {j})
  BY <1>1 DEF Complete, history
<1>4. \A i \in Id \ {j} : job'[i] = job[i]
  BY <1>2, <1>3 DEF StoreTypeOK
<1>5. /\ \A i \in JobId \ {j} : SameView(i)
      /\ PhaseOf(j) = "running" /\ HolderOf(j) = w /\ HolderOf(j)' = Nobody
  BY <1>0, <1>1, <1>3, <1>4, ReportEnds
<1>6. /\ job'[j].status = "COMPLETED" /\ job'[j].data = job[j].data
      /\ job'[j].attempts = job[j].attempts /\ job'[j].maxAttempts = job[j].maxAttempts
  BY <1>2, <1>3 DEF StoreTypeOK, Hash
<1>7. PhaseOf(j)' = "done"
  BY <1>2, <1>6 DEF Fit, PhasesFit
<1>8. Contract!Succeed(j)
  BY <1>2, <1>5, <1>6, <1>7, NobodyAssumption DEF Contract!Succeed, Contract!End, SameView, Budget
<1>9. QED BY <1>2, <1>8 DEF Contract!Next

\* and one that threw counts it, with or without another run to come.
LEMMA FailureEnds ==
    ASSUME Fit, Fit', NEW w \in Worker, Fail(w)
    PROVE  Contract!Next
<1> USE DEF CalmInv, CustodyInv, TypesInv, PoolTypeOK, CalmState
<1>0. PICK j \in JobId : j = cur[w]
  BY DEF Fit
<1>1. /\ pc[w] = "running" /\ Goto(w, "idle") /\ cur' = cur
      /\ FailRetry(j, NextRunAt(seen[w])) \/ FailFinal(j, clock)
  BY <1>0 DEF Fail, Forget, Fit, Calm
<1>2. j \in Id /\ StoreTypeOK
  BY JobsAreIds DEF Fit
<1>3. job[j].data /\ job[j].status = "ACTIVE" /\ Orderly(j)
  BY <1>0, <1>1, <1>2, HeldIsActive DEF Fit, InOrder
<1>4. /\ active' = Drop(active, {j}) /\ issued' = issued
      /\ \A i \in Id \ {j} : job'[i] = job[i]
      /\ job'[j].data = job[j].data /\ job'[j].maxAttempts = job[j].maxAttempts
      /\ job'[j].attempts = job[j].attempts + 1
  BY <1>1, <1>2 DEF FailRetry, FailFinal, CountFailure, StoreTypeOK, Hash, history
<1>5. /\ \A i \in JobId \ {j} : SameView(i)
      /\ PhaseOf(j) = "running" /\ j \notin DOMAIN active'
      /\ HolderOf(j) = w /\ HolderOf(j)' = Nobody
  BY <1>0, <1>1, <1>4, ReportEnds
<1>6. /\ job[j].attempts \in Nat /\ job[j].maxAttempts \in Int
      /\ job[j].attempts < job[j].maxAttempts
  BY <1>2, <1>3 DEF Orderly, Open, StoreTypeOK, Hash
<1>7. ASSUME FailRetry(j, NextRunAt(seen[w])) PROVE Contract!Retry(j)
  <2>1. job'[j].status = "WAITING" /\ job[j].attempts + 1 < job[j].maxAttempts
    BY <1>2, <1>7 DEF FailRetry, CountFailure, StoreTypeOK, Hash
  <2>2. PhaseOf(j)' = "ready"
    BY <1>2, <1>5, <2>1 DEF Fit, PhasesFit, Open
  <2>3. QED
    BY <1>2, <1>3, <1>4, <1>5, <2>1, <2>2, NobodyAssumption
       DEF Contract!Retry, Contract!End, SameView, Budget
<1>8. ASSUME FailFinal(j, clock) PROVE Contract!GiveUp(j)
  <2>1. job'[j].status = "FAILED" /\ job[j].attempts + 1 = job[j].maxAttempts
    BY <1>2, <1>6, <1>8 DEF FailFinal, CountFailure, StoreTypeOK, Hash
  <2>2. PhaseOf(j)' = "dead"
    BY <1>2, <2>1 DEF Fit, PhasesFit
  <2>3. QED
    BY <1>2, <1>3, <1>4, <1>5, <2>1, <2>2, NobodyAssumption
       DEF Contract!GiveUp, Contract!End, SameView, Budget
<1>9. QED BY <1>1, <1>2, <1>7, <1>8 DEF Contract!Next

\* A process that ends abandons the job it runs.
LEMMA EndAbandons ==
    ASSUME Fit, Fit', NEW w \in Worker, Exit(w) \/ Crash(w)
    PROVE  Contract!Next \/ UNCHANGED Contract!contract
<1> USE DEF CalmInv, CustodyInv, TypesInv, PoolTypeOK, CalmState
<1>0. PICK j \in JobId : j = cur[w]
  BY DEF Fit
<1>1. /\ Goto(w, "down") /\ cur' = cur /\ UNCHANGED <<job, active, issued>>
  BY DEF Exit, Crash, Down, storeVars, history
<1>2. /\ \A v \in Worker \ {w}, i \in JobId : Holds(v, i)' <=> Holds(v, i)
      /\ \A i \in JobId : ~Holds(w, i)' /\ (Holds(w, i) => i = j)
  BY <1>0, <1>1 DEF Holds, Goto, Fit
<1>3. \A i \in JobId : ~Holds(w, i) => SameView(i)
  <2>1. SUFFICES ASSUME NEW i \in JobId, ~Holds(w, i) PROVE SameView(i)
    OBVIOUS
  <2>2. \A v \in Worker : Holds(v, i)' <=> Holds(v, i)
    BY <1>2, <2>1
  <2>3. QED BY <1>1, <2>1, <2>2, ViewKept
<1>4. CASE ~Holds(w, j)
  BY <1>2, <1>3, <1>4, SameViews
<1>5. CASE Holds(w, j)
  <2>1. \A v \in Worker \ {w} : ~Holds(v, j)
    <3>1. Custody
      BY DEF Fit, Calm
    <3>2. QED BY <1>5, <3>1 DEF Custody, Holds, Has
  <2>2. ~Held(j)'
    BY <1>2, <2>1 DEF Held
  <2>3. HolderOf(j) = w /\ HolderOf(j)' = Nobody
    <3>1. HoldersFit'
      BY DEF Fit
    <3>2. QED BY <1>5, <2>2, <3>1 DEF Fit, HoldersFit
  <2>4. PhaseOf(j)' = PhaseOf(j) /\ Budget(j)' = Budget(j)
    BY <1>1 DEF PhaseOf, Budget
  <2>5. \A i \in JobId \ {j} : SameView(i)
    BY <1>2, <1>3
  <2>6. Contract!Abandon(j)
    BY <1>1, <2>3, <2>4, <2>5, NobodyAssumption DEF Contract!Abandon, SameView, Budget
  <2>7. QED BY <2>6 DEF Contract!Next
<1>6. QED BY <1>4, <1>5

\* The watchdog recovers jobs that run without anybody, and no others.
LEMMA WatchdogRecovers ==
    ASSUME Fit, Fit', Watchdog
    PROVE  Contract!Next
<1> USE DEF CalmInv, CustodyInv, TypesInv, PoolTypeOK, CalmState
<1>1. PICK S : S = Stalled(clock)
  OBVIOUS
<1>2. /\ S \subseteq DOMAIN active /\ DOMAIN active' = DOMAIN active \ S
      /\ UNCHANGED <<job, issued, pc, cur>>
  BY <1>1 DEF Watchdog, CleanStalled, Stalled, Drop, Restrict, history, poolVars, workerVars
<1>3. S \subseteq JobId
  BY <1>2 DEF Fit, IsolationInv, OnlyIssuedRun, StoreTypeOK
<1>4. \A w \in Worker, i \in JobId : Holds(w, i)' <=> Holds(w, i)
  BY <1>2 DEF Holds
<1>5. \A i \in JobId \ S : SameView(i)
  BY <1>2, <1>4, ViewKept
<1>6. ASSUME NEW i \in S
      PROVE  /\ PhaseOf(i) = "running" /\ PhaseOf(i)' = "ready"
             /\ HolderOf(i) = Nobody /\ HolderOf(i)' = Nobody
             /\ Budget(i)' = Budget(i)
  <2>1. i \in JobId /\ i \in Id /\ i \in DOMAIN active /\ i \notin DOMAIN active'
    BY <1>2, <1>3, JobsAreIds
  <2>2. job[i].status = "ACTIVE" /\ job'[i].status = "ACTIVE"
    BY <1>2, <2>1 DEF Fit, InOrder, Orderly
  <2>3. PhaseOf(i) = "running" /\ PhaseOf(i)' = "ready"
    BY <2>1, <2>2 DEF Fit, PhasesFit, Open
  <2>4. ~Held(i)
    <3>1. SUFFICES ASSUME NEW w \in Worker, Holds(w, i) PROVE FALSE
      BY DEF Held
    <3>2. Has(w) /\ cur[w] = i
      BY <3>1 DEF Holds, Has
    <3>3. cur[w] \notin Stalled(clock)
      BY <3>2, NotStalled DEF Fit, Calm
    <3>4. QED BY <1>1, <3>2, <3>3
  <2>5. ~Held(i)'
    BY <1>4, <2>1, <2>4 DEF Held
  <2>6. HoldersFit'
    BY DEF Fit
  <2>7. HolderOf(i) = Nobody /\ HolderOf(i)' = Nobody
    BY <2>1, <2>4, <2>5, <2>6 DEF Fit, HoldersFit
  <2>8. QED BY <1>2, <2>3, <2>7 DEF Budget
<1>7. Contract!Recover(S)
  BY <1>2, <1>3, <1>5, <1>6 DEF Contract!Recover, SameView, Budget
<1>8. QED BY <1>3, <1>7 DEF Contract!Next

\* Cleanup removes jobs that are settled.
LEMMA CleanUpRemoves ==
    ASSUME Fit, Fit', CleanUp
    PROVE  Contract!Next
<1> USE DEF CalmInv, CustodyInv, TypesInv, PoolTypeOK, CalmState
<1>0. StoreTypeOK /\ InOrder /\ clock \in Int
  BY PoolAssumption DEF Fit
<1>1. PICK S \in SUBSET Id :
         /\ job' = Pruned(S) /\ UNCHANGED <<active, issued>>
         /\ \A i \in S : job[i].status \in {"COMPLETED", "FAILED"}
  BY <1>0, PruneOrderly DEF CleanUp
<1>2. S \subseteq JobId /\ S \subseteq issued
  BY <1>0, <1>1 DEF InOrder, Orderly, Absent, StoreTypeOK
<1>3. \A w \in Worker, i \in JobId : Holds(w, i)' <=> Holds(w, i)
  BY DEF Holds, CleanUp, poolVars, workerVars
<1>4. \A i \in JobId : HolderOf(i)' = HolderOf(i)
  BY <1>3 DEF Fit, HoldersFit, Held
<1>5. ASSUME NEW i \in JobId \ S PROVE SameView(i)
  <2>1. job'[i] = job[i]
    BY <1>1, <1>5, JobsAreIds DEF Pruned
  <2>2. QED BY <1>1, <1>3, <2>1, ViewKept
<1>6. ASSUME NEW i \in S
      PROVE  /\ PhaseOf(i) \in {"done", "dead"} /\ PhaseOf(i)' = "gone"
             /\ job'[i].attempts = 0 /\ Budget(i)' = 0
  <2>1. i \in JobId /\ job'[i] = Absent /\ i \in issued'
    BY <1>1, <1>2 DEF Pruned
  <2>2. QED BY <1>1, <2>1 DEF Fit, PhasesFit, Absent, Budget
<1>7. Contract!Remove(S)
  BY <1>2, <1>4, <1>5, <1>6 DEF Contract!Remove, SameView, Budget
<1>8. QED BY <1>2, <1>7 DEF Contract!Next

\* The other steps change nothing the contract speaks of.
LEMMA OthersAreSilent ==
    ASSUME Fit, Fit',
           \/ UNCHANGED vars \/ Tick
           \/ \E j \in JobId : CancelJob(j) \/ \E v \in Worker : Notify(v, j)
           \/ \E w \in Worker :
                 \/ BeginPoll(w) \/ FindNothing(w) \/ Fetch(w) \/ RemoveOrphan(w)
                 \/ EndGhost(w) \/ RecordLatency(w)
                 \/ Beat(w) \/ Stop(w) \/ Restart(w)
    PROVE  UNCHANGED Contract!contract
<1> USE DEF CalmInv, CustodyInv, TypesInv, PoolTypeOK, CalmState
<1>1. SUFFICES ASSUME NEW j \in JobId PROVE SameView(j)
  BY SameViews
<1>2. ASSUME UNCHANGED <<job, issued, pc, cur>>, DOMAIN active' = DOMAIN active
      PROVE  SameView(j)
  BY <1>2, ViewKept DEF Holds
<1>3. CASE \/ UNCHANGED vars \/ Tick
           \/ \E i \in JobId : CancelJob(i) \/ \E v \in Worker : Notify(v, i)
           \/ \E w \in Worker : Stop(w)
  <2>1. UNCHANGED <<job, issued, active, pc, cur>>
    BY <1>3 DEF vars, poolVars, workerVars, storeVars, Tick, CancelJob, Notify, Stop,
                Fit, Calm
  <2>2. QED BY <1>2, <2>1
<1>4. ASSUME NEW w \in Worker, Beat(w) PROVE SameView(j)
  <2>1. UNCHANGED <<job, issued, pc, cur>> /\ DOMAIN active' = DOMAIN active
    BY <1>4 DEF Beat, Heartbeat, Put, storeVars, history
  <2>2. QED BY <1>2, <2>1
<1>5. ASSUME NEW w \in Worker, UNCHANGED <<job, issued, cur>>,
             DOMAIN active' = DOMAIN active,
             NEW to, pc' = [pc EXCEPT ![w] = to],
             to \in {"claimed", "running"} <=> pc[w] \in {"claimed", "running"}
      PROVE  SameView(j)
  <2>1. \A v \in Worker : Holds(v, j)' <=> Holds(v, j)
    BY <1>5 DEF Holds, Fit
  <2>2. QED BY <1>5, <2>1, ViewKept
<1>6. ASSUME NEW w \in Worker,
             \/ BeginPoll(w) \/ FindNothing(w) \/ EndGhost(w) \/ RecordLatency(w)
             \/ Restart(w)
      PROVE  SameView(j)
  <2>1. /\ UNCHANGED <<job, issued, active, cur>> /\ pc[w] \notin {"claimed", "running"}
        /\ \/ pc' = [pc EXCEPT ![w] = "idle"]
           \/ pc' = [pc EXCEPT ![w] = "polling"]
    BY <1>6 DEF BeginPoll, FindNothing, NoneReady, EndGhost, RecordLatency, Restart, Forget,
                Goto, storeVars, history
  <2>2. QED BY <1>5, <2>1
<1>7. ASSUME NEW w \in Worker, RemoveOrphan(w) PROVE SameView(j)
  <2>1. cur[w] \in Id /\ HDelOrphan(cur[w]) /\ InOrder /\ StoreTypeOK
    BY <1>7, JobsAreIds DEF RemoveOrphan, Fit
  <2>2. DOMAIN active' = DOMAIN active /\ UNCHANGED <<job, issued>>
    BY <2>1, OrphanIsNowhere DEF HDelOrphan, history
  <2>3. QED BY <1>5, <1>7, <2>2 DEF RemoveOrphan, Goto
<1>8. ASSUME NEW w \in Worker, Fetch(w) PROVE SameView(j)
  <2>1. pc[w] = "claimed"
    BY <1>8 DEF Fetch
  <2>2. /\ job[cur[w]].status # "NONE" /\ job[cur[w]].data
        /\ cur[w] \notin cancelledJobs[w]
    BY <2>1, HeldIsActive DEF Fit, Unnoticed
  <2>3. UNCHANGED <<job, issued, active, cur>> /\ pc' = [pc EXCEPT ![w] = "running"]
    BY <1>8, <2>2 DEF Fetch, Goto, storeVars, history
  <2>4. QED BY <1>5, <2>1, <2>3
<1>9. QED BY <1>3, <1>4, <1>6, <1>7, <1>8

\* Every step of a calm system is a step of the contract, or none.
LEMMA StepContract ==
    ASSUME Calm, CalmInv, [PoolNext]_vars
    PROVE  [Contract!Next]_Contract!contract
<1>1. Fit /\ Fit'
  BY CalmIsFit
<1>2. ASSUME NEW w \in Worker, Run(w) PROVE [Contract!Next]_Contract!contract
  BY <1>1, <1>2, OthersAreSilent, ClaimStarts, SuccessEnds, FailureEnds DEF Run
<1>3. ASSUME NEW w \in Worker, Beat(w) \/ Stop(w) \/ Exit(w) \/ Crash(w) \/ Restart(w)
      PROVE  [Contract!Next]_Contract!contract
  BY <1>1, <1>3, OthersAreSilent, EndAbandons
<1>4. CASE \E j \in JobId, p \in Priority, a \in Attempts, k \in IdemKey \cup {NoKey},
              d \in Delay : Add(j, p, a, k, d)
  BY <1>1, <1>4, AddSubmits
<1>5. CASE \/ UNCHANGED vars \/ Tick
           \/ \E j \in JobId : CancelJob(j) \/ \E v \in Worker : Notify(v, j)
  BY <1>1, <1>5, OthersAreSilent
<1>6. CASE Watchdog \/ CleanUp
  BY <1>1, <1>6, WatchdogRecovers, CleanUpRemoves
<1>7. QED BY <1>2, <1>3, <1>4, <1>5, <1>6 DEF PoolNext

\* Initially there is no job.
LEMMA InitContract == PoolInit => Contract!Init
<1> SUFFICES ASSUME PoolInit PROVE Contract!Init
  OBVIOUS
<1>1. \A j \in JobId : j \in Id /\ job[j] = Absent /\ j \notin issued
  BY JobsAreIds DEF PoolInit, StoreInit
<1>2. \A j \in JobId : PhaseOf(j) = "new" /\ HolderOf(j) = Nobody
  <2>1. InOrder
    BY InitOrder DEF PoolInit
  <2>2. \A j \in JobId : ~Held(j)
    BY DEF Held, Holds, PoolInit
  <2>3. QED BY <1>1, <2>1, <2>2, PhaseFacts DEF PhasesFit, HolderOf
<1>3. QED BY <1>1, <1>2 DEF Contract!Init, Absent

\* In a system whose timers fire in time, in which nobody cancels and nothing
\* fails after complete, any number of workers that crash, drain and restart
\* keep the contract of every job: one worker at a time runs it, only the job
\* of a worker that ended is run again, every failed run counts, and a job that
\* completed or failed for good is never run again.
THEOREM ContractIsKept ==
    ASSUME Calm PROVE PoolSpec => KeepsContract
<1>1. CalmInv /\ [PoolNext]_vars => [Contract!Next]_Contract!contract
  BY StepContract
<1>2. QED
  BY <1>1, InitCalm, StepCalm, InitContract, PTL DEF PoolSpec, KeepsContract, Contract!Spec

-----------------------------------------------------------------------------
(* A job is in one place                                                   *)

\* complete.lua takes no id off the list while the system is younger than the
\* retention: every score on it is a time since the start.
CompletedKept ==
    \A j \in Id : /\ job[j].status = "COMPLETED" => j \in DOMAIN completed
                  /\ j \in DOMAIN completed => completed[j] >= Epoch

\* The hash and the list of a job no script touches.
LEMMA StillKept ==
    ASSUME CompletedKept, NEW i \in Id, job'[i].status = "COMPLETED" => job'[i] = job[i],
           i \in DOMAIN completed' <=> i \in DOMAIN completed,
           i \in DOMAIN completed => completed'[i] = completed[i]
    PROVE  /\ job'[i].status = "COMPLETED" => i \in DOMAIN completed'
           /\ i \in DOMAIN completed' => completed'[i] >= Epoch
  BY DEF CompletedKept

\* A completed job is listed with the time, which is not yet old enough.
LEMMA CompleteKept ==
    ASSUME StoreTypeOK, CompletedKept, MaxTime < Epoch + Retention,
           clock \in Epoch .. MaxTime, NEW j \in Id, Complete(j, clock)
    PROVE  CompletedKept'
<1>1. PICK listed : listed = Put(completed, j, clock)
  OBVIOUS
<1>2. /\ DOMAIN listed = DOMAIN completed \cup {j} /\ listed[j] = clock
      /\ \A i \in DOMAIN completed : i # j => listed[i] = completed[i]
  BY <1>1 DEF Put
<1>3. \A i \in DOMAIN listed : i \in Id /\ listed[i] \in Int /\ listed[i] >= Epoch
  BY <1>2, PoolAssumption DEF CompletedKept, StoreTypeOK, IsScored
<1>4. UpTo(listed, clock - Retention) = {}
  BY <1>3, PoolAssumption, NumberAssumption DEF UpTo
<1>5. completed' = Drop(listed, {})
  BY <1>1, <1>4 DEF Complete
<1>6. DOMAIN completed' = DOMAIN listed /\ \A i \in DOMAIN listed : completed'[i] = listed[i]
  BY <1>5 DEF Drop, Restrict
<1>7. \A i \in Id \ {j} : job'[i] = job[i]
  BY DEF Complete, StoreTypeOK
<1>8. QED BY <1>2, <1>3, <1>6, <1>7 DEF CompletedKept

\* Cleanup takes an id off the list with the job's hash.
LEMMA PruneKept ==
    ASSUME StoreTypeOK, InOrder, CompletedKept, NEW c, NEW now \in Int,
           PruneCompleted(c, now) \/ PruneFailed(c, now) \/ PruneCancelled(c, now)
    PROVE  CompletedKept'
<1>1. PICK S : /\ job' = Pruned(S)
               /\ completed' = Drop(completed, S) \/ completed' = completed
  BY DEF PruneCompleted, PruneFailed, PruneCancelled
<1>2. \A i \in Id : job'[i].status = "COMPLETED" => i \notin S /\ job'[i] = job[i]
  BY <1>1 DEF Pruned, Absent
<1>3. /\ DOMAIN completed' \subseteq DOMAIN completed
      /\ \A i \in DOMAIN completed' : completed'[i] = completed[i]
      /\ \A i \in DOMAIN completed : i \notin S => i \in DOMAIN completed'
  BY <1>1 DEF Drop, Restrict
<1>4. QED BY <1>2, <1>3 DEF CompletedKept

\* No other script writes COMPLETED or changes the list.
LEMMA StepCompletedKept ==
    ASSUME Calm, CustodyInv, CalmState, CompletedKept, MaxTime < Epoch + Retention,
           [PoolNext]_vars
    PROVE  CompletedKept'
<1> USE DEF CustodyInv, TypesInv, PoolTypeOK, CalmState
<1>0. clock \in Int
  BY PoolAssumption
<1>1. ASSUME completed' = completed,
             \A i \in Id : job'[i].status = "COMPLETED" => job'[i] = job[i]
      PROVE  CompletedKept'
  BY <1>1 DEF CompletedKept
<1>2. ASSUME NEW j \in JobId, NEW p \in Priority, NEW a \in Attempts,
             NEW k \in IdemKey \cup {NoKey}, NEW d \in Delay, Add(j, p, a, k, d)
      PROVE  CompletedKept'
  BY <1>1, <1>2, JobsAreIds DEF Add, Enqueue, Store, NewHash, StoreTypeOK
<1>3. ASSUME NEW w \in Worker, NEW j \in JobId, Claim(w, j) PROVE CompletedKept'
  BY <1>1, <1>3, JobsAreIds DEF Claim, MoveToActive, StoreTypeOK, Hash
<1>4. ASSUME NEW w \in Worker, Succeed(w) PROVE CompletedKept'
  BY <1>4, CompleteKept, JobsAreIds DEF Succeed
<1>5. ASSUME NEW w \in Worker, Fail(w) PROVE CompletedKept'
  BY <1>1, <1>5, JobsAreIds DEF Fail, FailRetry, FailFinal, CountFailure, StoreTypeOK, Hash
<1>6. ASSUME NEW w \in Worker,
             \/ BeginPoll(w) \/ FindNothing(w) \/ Fetch(w) \/ RemoveOrphan(w)
             \/ EndGhost(w) \/ RecordLatency(w)
             \/ Beat(w) \/ Stop(w) \/ Exit(w) \/ Crash(w) \/ Restart(w)
      PROVE  UNCHANGED <<job, completed>>
  BY <1>6 DEF BeginPoll, FindNothing, NoneReady, Fetch, RemoveOrphan, HDelOrphan, EndGhost,
              RecordLatency, Beat, Heartbeat, Stop, Exit, Crash, Down, Restart, storeVars
<1>7. CASE Watchdog \/ Tick \/ UNCHANGED vars
  BY <1>1, <1>7 DEF Watchdog, CleanStalled, Tick, vars, storeVars
<1>8. CASE CleanUp
  BY <1>0, <1>8, PruneKept DEF CleanUp
<1>9. ASSUME NEW j \in JobId, CancelJob(j) \/ \E w \in Worker : Notify(w, j)
      PROVE  UNCHANGED <<job, completed>>
  BY <1>9 DEF CancelJob, Notify, storeVars, Calm
<1>10. QED
  BY <1>1, <1>2, <1>3, <1>4, <1>5, <1>6, <1>7, <1>8, <1>9 DEF PoolNext, Run

\* A job whose lists say what its status says is on one of them.
LEMMA ListsAreExclusive ==
    ASSUME StoreTypeOK, IsolationInv, InOrder, NoJobLost, CompletedKept PROVE OnePlace
<1>1. SUFFICES
        ASSUME NEW j \in issued, job[j].data
        PROVE  \E n \in 1 .. 6 : \A m \in 1 .. 6 :
                  j \in DOMAIN <<waiting, delayed, active, completed, failed, cancelled>>[m]
                      <=> m = n
  BY DEF OnePlace
<1>2. j \in Id /\ job[j].status \in Status
  BY JobsAreIds DEF StoreTypeOK, Hash
<1>3. Findable(j) /\ Orderly(j)
  BY <1>1, <1>2 DEF NoJobLost, InOrder
<1>4. job[j].status = "COMPLETED" => j \in DOMAIN completed
  BY <1>2 DEF CompletedKept
<1>5. ~(j \in DOMAIN delayed /\ (j \in DOMAIN waiting \/ j \in DOMAIN active))
  BY DEF IsolationInv, DelayedIsolated
<1>6. job[j].status # "NONE"
  BY <1>1, <1>3 DEF Orderly
<1>7. QED
  BY <1>2, <1>3, <1>4, <1>5, <1>6 DEF Findable, Orderly, Open, Status

\* In a calm system, for as long as its first completed job is younger than the
\* 24 h that complete.lua keeps it listed, every job is in exactly one of the
\* six sets whose sizes getMetrics returns (src/src/Queue.ts:113), whatever
\* crashes, drains, recoveries and cleanups any number of processes go through.
THEOREM EveryJobHasOnePlace ==
    ASSUME Calm, MaxTime < Epoch + Retention PROVE PoolSpec => []OnePlace
<1> DEFINE Inv == CalmInv /\ NoJobLost /\ CompletedKept
<1>1. PoolInit => Inv
  <2>1. PoolInit => CompletedKept
    BY NothingScored DEF PoolInit, StoreInit, Absent, CompletedKept
  <2>2. QED BY <2>1, InitCalm, InitNoJobLost DEF PoolInit
<1>2. Inv /\ [PoolNext]_vars => Inv'
  <2>1. SUFFICES ASSUME Inv, [PoolNext]_vars PROVE Inv'
    OBVIOUS
  <2>2. CustodyInv /\ TypesInv /\ PoolTypeOK /\ StoreTypeOK /\ CalmState
    BY <2>1 DEF CalmInv, CustodyInv, TypesInv, PoolTypeOK
  <2>3. NoJobLost'
    BY <2>1, <2>2, StepUsesScripts, StepNoJobLost
  <2>4. CompletedKept'
    BY <2>1, <2>2, StepCompletedKept
  <2>5. QED BY <2>1, <2>3, <2>4, StepCalm
<1>3. Inv => OnePlace
  BY ListsAreExclusive DEF CalmInv, CustodyInv, TypesInv, PoolTypeOK, CalmState
<1> HIDE DEF Inv
<1>4. QED BY <1>1, <1>2, <1>3, PTL DEF PoolSpec

=============================================================================
