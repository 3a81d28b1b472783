-------------------------- MODULE PoolRequirements --------------------------
(***************************************************************************)
(* What WorkerPool must guarantee: invariants, the contract of a job and   *)
(* of the scripts, and progress.  Each says under which circumstances it   *)
(* is meant to hold; the runs choose the constants accordingly.            *)
(***************************************************************************)
EXTENDS WorkerPool

CONSTANT Nobody     \* no worker

ASSUME NobodyAssumption == Nobody \notin Worker

\* The worker was handed the job and has not yet reported how it ended.
Holds(w, j) == pc[w] \in {"claimed", "running"} /\ cur[w] = j

Held(j) == \E w \in Worker : Holds(w, j)

\* Every variable of the pool has a value of its type.
PoolTypeOK ==
    /\ StoreTypeOK
    /\ clock \in Epoch .. MaxTime
    /\ pc \in [Worker -> PC]
    /\ cur \in [Worker -> JobId]
    /\ seen \in [Worker -> 0 .. MaxFails]
    /\ timer \in [Worker -> 0 .. HeartbeatInterval]
    /\ stopAt \in [Worker -> {Never} \cup Epoch .. MaxTime]
    /\ cancelledJobs \in [Worker -> SUBSET JobId]
    /\ notices \subseteq Worker \X JobId
    /\ deaths \in 0 .. MaxDeaths

\* A timely system without cancellation: a job that exists is in exactly one
\* of the six sets the API counts (getMetrics, src/src/Queue.ts:113), so the
\* counts of the dashboard add up to the jobs.
OnePlace ==
    LET Counted == <<waiting, delayed, active, completed, failed, cancelled>>
    IN  \A j \in issued : job[j].data =>
            \E n \in 1 .. 6 : \A m \in 1 .. 6 : j \in DOMAIN Counted[m] <=> m = n

\* A timely system without cancellation: the watchdog never takes a job from
\* a process that lives, drains or waits for redis, because a heartbeat and a
\* drain fit in the stall timeout (15 s and 30 s in 60 s; the heartbeat timer
\* stops while stop() still waits for the job, src/src/Worker.ts:116).
LiveJobsKept == \A w \in Worker, j \in JobId : Holds(w, j) => j \in DOMAIN active

\* A timely system, whatever is cancelled, cleaned up or fails after complete:
\* no two workers run one job at the same time.
OneRunner ==
    \A v, w \in Worker :
        pc[v] = "running" /\ pc[w] = "running" /\ cur[v] = cur[w] => v = w

-----------------------------------------------------------------------------
(* The contract of a job.  A job the watchdog recovered keeps the status   *)
(* ACTIVE until it is claimed again, so its phase comes from where it is.  *)

PhaseOf(j) ==
    CASE j \notin issued                                        -> "new"
      [] j \in issued /\ ~job[j].data                           -> "gone"
      [] job[j].data /\ job[j].status = "COMPLETED"             -> "done"
      [] job[j].data /\ job[j].status = "FAILED"                -> "dead"
      [] job[j].data /\ job[j].status \in {"WAITING", "ACTIVE"} ->
            IF j \in DOMAIN active THEN "running" ELSE "ready"
      [] OTHER                                                  -> "cancelled"

HolderOf(j) == IF Held(j) THEN CHOOSE w \in Worker : Holds(w, j) ELSE Nobody

Contract == INSTANCE JobContract WITH
    Job     <- JobId,
    Runner  <- Worker,
    Budgets <- {MaxAttempts(a) : a \in Attempts},
    phase   <- [j \in JobId |-> PhaseOf(j)],
    holder  <- [j \in JobId |-> HolderOf(j)],
    tries   <- [j \in JobId |-> job[j].attempts],
    budget  <- [j \in JobId |-> IF job[j].data THEN job[j].maxAttempts ELSE 0]

\* A timely system without cancellation and without errors after complete
\* keeps the contract: no two workers run a job, only the job of a dead
\* worker is run again, attempts count failed runs and end at maxAttempts,
\* and what completed or failed for good is never run again.
KeepsContract == Contract!Spec

-----------------------------------------------------------------------------
\* Nothing refers to the job any more: it is queued nowhere and run nowhere.
OutOfReach(j) ==
    j \notin DOMAIN waiting \cup DOMAIN delayed \cup DOMAIN active /\ ~Held(j)

Settled(j) == job[j].status \in {"COMPLETED", "FAILED", "NONE"} /\ OutOfReach(j)

\* A timely system without cancellation whose processes go on: every job an
\* add stored ends as completed or failed, perhaps to be cleaned up later, and
\* is never queued or run again, although workers crash and drain, because
\* the watchdog recovers what they leave behind.
EventuallySettled == \A j \in JobId : j \in issued ~> []Settled(j)
=============================================================================
