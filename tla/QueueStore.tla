----------------------------- MODULE QueueStore -----------------------------
(***************************************************************************)
(* The Redis keys of one queue and the scripts that change them: one       *)
(* action for each outcome of each script of src/src/lua.                  *)
(*                                                                         *)
(* The scripts trust their callers.  No script checks which worker calls   *)
(* it, and each one is given the time its caller read earlier.  So here a  *)
(* script may run in every order and with every time in Time, and complete *)
(* and fail may be called for every job that some worker has ever been     *)
(* handed, late and twice included.  Modules that describe real callers    *)
(* (WorkerPool) implement this one; what holds here holds for all of them. *)
(***************************************************************************)
EXTENDS RedisData

CONSTANTS
    JobId,          \* the ids generateJobId can return, ordered as Redis orders them
    StrayId,        \* ids no add ever returned, which callers of cancel may send
    IdemKey,        \* the idempotency keys producers use
    NoKey,          \* an add without options.idempotencyKey
    Time,           \* what Date.now() can be at a caller, and the runAt it computes
    Priority,       \* the options.priority of the producers
    Attempts,       \* the options.attempts of the producers, 0 when there is none
    LimitMax,       \* rateLimit.max, 0 when the workers have no limit
    LimitDuration,  \* rateLimit.durationMs
    StallTimeout,   \* stallTimeout of startWatchdog
    Retention,      \* the 24 h complete.lua keeps completed jobs listed
    Cleanup,        \* the [maxAge, maxCount] options of runCleanup
    MaxFails        \* bound: fail is not called for a job with that many attempts

Id == JobId \cup StrayId

ASSUME IdAssumption ==
    /\ JobId \subseteq Nat
    /\ StrayId \subseteq Nat
    /\ JobId \cap StrayId = {}
    /\ IsFiniteSet(Id)
    /\ NoKey \notin IdemKey

ASSUME NumberAssumption ==
    /\ Time \subseteq Nat
    /\ Attempts \subseteq Int
    /\ {LimitMax, LimitDuration, StallTimeout, Retention, MaxFails} \subseteq Nat
    /\ Cleanup \subseteq [maxAge : Nat, maxCount : Nat]

VARIABLES
    job,        \* the hash of each job, Absent when there is none
    waiting,    \* sorted set: priority scores, and timestamps of retried jobs
    delayed,    \* sorted set: the time each delayed job becomes ready
    active,     \* hash: the last heartbeat of each running job
    completed,  \* sorted set: when each listed job was completed
    failed,     \* sorted set: when each listed job failed for good
    cancelled,  \* sorted set: when each listed job was cancelled
    idem,       \* the live idempotency keys, with the job each stands for
    limiter,    \* sorted set: when each recently started job was started
    issued,     \* history: the ids add has generated for stored jobs
    handed      \* history: the ids moveToActive has returned to some worker

history == <<issued, handed>>
storeVars == <<job, waiting, delayed, active, completed, failed, cancelled,
               idem, limiter, issued, handed>>

Status == {"NONE", "WAITING", "ACTIVE", "COMPLETED", "FAILED", "CANCELLED"}

\* What the scripts read of a job's hash.  "data" holds the serialised job:
\* only enqueue writes it, so it is missing from a hash that another script
\* created for an id whose hash did not exist.
Hash == [status : Status, attempts : Nat, maxAttempts : Int,
         priority : Int, data : BOOLEAN]

\* No hash, with the values the scripts use where a field is missing.
Absent == [status |-> "NONE", attempts |-> 0, maxAttempts |-> 1,
           priority |-> 5, data |-> FALSE]

StoreInit ==
    /\ job = [j \in Id |-> Absent]
    /\ waiting = Nothing /\ delayed = Nothing /\ active = Nothing
    /\ completed = Nothing /\ failed = Nothing /\ cancelled = Nothing
    /\ idem = Nothing /\ limiter = Nothing
    /\ issued = {} /\ handed = {}

-----------------------------------------------------------------------------
(* enqueue.lua                                                             *)

\* priorityMap, with the normal score for every other name.
PriorityScore(p) == IF p = "high" THEN 1 ELSE IF p = "low" THEN 10 ELSE 5

\* createJob: options.attempts || 3.
MaxAttempts(a) == IF a = 0 THEN 3 ELSE a

NewHash(p, a) == [status |-> "WAITING", attempts |-> 0, maxAttempts |-> MaxAttempts(a),
                  priority |-> PriorityScore(p), data |-> TRUE]

\* The part of enqueue both routes share: the key is taken, the hash written.
Store(j, p, a, k) ==
    /\ j \in JobId \ issued
    /\ k \notin DOMAIN idem
    /\ idem' = IF k = NoKey THEN idem ELSE Put(idem, k, j)
    /\ job' = [job EXCEPT ![j] = NewHash(p, a)]
    /\ issued' = issued \cup {j}

Enqueue(j, p, a, k, runAt, now) ==
    /\ Store(j, p, a, k)
    /\ IF runAt > now
         THEN delayed' = Put(delayed, j, runAt) /\ UNCHANGED waiting
         ELSE waiting' = Put(waiting, j, PriorityScore(p)) /\ UNCHANGED delayed
    /\ UNCHANGED <<active, completed, failed, cancelled, limiter, handed>>

\* EX 86400: a key expires on its own.
IdemExpire(k) ==
    /\ k \in DOMAIN idem
    /\ idem' = Drop(idem, {k})
    /\ UNCHANGED <<job, waiting, delayed, active, completed, failed, cancelled,
                   limiter, history>>

-----------------------------------------------------------------------------
(* moveToActive.lua                                                        *)

Limited == LimitMax > 0

\* The limiter once the entries that left the window are removed.
Window(now) ==
    IF Limited THEN Drop(limiter, UpTo(limiter, now - LimitDuration)) ELSE limiter

\* Mutant of AtLimit: one job too many.
AtLimitLate(now) == Limited /\ Cardinality(DOMAIN Window(now)) > LimitMax

AtLimit(now) == Limited /\ Cardinality(DOMAIN Window(now)) >= LimitMax

\* The waiting set once the delayed jobs that are due have joined it.
Promoted(now) ==
    LET due == UpTo(delayed, now)
    IN  [j \in DOMAIN waiting \cup due |->
            IF j \in due THEN job[j].priority ELSE waiting[j]]

\* Returns "RATE_LIMIT", or nil when no job is ready.
NoneReady(now) ==
    /\ ~AtLimit(now) => DOMAIN Promoted(now) = {}
    /\ limiter' = Window(now)
    /\ UNCHANGED <<job, waiting, delayed, active, completed, failed, cancelled,
                   idem, history>>

\* Mutant of MoveToActive: a promoted job stays in the delayed set.
MoveToActiveTwice(j, now) ==
    /\ ~AtLimit(now)
    /\ IsFirst(Promoted(now), j)
    /\ limiter' = IF Limited THEN Put(Window(now), j, now) ELSE limiter
    /\ waiting' = Drop(Promoted(now), {j})
    /\ job' = [job EXCEPT ![j].status = "ACTIVE"]
    /\ active' = Put(active, j, now)
    /\ handed' = handed \cup {j}
    /\ UNCHANGED <<delayed, completed, failed, cancelled, idem, issued>>

\* Returns j, the first job of the waiting set.
MoveToActive(j, now) ==
    /\ ~AtLimit(now)
    /\ IsFirst(Promoted(now), j)
    /\ limiter' = IF Limited THEN Put(Window(now), j, now) ELSE limiter
    /\ waiting' = Drop(Promoted(now), {j})
    /\ delayed' = Drop(delayed, UpTo(delayed, now))
    /\ job' = [job EXCEPT ![j].status = "ACTIVE"]
    /\ active' = Put(active, j, now)
    /\ handed' = handed \cup {j}
    /\ UNCHANGED <<completed, failed, cancelled, idem, issued>>

\* Worker.poll: hydrateJob found no hash for the id it was handed.
HDelOrphan(j) ==
    /\ j \in handed
    /\ ~job[j].data
    /\ active' = Drop(active, {j})
    /\ UNCHANGED <<job, waiting, delayed, completed, failed, cancelled, idem,
                   limiter, history>>

-----------------------------------------------------------------------------
(* complete.lua, fail.lua, heartbeat.lua: called by a worker about a job   *)
(* it was handed, whoever holds that job by now                            *)

\* Mutant of Complete: the job stays in the active hash.
CompleteStaysActive(j, now) ==
    /\ j \in handed
    /\ job' = [job EXCEPT ![j].status = "COMPLETED"]
    /\ completed' = Put(completed, j, now)
    /\ UNCHANGED <<waiting, delayed, active, failed, cancelled, idem, limiter, history>>

Complete(j, now) ==
    /\ j \in handed
    /\ active' = Drop(active, {j})
    /\ job' = [job EXCEPT ![j].status = "COMPLETED"]
    /\ completed' = LET listed == Put(completed, j, now)
                    IN  Drop(listed, UpTo(listed, now - Retention))
    /\ UNCHANGED <<waiting, delayed, failed, cancelled, idem, limiter, history>>

\* Mutant of CountFailure: the attempts left instead of the attempts made.
CountFailureDown(j, status) ==
    /\ j \in handed
    /\ job[j].attempts < MaxFails
    /\ active' = Drop(active, {j})
    /\ job' = [job EXCEPT ![j].status = status, ![j].attempts = @ - 1]

\* What both paths of fail.lua do.
CountFailure(j, status) ==
    /\ j \in handed
    /\ job[j].attempts < MaxFails
    /\ active' = Drop(active, {j})
    /\ job' = [job EXCEPT ![j].status = status, ![j].attempts = @ + 1]

\* Mutant of FailRetry: one attempt too many.
FailRetryOnceMore(j, nextRunAt) ==
    /\ job[j].attempts < job[j].maxAttempts
    /\ CountFailure(j, "WAITING")
    /\ waiting' = Put(waiting, j, nextRunAt)
    /\ UNCHANGED <<delayed, completed, failed, cancelled, idem, limiter, history>>

FailRetry(j, nextRunAt) ==
    /\ job[j].attempts + 1 < job[j].maxAttempts
    /\ CountFailure(j, "WAITING")
    /\ waiting' = Put(waiting, j, nextRunAt)
    /\ UNCHANGED <<delayed, completed, failed, cancelled, idem, limiter, history>>

\* Mutant of FailFinal: one attempt too few.
FailFinalEarly(j, now) ==
    /\ job[j].attempts + 2 >= job[j].maxAttempts
    /\ CountFailure(j, "FAILED")
    /\ failed' = Put(failed, j, now)
    /\ UNCHANGED <<waiting, delayed, completed, cancelled, idem, limiter, history>>

FailFinal(j, now) ==
    /\ job[j].attempts + 1 >= job[j].maxAttempts
    /\ CountFailure(j, "FAILED")
    /\ failed' = Put(failed, j, now)
    /\ UNCHANGED <<waiting, delayed, completed, cancelled, idem, limiter, history>>

\* Mutant of Heartbeat: HSETNX.
HeartbeatOnce(j, now) == j \in handed \cap DOMAIN active /\ UNCHANGED storeVars

Heartbeat(j, now) ==
    /\ j \in handed \cap DOMAIN active
    /\ active' = Put(active, j, now)
    /\ UNCHANGED <<job, waiting, delayed, completed, failed, cancelled, idem,
                   limiter, history>>

-----------------------------------------------------------------------------
(* cleanStalled.lua, cancel.lua, cleanup.lua                               *)

\* Mutants of Stalled: at the timeout already, and in seconds.
StalledAtTimeout(now) == {j \in DOMAIN active : now - active[j] >= StallTimeout}
StalledInSeconds(now) == {j \in DOMAIN active : now - active[j] > StallTimeout * 1000}

Stalled(now) == {j \in DOMAIN active : now - active[j] > StallTimeout}

\* Mutant of CleanStalled: HDEL without ZADD.
CleanStalledHalf(now) ==
    /\ Stalled(now) # {}
    /\ active' = Drop(active, Stalled(now))
    /\ UNCHANGED <<job, waiting, delayed, completed, failed, cancelled, idem, limiter, history>>

CleanStalled(now) ==
    /\ Stalled(now) # {}
    /\ waiting' = [j \in DOMAIN waiting \cup Stalled(now) |->
                      IF j \in Stalled(now) THEN now ELSE waiting[j]]
    /\ active' = Drop(active, Stalled(now))
    /\ UNCHANGED <<job, delayed, completed, failed, cancelled, idem, limiter, history>>

\* Mutant of Cancel: the job stays in the waiting set.
CancelStaysWaiting(j, now) ==
    /\ active' = Drop(active, {j})
    /\ job' = [job EXCEPT ![j].status = "CANCELLED"]
    /\ cancelled' = Put(cancelled, j, now)
    /\ UNCHANGED <<waiting, delayed, completed, failed, idem, limiter, history>>

\* The caller sends any id: cancel neither checks that the job exists nor
\* what became of it.
Cancel(j, now) ==
    /\ waiting' = Drop(waiting, {j})
    /\ active' = Drop(active, {j})
    /\ job' = [job EXCEPT ![j].status = "CANCELLED"]
    /\ cancelled' = Put(cancelled, j, now)
    /\ UNCHANGED <<delayed, completed, failed, idem, limiter, history>>

\* The members of a history set that one cleanup removes.
Expired(z, c, now) ==
    (IF c.maxAge > 0 THEN UpTo(z, now - c.maxAge) ELSE {}) \cup
    (IF c.maxCount > 0 THEN Lowest(z, Cardinality(DOMAIN z) - c.maxCount) ELSE {})

\* DEL of the hashes of the jobs in S.
Pruned(S) == [j \in Id |-> IF j \in S THEN Absent ELSE job[j]]

PruneCompleted(c, now) ==
    /\ Expired(completed, c, now) # {}
    /\ completed' = Drop(completed, Expired(completed, c, now))
    /\ job' = Pruned(Expired(completed, c, now))
    /\ UNCHANGED <<waiting, delayed, active, failed, cancelled, idem, limiter, history>>

PruneFailed(c, now) ==
    /\ Expired(failed, c, now) # {}
    /\ failed' = Drop(failed, Expired(failed, c, now))
    /\ job' = Pruned(Expired(failed, c, now))
    /\ UNCHANGED <<waiting, delayed, active, completed, cancelled, idem, limiter, history>>

PruneCancelled(c, now) ==
    /\ Expired(cancelled, c, now) # {}
    /\ cancelled' = Drop(cancelled, Expired(cancelled, c, now))
    /\ job' = Pruned(Expired(cancelled, c, now))
    /\ UNCHANGED <<waiting, delayed, active, completed, failed, idem, limiter, history>>

-----------------------------------------------------------------------------
Produce ==
    \E j \in JobId, p \in Priority, a \in Attempts, k \in IdemKey \cup {NoKey},
       runAt, now \in Time : Enqueue(j, p, a, k, runAt, now)

Poll ==
    \E now \in Time :
        \/ NoneReady(now)
        \/ \E j \in Id : MoveToActive(j, now)

Finish ==
    \E j \in Id, now \in Time :
        \/ HDelOrphan(j)
        \/ Complete(j, now)
        \/ FailRetry(j, now)
        \/ FailFinal(j, now)
        \/ Heartbeat(j, now)

Maintain ==
    \E now \in Time :
        \/ CleanStalled(now)
        \/ \E j \in Id : Cancel(j, now)
        \/ \E c \in Cleanup :
              PruneCompleted(c, now) \/ PruneFailed(c, now) \/ PruneCancelled(c, now)

StoreNext ==
    Produce \/ Poll \/ Finish \/ Maintain \/ \E k \in IdemKey : IdemExpire(k)

StoreSpec == StoreInit /\ [][StoreNext]_storeVars

-----------------------------------------------------------------------------
\* A sorted set, or the active hash: ids of this queue with numbers.
IsScored(z) == z \in [DOMAIN z -> Int] /\ DOMAIN z \subseteq Id

\* Every key holds values of its type, and only ids this queue knows.
StoreTypeOK ==
    /\ job \in [Id -> Hash]
    /\ IsScored(waiting) /\ IsScored(delayed) /\ IsScored(active)
    /\ IsScored(completed) /\ IsScored(failed) /\ IsScored(cancelled)
    /\ IsScored(limiter)
    /\ idem \in [DOMAIN idem -> JobId] /\ DOMAIN idem \subseteq IdemKey
    /\ issued \subseteq JobId
    /\ handed \subseteq Id

\* Where a job must be listed for the engine to find it again.
Findable(j) ==
    /\ job[j].status = "WAITING" => j \in DOMAIN waiting \cup DOMAIN delayed
    /\ job[j].status = "ACTIVE" => j \in DOMAIN active \cup DOMAIN waiting
    /\ job[j].status = "FAILED" => j \in DOMAIN failed
    /\ job[j].status = "CANCELLED" => j \in DOMAIN cancelled

\* No job is lost: as long as its data exists, a job that has not completed
\* is in a set from which a worker, the watchdog or retry will take it up.
\* No crash, late call or cancellation may leave it in none (the recovery of
\* src/src/Queue.ts:268 and the scripts' updates of two keys at once).
NoJobLost == \A j \in Id : job[j].data => Findable(j)

\* A job is in the delayed set only until moveToActive promotes it: a job a
\* worker was ever handed, or that waits, is not promoted a second time.
DelayedIsolated ==
    DOMAIN delayed \cap (DOMAIN waiting \cup DOMAIN active \cup handed) = {}

\* The limiter never lists more jobs than rateLimit.max, so that a worker
\* that finds room in the window finds a number that means it.
LimiterBound == Limited => Cardinality(DOMAIN limiter) <= LimitMax

\* A job is not given up before its attempts are used, whoever called fail
\* for it, however late and how often.
NoEarlyFailure ==
    \A j \in issued : (job[j].data /\ job[j].status = "FAILED")
                         => job[j].attempts >= job[j].maxAttempts

\* A job that is cancelled while it waits, before any worker was handed it, is
\* never queued again and never started, whoever polls, promotes or recovers
\* jobs meanwhile: the step that cancels it leaves it in no set, and no later
\* one puts it back.  A job in the delayed set is not so lucky
\* (src/src/lua/cancel.lua:9).
CancelPreventsStart ==
    [][\A j \in issued \ (handed \cup DOMAIN delayed) :
          job'[j].status = "CANCELLED" /\ (job[j].status # "CANCELLED" \/ j \notin DOMAIN waiting)
              => j \notin DOMAIN waiting' \cup DOMAIN delayed' \cup handed']_storeVars
=============================================================================
