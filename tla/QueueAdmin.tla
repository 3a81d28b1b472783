----------------------------- MODULE QueueAdmin -----------------------------
(***************************************************************************)
(* The operations of an operator that are not scripts: retry, retryAll and *)
(* clearCompleted read first and then send a pipeline.  A pipeline is not  *)
(* a transaction, so what other clients send can come between two of its   *)
(* commands: each command is a step, and all other callers of the scripts  *)
(* run in between, other operators included.                               *)
(***************************************************************************)
EXTENDS QueueStore

CONSTANTS
    Admin,      \* the calls that can be in flight at a time
    MaxAge,     \* the maxAgeMs of clearCompleted
    MaxResets   \* bound: how many jobs the operators reset

VARIABLES
    call,       \* the call of each operator
    resets      \* how many HSETs the operators have sent

adminVars == <<call, resets>>
allVars == <<storeVars, adminVars>>

\* "at" names the next command; todo are the ids the call read and has not
\* dealt with, id the one it is at, now the time the call read.
NoCall == [at |-> "none", todo |-> {}, id |-> 0, now |-> 0]

AdminInit ==
    /\ StoreInit
    /\ call = [a \in Admin |-> NoCall]
    /\ resets = 0

\* The pipeline goes on with the next id, or the call is over.
Proceed(a, left) ==
    call' = [call EXCEPT ![a] = IF left = {} THEN NoCall
                                ELSE [@ EXCEPT !.at = "zrem", !.todo = left]]

-----------------------------------------------------------------------------
(* Queue.retry and Queue.retryAll                                          *)

\* zscore found the job in the failed set.
Retry(a, j) ==
    /\ call[a] = NoCall
    /\ j \in DOMAIN failed
    /\ call' = [call EXCEPT ![a].at = "hgetall", ![a].todo = {j}]
    /\ UNCHANGED <<storeVars, resets>>

\* hgetall: without an id in the hash, retry gives up.
HGetAll(a, now) ==
    /\ call[a].at = "hgetall"
    /\ call' = [call EXCEPT ![a] = IF \A j \in call[a].todo : job[j].data
                                   THEN [@ EXCEPT !.at = "zrem", !.now = now]
                                   ELSE NoCall]
    /\ UNCHANGED <<storeVars, resets>>

\* zrange of the failed set.
RetryAll(a, now) ==
    /\ call[a] = NoCall
    /\ DOMAIN failed # {}
    /\ call' = [call EXCEPT ![a].at = "zrem", ![a].todo = DOMAIN failed, ![a].now = now]
    /\ UNCHANGED <<storeVars, resets>>

ZRem(a, j) ==
    /\ call[a].at = "zrem" /\ j \in call[a].todo
    /\ resets < MaxResets
    /\ failed' = Drop(failed, {j})
    /\ call' = [call EXCEPT ![a].at = "hset", ![a].id = j]
    /\ UNCHANGED <<job, waiting, delayed, active, completed, cancelled, idem, limiter,
                   history, resets>>

\* Mutant of HSet: the attempts are reset and the status is not.
HSetAttempts(a) ==
    /\ call[a].at = "hset"
    /\ job' = [job EXCEPT ![call[a].id].attempts = 0]
    /\ resets' = resets + 1
    /\ call' = [call EXCEPT ![a].at = "zadd"]
    /\ UNCHANGED <<waiting, delayed, active, completed, failed, cancelled, idem, limiter,
                   history>>

\* hset creates the hash when there is none any more.
HSet(a) ==
    /\ call[a].at = "hset"
    /\ job' = [job EXCEPT ![call[a].id].status = "WAITING", ![call[a].id].attempts = 0]
    /\ resets' = resets + 1
    /\ call' = [call EXCEPT ![a].at = "zadd"]
    /\ UNCHANGED <<waiting, delayed, active, completed, failed, cancelled, idem, limiter,
                   history>>

ZAdd(a) ==
    /\ call[a].at = "zadd"
    /\ waiting' = Put(waiting, call[a].id, call[a].now)
    /\ Proceed(a, call[a].todo \ {call[a].id})
    /\ UNCHANGED <<job, delayed, active, completed, failed, cancelled, idem, limiter,
                   history, resets>>

-----------------------------------------------------------------------------
(* Queue.clearCompleted                                                    *)

ClearCompleted(a, now) ==
    /\ call[a] = NoCall
    /\ UpTo(completed, now - MaxAge) # {}
    /\ call' = [call EXCEPT ![a].at = "del", ![a].todo = UpTo(completed, now - MaxAge),
                            ![a].now = now]
    /\ UNCHANGED <<storeVars, resets>>

Del(a, j) ==
    /\ call[a].at = "del" /\ j \in call[a].todo
    /\ job' = Pruned({j})
    /\ call' = [call EXCEPT ![a].todo = @ \ {j},
                            ![a].at = IF call[a].todo = {j} THEN "trim" ELSE "del"]
    /\ UNCHANGED <<waiting, delayed, active, completed, failed, cancelled, idem, limiter,
                   history, resets>>

\* zremrangebyscore up to the cutoff: also of ids that were not read.
Trim(a) ==
    /\ call[a].at = "trim"
    /\ completed' = Drop(completed, UpTo(completed, call[a].now - MaxAge))
    /\ call' = [call EXCEPT ![a] = NoCall]
    /\ UNCHANGED <<job, waiting, delayed, active, failed, cancelled, idem, limiter,
                   history, resets>>

\* One command of an operator.
Operate(a) ==
    \/ HSet(a) \/ ZAdd(a) \/ Trim(a)
    \/ \E j \in Id : Retry(a, j) \/ ZRem(a, j) \/ Del(a, j)
    \/ \E now \in Time : HGetAll(a, now) \/ RetryAll(a, now) \/ ClearCompleted(a, now)

AdminNext ==
    \/ StoreNext /\ UNCHANGED adminVars
    \/ \E a \in Admin : Operate(a)

AdminSpec == AdminInit /\ [][AdminNext]_allVars

-----------------------------------------------------------------------------
\* Every variable has a value of its type.
AdminTypeOK ==
    /\ StoreTypeOK
    /\ \A a \in Admin :
          /\ call[a].at \in {"none", "hgetall", "zrem", "hset", "zadd", "del", "trim"}
          /\ call[a].todo \subseteq Id /\ call[a].now \in Nat
          /\ call[a].at \in {"hset", "zadd"} => call[a].id \in call[a].todo
    /\ resets \in Nat

\* A pipeline that resets j is under way.
Resetting(j) == \E a \in Admin : call[a].at \in {"hset", "zadd"} /\ call[a].id = j

\* No retry loses a job, although its three commands are not one step, two
\* operators may retry the same job, and workers, the watchdog, cancel and
\* cleanup change it in between: as long as its data exists and no pipeline is
\* at it, a job that has not completed is listed where it is found again.
RetryKeepsJobs == \A j \in Id : (job[j].data /\ ~Resetting(j)) => Findable(j)
=============================================================================
