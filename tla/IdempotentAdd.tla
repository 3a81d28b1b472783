--------------------------- MODULE IdempotentAdd ---------------------------
(***************************************************************************)
(* Queue.add seen by its callers.  An add whose idempotency key is taken   *)
(* reads the original job in a second round trip, and what it returns      *)
(* depends on what is left of that job by then.  The other callers of the  *)
(* scripts run in between.                                                 *)
(***************************************************************************)
EXTENDS QueueAdmin

CONSTANTS
    Producer,
    NoJob,      \* no id: before the first reply, and the id of a job without data
    Unstored    \* the id an add generated and did not store

VARIABLES
    pending,    \* the add each producer is waiting for
    cleaned     \* history: the jobs that were over and whose hash was deleted

addAllVars == <<storeVars, adminVars, pending, cleaned>>

Idle == [at |-> "idle", original |-> NoJob]

AddInit ==
    /\ AdminInit
    /\ pending = [q \in Producer |-> Idle]
    /\ cleaned = {}

\* enqueue returned the id it was given: add returns the job it built.
AddFresh(q, j, p, a, k, runAt, now) ==
    /\ pending[q] = Idle
    /\ Enqueue(j, p, a, k, runAt, now)
    /\ UNCHANGED <<adminVars, pending, cleaned>>

\* enqueue returned the id the key stands for: add waits for getJob.
AddDuplicate(q, k) ==
    /\ pending[q] = Idle
    /\ k \in DOMAIN idem
    /\ pending' = [pending EXCEPT ![q] = [at |-> "getJob", original |-> idem[k]]]
    /\ UNCHANGED <<storeVars, adminVars, cleaned>>

\* Mutant of Returned: a job that is over is not an original any more.
ReturnedIfOpen(original) ==
    IF job[original].status \in {"WAITING", "ACTIVE"} THEN original ELSE Unstored

\* The id of the job add returns when getJob reads the original's hash now.
\* hydrateJob finds no job without a hash, and no id in one without data; add
\* then returns the job it built, which enqueue did not store.
Returned(original) ==
    IF job[original].status = "NONE" THEN Unstored
    ELSE IF job[original].data THEN original ELSE NoJob

ReturnOriginal(q) ==
    /\ pending[q].at = "getJob"
    /\ pending' = [pending EXCEPT ![q] = Idle]
    /\ UNCHANGED <<storeVars, adminVars, cleaned>>

\* The jobs in the three history sets, and those a clearCompleted read there.
Over == DOMAIN completed \cup DOMAIN failed \cup DOMAIN cancelled
        \cup UNION {call[a].todo : a \in {b \in Admin : call[b].at = "del"}}

\* Workers, the watchdog, cleanup, operators and the expiry of keys.  Nobody can
\* name an id before its job is stored: the other ids they send are StrayId's.
Others ==
    /\ \/ /\ Poll \/ Finish \/ Maintain \/ \E k \in IdemKey : IdemExpire(k)
          /\ UNCHANGED adminVars
       \/ \E a \in Admin : Operate(a)
    /\ \A j \in JobId \ issued : job'[j] = job[j]
    /\ cleaned' = cleaned \cup {j \in Over : job[j].data /\ ~job'[j].data}
    /\ UNCHANGED pending

AddNext ==
    \/ \E q \in Producer, j \in JobId, p \in Priority, a \in Attempts,
          k \in IdemKey \cup {NoKey}, runAt, now \in Time :
             AddFresh(q, j, p, a, k, runAt, now)
    \/ \E q \in Producer, k \in IdemKey : AddDuplicate(q, k)
    \/ \E q \in Producer : ReturnOriginal(q)
    \/ Others

AddSpec == AddInit /\ [][AddNext]_addAllVars

-----------------------------------------------------------------------------
\* Every add whose key is taken returns the job the key stood for when enqueue
\* looked (src/src/Queue.ts:53), whenever getJob reads the hash: also a job that
\* by then runs, was recovered, completed, failed, was cancelled or is being
\* retried, and after the key expired.  Excepted is an original that was over
\* and whose hash a cleanup or clearCompleted deleted while its key lived on:
\* then add returns a job nobody stored (src/src/Queue.ts:62), although "duplicate
\* calls with the same key within 24h return the original job"
\* (src/src/types.ts:29).
AnswersTheOriginal ==
    \A q \in Producer : pending[q].at = "getJob" =>
        Returned(pending[q].original) = pending[q].original \/ pending[q].original \in cleaned
=============================================================================
