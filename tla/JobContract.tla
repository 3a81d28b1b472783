---------------------------- MODULE JobContract ----------------------------
(***************************************************************************)
(* What the engine promises about a job, without Redis, clocks or timers:  *)
(* one worker at a time runs it, only a job whose worker died is taken up  *)
(* again, every failed run counts against its budget, and a job that is    *)
(* done or given up stays so.  PoolRequirements states that WorkerPool     *)
(* keeps the promise as long as its processes are timely.                  *)
(***************************************************************************)
EXTENDS Integers

CONSTANTS
    Job,
    Runner,
    Nobody,
    Budgets     \* how many runs of a job may fail

VARIABLES
    phase,      \* how far each job is
    holder,     \* who runs the job
    tries,      \* the failed runs so far
    budget      \* one of Budgets, 0 before the job exists

contract == <<phase, holder, tries, budget>>

Phase == {"new", "ready", "running", "done", "dead", "gone"}

Init ==
    /\ phase = [j \in Job |-> "new"]
    /\ holder = [j \in Job |-> Nobody]
    /\ tries = [j \in Job |-> 0]
    /\ budget = [j \in Job |-> 0]

Submit(j, b) ==
    /\ phase[j] = "new"
    /\ phase' = [phase EXCEPT ![j] = "ready"]
    /\ budget' = [budget EXCEPT ![j] = b]
    /\ UNCHANGED <<holder, tries>>

Start(j, r) ==
    /\ phase[j] = "ready"
    /\ \A i \in Job : holder[i] # r
    /\ phase' = [phase EXCEPT ![j] = "running"]
    /\ holder' = [holder EXCEPT ![j] = r]
    /\ UNCHANGED <<tries, budget>>

\* The holder reports how its run ended.
End(j, to) ==
    /\ phase[j] = "running" /\ holder[j] # Nobody
    /\ phase' = [phase EXCEPT ![j] = to]
    /\ holder' = [holder EXCEPT ![j] = Nobody]
    /\ UNCHANGED budget

Succeed(j) == End(j, "done") /\ UNCHANGED tries

Retry(j) ==
    /\ tries[j] + 1 < budget[j]
    /\ tries' = [tries EXCEPT ![j] = @ + 1]
    /\ End(j, "ready")

GiveUp(j) ==
    /\ tries[j] + 1 = budget[j]
    /\ tries' = [tries EXCEPT ![j] = @ + 1]
    /\ End(j, "dead")

Abandon(j) ==
    /\ holder[j] # Nobody
    /\ holder' = [holder EXCEPT ![j] = Nobody]
    /\ UNCHANGED <<phase, tries, budget>>

\* Jobs that run without anybody are ready again.
Recover(S) ==
    /\ \A j \in S : phase[j] = "running" /\ holder[j] = Nobody
    /\ phase' = [j \in Job |-> IF j \in S THEN "ready" ELSE phase[j]]
    /\ UNCHANGED <<holder, tries, budget>>

\* Settled jobs leave the history.
Remove(S) ==
    /\ \A j \in S : phase[j] \in {"done", "dead"}
    /\ phase' = [j \in Job |-> IF j \in S THEN "gone" ELSE phase[j]]
    /\ tries' = [j \in Job |-> IF j \in S THEN 0 ELSE tries[j]]
    /\ budget' = [j \in Job |-> IF j \in S THEN 0 ELSE budget[j]]
    /\ UNCHANGED holder

Next ==
    \/ \E j \in Job : \/ \E b \in Budgets : Submit(j, b)
                      \/ \E r \in Runner : Start(j, r)
                      \/ Succeed(j) \/ Retry(j) \/ GiveUp(j) \/ Abandon(j)
    \/ \E S \in SUBSET Job : Recover(S) \/ Remove(S)

Spec == Init /\ [][Next]_contract
=============================================================================
