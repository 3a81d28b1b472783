-------------------------- MODULE DocumentedClaims --------------------------
(***************************************************************************)
(* What the repository's comments, documents and tests say of the system   *)
(* and the code does not do.  Each definition states one such sentence; a  *)
(* run of its own shows the steps that contradict it.                      *)
(***************************************************************************)
EXTENDS PoolRequirements

\* src/src/Queue.ts:162, "If it is in waiting or delayed, it will be moved to
\* cancelled": a cancelled job is in neither set.  cancel.lua removes it from
\* the waiting set only.
CancelLeavesTheQueue ==
    \A j \in JobId :
        job[j].status = "CANCELLED" => j \notin DOMAIN waiting \cup DOMAIN delayed

\* src/src/lua/fail.lua:24, "Add back to waiting set with delay": a failed job
\* is not started before the time calculateNextRunAt gave it.  The waiting
\* set is ordered by score, and its first job is taken whatever its score is.
BackoffIsHonoured ==
    [][\A j \in DOMAIN waiting :
          (job[j].attempts > 0 /\ j \notin DOMAIN active /\ j \in DOMAIN active')
              => waiting[j] <= clock]_vars
=============================================================================
