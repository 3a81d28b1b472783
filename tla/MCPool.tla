------------------------------- MODULE MCPool -------------------------------
\* The constants of PoolRequirements for TLC.
EXTENDS DocumentedClaims, TLC

KeepLast == {[maxAge |-> 0, maxCount |-> 1]}

KeepYoung == {[maxAge |-> 1, maxCount |-> 0]}

\* Workers can be exchanged: no action and no property of the runs that use
\* this tells them apart, and none of those properties is temporal.
AnyWorker == Permutations(Worker)
=============================================================================
