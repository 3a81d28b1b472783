------------------------------ MODULE MCAdmin ------------------------------
\* The constants of IdempotentAdd for TLC: a producer, and operators or none.
EXTENDS IdempotentAdd, TLC

KeepYoung == {[maxAge |-> 1, maxCount |-> 0]}

AnyAdmin == Permutations(Admin)
=============================================================================
