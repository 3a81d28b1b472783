----------------------------- MODULE RedisData -----------------------------
(***************************************************************************)
(* The Redis data types the scripts in src/src/lua use.  A sorted set is a *)
(* function from its members to their scores and a hash a function from    *)
(* its fields to their values; a key that does not exist is the empty      *)
(* function.  Redis runs a script without interleaving, so a script is one *)
(* action of the modules that use these operators.                         *)
(* External: src/ uses Redis through ioredis and does not contain it.      *)
(***************************************************************************)
EXTENDS Integers, FiniteSets, Functions

\* A key that does not exist: no members and no fields.
Nothing == [x \in {} |-> 0]

\* ZADD f v k and HSET f k v: add the member or overwrite its value.
Put(f, k, v) == [x \in DOMAIN f \cup {k} |-> IF x = k THEN v ELSE f[x]]

\* ZREM f k1 k2 .. and HDEL f k1 k2 ..: absent members are ignored.
Drop(f, S) == Restrict(f, DOMAIN f \ S)

\* ZRANGEBYSCORE z -inf hi (scores are never negative, so also 0 hi).
UpTo(z, hi) == {x \in DOMAIN z : z[x] <= hi}

\* Redis orders a sorted set by score and, among equals, by member.
Before(z, a, b) == z[a] < z[b] \/ (z[a] = z[b] /\ a < b)

\* ZRANK z x: how many members come before x.
Rank(z, x) == Cardinality({y \in DOMAIN z : Before(z, y, x)})

\* ZRANGE z 0 n-1: the n members that come first.
Lowest(z, n) == {x \in DOMAIN z : Rank(z, x) < n}

\* ZRANGE z 0 0 of a set that is not empty.
IsFirst(z, x) == x \in DOMAIN z /\ \A y \in DOMAIN z \ {x} : Before(z, x, y)
=============================================================================
