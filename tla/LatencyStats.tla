---------------------------- MODULE LatencyStats ----------------------------
(***************************************************************************)
(* The latencies of one queue: the sorted set in which workers keep the    *)
(* duration of each completed job, its cap, and the percentiles that       *)
(* getMetrics takes from it.                                               *)
(*                                                                         *)
(* The pipeline that adds a sample and trims the set is not atomic, and    *)
(* can lose its second command, so samples and trims come in any order.    *)
(***************************************************************************)
EXTENDS RedisData, Sequences

CONSTANTS
    JobId,      \* numbers, ordered as Redis orders the members of a set
    Cap         \* 1000

VARIABLES
    latency,    \* the sorted set: the duration of each job
    untrimmed   \* history: the samples since the last trim

latencyVars == <<latency, untrimmed>>

LatencyInit == latency = Nothing /\ untrimmed = 0

\* zadd: a job that completes again overwrites its duration.
Sample(id, duration) ==
    /\ latency' = Put(latency, id, duration)
    /\ untrimmed' = untrimmed + 1

\* zremrangebyrank 0 -(Cap + 1): all but the last Cap members go.
Trimmed(z) == Drop(z, Lowest(z, Cardinality(DOMAIN z) - Cap))

Trim ==
    /\ latency' = Trimmed(latency)
    /\ untrimmed' = 0

LatencyNext == Trim \/ \E id \in JobId, duration \in Nat : Sample(id, duration)

LatencySpec == LatencyInit /\ [][LatencyNext]_latencyVars

-----------------------------------------------------------------------------
(* pct of getMetrics.  A sequence begins at 1, an array at 0: the position *)
(* is the ceiling of p * n / 100, which floating point does not round up   *)
(* for the percentages 50, 95 and 99 and the samples the set can hold.     *)

Position(p, n) == (p * n + 99) \div 100

\* Math.max(0, Math.min(idx, arr.length - 1)).
Clamped(i, n) == IF i > n THEN n ELSE IF i < 1 THEN 1 ELSE i

Pct(arr, p) == arr[Clamped(Position(p, Len(arr)), Len(arr))]

-----------------------------------------------------------------------------
LatencyTypeOK ==
    /\ latency \in [DOMAIN latency -> Nat] /\ DOMAIN latency \subseteq JobId
    /\ IsFiniteSet(DOMAIN latency)
    /\ untrimmed \in Nat

\* The cap of src/src/Worker.ts:287 holds up to the samples whose trim is
\* outstanding, however many workers add to the set and whichever trims fail.
LatencyIsCapped == Cardinality(DOMAIN latency) <= Cap + untrimmed

\* What a step drops from the set is not slower than anything it keeps.  So
\* the percentiles of a queue with more than Cap samples are those of its
\* slowest jobs, and "keep newest 1000" (src/src/Worker.ts:287) is not what
\* happens.
DropsTheFastest ==
    [][\A x \in DOMAIN latency \ DOMAIN latency', y \in DOMAIN latency' :
          latency[x] <= latency'[y]]_latencyVars

=============================================================================
