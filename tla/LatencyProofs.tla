---------------------------- MODULE LatencyProofs ----------------------------
(***************************************************************************)
(* Theorems about LatencyStats, for any cap and any ids that are numbers,  *)
(* and about the percentiles of any sorted sequence.                       *)
(***************************************************************************)
EXTENDS LatencyStats, FiniteSetTheorems, WellFoundedInduction, TLAPS

-----------------------------------------------------------------------------
(* Ranks in a sorted set                                                   *)

Preceding(z, x) == {y \in DOMAIN z : Before(z, y, x)}

\* Members are in the order of their ranks.
LEMMA RanksAreOrdered ==
    ASSUME NEW D \in SUBSET Nat, IsFiniteSet(D), NEW z \in [D -> Nat],
           NEW x \in D, NEW y \in D, Before(z, x, y)
    PROVE  /\ Rank(z, x) \in Nat /\ Rank(z, y) \in Nat
           /\ Preceding(z, x) # Preceding(z, y)
           /\ Preceding(z, x) \subseteq Preceding(z, y)
           /\ Rank(z, x) < Rank(z, y)
<1> DEFINE A == Preceding(z, x)
           B == Preceding(z, y)
<1>1. A \in SUBSET D /\ B \in SUBSET D
  BY DEF Preceding
<1>2. A \subseteq B
  <2> SUFFICES ASSUME NEW v \in D, Before(z, v, x)
               PROVE  Before(z, v, y)
    BY DEF Preceding
  <2>1. /\ v \in Nat /\ x \in Nat /\ y \in Nat
        /\ z[v] \in Nat /\ z[x] \in Nat /\ z[y] \in Nat
    OBVIOUS
  <2> QED
    BY <2>1, SMT DEF Before
<1>3. x \in B /\ x \notin A
  BY SMT DEF Preceding, Before
<1>4. IsFiniteSet(A) /\ IsFiniteSet(B)
  BY <1>1, FS_Subset
<1>5. Cardinality(A) \in Nat /\ Cardinality(B) \in Nat
  BY <1>4, FS_CardinalityType
<1>6. Cardinality(A) <= Cardinality(B) /\ Cardinality(A) # Cardinality(B)
  <2>1. A \in SUBSET B
    BY <1>2
  <2>2. Cardinality(A) <= Cardinality(B) /\ (Cardinality(B) = Cardinality(A) => B = A)
    BY <1>4, <2>1, FS_Subset
  <2> QED
    BY <1>3, <2>2
<1>7. Rank(z, x) = Cardinality(A) /\ Rank(z, y) = Cardinality(B)
  BY DEF Rank, Preceding
<1>8. A # B
  BY <1>3
<1> QED
  BY <1>2, <1>5, <1>6, <1>7, <1>8

\* Every non-empty set of members has one that comes before the others.
LEMMA FirstMember ==
    ASSUME NEW D \in SUBSET Nat, IsFiniteSet(D), NEW z \in [D -> Nat],
           NEW K \in SUBSET D, K # {}
    PROVE  \E k \in K : \A y \in K : ~Before(z, y, k)
<1> DEFINE T == {Preceding(z, k) : k \in K}
           R == StrictSubsetOrdering(D)
<1>1. T \subseteq SUBSET D /\ T # {}
  BY DEF Preceding
<1>2. IsWellFoundedOn(R, FiniteSubsetsOf(D))
  BY FS_StrictSubsetOrderingWellFounded
<1>3. IsWellFoundedOn(R, SUBSET D)
  BY <1>2, FS_FiniteSubsetsOfFinite
<1>4. \E t \in T : \A u \in T : ~(<<u, t>> \in R)
  <2> HIDE DEF T, R
  <2> QED
    BY <1>1, <1>3, WFMin
<1>5. PICK k \in K : \A u \in T : ~(<<u, Preceding(z, k)>> \in R)
  BY <1>4
<1>6. ASSUME NEW y \in K, Before(z, y, k)
      PROVE  FALSE
  <2>1. Preceding(z, y) # Preceding(z, k) /\ Preceding(z, y) \subseteq Preceding(z, k)
    BY <1>6, RanksAreOrdered
  <2>2. <<Preceding(z, y), Preceding(z, k)>> \in R
    BY <1>1, <2>1 DEF StrictSubsetOrdering
  <2> QED
    BY <1>5, <2>2
<1> QED
  BY <1>6

\* What zremrangebyrank leaves.
LEMMA TrimKeepsTheLast ==
    ASSUME NEW z, NEW D, DOMAIN z = D
    PROVE  /\ DOMAIN Trimmed(z) = {x \in D : ~(Rank(z, x) < Cardinality(D) - Cap)}
           /\ \A x \in DOMAIN Trimmed(z) : Trimmed(z)[x] = z[x]
BY DEF Trimmed, Drop, Restrict, Lowest

\* A trim leaves at most Cap members.
LEMMA TrimCaps ==
    ASSUME Cap \in Nat, NEW D \in SUBSET Nat, IsFiniteSet(D), NEW z \in [D -> Nat]
    PROVE  IsFiniteSet(DOMAIN Trimmed(z)) /\ Cardinality(DOMAIN Trimmed(z)) <= Cap
<1> DEFINE n == Cardinality(D)
           K == {x \in D : ~(Rank(z, x) < n - Cap)}
<1>1. DOMAIN Trimmed(z) = K
  BY TrimKeepsTheLast
<1>2. IsFiniteSet(K) /\ n \in Nat
  BY FS_Subset, FS_CardinalityType
<1>3. CASE K = {}
  BY <1>1, <1>2, <1>3, FS_EmptySet
<1>4. CASE K # {}
  <2>1. PICK k \in K : \A y \in K : ~Before(z, y, k)
    BY <1>4, FirstMember
  <2> DEFINE A == Preceding(z, k)
  <2>2. A \in SUBSET D
    BY DEF Preceding
  <2>3. IsFiniteSet(A) /\ Cardinality(A) \in Nat
    BY <2>2, FS_Subset, FS_CardinalityType
  <2>4. Rank(z, k) = Cardinality(A)
    BY DEF Rank, Preceding
  <2>5. Cardinality(A) >= n - Cap
    BY <1>2, <2>1, <2>3, <2>4
  <2>6. K \in SUBSET (D \ A)
    BY <2>1 DEF Preceding
  <2>7. D \cap A = A
    BY <2>2
  <2>8. IsFiniteSet(D \ A) /\ Cardinality(D \ A) = n - Cardinality(A)
    BY <2>7, FS_Difference
  <2>9. Cardinality(K) <= Cardinality(D \ A)
    BY <2>6, <2>8, FS_Subset
  <2>10. Cardinality(K) \in Nat
    BY <1>2, FS_CardinalityType
  <2> HIDE DEF K, A, n
  <2> QED
    BY <1>1, <1>2, <2>3, <2>5, <2>8, <2>9, <2>10
<1> QED
  BY <1>3, <1>4

\* A trim keeps no member that comes before one it drops.
LEMMA TrimKeepsTheSlowest ==
    ASSUME Cap \in Nat, NEW D \in SUBSET Nat, IsFiniteSet(D), NEW z \in [D -> Nat],
           NEW x \in D \ DOMAIN Trimmed(z), NEW y \in DOMAIN Trimmed(z)
    PROVE  y \in D /\ z[x] <= z[y]
<1>1. y \in D /\ Rank(z, x) < Cardinality(D) - Cap /\ ~(Rank(z, y) < Cardinality(D) - Cap)
  <2>1. DOMAIN z = D
    OBVIOUS
  <2>2. DOMAIN Trimmed(z) = {v \in D : ~(Rank(z, v) < Cardinality(D) - Cap)}
    BY <2>1, TrimKeepsTheLast
  <2> QED
    BY <2>2
<1>2. CASE Before(z, y, x)
  <2>1. Rank(z, y) \in Nat /\ Rank(z, x) \in Nat /\ Rank(z, y) < Rank(z, x)
    BY <1>1, <1>2, RanksAreOrdered
  <2>2. Cardinality(D) \in Nat
    BY FS_CardinalityType
  <2> QED
    BY <1>1, <2>1, <2>2
<1>3. CASE ~Before(z, y, x)
  BY <1>1, <1>3, SMT DEF Before
<1> QED
  BY <1>2, <1>3

-----------------------------------------------------------------------------
(* The state machine                                                       *)

LatencyInv == LatencyTypeOK /\ LatencyIsCapped

\* zadd adds at most one member.
LEMMA SampleKeepsInv ==
    ASSUME Cap \in Nat, JobId \subseteq Nat, LatencyInv,
           NEW id \in JobId, NEW duration \in Nat, Sample(id, duration)
    PROVE  LatencyInv'
<1> DEFINE D == DOMAIN latency
<1>1. DOMAIN latency' = D \cup {id}
  BY DEF Sample, Put
<1>2. latency' \in [D \cup {id} -> Nat]
  BY DEF Sample, Put, LatencyInv, LatencyTypeOK
<1>3. IsFiniteSet(D) /\ Cardinality(D) \in Nat
  BY FS_CardinalityType DEF LatencyInv, LatencyTypeOK
<1>4. /\ IsFiniteSet(D \cup {id})
      /\ Cardinality(D \cup {id}) \in {Cardinality(D), Cardinality(D) + 1}
  BY <1>3, FS_AddElement
<1>5. untrimmed \in Nat /\ untrimmed' = untrimmed + 1 /\ Cardinality(D) <= Cap + untrimmed
  BY DEF Sample, LatencyInv, LatencyTypeOK, LatencyIsCapped
<1>6. LatencyTypeOK'
  BY <1>1, <1>2, <1>4, <1>5 DEF LatencyInv, LatencyTypeOK
<1>7. Cardinality(D \cup {id}) <= Cap + untrimmed'
  <2> HIDE DEF D
  <2> QED
    BY <1>3, <1>4, <1>5
<1> QED
  BY <1>1, <1>6, <1>7 DEF LatencyInv, LatencyIsCapped

\* A trim keeps the invariant.
LEMMA TrimKeepsInv ==
    ASSUME Cap \in Nat, JobId \subseteq Nat, LatencyInv, Trim
    PROVE  LatencyInv'
<1> DEFINE D == DOMAIN latency
<1>1. D \in SUBSET Nat /\ D \subseteq JobId /\ IsFiniteSet(D) /\ latency \in [D -> Nat]
  BY DEF LatencyInv, LatencyTypeOK
<1>2. IsFiniteSet(DOMAIN latency') /\ Cardinality(DOMAIN latency') <= Cap
  BY <1>1, TrimCaps DEF Trim
<1>3. latency' \in [DOMAIN latency' -> Nat] /\ DOMAIN latency' \subseteq JobId
  BY <1>1 DEF Trim, Trimmed, Drop, Restrict
<1>4. untrimmed' = 0
  BY DEF Trim
<1>5. Cardinality(DOMAIN latency') <= Cap + untrimmed'
  BY <1>2, <1>4
<1> QED
  BY <1>2, <1>3, <1>4, <1>5 DEF LatencyInv, LatencyTypeOK, LatencyIsCapped

\* So does every step.
LEMMA LatencyInvariant ==
    ASSUME Cap \in Nat, JobId \subseteq Nat
    PROVE  LatencySpec => []LatencyInv
<1>1. LatencyInit => LatencyInv
  <2> SUFFICES ASSUME LatencyInit
               PROVE  LatencyInv
    OBVIOUS
  <2>1. DOMAIN latency = {} /\ untrimmed = 0
    BY DEF LatencyInit, Nothing
  <2>2. IsFiniteSet(DOMAIN latency) /\ Cardinality(DOMAIN latency) = 0
    BY <2>1, FS_EmptySet
  <2>3. latency \in [DOMAIN latency -> Nat]
    BY DEF LatencyInit, Nothing
  <2> QED
    BY <2>1, <2>2, <2>3 DEF LatencyInv, LatencyTypeOK, LatencyIsCapped
<1>2. LatencyInv /\ [LatencyNext]_latencyVars => LatencyInv'
  <2> SUFFICES ASSUME LatencyInv, [LatencyNext]_latencyVars
               PROVE  LatencyInv'
    OBVIOUS
  <2>1. CASE Trim
    BY <2>1, TrimKeepsInv
  <2>2. ASSUME NEW id \in JobId, NEW duration \in Nat, Sample(id, duration)
        PROVE  LatencyInv'
    BY <2>2, SampleKeepsInv
  <2>3. CASE UNCHANGED latencyVars
    BY <2>3 DEF latencyVars, LatencyInv, LatencyTypeOK, LatencyIsCapped
  <2> QED
    BY <2>1, <2>2, <2>3 DEF LatencyNext
<1> QED
  BY <1>1, <1>2, PTL DEF LatencySpec

\* The latency set never holds more than Cap samples and those whose trim is
\* outstanding (src/src/Worker.ts:286-287).
THEOREM LatencySetIsBounded ==
    ASSUME Cap \in Nat, JobId \subseteq Nat
    PROVE  LatencySpec => []LatencyIsCapped
<1>1. LatencyInv => LatencyIsCapped
  BY DEF LatencyInv
<1> QED
  BY <1>1, LatencyInvariant, PTL

\* Only the fastest samples are dropped, whatever their age
\* (src/src/Worker.ts:287).
THEOREM SlowestAreKept ==
    ASSUME Cap \in Nat, JobId \subseteq Nat
    PROVE  LatencySpec => DropsTheFastest
<1> DEFINE Kept == \A x \in DOMAIN latency \ DOMAIN latency', y \in DOMAIN latency' :
                      latency[x] <= latency'[y]
<1>1. LatencyInv /\ [LatencyNext]_latencyVars => [Kept]_latencyVars
  <2> SUFFICES ASSUME LatencyInv, LatencyNext,
                      NEW x \in DOMAIN latency \ DOMAIN latency', NEW y \in DOMAIN latency'
               PROVE  latency[x] <= latency'[y]
    OBVIOUS
  <2>1. CASE Trim
    <3>1. DOMAIN latency \in SUBSET Nat /\ IsFiniteSet(DOMAIN latency)
          /\ latency \in [DOMAIN latency -> Nat]
      BY DEF LatencyInv, LatencyTypeOK
    <3>2. latency' = Trimmed(latency)
      BY <2>1 DEF Trim
    <3>3. latency[x] <= latency[y]
      BY <3>1, <3>2, TrimKeepsTheSlowest
    <3>4. latency'[y] = latency[y]
      BY <3>2, TrimKeepsTheLast
    <3> QED
      BY <3>3, <3>4
  <2>2. ASSUME NEW id \in JobId, NEW duration \in Nat, Sample(id, duration)
        PROVE  FALSE
    BY <2>2 DEF Sample, Put
  <2> QED
    BY <2>1, <2>2 DEF LatencyNext
<1> QED
  BY <1>1, LatencyInvariant, PTL DEF LatencySpec, DropsTheFastest

-----------------------------------------------------------------------------
(* Percentiles                                                             *)

\* The position getMetrics computes is the nearest rank: the first one that
\* at least p per cent of the samples do not exceed.  It lies in the array, so
\* the clamp of src/src/Queue.ts:145 never changes it.
THEOREM PositionIsNearestRank ==
    ASSUME NEW n \in Nat \ {0}, NEW p \in 1 .. 100
    PROVE  /\ Position(p, n) \in 1 .. n
           /\ p * n <= 100 * Position(p, n)
           /\ 100 * (Position(p, n) - 1) < p * n
           /\ Clamped(Position(p, n), n) = Position(p, n)
<1> DEFINE m == p * n
<1>1. m \in Nat /\ 1 <= m /\ m <= 100 * n
  BY SMT
<1> HIDE DEF m
<1>2. LET k == (m + 99) \div 100
      IN  k \in 1 .. n /\ m <= 100 * k /\ 100 * (k - 1) < m
  BY <1>1, SMT
<1>3. Position(p, n) = (m + 99) \div 100
  BY DEF Position, m
<1> QED
  BY <1>2, <1>3, SMT DEF Clamped, m

\* The product of a larger number is no smaller.
LEMMA ProductsAreOrdered ==
    ASSUME NEW n \in Nat, NEW a \in Nat, NEW b \in Nat, a <= b
    PROVE  a * n \in Nat /\ b * n \in Nat /\ a * n <= b * n
<1> DEFINE d == b - a
<1>1. d \in Nat /\ b = a + d
  OBVIOUS
<1> HIDE DEF d
<1>2. \A k \in Nat : k * n \in Nat
  BY SMT
<1>3. (a + d) * n = a * n + d * n
  BY <1>1
<1>4. b * n = a * n + d * n
  BY <1>1, <1>3
<1>5. a * n \in Nat /\ d * n \in Nat
  BY <1>1, <1>2
<1>6. QED BY <1>1, <1>4, <1>5

\* A higher percentage never gives a lower latency: p50 <= p95 <= p99.
THEOREM PercentilesAreOrdered ==
    ASSUME NEW arr \in Seq(Nat), arr # <<>>,
           \A i, j \in 1 .. Len(arr) : i <= j => arr[i] <= arr[j],
           NEW p \in 1 .. 100, NEW q \in 1 .. 100, p <= q
    PROVE  Pct(arr, p) <= Pct(arr, q)
<1> DEFINE n == Len(arr)
<1>1. n \in Nat \ {0}
  BY SMT
<1>2. Position(p, n) \in 1 .. n /\ Clamped(Position(p, n), n) = Position(p, n)
  BY <1>1, PositionIsNearestRank
<1>3. Position(q, n) \in 1 .. n /\ Clamped(Position(q, n), n) = Position(q, n)
  BY <1>1, PositionIsNearestRank
<1>4. Position(p, n) <= Position(q, n)
  <2>1. p * n \in Nat /\ q * n \in Nat /\ p * n <= q * n
    <3>1. n \in Nat /\ p \in Nat /\ q \in Nat
      BY <1>1
    <3> HIDE DEF n
    <3>2. QED BY <3>1, ProductsAreOrdered
  <2> QED
    BY <2>1, SMT DEF Position
<1> QED
  BY <1>2, <1>3, <1>4 DEF Pct
=============================================================================
