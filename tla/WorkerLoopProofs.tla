-------------------------- MODULE WorkerLoopProofs --------------------------
(***************************************************************************)
(* Theorems about WorkerLoop, for any number of queues, any concurrency    *)
(* and any bounds.                                                         *)
(***************************************************************************)
EXTENDS WorkerLoop, FiniteSetTheorems, TLAPS

-----------------------------------------------------------------------------
(* Counting                                                                *)

\* The numbers among the constants.
LEMMA Bounds ==
    /\ NQueues \in Nat \ {0} /\ Concurrency \in Nat \ {0} /\ MaxQueued \in Nat \ {0}
    /\ StatusLife \in Nat \ {0}
    /\ MaxAdds \in Nat /\ MaxStarts \in Nat /\ MaxErrors \in Nat
    /\ RateLimit \in BOOLEAN
BY LoopAssumption DEF LoopAssumption

\* A set of chains is finite, and no larger than the number of start() calls
\* allowed.
LEMMA FiniteChains ==
    ASSUME NEW S \in SUBSET Chain
    PROVE  IsFiniteSet(S) /\ Cardinality(S) \in Nat /\ Cardinality(S) <= MaxStarts
<1>1. IsFiniteSet(Chain) /\ Cardinality(Chain) = MaxStarts
  BY Bounds, FS_Interval DEF Chain
<1> QED
  BY <1>1, FS_Subset, FS_CardinalityType

\* How the size of a set of chains changes with one chain.
LEMMA FewerChains ==
    ASSUME NEW S \in SUBSET Chain, NEW T \in SUBSET Chain, NEW c \in Chain
    PROVE  /\ T \subseteq S => Cardinality(T) <= Cardinality(S)
           /\ c \in S /\ T \subseteq S \ {c} => Cardinality(T) + 1 <= Cardinality(S)
           /\ T \subseteq S \cup {c} => Cardinality(T) <= Cardinality(S) + 1
<1>1. /\ IsFiniteSet(S) /\ Cardinality(S) \in Nat
      /\ IsFiniteSet(T) /\ Cardinality(T) \in Nat
  BY FiniteChains
<1>2. T \subseteq S => Cardinality(T) <= Cardinality(S)
  BY <1>1, FS_Subset
<1>3. ASSUME c \in S, T \subseteq S \ {c}
      PROVE  Cardinality(T) + 1 <= Cardinality(S)
  <2>1. IsFiniteSet(S \ {c}) /\ Cardinality(S \ {c}) = Cardinality(S) - 1
    BY <1>1, <1>3, FS_RemoveElement
  <2>2. Cardinality(T) <= Cardinality(S \ {c})
    BY <1>3, <2>1, FS_Subset
  <2> QED
    BY <1>1, <2>1, <2>2
<1>4. ASSUME T \subseteq S \cup {c}
      PROVE  Cardinality(T) <= Cardinality(S) + 1
  <2>1. /\ IsFiniteSet(S \cup {c})
        /\ Cardinality(S \cup {c}) \in {Cardinality(S), Cardinality(S) + 1}
    BY <1>1, FS_AddElement
  <2>2. Cardinality(T) <= Cardinality(S \cup {c})
    BY <1>4, <2>1, FS_Subset
  <2> QED
    BY <1>1, <2>1, <2>2
<1> QED
  BY <1>2, <1>3, <1>4

-----------------------------------------------------------------------------
(* Types                                                                   *)

Places == [pc : PC, i : QueueIndex, q : QueueIndex, found : BOOLEAN]

\* The rotation stays among the queues.
LEMMA IndexWraps ==
    ASSUME NEW n \in Nat
    PROVE  n % NQueues \in QueueIndex
<1>1. \A m \in Nat \ {0} : n % m \in 0 .. m - 1
  BY SMT
<1> QED
  BY <1>1, Bounds DEF QueueIndex

\* The places at which every chain begins, waits and works.
LEMMA FixedPlaces == 0 \in QueueIndex /\ Ended \in Places /\ Waiting \in Places /\ Busy \in Places
<1>1. 0 \in QueueIndex
  BY Bounds DEF QueueIndex
<1> QED
  BY <1>1 DEF Ended, Waiting, Busy, Places, PC

\* One pass of the for loop, or its end, leaves chain and base well typed.
LEMMA ContinueTypes ==
    ASSUME LoopTypeOK, NEW c \in Chain, Continue(c)
    PROVE  chain' \in [Chain -> Places] /\ base' \in QueueIndex
<1>1. /\ chain \in [Chain -> Places] /\ base \in QueueIndex
      /\ chain[c].i \in QueueIndex /\ chain[c].found \in BOOLEAN
  BY DEF LoopTypeOK, Places
<1>2. chain[c].i + 1 \in Nat /\ base + (chain[c].i + 1) \in Nat /\ base + 1 \in Nat
  BY <1>1, Bounds DEF QueueIndex
<1>3. CASE chain[c].i + 1 < NQueues
  <2>1. chain[c].i + 1 \in QueueIndex
    BY <1>1, <1>2, <1>3, Bounds DEF QueueIndex
  <2>2. (base + (chain[c].i + 1)) % NQueues \in QueueIndex
    BY <1>2, IndexWraps
  <2> DEFINE next == [pc |-> "asking", i |-> chain[c].i + 1,
                      q |-> (base + (chain[c].i + 1)) % NQueues, found |-> chain[c].found]
  <2>3. next \in Places
    BY <1>1, <2>1, <2>2 DEF Places, PC
  <2>4. chain' = [chain EXCEPT ![c] = next] /\ base' = base
    BY <1>3 DEF Continue, Visit
  <2> HIDE DEF next
  <2> QED
    BY <1>1, <2>3, <2>4
<1>4. CASE ~(chain[c].i + 1 < NQueues)
  <2>1. chain' = [chain EXCEPT ![c] = Waiting] /\ base' \in {base, (base + 1) % NQueues}
    BY <1>4 DEF Continue
  <2>2. (base + 1) % NQueues \in QueueIndex
    BY <1>2, IndexWraps
  <2> QED
    BY <1>1, <2>1, <2>2, FixedPlaces
<1> QED
  BY <1>3, <1>4

\* A chain that moves on to another await is well typed,
LEMMA GotoTypes ==
    ASSUME LoopTypeOK, NEW c \in Chain, NEW pc \in PC, Goto(c, pc)
    PROVE  chain' \in [Chain -> Places]
BY DEF LoopTypeOK, Places, Goto

\* and so are the queues it takes a job from.
LEMMA TakeTypes ==
    ASSUME LoopTypeOK, NEW q \in QueueIndex, TakeFrom(q)
    PROVE  /\ queued' \in [QueueIndex -> 0 .. MaxQueued]
           /\ limited' \in [QueueIndex -> BOOLEAN]
           /\ sincePause' \in [QueueIndex -> Nat]
BY Bounds DEF LoopTypeOK, TakeFrom

\* A worker starts well typed.
LEMMA InitTypes == LoopInit => LoopTypeOK
<1> SUFFICES ASSUME LoopInit
             PROVE  LoopTypeOK
  OBVIOUS
<1>1. chain \in [Chain -> Places] /\ base \in QueueIndex
  BY FixedPlaces DEF LoopInit
<1>2. /\ queued \in [QueueIndex -> 0 .. MaxQueued] /\ sincePause \in [QueueIndex -> Nat]
      /\ {starting, starts} \subseteq 0 .. MaxStarts /\ sinceStop \in Nat
      /\ missed \in 0 .. StatusLife
  BY Bounds DEF LoopInit
<1>3. /\ paused \in [QueueIndex -> BOOLEAN] /\ limited \in [QueueIndex -> BOOLEAN]
      /\ {running, leaked, listed} \subseteq BOOLEAN /\ timer \in {"off", "on", "late"}
  BY DEF LoopInit
<1> QED
  BY <1>1, <1>2, <1>3 DEF LoopTypeOK, Places

\* What a step of a chain does to the variables it does not only pass on.
LEMMA ChainStepTypes ==
    ASSUME LoopTypeOK, NEW c \in Chain, Step(c) \/ PollError(c)
    PROVE  LoopTypeOK'
<1>1. /\ chain \in [Chain -> Places] /\ base \in QueueIndex /\ chain[c] \in Places
      /\ chain[c].q \in QueueIndex
  BY DEF LoopTypeOK, Places
<1>2. CASE BeginPoll(c)
  <2>1. (base + 0) % NQueues \in QueueIndex
    BY <1>1, Bounds, IndexWraps DEF QueueIndex
  <2> DEFINE first == [pc |-> "asking", i |-> 0, q |-> (base + 0) % NQueues, found |-> FALSE]
  <2>2. first \in Places
    BY <2>1, FixedPlaces DEF Places, PC
  <2>3. chain' = [chain EXCEPT ![c] = Ended] \/ chain' = [chain EXCEPT ![c] = first]
    BY <1>2 DEF BeginPoll, Visit
  <2> HIDE DEF first
  <2>4. chain' \in [Chain -> Places]
    BY <1>1, <2>2, <2>3, FixedPlaces
  <2> QED
    BY <1>2, <2>4 DEF BeginPoll, LoopTypeOK, Places, redisVars, statusVars, lifeVars
<1>3. CASE ReadPause(c) \/ FindNothing(c) \/ RemoveOrphan(c)
  <2>1. Continue(c) \/ (Goto(c, "claiming") /\ base' = base)
    BY <1>3 DEF ReadPause, FindNothing, RemoveOrphan
  <2>2. chain' \in [Chain -> Places] /\ base' \in QueueIndex
    BY <1>1, <2>1, ContinueTypes, GotoTypes DEF PC
  <2> QED
    BY <1>3, <2>2 DEF ReadPause, FindNothing, RemoveOrphan, LoopTypeOK, Places,
                      redisVars, statusVars, lifeVars
<1>4. CASE Claim(c)
  <2>1. chain' \in [Chain -> Places] /\ base' \in QueueIndex
    BY <1>1, <1>4 DEF Claim, Places, PC
  <2>2. TakeFrom(chain[c].q)
    BY <1>4 DEF Claim
  <2>3. /\ queued' \in [QueueIndex -> 0 .. MaxQueued] /\ limited' \in [QueueIndex -> BOOLEAN]
        /\ sincePause' \in [QueueIndex -> Nat]
    BY <1>1, <2>2, TakeTypes
  <2>4. UNCHANGED <<paused, adds, errors, sinceStop, statusVars, lifeVars>>
    BY <1>4 DEF Claim, TakeFrom
  <2> QED
    BY <2>1, <2>3, <2>4 DEF LoopTypeOK, Places, statusVars, lifeVars
<1>5. CASE Fetch(c)
  <2>1. chain' = [chain EXCEPT ![c] = Busy] \/ Goto(c, "removing")
    BY <1>5 DEF Fetch
  <2>2. chain' \in [Chain -> Places]
    BY <1>1, <2>1, FixedPlaces, GotoTypes DEF PC
  <2>3. sinceStop' \in Nat
    BY <1>5 DEF Fetch, LoopTypeOK
  <2> QED
    BY <1>5, <2>2, <2>3 DEF Fetch, LoopTypeOK, Places, redisVars, statusVars, lifeVars
<1>6. CASE Finish(c)
  <2>1. chain' \in [Chain -> Places]
    BY <1>1, <1>6, FixedPlaces DEF Finish
  <2>2. listed \in BOOLEAN /\ missed \in 0 .. StatusLife /\ 0 \in 0 .. StatusLife
    BY Bounds DEF LoopTypeOK
  <2>3. (listed' = TRUE /\ missed' = 0) \/ (listed' = listed /\ missed' = missed)
    BY <1>6 DEF Finish, Publish
  <2>4. listed' \in BOOLEAN /\ missed' \in 0 .. StatusLife
    BY <2>2, <2>3
  <2> QED
    BY <1>6, <2>1, <2>4 DEF Finish, LoopTypeOK, Places, redisVars, lifeVars
<1>7. CASE PollError(c)
  <2>1. Continue(c) /\ UNCHANGED <<sinceStop, statusVars, lifeVars>>
    BY <1>7 DEF PollError
  <2>2. chain' \in [Chain -> Places] /\ base' \in QueueIndex
    BY <2>1, ContinueTypes
  <2>3. UNCHANGED redisVars \/ (TakeFrom(chain[c].q) /\ UNCHANGED <<paused, adds>>)
    BY <1>7 DEF PollError, TakeFrom
  <2>4. /\ queued' \in [QueueIndex -> 0 .. MaxQueued] /\ limited' \in [QueueIndex -> BOOLEAN]
        /\ sincePause' \in [QueueIndex -> Nat] /\ paused' = paused
    BY <1>1, <2>3, TakeTypes DEF redisVars, LoopTypeOK
  <2> QED
    BY <2>1, <2>2, <2>4 DEF LoopTypeOK, Places, statusVars, lifeVars
<1> QED
  BY <1>2, <1>3, <1>4, <1>5, <1>6, <1>7 DEF Step

-----------------------------------------------------------------------------
(* How chains move                                                         *)

Polling(c) == chain[c].pc \in {"asking", "claiming", "fetching", "removing"}

Live == {c \in Chain : ~At(c, "none")}

Underway == {c \in Chain : Polling(c)}

Claiming(q) == {c \in Chain : At(c, "claiming") /\ chain[c].q = q}

\* A chain is begun by a start() of its own, so no more of them exist than
\* start() was called.
EachHasItsStart == Cardinality(Live) + starting <= starts

\* A pass of the loop moves its own chain, to a read of the pause key or to
\* the timer of the next poll.
LEMMA ContinueMoves ==
    ASSUME LoopTypeOK, NEW c \in Chain, Continue(c)
    PROVE  /\ \A d \in Chain \ {c} : chain'[d] = chain[d]
           /\ chain'[c].pc \in {"asking", "timer"}
<1>1. chain \in [Chain -> Places]
  BY DEF LoopTypeOK, Places
<1> QED
  BY <1>1 DEF Continue, Visit, Waiting, Ended

\* The facts about a step of a chain that the properties rest on: poll looks at
\* running before anything else, reads the pause key right before the claim,
\* and a chain that has its job is under way no more.
LEMMA ChainMoves ==
    ASSUME LoopTypeOK, NEW c \in Chain, Step(c) \/ PollError(c)
    PROVE  /\ \A d \in Chain \ {c} : chain'[d] = chain[d]
           /\ ~At(c, "none")
           /\ UNCHANGED <<lifeVars, timer, leaked, paused>>
           /\ UNCHANGED <<listed, missed>> \/ (listed' /\ missed' = 0)
           /\ Polling(c)' => running \/ Polling(c)
           /\ \/ sinceStop' = sinceStop
              \/ ~running /\ Polling(c) /\ ~Polling(c)' /\ sinceStop' = sinceStop + 1
           /\ At(c, "claiming")' => ~paused[chain'[c].q]
           /\ \/ sincePause' = sincePause
              \/ /\ At(c, "claiming") /\ ~At(c, "claiming")' /\ chain[c].q \in QueueIndex
                 /\ sincePause' = [sincePause EXCEPT ![chain[c].q] =
                                      IF paused[chain[c].q] THEN @ + 1 ELSE @]
<1> USE DEF lifeVars, statusVars, redisVars, At, Polling
<1>1. chain \in [Chain -> Places] /\ chain[c] \in Places /\ chain[c].q \in QueueIndex
  BY DEF LoopTypeOK, Places
<1>2. CASE BeginPoll(c)
  BY <1>1, <1>2 DEF BeginPoll, Visit, Ended
<1>3. CASE ReadPause(c)
  <2>1. CASE paused[chain[c].q]
    BY <1>3, <2>1, ContinueMoves DEF ReadPause
  <2>2. CASE ~paused[chain[c].q]
    <3>1. chain' = [chain EXCEPT ![c].pc = "claiming"] /\ chain'[c].q = chain[c].q
      BY <1>1, <1>3, <2>2 DEF ReadPause, Goto, Places
    <3> QED
      BY <1>1, <1>3, <2>2, <3>1 DEF ReadPause
  <2> QED
    BY <2>1, <2>2
<1>4. CASE Claim(c)
  <2>1. chain'[c].pc = "fetching" /\ \A d \in Chain \ {c} : chain'[d] = chain[d]
    BY <1>1, <1>4 DEF Claim, Places
  <2> QED
    BY <1>1, <1>4, <2>1 DEF Claim, TakeFrom
<1>5. CASE FindNothing(c) \/ RemoveOrphan(c)
  BY <1>5, ContinueMoves DEF FindNothing, RemoveOrphan
<1>6. CASE Fetch(c)
  <2>1. CASE chain' = [chain EXCEPT ![c] = Busy]
    BY <1>1, <1>6, <2>1 DEF Fetch, Busy, Ended
  <2>2. CASE Goto(c, "removing") /\ UNCHANGED sinceStop
    <3>1. chain'[c].pc = "removing" /\ \A d \in Chain \ {c} : chain'[d] = chain[d]
      BY <1>1, <2>2 DEF Goto, Places
    <3> QED
      BY <1>6, <2>2, <3>1 DEF Fetch
  <2> QED
    BY <1>6, <2>1, <2>2 DEF Fetch
<1>7. CASE Finish(c)
  BY <1>1, <1>7 DEF Finish, Publish, Waiting, Ended
<1>8. CASE PollError(c)
  <2>1. Continue(c) /\ UNCHANGED <<sinceStop, statusVars, lifeVars>>
    BY <1>8 DEF PollError
  <2>2. Polling(c) /\ (UNCHANGED redisVars \/ (At(c, "claiming") /\ TakeFrom(chain[c].q)))
    BY <1>8 DEF PollError
  <2> QED
    BY <1>1, <2>1, <2>2, ContinueMoves DEF TakeFrom
<1> QED
  BY <1>2, <1>3, <1>4, <1>5, <1>6, <1>7, <1>8 DEF Step

-----------------------------------------------------------------------------
(* The invariant of types and starts                                       *)

LoopInv == LoopTypeOK /\ EachHasItsStart

\* LoopInv holds at first,
LEMMA InitLoopInv == LoopInit => LoopInv
<1> SUFFICES ASSUME LoopInit
             PROVE  EachHasItsStart
  BY InitTypes DEF LoopInv
<1>1. Live = {}
  BY DEF LoopInit, Live, At, Ended
<1> QED
  BY <1>1, FS_EmptySet DEF LoopInit, EachHasItsStart

\* As long as a call of start() waits, there is a chain for it to begin.
LEMMA ChainIsFree ==
    ASSUME LoopInv, Started
    PROVE  \E c \in Chain : At(c, "none") /\ chain' = [chain EXCEPT ![c] = Waiting]
<1>1. Cardinality(Live) < MaxStarts /\ Cardinality(Chain) = MaxStarts
  <2>1. Cardinality(Live) \in Nat
    BY FiniteChains DEF Live
  <2>2. Cardinality(Live) + starting <= starts /\ starting > 0 /\ starts \in 0 .. MaxStarts
        /\ starting \in 0 .. MaxStarts
    BY DEF LoopInv, EachHasItsStart, LoopTypeOK, Started
  <2>3. Cardinality(Chain) = MaxStarts
    BY Bounds, FS_Interval DEF Chain
  <2> QED
    BY <2>1, <2>2, <2>3, Bounds
<1>2. Live # Chain
  BY <1>1, Bounds
<1>3. \E c \in Chain : At(c, "none")
  BY <1>2 DEF Live
<1> QED
  BY <1>3 DEF Started

\* and every step keeps it.
LEMMA StepLoopInv ==
    ASSUME LoopInv, [LoopNext]_vars
    PROVE  LoopInv'
<1> USE Bounds DEF redisVars, statusVars, lifeVars
<1>1. /\ LoopTypeOK /\ Cardinality(Live) \in Nat /\ Cardinality(Live) + starting <= starts
      /\ starting \in Nat /\ starts \in 0 .. MaxStarts
      /\ chain \in [Chain -> Places]
  BY FiniteChains DEF LoopInv, EachHasItsStart, Live, LoopTypeOK, Places
<1>2. ASSUME NEW c \in Chain, Step(c) \/ PollError(c)
      PROVE  LoopInv'
  <2>1. Live' \subseteq Live
    BY <1>1, <1>2, ChainMoves DEF Live, At
  <2>2. Cardinality(Live)' <= Cardinality(Live) /\ Cardinality(Live)' \in Nat
    BY <2>1, FewerChains, FiniteChains DEF Live
  <2>3. UNCHANGED <<starting, starts>>
    BY <1>1, <1>2, ChainMoves
  <2>4. EachHasItsStart'
    BY <1>1, <2>2, <2>3 DEF EachHasItsStart
  <2> QED
    BY <1>1, <1>2, <2>4, ChainStepTypes DEF LoopInv
<1>3. CASE Start
  <2>1. Live' = Live /\ starting' = starting + 1 /\ starts' = starts + 1 /\ starts < MaxStarts
    BY <1>3 DEF Start, Live, At
  <2>2. EachHasItsStart' /\ {starting', starts'} \subseteq 0 .. MaxStarts
    BY <1>1, <2>1 DEF EachHasItsStart
  <2>3. LoopTypeOK'
    BY <1>1, <1>3, <2>2 DEF Start, LoopTypeOK
  <2> QED
    BY <2>2, <2>3 DEF LoopInv
<1>4. CASE Started
  <2>1. PICK c \in Chain : At(c, "none") /\ chain' = [chain EXCEPT ![c] = Waiting]
    BY <1>4, ChainIsFree
  <2>2. Live' \subseteq Live \cup {c}
    BY <1>1, <2>1 DEF Live, At
  <2>3. Cardinality(Live)' <= Cardinality(Live) + 1 /\ Cardinality(Live)' \in Nat
    BY <2>2, FewerChains, FiniteChains DEF Live
  <2>4. starting > 0 /\ starting' = starting - 1 /\ starts' = starts
    BY <1>4 DEF Started
  <2>5. EachHasItsStart' /\ {starting', starts'} \subseteq 0 .. MaxStarts
    BY <1>1, <2>3, <2>4 DEF EachHasItsStart
  <2>6. chain' \in [Chain -> Places]
    BY <1>1, <2>1, FixedPlaces
  <2>7. /\ leaked' \in BOOLEAN /\ timer' \in {"off", "on", "late"}
        /\ UNCHANGED <<redisVars, base, sinceStop, running>>
    BY <1>1, <1>4 DEF Started, LoopTypeOK
  <2>8. listed' \in BOOLEAN /\ missed' \in 0 .. StatusLife
    <3>1. listed \in BOOLEAN /\ missed \in 0 .. StatusLife /\ {0, StatusLife} \subseteq 0 .. StatusLife
      BY <1>1 DEF LoopTypeOK
    <3>2. listed' \in {TRUE, listed} /\ missed' \in {0, missed, StatusLife}
      BY <1>4 DEF Started, Publish
    <3> QED
      BY <3>1, <3>2
  <2> QED
    BY <1>1, <2>5, <2>6, <2>7, <2>8 DEF LoopInv, LoopTypeOK, Places
<1>5. CASE Stop \/ StatusTick \/ StatusMissed \/ StatusExpires
  <2>1. UNCHANGED <<redisVars, chain, base, starting, starts>>
    BY <1>5 DEF Stop, StatusTick, StatusMissed, StatusExpires
  <2>2. /\ running \in BOOLEAN /\ leaked \in BOOLEAN /\ listed \in BOOLEAN
        /\ timer \in {"off", "on", "late"} /\ sinceStop \in Nat
        /\ missed \in 0 .. StatusLife /\ 0 \in 0 .. StatusLife
    BY <1>1 DEF LoopTypeOK
  <2>3. /\ running' \in BOOLEAN /\ leaked' \in BOOLEAN /\ listed' \in BOOLEAN
        /\ timer' \in {"off", "on", "late"} /\ sinceStop' \in Nat
        /\ missed' \in 0 .. StatusLife
    <3>1. CASE Stop
      <4>1. listed' \in {FALSE, listed} /\ missed' \in {0, missed}
        BY <3>1 DEF Stop
      <4> QED
        BY <2>2, <3>1, <4>1 DEF Stop
    <3>2. CASE StatusTick
      BY <2>2, <3>2 DEF StatusTick, Publish
    <3>3. CASE StatusMissed
      BY <2>2, <3>3 DEF StatusMissed
    <3>4. CASE StatusExpires
      BY <2>2, <3>4 DEF StatusExpires
    <3> QED
      BY <1>5, <3>1, <3>2, <3>3, <3>4
  <2> QED
    BY <1>1, <2>1, <2>3 DEF LoopInv, LoopTypeOK, EachHasItsStart, Live, At
<1>6. ASSUME NEW q \in QueueIndex, Add(q) \/ PauseQueue(q) \/ ResumeQueue(q) \/ WindowPasses(q)
      PROVE  LoopInv'
  <2>1. UNCHANGED <<chain, base, statusVars, lifeVars, sinceStop>>
    BY <1>6 DEF Add, PauseQueue, ResumeQueue, SetPaused, WindowPasses
  <2>2. /\ queued' \in [QueueIndex -> 0 .. MaxQueued]
        /\ paused' \in [QueueIndex -> BOOLEAN] /\ limited' \in [QueueIndex -> BOOLEAN]
        /\ sincePause' \in [QueueIndex -> Nat]
    <3>1. /\ queued \in [QueueIndex -> 0 .. MaxQueued]
          /\ paused \in [QueueIndex -> BOOLEAN] /\ limited \in [QueueIndex -> BOOLEAN]
          /\ sincePause \in [QueueIndex -> Nat]
      BY <1>1 DEF LoopTypeOK
    <3>2. CASE Add(q)
      BY <3>1, <3>2 DEF Add
    <3>3. CASE PauseQueue(q) \/ ResumeQueue(q)
      <4>1. PICK value \in BOOLEAN : SetPaused(q, value)
        BY <3>3 DEF PauseQueue, ResumeQueue
      <4>2. /\ paused' = [paused EXCEPT ![q] = value] /\ sincePause' = [sincePause EXCEPT ![q] = 0]
            /\ UNCHANGED <<queued, limited>>
        BY <4>1 DEF SetPaused
      <4> QED
        BY <3>1, <4>2
    <3>4. CASE WindowPasses(q)
      BY <3>1, <3>4 DEF WindowPasses
    <3> QED
      BY <1>6, <3>2, <3>3, <3>4
  <2> QED
    BY <1>1, <2>1, <2>2 DEF LoopInv, LoopTypeOK, EachHasItsStart, Live, At
<1>7. CASE UNCHANGED vars
  BY <1>1, <1>7 DEF vars, LoopInv, LoopTypeOK, EachHasItsStart, Live, At
<1> QED
  BY <1>2, <1>3, <1>4, <1>5, <1>6, <1>7 DEF LoopNext

\* Types hold in every behaviour of a worker.
THEOREM LoopTypes == LoopSpec => []LoopTypeOK
<1>1. LoopInv => LoopTypeOK
  BY DEF LoopInv
<1> QED
  BY <1>1, InitLoopInv, StepLoopInv, PTL DEF LoopSpec

-----------------------------------------------------------------------------
(* stop()                                                                  *)

\* After stop() a chain under way starts one more job or none, and then it is
\* under way no more; no chain can get under way.
StopInv ==
    IF running THEN sinceStop = 0
               ELSE sinceStop + Cardinality(Underway) <= starts

\* Every step keeps the count of what may still start after stop(),
LEMMA StepStopInv ==
    ASSUME LoopInv, StopInv, [LoopNext]_vars
    PROVE  StopInv'
<1> USE DEF StopInv, lifeVars
<1>1. /\ LoopTypeOK /\ Cardinality(Underway) \in Nat /\ Cardinality(Live) \in Nat
      /\ Cardinality(Underway)' \in Nat
      /\ sinceStop \in Nat /\ starts \in Nat /\ starting \in Nat
      /\ Cardinality(Live) + starting <= starts
  BY FiniteChains, Bounds DEF LoopInv, EachHasItsStart, Underway, Live, LoopTypeOK
<1>2. Cardinality(Underway) <= starts
  <2>1. Underway \subseteq Live
    BY DEF Underway, Live, Polling, At
  <2>2. Cardinality(Underway) <= Cardinality(Live)
    BY <2>1, FiniteChains, FS_Subset DEF Live
  <2> QED
    BY <1>1, <2>2
<1>3. ASSUME NEW c \in Chain, Step(c) \/ PollError(c)
      PROVE  StopInv'
  <2>1. UNCHANGED <<running, starts>>
    BY <1>1, <1>3, ChainMoves
  <2>2. CASE running
    BY <1>1, <1>3, <2>1, <2>2, ChainMoves
  <2>3. CASE ~running /\ sinceStop' = sinceStop
    <3>1. Underway' \subseteq Underway
      BY <1>1, <1>3, <2>3, ChainMoves DEF Underway, Polling
    <3>2. Cardinality(Underway)' <= Cardinality(Underway)
      BY <3>1, FewerChains DEF Underway
    <3> QED
      BY <1>1, <2>1, <2>3, <3>2
  <2>4. CASE ~running /\ sinceStop' # sinceStop
    <3>1. Polling(c) /\ ~Polling(c)' /\ sinceStop' = sinceStop + 1
      BY <1>1, <1>3, <2>4, ChainMoves
    <3>2. \A d \in Chain \ {c} : chain'[d] = chain[d]
      BY <1>1, <1>3, ChainMoves
    <3>3. c \in Underway /\ Underway' \subseteq Underway \ {c}
      BY <3>1, <3>2 DEF Underway, Polling
    <3>4. Cardinality(Underway)' + 1 <= Cardinality(Underway)
      BY <3>3, FewerChains DEF Underway
    <3> QED
      BY <1>1, <2>1, <2>4, <3>1, <3>4
  <2> QED
    BY <2>2, <2>3, <2>4
<1>4. CASE Start
  BY <1>4 DEF Start
<1>5. CASE Started
  <2>1. PICK c \in Chain : At(c, "none") /\ chain' = [chain EXCEPT ![c] = Waiting]
    BY <1>5, ChainIsFree
  <2>2. Underway' \subseteq Underway
    BY <1>1, <2>1 DEF Underway, Polling, At, Waiting, Ended, LoopTypeOK
  <2>3. Cardinality(Underway)' <= Cardinality(Underway)
    BY <2>2, FewerChains DEF Underway
  <2>4. UNCHANGED <<running, sinceStop, starts>>
    BY <1>5 DEF Started
  <2> QED
    BY <1>1, <2>3, <2>4
<1>6. CASE Stop
  <2>1. Underway' = Underway /\ starts' = starts /\ ~running'
        /\ sinceStop' = IF running THEN 0 ELSE sinceStop
    BY <1>6 DEF Stop, Underway, Polling
  <2> QED
    BY <1>1, <1>2, <2>1
<1>7. CASE \/ StatusTick \/ StatusMissed \/ StatusExpires \/ UNCHANGED vars
           \/ \E q \in QueueIndex : Add(q) \/ PauseQueue(q) \/ ResumeQueue(q) \/ WindowPasses(q)
  <2>1. UNCHANGED <<chain, running, starts, sinceStop>>
    BY <1>7 DEF StatusTick, StatusMissed, StatusExpires, vars, Add, PauseQueue, ResumeQueue,
                SetPaused, WindowPasses
  <2> QED
    BY <2>1 DEF Underway, Polling
<1> QED
  BY <1>3, <1>4, <1>5, <1>6, <1>7 DEF LoopNext

\* stop() holds although poll looks at running only when it begins
\* (src/src/Worker.ts:170): each chain that is under way starts at most one more
\* job, however many queues it serves, whatever fails, and whether or not
\* start() is called meanwhile.
THEOREM StopIsKept == LoopSpec => []StopHolds
<1>1. LoopInit => StopInv
  <2> SUFFICES ASSUME LoopInit
               PROVE  StopInv
    OBVIOUS
  <2>1. Underway = {}
    BY DEF LoopInit, Underway, Polling, Ended
  <2> QED
    BY <2>1, FS_EmptySet DEF LoopInit, StopInv
<1>2. LoopInv /\ StopInv => StopHolds
  <2> SUFFICES ASSUME LoopInv, StopInv
               PROVE  StopHolds
    OBVIOUS
  <2>1. Cardinality(Underway) \in Nat /\ sinceStop \in Nat /\ starts \in Nat
    BY FiniteChains DEF LoopInv, LoopTypeOK, Underway
  <2> QED
    BY <2>1 DEF StopInv, StopHolds
<1> QED
  BY <1>1, <1>2, InitLoopInv, StepLoopInv, StepStopInv, PTL DEF LoopSpec

-----------------------------------------------------------------------------
(* Pause                                                                   *)

\* Once the key is set no chain goes on to a claim at the queue, so each one that
\* was about to claim takes one more job or none.
PauseInv ==
    \A q \in QueueIndex :
        IF paused[q] THEN sincePause[q] + Cardinality(Claiming(q)) <= starts
                     ELSE sincePause[q] = 0

\* and the count of what may still be taken from a paused queue.
LEMMA StepPauseInv ==
    ASSUME LoopInv, PauseInv, [LoopNext]_vars
    PROVE  PauseInv'
<1> SUFFICES ASSUME NEW q \in QueueIndex
             PROVE  IF paused'[q] THEN sincePause'[q] + Cardinality(Claiming(q))' <= starts'
                                  ELSE sincePause'[q] = 0
  BY DEF PauseInv
<1> USE DEF lifeVars, redisVars
<1>1. /\ LoopTypeOK /\ Cardinality(Claiming(q)) \in Nat /\ Cardinality(Claiming(q))' \in Nat
      /\ sincePause \in [QueueIndex -> Nat] /\ sincePause[q] \in Nat
      /\ paused \in [QueueIndex -> BOOLEAN]
      /\ starts \in Nat /\ starting \in Nat
  BY FiniteChains, Bounds DEF LoopInv, Claiming, LoopTypeOK
<1>2. Cardinality(Claiming(q)) <= starts
  <2>1. Claiming(q) \subseteq Live
    BY DEF Claiming, Live, At
  <2>2. Cardinality(Claiming(q)) <= Cardinality(Live) /\ Cardinality(Live) \in Nat
    BY <2>1, FiniteChains, FS_Subset DEF Live
  <2> QED
    BY <1>1, <2>2 DEF LoopInv, EachHasItsStart
<1>3. IF paused[q] THEN sincePause[q] + Cardinality(Claiming(q)) <= starts
                   ELSE sincePause[q] = 0
  BY DEF PauseInv
<1>4. ASSUME NEW c \in Chain, Step(c) \/ PollError(c)
      PROVE  IF paused'[q] THEN sincePause'[q] + Cardinality(Claiming(q))' <= starts'
                           ELSE sincePause'[q] = 0
  <2>1. UNCHANGED <<paused, starts>>
    BY <1>1, <1>4, ChainMoves
  <2>2. \A d \in Chain \ {c} : chain'[d] = chain[d]
    BY <1>1, <1>4, ChainMoves
  <2>3. CASE sincePause'[q] = sincePause[q] /\ paused[q]
    <3>1. CASE c \in Claiming(q)' /\ c \notin Claiming(q)
      <4>1. At(c, "claiming")' /\ chain'[c].q = q
        BY <3>1 DEF Claiming, At
      <4> QED
        BY <1>1, <1>4, <2>3, <4>1, ChainMoves
    <3>2. CASE ~(c \in Claiming(q)' /\ c \notin Claiming(q))
      <4>1. Claiming(q)' \subseteq Claiming(q)
        BY <2>2, <3>2 DEF Claiming, At
      <4>2. Cardinality(Claiming(q))' <= Cardinality(Claiming(q))
        BY <4>1, FewerChains DEF Claiming
      <4> QED
        BY <1>1, <1>3, <2>1, <2>3, <4>2
    <3> QED
      BY <3>1, <3>2
  <2>4. CASE sincePause'[q] # sincePause[q]
    <3>1. /\ At(c, "claiming") /\ ~At(c, "claiming")' /\ chain[c].q \in QueueIndex
          /\ sincePause' = [sincePause EXCEPT ![chain[c].q] =
                               IF paused[chain[c].q] THEN @ + 1 ELSE @]
      BY <1>1, <1>4, <2>4, ChainMoves
    <3>2. chain[c].q = q /\ paused[q] /\ sincePause'[q] = sincePause[q] + 1
      BY <1>1, <2>4, <3>1
    <3>3. c \in Claiming(q) /\ Claiming(q)' \subseteq Claiming(q) \ {c}
      BY <2>2, <3>1, <3>2 DEF Claiming, At
    <3>4. Cardinality(Claiming(q))' + 1 <= Cardinality(Claiming(q))
      BY <3>3, FewerChains DEF Claiming
    <3> QED
      BY <1>1, <1>3, <2>1, <3>2, <3>4
  <2> QED
    BY <1>3, <2>1, <2>3, <2>4
<1>5. CASE Start
  <2>1. UNCHANGED <<paused, sincePause, chain>> /\ starts' = starts + 1
    BY <1>5 DEF Start
  <2>2. Claiming(q)' = Claiming(q)
    BY <2>1 DEF Claiming, At
  <2> QED
    BY <1>1, <1>3, <2>1, <2>2
<1>6. CASE Started
  <2>1. PICK c \in Chain : At(c, "none") /\ chain' = [chain EXCEPT ![c] = Waiting]
    BY <1>6, ChainIsFree
  <2>2. Claiming(q)' \subseteq Claiming(q)
    BY <1>1, <2>1 DEF Claiming, At, Waiting, Ended, LoopTypeOK
  <2>3. Cardinality(Claiming(q))' <= Cardinality(Claiming(q))
    BY <2>2, FewerChains DEF Claiming
  <2>4. UNCHANGED <<paused, sincePause, starts>>
    BY <1>6 DEF Started
  <2> QED
    BY <1>1, <1>3, <2>3, <2>4
<1>7. ASSUME NEW p \in QueueIndex, NEW value \in BOOLEAN, SetPaused(p, value)
      PROVE  IF paused'[q] THEN sincePause'[q] + Cardinality(Claiming(q))' <= starts'
                           ELSE sincePause'[q] = 0
  <2>1. /\ paused' = [paused EXCEPT ![p] = value] /\ sincePause' = [sincePause EXCEPT ![p] = 0]
        /\ starts' = starts /\ chain' = chain
    BY <1>7 DEF SetPaused
  <2>2. Claiming(q)' = Claiming(q)
    BY <2>1 DEF Claiming, At
  <2>3. CASE p = q
    BY <1>1, <1>2, <2>1, <2>2, <2>3
  <2>4. CASE p # q
    BY <1>1, <1>3, <2>1, <2>2, <2>4
  <2> QED
    BY <2>3, <2>4
<1>8. CASE \/ Stop \/ StatusTick \/ StatusMissed \/ StatusExpires \/ UNCHANGED vars
           \/ \E p \in QueueIndex : Add(p) \/ WindowPasses(p)
  <2>1. UNCHANGED <<chain, paused, sincePause, starts>>
    BY <1>8 DEF Stop, StatusTick, StatusMissed, StatusExpires, vars, Add, WindowPasses
  <2>2. Claiming(q)' = Claiming(q)
    BY <2>1 DEF Claiming, At
  <2> QED
    BY <1>3, <2>1, <2>2
<1> QED
  BY <1>4, <1>5, <1>6, <1>7, <1>8 DEF LoopNext, PauseQueue, ResumeQueue

\* A pause holds although the key is read before the claim
\* (src/src/Worker.ts:193): every chain takes at most one more job from a queue
\* that was paused, the one it was about to claim.
THEOREM PauseIsKept == LoopSpec => []PauseHolds
<1>1. LoopInit => PauseInv
  BY DEF LoopInit, PauseInv
<1>2. LoopInv /\ PauseInv => PauseHolds
  <2> SUFFICES ASSUME LoopInv, PauseInv, NEW q \in QueueIndex
               PROVE  sincePause[q] <= starts
    BY DEF PauseHolds
  <2>1. Cardinality(Claiming(q)) \in Nat /\ sincePause[q] \in Nat /\ starts \in Nat
    BY FiniteChains DEF LoopInv, LoopTypeOK, Claiming
  <2> QED
    BY <2>1 DEF PauseInv
<1> QED
  BY <1>1, <1>2, InitLoopInv, StepLoopInv, StepPauseInv, PTL DEF LoopSpec

-----------------------------------------------------------------------------
(* The status hash                                                         *)

\* A running worker whose start() calls are over has an interval.  Its hash
\* expires only when as many publications failed as fit in its TTL, and stop()
\* is the only code that deletes it.
StatusInv == running /\ starting = 0 => timer = "on" /\ (listed \/ missed = StatusLife)

\* Only stop() clears the interval and deletes the hash of a worker.
LEMMA StepStatusInv ==
    ASSUME LoopInv, StatusInv, [LoopNext]_vars
    PROVE  StatusInv'
<1> USE Bounds DEF StatusInv, lifeVars, statusVars
<1>1. LoopTypeOK /\ starting \in Nat /\ missed \in 0 .. StatusLife
  BY DEF LoopInv, LoopTypeOK
<1>2. ASSUME NEW c \in Chain, Step(c) \/ PollError(c)
      PROVE  StatusInv'
  BY <1>1, <1>2, ChainMoves
<1>3. CASE Start
  BY <1>1, <1>3 DEF Start
<1>4. CASE Started
  <2>1. \/ listed' /\ missed' = 0
        \/ /\ listed' = listed
           /\ missed' = IF HasInterval /\ listed THEN missed ELSE StatusLife
    BY <1>4 DEF Started, Publish
  <2>2. running' => timer' = "on"
    BY <1>4 DEF Started
  <2> QED
    BY <2>1, <2>2
<1>5. CASE Stop \/ StatusTick
  BY <1>5 DEF Stop, StatusTick, Publish
<1>6. CASE StatusMissed
  BY <1>1, <1>6 DEF StatusMissed
<1>7. CASE StatusExpires
  <2>1. UNCHANGED <<running, starting, timer, missed>>
    BY <1>7 DEF StatusExpires
  <2>2. timer = "on" => missed = StatusLife
    BY <1>7 DEF StatusExpires, HasInterval
  <2> QED
    BY <2>1, <2>2
<1>8. CASE \/ UNCHANGED vars
           \/ \E q \in QueueIndex : Add(q) \/ PauseQueue(q) \/ ResumeQueue(q) \/ WindowPasses(q)
  BY <1>8 DEF vars, Add, PauseQueue, ResumeQueue, SetPaused, WindowPasses
<1> QED
  BY <1>2, <1>3, <1>4, <1>5, <1>6, <1>7, <1>8 DEF LoopNext

\* Every running worker is known to the API (GET /workers), whatever stop()
\* deleted while an earlier or a later start() was under way
\* (src/src/Worker.ts:96, 122-126), and whichever publications failed
\* (src/src/Worker.ts:292, 337, 339), until as many in a row as fit in the TTL
\* of its hash, or the first one of its start().
THEOREM RunningStaysListed == LoopSpec => []RunningIsListed
<1>1. LoopInit => StatusInv
  BY DEF LoopInit, StatusInv
<1>2. LoopInv /\ StatusInv => RunningIsListed
  BY Bounds DEF LoopInv, LoopTypeOK, StatusInv, RunningIsListed
<1> QED
  BY <1>1, <1>2, InitLoopInv, StepLoopInv, StepStatusInv, PTL DEF LoopSpec
=============================================================================
