-------------------------- MODULE QueueStoreProofs --------------------------
(***************************************************************************)
(* What holds of the scripts for every set of jobs, every bound and every  *)
(* order in which any number of callers run them: type correctness, that   *)
(* no job is lost, and the smaller invariants of QueueStore.               *)
(***************************************************************************)
EXTENDS QueueStore, FiniteSetTheorems, TLAPS

-----------------------------------------------------------------------------
(* Lemmas about the Redis data types                                       *)

\* Adding a known id with a number keeps a key well typed.
LEMMA PutScored ==
    ASSUME NEW z, IsScored(z), NEW k \in Id, NEW v \in Int
    PROVE  IsScored(Put(z, k, v))
  BY DEF IsScored, Put

\* Removing ids keeps a key well typed.
LEMMA DropScored ==
    ASSUME NEW z, IsScored(z), NEW S
    PROVE  IsScored(Drop(z, S))
  BY DEF IsScored, Drop, Restrict

\* A key that does not exist is well typed.
LEMMA NothingScored == IsScored(Nothing) /\ DOMAIN Nothing = {}
  BY DEF IsScored, Nothing

\* The scores and times callers send are numbers.
LEMMA TimeIsInt == Time \subseteq Int
  BY NumberAssumption

\* Promotion keeps the waiting set well typed, loses nobody, and adds
\* exactly the delayed jobs that are due.
LEMMA PromotedFacts ==
    ASSUME StoreTypeOK, NEW now
    PROVE  /\ IsScored(Promoted(now))
           /\ DOMAIN Promoted(now) = DOMAIN waiting \cup UpTo(delayed, now)
           /\ UpTo(delayed, now) \subseteq DOMAIN delayed
  BY DEF Promoted, StoreTypeOK, IsScored, Hash, UpTo

\* The limiter's window is well typed and no larger than the limiter.
LEMMA WindowFacts ==
    ASSUME StoreTypeOK, NEW now
    PROVE  IsScored(Window(now)) /\ DOMAIN Window(now) \subseteq DOMAIN limiter
<1> DEFINE old == UpTo(limiter, now - LimitDuration)
<1>1. IsScored(limiter)
  BY DEF StoreTypeOK
<1>2. IsScored(Drop(limiter, old))
  BY <1>1, DropScored
<1>3. DOMAIN Drop(limiter, old) \subseteq DOMAIN limiter
  BY DEF Drop, Restrict
<1>4. QED BY <1>1, <1>2, <1>3 DEF Window

-----------------------------------------------------------------------------
(* Type correctness                                                        *)

\* The initial keys are well typed.
LEMMA InitTypeOK == StoreInit => StoreTypeOK
  BY NothingScored, IdAssumption
  DEF StoreInit, StoreTypeOK, Hash, Absent, Status, Nothing

\* A script run by a producer keeps the types.
LEMMA ProduceTypeOK == StoreTypeOK /\ Produce => StoreTypeOK'
<1> SUFFICES ASSUME StoreTypeOK,
                    NEW j \in JobId, NEW p \in Priority, NEW a \in Attempts,
                    NEW k \in IdemKey \cup {NoKey}, NEW runAt \in Time, NEW now \in Time,
                    Enqueue(j, p, a, k, runAt, now)
             PROVE  StoreTypeOK'
  BY DEF Produce
<1> USE DEF StoreTypeOK
<1>1. j \in Id /\ runAt \in Int /\ PriorityScore(p) \in Int
  BY TimeIsInt DEF Id, PriorityScore
<1>2. NewHash(p, a) \in Hash
  BY <1>1, NumberAssumption DEF NewHash, Hash, MaxAttempts, Status
<1>3. job' \in [Id -> Hash]
  BY <1>2 DEF Enqueue, Store
<1>4. IsScored(waiting)' /\ IsScored(delayed)'
  <2>1. IsScored(Put(delayed, j, runAt)) /\ IsScored(Put(waiting, j, PriorityScore(p)))
    BY <1>1, PutScored
  <2>2. \/ delayed' = Put(delayed, j, runAt) /\ waiting' = waiting
        \/ waiting' = Put(waiting, j, PriorityScore(p)) /\ delayed' = delayed
    BY DEF Enqueue
  <2>3. QED BY <2>1, <2>2 DEF IsScored
<1>5. idem' \in [DOMAIN idem' -> JobId] /\ DOMAIN idem' \subseteq IdemKey
  BY DEF Enqueue, Store, Put
<1>6. issued' \subseteq JobId /\ handed' \subseteq Id
  BY DEF Enqueue, Store
<1>7. QED BY <1>3, <1>4, <1>5, <1>6 DEF Enqueue, IsScored

\* The expiry of an idempotency key keeps the types.
LEMMA ExpireTypeOK == ASSUME NEW k, StoreTypeOK, IdemExpire(k) PROVE StoreTypeOK'
  BY DEF IdemExpire, history, StoreTypeOK, IsScored, Drop, Restrict

\* A script run by a polling worker keeps the types.
LEMMA PollTypeOK == StoreTypeOK /\ Poll => StoreTypeOK'
<1> SUFFICES ASSUME StoreTypeOK, NEW now \in Time,
                    \/ NoneReady(now)
                    \/ \E j \in Id : MoveToActive(j, now)
             PROVE  StoreTypeOK'
  BY DEF Poll
<1>0. now \in Int
  BY TimeIsInt
<1>1. CASE NoneReady(now)
  BY <1>1, WindowFacts DEF NoneReady, history, StoreTypeOK, IsScored
<1>2. ASSUME NEW j \in Id, MoveToActive(j, now) PROVE StoreTypeOK'
  <2> USE <1>2
  <2>1. IsScored(limiter)'
    BY <1>0, WindowFacts, PutScored DEF MoveToActive, IsScored, StoreTypeOK
  <2>2. IsScored(waiting)' /\ IsScored(delayed)' /\ IsScored(active)'
    BY <1>0, PromotedFacts, PutScored, DropScored DEF MoveToActive, IsScored, StoreTypeOK
  <2>3. job' \in [Id -> Hash]
    BY DEF MoveToActive, StoreTypeOK, Hash, Status
  <2>4. QED BY <2>1, <2>2, <2>3 DEF MoveToActive, StoreTypeOK, IsScored
<1>3. QED BY <1>1, <1>2

\* A script run by a worker about a job it was handed keeps the types.
LEMMA FinishTypeOK == StoreTypeOK /\ Finish => StoreTypeOK'
<1> SUFFICES ASSUME StoreTypeOK, NEW j \in Id, NEW now \in Time,
                    \/ HDelOrphan(j)
                    \/ Complete(j, now)
                    \/ FailRetry(j, now)
                    \/ FailFinal(j, now)
                    \/ Heartbeat(j, now)
             PROVE  StoreTypeOK'
  BY DEF Finish
<1>0. now \in Int
  BY TimeIsInt
<1>1. CASE HDelOrphan(j)
  BY <1>1, DropScored DEF HDelOrphan, history, StoreTypeOK, IsScored
<1>2. CASE Complete(j, now)
  <2>1. job' \in [Id -> Hash]
    BY <1>2 DEF Complete, StoreTypeOK, Hash, Status
  <2>2. IsScored(completed)' /\ IsScored(active)'
    BY <1>2, <1>0, PutScored, DropScored DEF Complete, StoreTypeOK, IsScored
  <2>3. QED BY <1>2, <2>1, <2>2 DEF Complete, history, StoreTypeOK, IsScored
<1>3. ASSUME NEW s \in Status, CountFailure(j, s)
      PROVE  job' \in [Id -> Hash] /\ IsScored(active)'
  BY <1>3, DropScored DEF CountFailure, StoreTypeOK, Hash, IsScored
<1>4. CASE FailRetry(j, now)
  <2>1. job' \in [Id -> Hash] /\ IsScored(active)'
    BY <1>3, <1>4 DEF FailRetry, Status
  <2>2. IsScored(waiting)'
    BY <1>4, <1>0, PutScored DEF FailRetry, StoreTypeOK, IsScored
  <2>3. QED BY <1>4, <2>1, <2>2 DEF FailRetry, history, StoreTypeOK, IsScored
<1>5. CASE FailFinal(j, now)
  <2>1. job' \in [Id -> Hash] /\ IsScored(active)'
    BY <1>3, <1>5 DEF FailFinal, Status
  <2>2. IsScored(failed)'
    BY <1>5, <1>0, PutScored DEF FailFinal, StoreTypeOK, IsScored
  <2>3. QED BY <1>5, <2>1, <2>2 DEF FailFinal, history, StoreTypeOK, IsScored
<1>6. CASE Heartbeat(j, now)
  BY <1>6, <1>0, PutScored DEF Heartbeat, history, StoreTypeOK, IsScored
<1>7. QED BY <1>1, <1>2, <1>4, <1>5, <1>6

\* A script run by the watchdog, an operator or the cleanup keeps the types.
LEMMA MaintainTypeOK == StoreTypeOK /\ Maintain => StoreTypeOK'
<1> SUFFICES ASSUME StoreTypeOK, NEW now \in Time,
                    \/ CleanStalled(now)
                    \/ \E j \in Id : Cancel(j, now)
                    \/ \E c \in Cleanup : \/ PruneCompleted(c, now)
                                          \/ PruneFailed(c, now)
                                          \/ PruneCancelled(c, now)
             PROVE  StoreTypeOK'
  BY DEF Maintain
<1>0. now \in Int
  BY TimeIsInt
<1>1. CASE CleanStalled(now)
  <2>1. IsScored(waiting)'
    BY <1>1, <1>0 DEF CleanStalled, Stalled, StoreTypeOK, IsScored
  <2>2. IsScored(active)'
    BY <1>1, DropScored DEF CleanStalled, StoreTypeOK, IsScored
  <2>3. QED BY <1>1, <2>1, <2>2 DEF CleanStalled, history, StoreTypeOK, IsScored
<1>2. ASSUME NEW j \in Id, Cancel(j, now) PROVE StoreTypeOK'
  <2>1. job' \in [Id -> Hash]
    BY <1>2 DEF Cancel, StoreTypeOK, Hash, Status
  <2>2. IsScored(waiting)' /\ IsScored(active)' /\ IsScored(cancelled)'
    BY <1>2, <1>0, PutScored, DropScored DEF Cancel, StoreTypeOK, IsScored
  <2>3. QED BY <1>2, <2>1, <2>2 DEF Cancel, history, StoreTypeOK, IsScored
<1>3. \A S : Pruned(S) \in [Id -> Hash]
  BY DEF Pruned, StoreTypeOK, Hash, Absent, Status
<1>4. ASSUME NEW c \in Cleanup, PruneCompleted(c, now) PROVE StoreTypeOK'
  <2>1. job' \in [Id -> Hash] /\ IsScored(completed)'
    BY <1>3, <1>4, DropScored DEF PruneCompleted, StoreTypeOK, IsScored
  <2>2. QED BY <1>4, <2>1 DEF PruneCompleted, history, StoreTypeOK, IsScored
<1>5. ASSUME NEW c \in Cleanup, PruneFailed(c, now) PROVE StoreTypeOK'
  <2>1. job' \in [Id -> Hash] /\ IsScored(failed)'
    BY <1>3, <1>5, DropScored DEF PruneFailed, StoreTypeOK, IsScored
  <2>2. QED BY <1>5, <2>1 DEF PruneFailed, history, StoreTypeOK, IsScored
<1>6. ASSUME NEW c \in Cleanup, PruneCancelled(c, now) PROVE StoreTypeOK'
  <2>1. job' \in [Id -> Hash] /\ IsScored(cancelled)'
    BY <1>3, <1>6, DropScored DEF PruneCancelled, StoreTypeOK, IsScored
  <2>2. QED BY <1>6, <2>1 DEF PruneCancelled, history, StoreTypeOK, IsScored
<1>7. QED BY <1>1, <1>2, <1>4, <1>5, <1>6

\* Every step keeps the types.
LEMMA StepTypeOK == StoreTypeOK /\ [StoreNext]_storeVars => StoreTypeOK'
<1> SUFFICES ASSUME StoreTypeOK, [StoreNext]_storeVars PROVE StoreTypeOK'
  OBVIOUS
<1>1. CASE UNCHANGED storeVars
  BY <1>1 DEF storeVars, StoreTypeOK, IsScored
<1>2. CASE \E k \in IdemKey : IdemExpire(k)
  BY <1>2, ExpireTypeOK
<1>3. QED
  BY <1>1, <1>2, ProduceTypeOK, PollTypeOK, FinishTypeOK, MaintainTypeOK DEF StoreNext

\* The scripts keep every key well typed, whoever calls them.
THEOREM TypeCorrectness == StoreSpec => []StoreTypeOK
  BY InitTypeOK, StepTypeOK, PTL DEF StoreSpec
-----------------------------------------------------------------------------
(* No job is lost                                                          *)

\* Initially there is no job to lose.
LEMMA InitNoJobLost == StoreInit => NoJobLost
  BY DEF StoreInit, NoJobLost, Absent

\* What a step must find of a job whose status it does not change.
FoundBefore(i) == job[i].data /\ job'[i].status = job[i].status => Findable(i)

\* A new job is listed in the set enqueue routed it to.
LEMMA ProduceKeepsJob ==
    ASSUME StoreTypeOK, Produce, NEW i \in Id, job'[i].data, FoundBefore(i)
    PROVE  Findable(i)'
<1> SUFFICES ASSUME NEW j \in JobId, NEW p \in Priority, NEW a \in Attempts,
                    NEW k \in IdemKey \cup {NoKey}, NEW runAt \in Time, NEW now \in Time,
                    Enqueue(j, p, a, k, runAt, now)
             PROVE  Findable(i)'
  BY DEF Produce
<1>1. /\ DOMAIN waiting \subseteq DOMAIN waiting'
      /\ DOMAIN delayed \subseteq DOMAIN delayed'
      /\ j \in DOMAIN waiting' \cup DOMAIN delayed'
  BY DEF Enqueue, Put
<1>2. UNCHANGED <<active, failed, cancelled>>
  BY DEF Enqueue
<1>3. CASE i = j
  <2>1. job'[i].status = "WAITING"
    BY <1>3 DEF Enqueue, Store, NewHash, StoreTypeOK
  <2>2. QED BY <2>1, <1>1, <1>3 DEF Findable
<1>4. CASE i # j
  <2>1. job'[i] = job[i]
    BY <1>4 DEF Enqueue, Store, StoreTypeOK
  <2>2. Findable(i)
    BY <2>1 DEF FoundBefore
  <2>3. QED BY <2>1, <2>2, <1>1, <1>2 DEF Findable
<1>5. QED BY <1>3, <1>4

\* A poll only moves jobs, from delayed to waiting and from there to active.
LEMMA PollKeepsJob ==
    ASSUME StoreTypeOK, Poll, NEW i \in Id, job'[i].data, FoundBefore(i)
    PROVE  Findable(i)'
<1> SUFFICES ASSUME NEW now \in Time,
                    \/ NoneReady(now)
                    \/ \E j \in Id : MoveToActive(j, now)
             PROVE  Findable(i)'
  BY DEF Poll
<1>1. CASE NoneReady(now)
  BY <1>1 DEF NoneReady, history, FoundBefore, Findable
<1>2. ASSUME NEW j \in Id, MoveToActive(j, now) PROVE Findable(i)'
  <2> USE <1>2
  <2>1. /\ DOMAIN waiting' = (DOMAIN waiting \cup UpTo(delayed, now)) \ {j}
        /\ DOMAIN delayed' = DOMAIN delayed \ UpTo(delayed, now)
        /\ DOMAIN active' = DOMAIN active \cup {j}
    BY PromotedFacts DEF MoveToActive, Put, Drop, Restrict
  <2>2. UNCHANGED <<failed, cancelled>>
    BY DEF MoveToActive
  <2>3. CASE i = j
    <3>1. job'[i].status = "ACTIVE"
      BY <2>3 DEF MoveToActive, StoreTypeOK, Hash
    <3>2. QED BY <3>1, <2>1, <2>3 DEF Findable
  <2>4. CASE i # j
    <3>1. job'[i] = job[i]
      BY <2>4 DEF MoveToActive, StoreTypeOK
    <3>2. Findable(i)
      BY <3>1 DEF FoundBefore
    <3>3. QED BY <2>4, <3>1, <3>2, <2>1, <2>2 DEF Findable
  <2>5. QED BY <2>3, <2>4
<1>3. QED BY <1>1, <1>2

\* A worker's report puts its job where the new status says, a late one too.
LEMMA FinishKeepsJob ==
    ASSUME StoreTypeOK, Finish, NEW i \in Id, job'[i].data, FoundBefore(i)
    PROVE  Findable(i)'
<1> SUFFICES ASSUME NEW j \in Id, NEW now \in Time,
                    \/ HDelOrphan(j)
                    \/ Complete(j, now)
                    \/ FailRetry(j, now)
                    \/ FailFinal(j, now)
                    \/ Heartbeat(j, now)
             PROVE  Findable(i)'
  BY DEF Finish
<1>1. CASE i # j
  <2>1. job'[i] = job[i]
    BY <1>1 DEF HDelOrphan, Complete, FailRetry, FailFinal, CountFailure, Heartbeat,
                StoreTypeOK
  <2>2. Findable(i)
    BY <2>1 DEF FoundBefore
  <2>3. /\ DOMAIN active \ {j} \subseteq DOMAIN active'
        /\ DOMAIN waiting \subseteq DOMAIN waiting'
        /\ DOMAIN failed \subseteq DOMAIN failed'
        /\ UNCHANGED <<delayed, cancelled>>
    BY DEF HDelOrphan, Complete, FailRetry, FailFinal, CountFailure, Heartbeat,
           Put, Drop, Restrict
  <2>4. QED BY <1>1, <2>1, <2>2, <2>3 DEF Findable
<1>2. CASE i = j
  <2>1. CASE HDelOrphan(j)
    BY <1>2, <2>1 DEF HDelOrphan
  <2>2. CASE Complete(j, now)
    BY <1>2, <2>2 DEF Complete, StoreTypeOK, Hash, Findable
  <2>3. CASE FailRetry(j, now)
    BY <1>2, <2>3 DEF FailRetry, CountFailure, Put, StoreTypeOK, Hash, Findable
  <2>4. CASE FailFinal(j, now)
    BY <1>2, <2>4 DEF FailFinal, CountFailure, Put, StoreTypeOK, Hash, Findable
  <2>5. CASE Heartbeat(j, now)
    <3>1. DOMAIN active' = DOMAIN active
      BY <2>5 DEF Heartbeat, Put
    <3>2. QED BY <2>5, <3>1 DEF Heartbeat, FoundBefore, Findable
  <2>6. QED BY <2>1, <2>2, <2>3, <2>4, <2>5
<1>3. QED BY <1>1, <1>2

\* The watchdog moves stalled jobs to waiting, cancel lists the job it takes
\* out, and cleanup deletes the data of every job it removes from a list.
LEMMA MaintainKeepsJob ==
    ASSUME StoreTypeOK, Maintain, NEW i \in Id, job'[i].data, FoundBefore(i)
    PROVE  Findable(i)'
<1> SUFFICES ASSUME NEW now \in Time,
                    \/ CleanStalled(now)
                    \/ \E j \in Id : Cancel(j, now)
                    \/ \E c \in Cleanup : \/ PruneCompleted(c, now)
                                          \/ PruneFailed(c, now)
                                          \/ PruneCancelled(c, now)
             PROVE  Findable(i)'
  BY DEF Maintain
<1>1. CASE CleanStalled(now)
  <2>1. /\ DOMAIN waiting' = DOMAIN waiting \cup Stalled(now)
        /\ DOMAIN active' = DOMAIN active \ Stalled(now)
    BY <1>1 DEF CleanStalled, Drop, Restrict
  <2>2. QED BY <1>1, <2>1 DEF CleanStalled, history, FoundBefore, Findable
<1>2. ASSUME NEW j \in Id, Cancel(j, now) PROVE Findable(i)'
  <2>1. /\ DOMAIN waiting' = DOMAIN waiting \ {j}
        /\ DOMAIN active' = DOMAIN active \ {j}
        /\ DOMAIN cancelled' = DOMAIN cancelled \cup {j}
        /\ UNCHANGED <<delayed, failed>>
    BY <1>2 DEF Cancel, Drop, Restrict, Put
  <2>2. CASE i = j
    <3>1. job'[i].status = "CANCELLED"
      BY <1>2, <2>2 DEF Cancel, StoreTypeOK, Hash
    <3>2. QED BY <3>1, <2>1, <2>2 DEF Findable
  <2>3. CASE i # j
    <3>1. job'[i] = job[i] /\ Findable(i)
      BY <1>2, <2>3 DEF Cancel, StoreTypeOK, FoundBefore
    <3>2. QED BY <3>1, <2>1, <2>3 DEF Findable
  <2>4. QED BY <2>2, <2>3
<1>3. ASSUME NEW S, job' = Pruned(S) PROVE i \notin S /\ job'[i] = job[i]
  BY <1>3 DEF Pruned, Absent
<1>4. ASSUME NEW c \in Cleanup, PruneCompleted(c, now)
      PROVE  Findable(i)'
  BY <1>3, <1>4 DEF PruneCompleted, history, FoundBefore, Findable
<1>5. ASSUME NEW c \in Cleanup, PruneFailed(c, now)
      PROVE  Findable(i)'
  <2> DEFINE S == Expired(failed, c, now)
  <2>1. i \notin S /\ job'[i] = job[i]
    BY <1>3, <1>5 DEF PruneFailed
  <2>2. DOMAIN failed' = DOMAIN failed \ S
    BY <1>5 DEF PruneFailed, Drop, Restrict
  <2>3. Findable(i)
    BY <2>1 DEF FoundBefore
  <2>4. UNCHANGED <<waiting, delayed, active, cancelled>>
    BY <1>5 DEF PruneFailed
  <2> HIDE DEF S
  <2>5. QED BY <2>1, <2>2, <2>3, <2>4 DEF Findable
<1>6. ASSUME NEW c \in Cleanup, PruneCancelled(c, now)
      PROVE  Findable(i)'
  <2> DEFINE S == Expired(cancelled, c, now)
  <2>1. i \notin S /\ job'[i] = job[i]
    BY <1>3, <1>6 DEF PruneCancelled
  <2>2. DOMAIN cancelled' = DOMAIN cancelled \ S
    BY <1>6 DEF PruneCancelled, Drop, Restrict
  <2>3. Findable(i)
    BY <2>1 DEF FoundBefore
  <2>4. UNCHANGED <<waiting, delayed, active, failed>>
    BY <1>6 DEF PruneCancelled
  <2> HIDE DEF S
  <2>5. QED BY <2>1, <2>2, <2>3, <2>4 DEF Findable
<1>7. QED BY <1>1, <1>2, <1>4, <1>5, <1>6

\* No script loses a job it finds.
LEMMA StepKeepsJob ==
    ASSUME StoreTypeOK, StoreNext, NEW i \in Id, job'[i].data, FoundBefore(i)
    PROVE  Findable(i)'
<1>1. CASE \E k \in IdemKey : IdemExpire(k)
  BY <1>1 DEF IdemExpire, history, FoundBefore, Findable
<1>2. QED
  BY <1>1, ProduceKeepsJob, PollKeepsJob, FinishKeepsJob, MaintainKeepsJob DEF StoreNext

\* No step loses a job.
LEMMA StepNoJobLost ==
    StoreTypeOK /\ NoJobLost /\ [StoreNext]_storeVars => NoJobLost'
<1> SUFFICES ASSUME StoreTypeOK, NoJobLost, [StoreNext]_storeVars PROVE NoJobLost'
  OBVIOUS
<1>1. CASE UNCHANGED storeVars
  BY <1>1 DEF storeVars, NoJobLost, Findable
<1>2. CASE StoreNext
  <2>1. \A i \in Id : FoundBefore(i)
    BY DEF NoJobLost, FoundBefore
  <2>2. \A i \in Id : job'[i].data => Findable(i)'
    BY <1>2, <2>1, StepKeepsJob
  <2>3. QED BY <2>2 DEF NoJobLost
<1>3. QED BY <1>1, <1>2

\* A job whose data exists and that has not completed stays in a set from
\* which the engine takes it up again, whoever runs which script when.
THEOREM NoJobIsLost == StoreSpec => []NoJobLost
<1>1. StoreInit => StoreTypeOK /\ NoJobLost
  BY InitTypeOK, InitNoJobLost
<1>2. StoreTypeOK /\ NoJobLost /\ [StoreNext]_storeVars => (StoreTypeOK /\ NoJobLost)'
  BY StepTypeOK, StepNoJobLost
<1>3. QED BY <1>1, <1>2, PTL DEF StoreSpec

-----------------------------------------------------------------------------
(* A delayed job is promoted once                                          *)

\* Only ids that an add stored wait, run or were handed to a worker: the
\* hash cancel writes for an unknown id never becomes work.
OnlyIssuedRun ==
    DOMAIN waiting \cup DOMAIN delayed \cup DOMAIN active \cup handed \subseteq issued

\* The watchdog can only move a job some worker was handed.
OnlyHandedActive == DOMAIN active \subseteq handed

\* DelayedIsolated with what it needs: a fresh id is in no set at all, and
\* what fail and the watchdog put in waiting was handed out before.
IsolationInv == DelayedIsolated /\ OnlyIssuedRun /\ OnlyHandedActive

\* Initially every set is empty.
LEMMA InitIsolation == StoreInit => IsolationInv
  BY DEF StoreInit, Nothing, IsolationInv, DelayedIsolated, OnlyIssuedRun, OnlyHandedActive

\* What each script does to the sets the invariant speaks of.
LEMMA StepIsolation ==
    StoreTypeOK /\ IsolationInv /\ [StoreNext]_storeVars => IsolationInv'
<1> SUFFICES ASSUME StoreTypeOK, IsolationInv, [StoreNext]_storeVars PROVE IsolationInv'
  OBVIOUS
<1> USE DEF IsolationInv, DelayedIsolated, OnlyIssuedRun, OnlyHandedActive
<1>1. CASE UNCHANGED storeVars
  BY <1>1 DEF storeVars
<1>2. ASSUME NEW j \in JobId, NEW p \in Priority, NEW a \in Attempts,
             NEW k \in IdemKey \cup {NoKey}, NEW runAt \in Time, NEW now \in Time,
             Enqueue(j, p, a, k, runAt, now)
      PROVE  IsolationInv'
  <2>1. j \notin issued /\ issued' = issued \cup {j}
    BY <1>2 DEF Enqueue, Store
  <2>2. \/ DOMAIN delayed' = DOMAIN delayed \cup {j} /\ waiting' = waiting
        \/ DOMAIN waiting' = DOMAIN waiting \cup {j} /\ delayed' = delayed
    BY <1>2 DEF Enqueue, Put
  <2>3. QED BY <1>2, <2>1, <2>2 DEF Enqueue
<1>3. ASSUME NEW now \in Time, NoneReady(now) PROVE IsolationInv'
  BY <1>3 DEF NoneReady, history
<1>4. ASSUME NEW j \in Id, NEW now \in Time, MoveToActive(j, now) PROVE IsolationInv'
  <2>1. j \in DOMAIN waiting \cup UpTo(delayed, now)
    BY <1>4, PromotedFacts DEF MoveToActive, IsFirst
  <2>2. /\ DOMAIN waiting' \subseteq DOMAIN waiting \cup UpTo(delayed, now)
        /\ DOMAIN delayed' = DOMAIN delayed \ UpTo(delayed, now)
        /\ DOMAIN active' = DOMAIN active \cup {j}
    BY <1>4, PromotedFacts DEF MoveToActive, Put, Drop, Restrict
  <2>3. handed' = handed \cup {j} /\ issued' = issued
    BY <1>4 DEF MoveToActive
  <2>4. UpTo(delayed, now) \subseteq DOMAIN delayed
    BY DEF UpTo
  <2>5. QED BY <2>1, <2>2, <2>3, <2>4
<1>5. ASSUME NEW j \in Id, NEW now \in Time,
             HDelOrphan(j) \/ Complete(j, now) \/ Heartbeat(j, now)
      PROVE  IsolationInv'
  <2>1. DOMAIN active' \subseteq DOMAIN active
    BY <1>5 DEF HDelOrphan, Complete, Heartbeat, Put, Drop, Restrict
  <2>2. UNCHANGED <<waiting, delayed, issued, handed>>
    BY <1>5 DEF HDelOrphan, Complete, Heartbeat, history
  <2>3. QED BY <2>1, <2>2
<1>6. ASSUME NEW j \in Id, NEW now \in Time, FailRetry(j, now) \/ FailFinal(j, now)
      PROVE  IsolationInv'
  <2>1. j \in handed /\ DOMAIN active' \subseteq DOMAIN active
    BY <1>6 DEF FailRetry, FailFinal, CountFailure, Drop, Restrict
  <2>2. DOMAIN waiting' \subseteq DOMAIN waiting \cup {j}
    BY <1>6 DEF FailRetry, FailFinal, Put
  <2>3. UNCHANGED <<delayed, issued, handed>>
    BY <1>6 DEF FailRetry, FailFinal, history
  <2>4. QED BY <2>1, <2>2, <2>3
<1>7. ASSUME NEW now \in Time, CleanStalled(now) PROVE IsolationInv'
  <2>1. /\ DOMAIN waiting' \subseteq DOMAIN waiting \cup DOMAIN active
        /\ DOMAIN active' \subseteq DOMAIN active
    BY <1>7 DEF CleanStalled, Stalled, Drop, Restrict
  <2>2. UNCHANGED <<delayed, issued, handed>>
    BY <1>7 DEF CleanStalled, history
  <2>3. QED BY <2>1, <2>2
<1>8. ASSUME NEW j \in Id, NEW now \in Time, Cancel(j, now) PROVE IsolationInv'
  <2>1. /\ DOMAIN waiting' \subseteq DOMAIN waiting
        /\ DOMAIN active' \subseteq DOMAIN active
    BY <1>8 DEF Cancel, Drop, Restrict
  <2>2. QED BY <1>8, <2>1 DEF Cancel, history
<1>9. ASSUME NEW c \in Cleanup, NEW now \in Time,
             PruneCompleted(c, now) \/ PruneFailed(c, now) \/ PruneCancelled(c, now)
      PROVE  IsolationInv'
  BY <1>9 DEF PruneCompleted, PruneFailed, PruneCancelled, history
<1>10. ASSUME NEW k \in IdemKey, IdemExpire(k) PROVE IsolationInv'
  BY <1>10 DEF IdemExpire, history
<1>11. QED
  BY <1>1, <1>2, <1>3, <1>4, <1>5, <1>6, <1>7, <1>8, <1>9, <1>10
  DEF StoreNext, Produce, Poll, Finish, Maintain

\* A delayed job neither waits nor runs nor was ever handed to a worker, so
\* promotion starts it once and never twice.
THEOREM DelayedIsIsolated == StoreSpec => []DelayedIsolated
<1>1. StoreInit => StoreTypeOK /\ IsolationInv
  BY InitTypeOK, InitIsolation
<1>2. StoreTypeOK /\ IsolationInv /\ [StoreNext]_storeVars => (StoreTypeOK /\ IsolationInv)'
  BY StepTypeOK, StepIsolation
<1>3. IsolationInv => DelayedIsolated
  BY DEF IsolationInv
<1>4. QED BY <1>1, <1>2, <1>3, PTL DEF StoreSpec

-----------------------------------------------------------------------------
(* No early failure, and the bound of the limiter                          *)

\* A step either leaves what the engine knows of a job's attempts alone or
\* counts one more, and only fail.lua writes FAILED.
LEMMA StepNoEarlyFailure ==
    StoreTypeOK /\ NoEarlyFailure /\ [StoreNext]_storeVars => NoEarlyFailure'
<1> SUFFICES ASSUME StoreTypeOK, NoEarlyFailure, [StoreNext]_storeVars,
                    NEW i \in issued', job'[i].data, job'[i].status = "FAILED"
             PROVE  job'[i].attempts >= job'[i].maxAttempts
  BY DEF NoEarlyFailure
<1> DEFINE kept == i \in issued /\ job'[i] = job[i]
<1>0. i \in Id /\ issued \subseteq Id
  BY StepTypeOK DEF StoreTypeOK, Id
<1>1. ASSUME kept PROVE job'[i].attempts >= job'[i].maxAttempts
  BY <1>1 DEF NoEarlyFailure
<1>2. CASE UNCHANGED storeVars
  BY <1>1, <1>2 DEF storeVars
<1>3. ASSUME NEW j \in JobId, NEW p \in Priority, NEW a \in Attempts,
             NEW k \in IdemKey \cup {NoKey}, NEW runAt \in Time, NEW now \in Time,
             Enqueue(j, p, a, k, runAt, now)
      PROVE  kept
  <2>1. i # j
    BY <1>0, <1>3 DEF Enqueue, Store, NewHash, StoreTypeOK
  <2>2. QED BY <1>0, <1>3, <2>1 DEF Enqueue, Store, StoreTypeOK
<1>4. ASSUME NEW now \in Time, NoneReady(now) \/ CleanStalled(now)
      PROVE  kept
  BY <1>4 DEF NoneReady, CleanStalled, history
<1>5. ASSUME NEW j \in Id, NEW now \in Time,
             MoveToActive(j, now) \/ Complete(j, now) \/ Cancel(j, now)
      PROVE  kept
  <2>1. i # j
    BY <1>0, <1>5 DEF MoveToActive, Complete, Cancel, StoreTypeOK, Hash
  <2>2. QED
    BY <1>0, <1>5, <2>1 DEF MoveToActive, Complete, Cancel, StoreTypeOK, history
<1>6. ASSUME NEW j \in Id, NEW now \in Time, HDelOrphan(j) \/ Heartbeat(j, now)
      PROVE  kept
  BY <1>6 DEF HDelOrphan, Heartbeat, history
<1>7. ASSUME NEW j \in Id, NEW now \in Time, FailRetry(j, now) PROVE kept
  <2>1. i # j
    BY <1>0, <1>7 DEF FailRetry, CountFailure, StoreTypeOK, Hash
  <2>2. QED BY <1>0, <1>7, <2>1 DEF FailRetry, CountFailure, StoreTypeOK, history
<1>8. ASSUME NEW j \in Id, NEW now \in Time, FailFinal(j, now)
      PROVE  job'[i].attempts >= job'[i].maxAttempts
  <2>1. CASE i = j
    <3>1. job[j].attempts \in Nat /\ job[j].maxAttempts \in Int
      BY DEF StoreTypeOK, Hash
    <3>2. job'[i].attempts = job[j].attempts + 1 /\ job'[i].maxAttempts = job[j].maxAttempts
      BY <1>8, <2>1 DEF FailFinal, CountFailure, StoreTypeOK, Hash
    <3>3. QED BY <1>8, <3>1, <3>2 DEF FailFinal
  <2>2. CASE i # j
    BY <1>0, <1>1, <1>8, <2>2 DEF FailFinal, CountFailure, StoreTypeOK, history
  <2>3. QED BY <2>1, <2>2
<1>9. ASSUME NEW c \in Cleanup, NEW now \in Time,
             PruneCompleted(c, now) \/ PruneFailed(c, now) \/ PruneCancelled(c, now)
      PROVE  kept
  <2>1. PICK S : job' = Pruned(S)
    BY <1>9 DEF PruneCompleted, PruneFailed, PruneCancelled
  <2>2. job'[i] = job[i]
    BY <1>0, <2>1 DEF Pruned, Absent
  <2>3. QED BY <1>9, <2>2 DEF PruneCompleted, PruneFailed, PruneCancelled, history
<1>10. ASSUME NEW k \in IdemKey, IdemExpire(k) PROVE kept
  BY <1>10 DEF IdemExpire, history
<1> HIDE DEF kept
<1>11. CASE Produce \/ Poll \/ Maintain \/ \E k \in IdemKey : IdemExpire(k)
  BY <1>1, <1>3, <1>4, <1>5, <1>6, <1>9, <1>10, <1>11 DEF Produce, Poll, Maintain
<1>12. CASE Finish
  BY <1>1, <1>5, <1>6, <1>7, <1>8, <1>12 DEF Finish
<1>13. QED BY <1>2, <1>11, <1>12 DEF StoreNext

\* No order of late, repeated or concurrent reports makes the engine give a
\* job up before its attempts are used.
THEOREM NoJobFailsEarly == StoreSpec => []NoEarlyFailure
<1>1. StoreInit => StoreTypeOK /\ NoEarlyFailure
  BY InitTypeOK DEF StoreInit, NoEarlyFailure
<1>2. /\ StoreTypeOK /\ NoEarlyFailure /\ [StoreNext]_storeVars
      => (StoreTypeOK /\ NoEarlyFailure)'
  BY StepTypeOK, StepNoEarlyFailure
<1>3. QED BY <1>1, <1>2, PTL DEF StoreSpec

\* Only moveToActive adds to the limiter, one job to a window with room.
LEMMA StepLimiterBound ==
    StoreTypeOK /\ LimiterBound /\ [StoreNext]_storeVars => LimiterBound'
<1> SUFFICES ASSUME StoreTypeOK, LimiterBound, [StoreNext]_storeVars, Limited
             PROVE  Cardinality(DOMAIN limiter') <= LimitMax
  BY DEF LimiterBound
<1>1. IsFiniteSet(DOMAIN limiter) /\ Cardinality(DOMAIN limiter) <= LimitMax
  <2>1. DOMAIN limiter \subseteq Id /\ IsFiniteSet(Id)
    BY IdAssumption DEF StoreTypeOK, IsScored
  <2>2. QED BY <2>1, FS_Subset DEF LimiterBound
<1>2. ASSUME DOMAIN limiter' \subseteq DOMAIN limiter
      PROVE  Cardinality(DOMAIN limiter') <= LimitMax
  <2>1. /\ Cardinality(DOMAIN limiter') <= Cardinality(DOMAIN limiter)
        /\ Cardinality(DOMAIN limiter') \in Nat /\ Cardinality(DOMAIN limiter) \in Nat
    BY <1>1, <1>2, FS_Subset, FS_CardinalityType
  <2>2. QED BY <1>1, <2>1, NumberAssumption
<1>3. ASSUME NEW now \in Time, NoneReady(now)
      PROVE  DOMAIN limiter' \subseteq DOMAIN limiter
  BY <1>3, WindowFacts DEF NoneReady
<1>4. ASSUME NEW j \in Id, NEW now \in Time, MoveToActive(j, now)
      PROVE  Cardinality(DOMAIN limiter') <= LimitMax
  <2> DEFINE W == DOMAIN Window(now)
  <2>1. IsFiniteSet(W)
    BY <1>1, WindowFacts, FS_Subset
  <2>2. ~(Cardinality(W) >= LimitMax)
    BY <1>4 DEF MoveToActive, AtLimit
  <2>3. DOMAIN limiter' = W \cup {j}
    BY <1>4 DEF MoveToActive, Put
  <2>4. Cardinality(W) \in Nat /\ LimitMax \in Nat
    BY <2>1, FS_CardinalityType, NumberAssumption
  <2> HIDE DEF W
  <2>5. Cardinality(W \cup {j}) <= Cardinality(W) + 1
    BY <2>1, <2>4, FS_AddElement
  <2>6. Cardinality(W \cup {j}) \in Nat
    BY <2>1, FS_AddElement, FS_CardinalityType
  <2>7. QED BY <2>2, <2>3, <2>4, <2>5, <2>6
<1>5. CASE UNCHANGED limiter
  BY <1>2, <1>5
<1>6. \/ UNCHANGED limiter
      \/ \E now \in Time : NoneReady(now)
      \/ \E now \in Time, j \in Id : MoveToActive(j, now)
  BY DEF StoreNext, Produce, Poll, Finish, Maintain, storeVars, Enqueue, HDelOrphan,
         Complete, FailRetry, FailFinal, Heartbeat, CleanStalled, Cancel,
         PruneCompleted, PruneFailed, PruneCancelled, IdemExpire
<1>7. QED BY <1>2, <1>3, <1>4, <1>5, <1>6

\* The limiter never lists more jobs than rateLimit.max.
THEOREM LimiterIsBounded == StoreSpec => []LimiterBound
<1>1. StoreInit => StoreTypeOK /\ LimiterBound
  <2>1. StoreInit => DOMAIN limiter = {}
    BY NothingScored DEF StoreInit
  <2>2. Cardinality({}) = 0 /\ LimitMax \in Nat
    BY FS_EmptySet, NumberAssumption
  <2>3. QED BY <2>1, <2>2, InitTypeOK DEF LimiterBound
<1>2. /\ StoreTypeOK /\ LimiterBound /\ [StoreNext]_storeVars
      => (StoreTypeOK /\ LimiterBound)'
  BY StepTypeOK, StepLimiterBound
<1>3. QED BY <1>1, <1>2, PTL DEF StoreSpec

-----------------------------------------------------------------------------
(* A cancelled job is not started                                          *)

\* No script queues a job that is neither queued nor running, but enqueue.
LEMMA StepCancelled ==
    ASSUME StoreTypeOK, IsolationInv, StoreNext,
           NEW j \in issued \ (handed \cup DOMAIN delayed),
           job'[j].status = "CANCELLED", job[j].status # "CANCELLED" \/ j \notin DOMAIN waiting
    PROVE  j \notin DOMAIN waiting' \cup DOMAIN delayed' \cup handed'
<1> USE DEF IsolationInv, DelayedIsolated, OnlyIssuedRun, OnlyHandedActive
<1>0. j \in Id /\ j \notin DOMAIN active
  BY DEF StoreTypeOK, Id
<1>1. CASE Produce
  BY <1>1 DEF Produce, Enqueue, Store, Put
<1>2. CASE Poll
  <2>1. ASSUME NEW now \in Time, NoneReady(now)
        PROVE  j \notin DOMAIN waiting' \cup DOMAIN delayed' \cup handed'
    BY <2>1 DEF NoneReady, history
  <2>2. ASSUME NEW i \in Id, NEW now \in Time, MoveToActive(i, now)
        PROVE  j \notin DOMAIN waiting' \cup DOMAIN delayed' \cup handed'
    <3>1. job[j].status = "CANCELLED" \/ i = j
      BY <2>2, <1>0 DEF MoveToActive, StoreTypeOK
    <3>2. job'[i].status = "ACTIVE" 
      BY <2>2 DEF MoveToActive, StoreTypeOK, Hash
    <3>3. i # j /\ j \notin DOMAIN waiting
      BY <3>1, <3>2
    <3>4. /\ DOMAIN waiting' \subseteq DOMAIN waiting \cup DOMAIN delayed
          /\ DOMAIN delayed' \subseteq DOMAIN delayed
          /\ handed' = handed \cup {i}
      BY <2>2, PromotedFacts DEF MoveToActive, Drop, Restrict
    <3>5. QED BY <3>3, <3>4
  <2>3. QED BY <1>2, <2>1, <2>2 DEF Poll
<1>3. CASE Finish
  <2>1. ASSUME NEW i \in Id, NEW now \in Time,
               \/ HDelOrphan(i) \/ Complete(i, now) \/ Heartbeat(i, now)
               \/ FailRetry(i, now) \/ FailFinal(i, now)
        PROVE  /\ i # j /\ job'[j] = job[j] /\ DOMAIN waiting' \subseteq DOMAIN waiting \cup {i}
               /\ UNCHANGED <<delayed, handed>>
    BY <1>0, <2>1 DEF HDelOrphan, Complete, Heartbeat, FailRetry, FailFinal, CountFailure,
                      Put, history, StoreTypeOK
  <2>2. QED BY <1>3, <2>1 DEF Finish
<1>4. CASE Maintain
  <2>1. ASSUME NEW now \in Time, CleanStalled(now)
        PROVE  j \notin DOMAIN waiting' \cup DOMAIN delayed' \cup handed'
    BY <1>0, <2>1 DEF CleanStalled, Stalled, history
  <2>2. ASSUME NEW i \in Id, NEW now \in Time, Cancel(i, now)
        PROVE  j \notin DOMAIN waiting' \cup DOMAIN delayed' \cup handed'
    BY <1>0, <2>2 DEF Cancel, Drop, Restrict, history, StoreTypeOK
  <2>3. ASSUME NEW c \in Cleanup, NEW now \in Time,
               PruneCompleted(c, now) \/ PruneFailed(c, now) \/ PruneCancelled(c, now)
        PROVE  j \notin DOMAIN waiting' \cup DOMAIN delayed' \cup handed'
    <3>1. job'[j] = job[j] /\ UNCHANGED <<waiting, delayed, handed>>
      BY <1>0, <2>3 DEF PruneCompleted, PruneFailed, PruneCancelled, Pruned, Absent, history
    <3>2. QED BY <3>1
  <2>4. QED BY <1>4, <2>1, <2>2, <2>3 DEF Maintain
<1>5. CASE \E k \in IdemKey : IdemExpire(k)
  BY <1>5 DEF IdemExpire, history
<1>6. QED BY <1>1, <1>2, <1>3, <1>4, <1>5 DEF StoreNext

\* A job that was cancelled while it waited is never started (Queue.cancel,
\* src/src/Queue.ts:161), in whatever order any number of callers run scripts.
THEOREM CancelledNeverStarts == StoreSpec => CancelPreventsStart
<1>1. StoreInit => StoreTypeOK /\ IsolationInv
  BY InitTypeOK, InitIsolation
<1>2. StoreTypeOK /\ IsolationInv /\ [StoreNext]_storeVars => (StoreTypeOK /\ IsolationInv)'
  BY StepTypeOK, StepIsolation
<1>3. StoreTypeOK /\ IsolationInv /\ [StoreNext]_storeVars =>
        [\A j \in issued \ (handed \cup DOMAIN delayed) :
           job'[j].status = "CANCELLED" /\ (job[j].status # "CANCELLED" \/ j \notin DOMAIN waiting)
             => j \notin DOMAIN waiting' \cup DOMAIN delayed' \cup handed']_storeVars
  BY StepCancelled
<1>4. QED BY <1>1, <1>2, <1>3, PTL DEF StoreSpec, CancelPreventsStart
=============================================================================
