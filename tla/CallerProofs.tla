---------------------------- MODULE CallerProofs ----------------------------
(***************************************************************************)
(* The callers that send more than one command: an operator who retries    *)
(* jobs or clears the history, and a producer whose key is taken.  What    *)
(* holds for every number of them, whatever runs between the commands.     *)
(***************************************************************************)
EXTENDS QueueAdmin, IdempotentAdd, QueueStoreProofs

-----------------------------------------------------------------------------
(* Operators: types                                                        *)

\* A call is a record of the commands it has still to send.
CallsOK ==
    call \in [Admin -> [at : {"none", "hgetall", "zrem", "hset", "zadd", "del", "trim"},
                        todo : SUBSET Id, id : Id \cup {0}, now : Nat]]

\* What a pipeline resets is one of the ids it was given.
AtOneOfThem == \A a \in Admin : call[a].at \in {"hset", "zadd"} => call[a].id \in call[a].todo

AdminTypes == StoreTypeOK /\ CallsOK /\ AtOneOfThem /\ resets \in Nat

\* The times callers read are natural numbers.
LEMMA TimeIsNat == Time \subseteq Nat
  BY NumberAssumption

\* What an operator sends keeps the keys well typed.
LEMMA OperateStoreTypeOK ==
    ASSUME AdminTypes, NEW a \in Admin, Operate(a)
    PROVE  StoreTypeOK'
<1> USE DEF AdminTypes, CallsOK, AtOneOfThem
<1>1. ASSUME UNCHANGED storeVars PROVE StoreTypeOK'
  BY <1>1, StepTypeOK
<1>2. CASE HSet(a)
  <2>1. call[a].id \in Id
    BY <1>2 DEF HSet
  <2>2. job' \in [Id -> Hash]
    BY <1>2, <2>1 DEF HSet, StoreTypeOK, Hash, Status
  <2>3. QED BY <1>2, <2>2 DEF HSet, history, StoreTypeOK, IsScored
<1>3. CASE ZAdd(a)
  <2>1. call[a].id \in Id /\ call[a].now \in Int
    BY <1>3 DEF ZAdd
  <2>2. IsScored(waiting)'
    BY <1>3, <2>1, PutScored DEF ZAdd, StoreTypeOK, IsScored
  <2>3. QED BY <1>3, <2>2 DEF ZAdd, history, StoreTypeOK, IsScored
<1>4. CASE Trim(a)
  <2>1. IsScored(completed)'
    BY <1>4, DropScored DEF Trim, StoreTypeOK, IsScored
  <2>2. QED BY <1>4, <2>1 DEF Trim, history, StoreTypeOK, IsScored
<1>5. ASSUME NEW j \in Id, ZRem(a, j) PROVE StoreTypeOK'
  <2>1. IsScored(failed)'
    BY <1>5, DropScored DEF ZRem, StoreTypeOK, IsScored
  <2>2. QED BY <1>5, <2>1 DEF ZRem, history, StoreTypeOK, IsScored
<1>6. ASSUME NEW j \in Id, Del(a, j) PROVE StoreTypeOK'
  <2>1. job' \in [Id -> Hash]
    BY <1>6 DEF Del, Pruned, StoreTypeOK, Hash, Absent, Status
  <2>2. QED BY <1>6, <2>1 DEF Del, history, StoreTypeOK, IsScored
<1>7. ASSUME NEW j \in Id, Retry(a, j) PROVE UNCHANGED storeVars
  BY <1>7 DEF Retry
<1>8. ASSUME NEW now,
             HGetAll(a, now) \/ RetryAll(a, now) \/ ClearCompleted(a, now)
      PROVE  UNCHANGED storeVars
  BY <1>8 DEF HGetAll, RetryAll, ClearCompleted
<1>9. QED BY <1>1, <1>2, <1>3, <1>4, <1>5, <1>6, <1>7, <1>8 DEF Operate

\* So is what it remembers between two commands.
LEMMA OperateCallsOK ==
    ASSUME AdminTypes, NEW a \in Admin, Operate(a)
    PROVE  CallsOK' /\ AtOneOfThem' /\ resets' \in Nat
<1> USE DEF AdminTypes, CallsOK, AtOneOfThem, NoCall
<1>1. CASE HSet(a)
  BY <1>1 DEF HSet
<1>2. CASE ZAdd(a)
  BY <1>2 DEF ZAdd, Proceed
<1>3. CASE Trim(a)
  BY <1>3 DEF Trim
<1>4. ASSUME NEW j \in Id, Retry(a, j) PROVE CallsOK' /\ AtOneOfThem' /\ resets' \in Nat
  BY <1>4 DEF Retry
<1>5. ASSUME NEW j \in Id, ZRem(a, j) PROVE CallsOK' /\ AtOneOfThem' /\ resets' \in Nat
  BY <1>5 DEF ZRem
<1>6. ASSUME NEW j \in Id, Del(a, j) PROVE CallsOK' /\ AtOneOfThem' /\ resets' \in Nat
  BY <1>6 DEF Del
<1>7. ASSUME NEW now \in Time, HGetAll(a, now)
      PROVE  CallsOK' /\ AtOneOfThem' /\ resets' \in Nat
  BY <1>7, TimeIsNat DEF HGetAll
<1>8. ASSUME NEW now \in Time, RetryAll(a, now)
      PROVE  CallsOK' /\ AtOneOfThem' /\ resets' \in Nat
  BY <1>8, TimeIsNat DEF RetryAll, StoreTypeOK, IsScored
<1>9. ASSUME NEW now \in Time, ClearCompleted(a, now)
      PROVE  CallsOK' /\ AtOneOfThem' /\ resets' \in Nat
  BY <1>9, TimeIsNat DEF ClearCompleted, UpTo, StoreTypeOK, IsScored
<1>10. QED BY <1>1, <1>2, <1>3, <1>4, <1>5, <1>6, <1>7, <1>8, <1>9 DEF Operate

\* Before the first step nobody calls.
LEMMA InitAdminTypes == AdminInit => AdminTypes
  BY InitTypeOK DEF AdminInit, AdminTypes, CallsOK, AtOneOfThem, NoCall

\* Every step keeps the types.
LEMMA StepAdminTypes == AdminTypes /\ [AdminNext]_allVars => AdminTypes'
<1> SUFFICES ASSUME AdminTypes, [AdminNext]_allVars PROVE AdminTypes'
  OBVIOUS
<1>1. CASE [StoreNext]_storeVars /\ UNCHANGED adminVars
  <2>1. StoreTypeOK'
    BY <1>1, StepTypeOK DEF AdminTypes
  <2>2. QED BY <1>1, <2>1 DEF AdminTypes, adminVars, CallsOK, AtOneOfThem
<1>2. ASSUME NEW a \in Admin, Operate(a) PROVE AdminTypes'
  BY <1>2, OperateStoreTypeOK, OperateCallsOK DEF AdminTypes
<1>3. QED BY <1>1, <1>2 DEF AdminNext, Operate, allVars

\* Whatever operators, workers and the watchdog send between the commands of
\* a pipeline, every key and every call keeps its type.
THEOREM AdminTypesAreCorrect == AdminSpec => []AdminTypeOK
<1>1. AdminTypes => AdminTypeOK
  BY DEF AdminTypes, CallsOK, AtOneOfThem, AdminTypeOK
<1>2. QED BY <1>1, InitAdminTypes, StepAdminTypes, PTL DEF AdminSpec

-----------------------------------------------------------------------------
(* Operators: no retry loses a job                                         *)

\* A pipeline is at j, and its next command is the one named.
At(command, j) == \E a \in Admin : call[a].at = command /\ call[a].id = j

\* Where a job is found again, or which command will list it next.
Kept(j) ==
    /\ job[j].status = "WAITING" => j \in DOMAIN waiting \cup DOMAIN delayed \/ At("zadd", j)
    /\ job[j].status = "ACTIVE" => j \in DOMAIN active \cup DOMAIN waiting
    /\ job[j].status = "FAILED" => j \in DOMAIN failed \/ At("hset", j)
    /\ job[j].status = "CANCELLED" => j \in DOMAIN cancelled

AllKept == \A j \in Id : job[j].data => Kept(j)

\* Scripts of other callers keep a job where it is, or list it elsewhere.
LEMMA ScriptsKeep ==
    ASSUME StoreTypeOK, AllKept, [StoreNext]_storeVars, UNCHANGED adminVars
    PROVE  AllKept'
<1>1. \A j : At("zadd", j)' = At("zadd", j) /\ At("hset", j)' = At("hset", j)
  BY DEF At, adminVars
<1>2. CASE UNCHANGED storeVars
  BY <1>1, <1>2 DEF storeVars, AllKept, Kept
<1>3. ASSUME StoreNext, NEW j \in Id, job'[j].data PROVE Kept(j)'
  <2>1. CASE FoundBefore(j)
    <3>1. Findable(j)'
      BY <1>3, <2>1, StepKeepsJob
    <3>2. QED BY <3>1 DEF Findable, Kept
  <2>2. CASE ~FoundBefore(j)
    <3>1. Kept(j) /\ ~Findable(j) /\ job'[j].status = job[j].status
      BY <2>2 DEF FoundBefore, AllKept
    <3>2. \/ job[j].status = "WAITING" /\ At("zadd", j)
          \/ job[j].status = "FAILED" /\ At("hset", j)
      BY <3>1 DEF Kept, Findable
    <3>3. QED BY <1>1, <3>1, <3>2 DEF Kept
  <2>3. QED BY <2>1, <2>2
<1>4. QED BY <1>2, <1>3 DEF AllKept

\* So do the commands of a pipeline: each leaves its job to the next.
LEMMA CommandsKeep ==
    ASSUME AdminTypes, AllKept, NEW a \in Admin, Operate(a)
    PROVE  AllKept'
<1> USE DEF AdminTypes, CallsOK, AtOneOfThem
<1>1. SUFFICES ASSUME NEW j \in Id, job'[j].data PROVE Kept(j)'
  BY DEF AllKept
<1>2. ASSUME \A c \in {"hset", "zadd"} : At(c, j) => At(c, j)',
             job'[j] = job[j], UNCHANGED <<waiting, delayed, active, failed, cancelled>>
      PROVE  Kept(j)'
  <2>1. Kept(j)
    BY <1>1, <1>2 DEF AllKept
  <2>2. QED BY <1>2, <2>1 DEF Kept
<1>3. ASSUME \A b \in Admin \ {a} : call'[b] = call[b], call[a].at \notin {"hset", "zadd"}
      PROVE  \A c \in {"hset", "zadd"} : At(c, j) => At(c, j)'
  BY <1>3 DEF At
<1>4. CASE HSet(a)
  <2>1. /\ call[a].at = "hset" /\ call[a].id \in Id
        /\ call' = [call EXCEPT ![a].at = "zadd"]
        /\ UNCHANGED <<waiting, delayed, active, failed, cancelled>>
    BY <1>4 DEF HSet
  <2>2. /\ call'[a].at = "zadd" /\ call'[a].id = call[a].id
        /\ \A b \in Admin \ {a} : call'[b] = call[b]
    BY <2>1
  <2>3. CASE call[a].id = j
    <3>1. job'[j].status = "WAITING"
      BY <1>4, <2>1, <2>3 DEF HSet, StoreTypeOK, Hash
    <3>2. At("zadd", j)'
      BY <2>2, <2>3 DEF At
    <3>3. QED BY <3>1, <3>2 DEF Kept
  <2>4. CASE call[a].id # j
    <3>1. job'[j] = job[j]
      BY <1>4, <2>1, <2>4 DEF HSet, StoreTypeOK
    <3>2. \A c \in {"hset", "zadd"} : At(c, j) => At(c, j)'
      BY <2>2, <2>4 DEF At
    <3>3. QED BY <1>2, <2>1, <3>1, <3>2
  <2>5. QED BY <2>3, <2>4
<1>5. CASE ZAdd(a)
  <2>1. /\ call[a].at = "zadd" /\ DOMAIN waiting' = DOMAIN waiting \cup {call[a].id}
        /\ \A b \in Admin \ {a} : call'[b] = call[b]
        /\ UNCHANGED <<job, delayed, active, failed, cancelled>>
    BY <1>5 DEF ZAdd, Proceed, Put
  <2>2. Kept(j)
    BY <1>1, <2>1 DEF AllKept
  <2>3. At("zadd", j) => At("zadd", j)' \/ j \in DOMAIN waiting'
    BY <2>1 DEF At
  <2>4. At("hset", j) => At("hset", j)'
    BY <2>1 DEF At
  <2>5. QED BY <2>1, <2>2, <2>3, <2>4 DEF Kept
<1>6. ASSUME NEW i \in Id, ZRem(a, i) PROVE Kept(j)'
  <2>1. /\ call[a].at = "zrem" /\ call'[a].at = "hset" /\ call'[a].id = i
        /\ \A b \in Admin \ {a} : call'[b] = call[b]
        /\ DOMAIN failed' = DOMAIN failed \ {i}
        /\ UNCHANGED <<job, waiting, delayed, active, cancelled>>
    BY <1>6 DEF ZRem, Drop, Restrict
  <2>2. Kept(j)
    BY <1>1, <2>1 DEF AllKept
  <2>3. At("zadd", j) => At("zadd", j)'
    BY <1>3, <2>1
  <2>4. At("hset", j) => At("hset", j)'
    BY <1>3, <2>1
  <2>5. j = i => At("hset", j)'
    BY <2>1 DEF At
  <2>6. QED BY <2>1, <2>2, <2>3, <2>4, <2>5 DEF Kept
<1>7. ASSUME NEW i \in Id, Del(a, i) PROVE Kept(j)'
  <2>1. /\ call[a].at = "del" /\ \A b \in Admin \ {a} : call'[b] = call[b]
        /\ UNCHANGED <<waiting, delayed, active, failed, cancelled>>
    BY <1>7 DEF Del
  <2>2. job'[j] = job[j]
    BY <1>1, <1>7 DEF Del, Pruned, Absent
  <2>3. QED BY <1>2, <1>3, <2>1, <2>2
<1>8. ASSUME NEW i \in Id, NEW now,
             \/ Trim(a) \/ Retry(a, i)
             \/ HGetAll(a, now) \/ RetryAll(a, now) \/ ClearCompleted(a, now)
      PROVE  Kept(j)'
  <2>1. /\ call[a].at \notin {"hset", "zadd"} /\ \A b \in Admin \ {a} : call'[b] = call[b]
        /\ UNCHANGED <<job, waiting, delayed, active, failed, cancelled>>
    BY <1>8 DEF Trim, Retry, HGetAll, RetryAll, ClearCompleted, NoCall, storeVars
  <2>2. QED BY <1>2, <1>3, <2>1
<1>9. QED BY <1>1, <1>4, <1>5, <1>6, <1>7, <1>8 DEF Operate

KeepsInv == AdminTypes /\ AllKept /\ NoEarlyFailure

\* No command of an operator gives a job up: hset makes it wait again.
LEMMA OperateNoEarlyFailure ==
    ASSUME AdminTypes, NoEarlyFailure, NEW a \in Admin, Operate(a)
    PROVE  NoEarlyFailure'
<1> USE DEF AdminTypes, CallsOK, AtOneOfThem
<1>1. issued' = issued /\ issued \subseteq Id
  BY DEF Operate, HSet, ZAdd, Trim, Retry, ZRem, Del, HGetAll, RetryAll, ClearCompleted,
         storeVars, history, StoreTypeOK, Id
<1>2. SUFFICES ASSUME NEW j \in issued, job'[j].data, job'[j].status = "FAILED"
               PROVE  job'[j] = job[j]
  BY <1>1 DEF NoEarlyFailure
<1>3. CASE HSet(a)
  <2>1. call[a].id # j
    BY <1>1, <1>2, <1>3 DEF HSet, StoreTypeOK, Hash
  <2>2. QED BY <1>1, <1>3, <2>1 DEF HSet, StoreTypeOK
<1>4. ASSUME NEW i \in Id, Del(a, i) PROVE job'[j] = job[j]
  BY <1>1, <1>2, <1>4 DEF Del, Pruned, Absent
<1>5. CASE ~HSet(a) /\ \A i \in Id : ~Del(a, i)
  BY <1>5 DEF Operate, ZAdd, Trim, Retry, ZRem, HGetAll, RetryAll, ClearCompleted, storeVars
<1>6. QED BY <1>3, <1>4, <1>5

\* Every step of the operators and of all others keeps the invariant.
LEMMA StepKeeps == KeepsInv /\ [AdminNext]_allVars => KeepsInv'
<1> SUFFICES ASSUME KeepsInv, [AdminNext]_allVars PROVE KeepsInv'
  OBVIOUS
<1>1. AdminTypes' /\ AdminTypes /\ StoreTypeOK
  BY StepAdminTypes DEF KeepsInv, AdminTypes
<1>2. CASE [StoreNext]_storeVars /\ UNCHANGED adminVars
  <2>1. AllKept'
    BY <1>1, <1>2, ScriptsKeep DEF KeepsInv
  <2>2. NoEarlyFailure'
    BY <1>1, <1>2, StepNoEarlyFailure DEF KeepsInv
  <2>3. QED BY <1>1, <2>1, <2>2 DEF KeepsInv
<1>3. ASSUME NEW a \in Admin, Operate(a) PROVE KeepsInv'
  BY <1>1, <1>3, CommandsKeep, OperateNoEarlyFailure DEF KeepsInv
<1>4. QED BY <1>2, <1>3 DEF AdminNext, Operate, allVars

\* Initially there is no job to keep.
LEMMA InitKeeps == AdminInit => KeepsInv
<1>1. AdminInit => AdminTypes
  BY InitAdminTypes
<1>2. AdminInit => AllKept /\ NoEarlyFailure
  BY DEF AdminInit, StoreInit, Absent, AllKept, NoEarlyFailure
<1>3. QED BY <1>1, <1>2 DEF KeepsInv

\* However many operators retry the same job at the same time, and whatever
\* workers, the watchdog, cancel and cleanup do between zrem, hset and zadd
\* (src/src/Queue.ts:300), no retry leaves a job where nothing finds it.
THEOREM RetriesKeepJobs == AdminSpec => []RetryKeepsJobs
<1>1. KeepsInv => RetryKeepsJobs
  BY DEF KeepsInv, AllKept, Kept, At, RetryKeepsJobs, Resetting, Findable
<1>2. QED BY <1>1, InitKeeps, StepKeeps, PTL DEF AdminSpec

\* Nor does a retry, which sets the attempts back, make the engine give a job
\* up before its attempts are used.
THEOREM RetriesFailNoJobEarly == AdminSpec => []NoEarlyFailure
<1>1. KeepsInv => NoEarlyFailure
  BY DEF KeepsInv
<1>2. QED BY <1>1, InitKeeps, StepKeeps, PTL DEF AdminSpec

-----------------------------------------------------------------------------
(* Producers                                                               *)

\* A step of a producer is a script call, or none; all others are as above.
LEMMA AddUsesScripts == AddNext => [AdminNext]_allVars
<1>1. ASSUME NEW q, NEW j \in JobId, NEW p \in Priority, NEW a \in Attempts,
             NEW k \in IdemKey \cup {NoKey}, NEW runAt \in Time, NEW now \in Time,
             AddFresh(q, j, p, a, k, runAt, now)
      PROVE  AdminNext
  BY <1>1 DEF AddFresh, AdminNext, StoreNext, Produce
<1>2. ASSUME NEW q, NEW k, AddDuplicate(q, k) \/ ReturnOriginal(q) PROVE UNCHANGED allVars
  BY <1>2 DEF AddDuplicate, ReturnOriginal, allVars
<1>3. Others => AdminNext
  BY DEF Others, AdminNext, StoreNext
<1>4. QED BY <1>1, <1>2, <1>3 DEF AddNext

\* What is proved of the scripts and of the operators holds while producers
\* wait for getJob.
THEOREM ProducersUseTheScripts == AddSpec => AdminSpec
<1>1. AddInit => AdminInit
  BY DEF AddInit
<1>2. [AddNext]_addAllVars => [AdminNext]_allVars
  BY AddUsesScripts DEF addAllVars, allVars
<1>3. QED BY <1>1, <1>2, PTL DEF AddSpec, AdminSpec

\* The hash of a job, with its data, is there.
Stored(j) == job[j].data /\ job[j].status # "NONE"

\* It stays until cleanup or an operator deletes the hash of a job that is over.
DataStays == \A j \in issued \ cleaned : Stored(j)

\* A key stands for a job an add stored, also one that was read before.
OriginalsAreStored ==
    /\ \A k \in DOMAIN idem : idem[k] \in issued
    /\ \A q \in Producer : pending[q].at = "getJob" => pending[q].original \in issued

\* A producer is idle, or waits for getJob.
PendingOK ==
    pending \in [Producer -> [at : {"idle", "getJob"}, original : JobId \cup {NoJob}]]

AddInv == AdminTypes /\ DataStays /\ OriginalsAreStored /\ PendingOK

\* The step takes the hash of a job that is over.
CleanedNow(j) == j \in Over /\ job[j].data /\ ~job'[j].data

\* Cleanup deletes hashes of the members of one history set only.
LEMMA PrunedAreOver ==
    ASSUME NEW z \in {completed, failed, cancelled}, NEW c, NEW now,
           StoreTypeOK, job' = Pruned(Expired(z, c, now)), NEW j \in issued, Stored(j)
    PROVE  Stored(j)' \/ CleanedNow(j)
<1>1. Expired(z, c, now) \subseteq Over
  BY DEF Expired, UpTo, Lowest, Over
<1>2. j \in Id
  BY DEF StoreTypeOK, Id
<1> QED
  BY <1>1, <1>2 DEF Pruned, Absent, Stored, CleanedNow

\* No script but enqueue takes a key, for the job it stores,
LEMMA EnqueueStores ==
    ASSUME StoreTypeOK, DataStays, \A k \in DOMAIN idem : idem[k] \in issued,
           NEW j \in JobId, NEW p \in Priority, NEW a \in Attempts,
           NEW k \in IdemKey \cup {NoKey}, NEW runAt \in Time, NEW now \in Time,
           Enqueue(j, p, a, k, runAt, now), cleaned' = cleaned
    PROVE  DataStays' /\ issued \subseteq issued' /\ \A i \in DOMAIN idem' : idem'[i] \in issued'
<1>1. issued \subseteq Id
  BY DEF StoreTypeOK, Id
<1>2. issued' = issued \cup {j} /\ \A i \in issued' \ cleaned' : Stored(i)'
  BY <1>1 DEF Enqueue, Store, NewHash, StoreTypeOK, Id, DataStays, Stored
<1>3. \A i \in DOMAIN idem' : idem'[i] \in issued'
  BY <1>2 DEF Enqueue, Store, Put
<1> QED
  BY <1>2, <1>3 DEF DataStays

\* and no other step takes the hash or the data from a job that is not over.
LEMMA OthersKeepData ==
    ASSUME AdminTypes, DataStays, \A k \in DOMAIN idem : idem[k] \in issued, Others
    PROVE  DataStays' /\ issued' = issued /\ \A k \in DOMAIN idem' : idem'[k] \in issued'
<1>0. /\ StoreTypeOK /\ issued \subseteq Id
      /\ cleaned' = cleaned \cup {j \in Over : job[j].data /\ ~job'[j].data}
  BY DEF AdminTypes, StoreTypeOK, Id, Others
<1>1. ASSUME issued' = issued, \A j \in issued : Stored(j) => Stored(j)' \/ CleanedNow(j)
      PROVE  DataStays'
  BY <1>0, <1>1 DEF DataStays, CleanedNow
<1>2. ASSUME NEW now \in Time, NEW j \in Id,
             \/ NoneReady(now) \/ HDelOrphan(j) \/ Heartbeat(j, now) \/ CleanStalled(now)
      PROVE  issued' = issued /\ idem' = idem /\ \A i \in issued : Stored(i) => Stored(i)'
  BY <1>2 DEF NoneReady, HDelOrphan, Heartbeat, CleanStalled, history, Stored
<1>3. ASSUME NEW now \in Time, NEW j \in Id,
             \/ MoveToActive(j, now) \/ Complete(j, now) \/ Cancel(j, now)
             \/ FailRetry(j, now) \/ FailFinal(j, now)
      PROVE  issued' = issued /\ idem' = idem /\ \A i \in issued : Stored(i) => Stored(i)'
  BY <1>0, <1>3 DEF MoveToActive, Complete, Cancel, FailRetry, FailFinal, CountFailure,
                    history, StoreTypeOK, Hash, Stored
<1>4. ASSUME NEW now \in Time, NEW c \in Cleanup,
             PruneCompleted(c, now) \/ PruneFailed(c, now) \/ PruneCancelled(c, now)
      PROVE  /\ issued' = issued /\ idem' = idem
             /\ \A i \in issued : Stored(i) => Stored(i)' \/ CleanedNow(i)
  <2>1. issued' = issued /\ idem' = idem
    BY <1>4 DEF PruneCompleted, PruneFailed, PruneCancelled, history
  <2>2. PICK z \in {completed, failed, cancelled} : job' = Pruned(Expired(z, c, now))
    BY <1>4 DEF PruneCompleted, PruneFailed, PruneCancelled
  <2>3. QED BY <1>0, <2>1, <2>2, PrunedAreOver
<1>5. ASSUME NEW k \in IdemKey, IdemExpire(k)
      PROVE  /\ issued' = issued /\ job' = job
             /\ \A i \in DOMAIN idem' : idem'[i] \in issued'
  BY <1>5 DEF IdemExpire, history, Drop, Restrict
<1>6. CASE Poll
  <2>1. PICK now \in Time : NoneReady(now) \/ \E j \in Id : MoveToActive(j, now)
    BY <1>6 DEF Poll
  <2>2. issued' = issued /\ idem' = idem /\ \A i \in issued : Stored(i) => Stored(i)'
    BY <1>3, <2>1 DEF NoneReady, history, Stored
  <2>3. QED BY <1>1, <2>2
<1>7. CASE Finish
  <2>1. issued' = issued /\ idem' = idem /\ \A i \in issued : Stored(i) => Stored(i)'
    BY <1>2, <1>3, <1>7 DEF Finish
  <2>2. QED BY <1>1, <2>1
<1>8. CASE Maintain
  <2>1. PICK now \in Time :
           \/ CleanStalled(now) \/ \E j \in Id : Cancel(j, now)
           \/ \E c \in Cleanup : PruneCompleted(c, now) \/ PruneFailed(c, now) \/ PruneCancelled(c, now)
    BY <1>8 DEF Maintain
  <2>2. CASE CleanStalled(now)
    <3>1. issued' = issued /\ idem' = idem /\ job' = job
      BY <2>2 DEF CleanStalled, history
    <3>2. QED BY <1>1, <3>1 DEF Stored
  <2>3. CASE \E j \in Id : Cancel(j, now)
    BY <1>1, <1>3, <2>3
  <2>4. CASE \E c \in Cleanup : PruneCompleted(c, now) \/ PruneFailed(c, now) \/ PruneCancelled(c, now)
    BY <1>1, <1>4, <2>4
  <2>5. QED BY <2>1, <2>2, <2>3, <2>4
<1>9. CASE \E k \in IdemKey : IdemExpire(k)
  BY <1>1, <1>5, <1>9 DEF Stored
<1>10. ASSUME NEW a \in Admin, Operate(a) PROVE DataStays' /\ issued' = issued /\ idem' = idem
  <2>1. issued' = issued /\ idem' = idem
    BY <1>10 DEF Operate, HSet, ZAdd, Trim, Retry, ZRem, Del, HGetAll, RetryAll, ClearCompleted,
                 storeVars, history
  <2>2. ASSUME HSet(a), NEW j \in issued, Stored(j) PROVE Stored(j)'
    BY <1>0, <2>2 DEF HSet, StoreTypeOK, Hash, Stored
  <2>3. ASSUME NEW i \in Id, Del(a, i), NEW j \in issued, Stored(j)
        PROVE  Stored(j)' \/ CleanedNow(j)
    <3>1. i \in Over
      BY <2>3 DEF Del, Over
    <3>2. QED BY <1>0, <2>3, <3>1 DEF Del, Pruned, Absent, Stored, CleanedNow
  <2>4. ASSUME ~HSet(a), \A i \in Id : ~Del(a, i) PROVE job' = job
    BY <1>10, <2>4 DEF Operate, ZAdd, Trim, Retry, ZRem, HGetAll, RetryAll, ClearCompleted,
                       storeVars
  <2>5. QED BY <1>1, <2>1, <2>2, <2>3, <2>4 DEF Stored
<1> QED BY <1>6, <1>7, <1>8, <1>9, <1>10 DEF Others

\* Every step of the producers and the others keeps the invariant.
LEMMA StepAdd ==
    ASSUME AddInv, [AddNext]_addAllVars
    PROVE  AddInv'
<1> USE DEF AddInv, OriginalsAreStored
<1>1. AdminTypes' /\ StoreTypeOK
  BY AddUsesScripts, StepAdminTypes DEF addAllVars, allVars, AdminTypes
<1>2. CASE UNCHANGED addAllVars
  BY <1>1, <1>2 DEF addAllVars, storeVars, PendingOK, DataStays, Stored
<1>3. ASSUME NEW q \in Producer, NEW j \in JobId, NEW p \in Priority, NEW a \in Attempts,
             NEW k \in IdemKey \cup {NoKey}, NEW runAt \in Time, NEW now \in Time,
             AddFresh(q, j, p, a, k, runAt, now)
      PROVE  AddInv'
  <2>1. pending' = pending
    BY <1>3 DEF AddFresh
  <2>2. DataStays' /\ issued \subseteq issued' /\ \A i \in DOMAIN idem' : idem'[i] \in issued'
    BY <1>1, <1>3, EnqueueStores DEF AddFresh
  <2>3. QED BY <1>1, <2>1, <2>2 DEF PendingOK
<1>4. ASSUME NEW q \in Producer, NEW k \in IdemKey, AddDuplicate(q, k) PROVE AddInv'
  <2>1. /\ UNCHANGED <<job, issued, idem, cleaned>> /\ idem[k] \in issued /\ idem[k] \in JobId
        /\ pending' = [pending EXCEPT ![q] = [at |-> "getJob", original |-> idem[k]]]
    BY <1>1, <1>4 DEF AddDuplicate, storeVars, history, StoreTypeOK
  <2>2. PendingOK' /\ \A r \in Producer : pending'[r].at = "getJob" => pending'[r].original \in issued'
    BY <2>1 DEF PendingOK
  <2>3. QED BY <1>1, <2>1, <2>2 DEF DataStays, Stored
<1>5. ASSUME NEW q \in Producer, ReturnOriginal(q) PROVE AddInv'
  <2>1. UNCHANGED <<job, issued, idem, cleaned>> /\ pending' = [pending EXCEPT ![q] = Idle]
    BY <1>5 DEF ReturnOriginal, storeVars, history
  <2>2. PendingOK' /\ \A r \in Producer : pending'[r].at = "getJob" => pending'[r].original \in issued'
    BY <2>1 DEF PendingOK, Idle
  <2>3. QED BY <1>1, <2>1, <2>2 DEF DataStays, Stored
<1>6. CASE Others
  <2>1. pending' = pending
    BY <1>6 DEF Others
  <2>2. DataStays' /\ issued' = issued /\ \A i \in DOMAIN idem' : idem'[i] \in issued'
    BY <1>6, OthersKeepData
  <2>3. QED BY <1>1, <2>1, <2>2 DEF PendingOK
<1>7. QED BY <1>2, <1>3, <1>4, <1>5, <1>6 DEF AddNext

\* An add whose key is taken returns the job the key stood for when enqueue
\* looked, whatever workers, operators, the watchdog and the key's expiry do
\* before getJob reads it (src/src/Queue.ts:53), unless that job was over and a
\* cleanup, with whatever options, or a clearCompleted deleted its hash.
THEOREM AddReturnsTheOriginal == AddSpec => []AnswersTheOriginal
<1>1. AddInit => AddInv
  <2>1. AddInit => AdminTypes
    BY InitAdminTypes DEF AddInit
  <2>2. AddInit => DataStays /\ OriginalsAreStored /\ PendingOK
    BY DEF AddInit, AdminInit, StoreInit, Nothing, DataStays, OriginalsAreStored, PendingOK, Idle
  <2>3. QED BY <2>1, <2>2 DEF AddInv
<1>2. AddInv /\ [AddNext]_addAllVars => AddInv'
  BY StepAdd
<1>3. AddInv => AnswersTheOriginal
  BY DEF AddInv, DataStays, OriginalsAreStored, Stored, Returned, AnswersTheOriginal
<1>4. QED BY <1>1, <1>2, <1>3, PTL DEF AddSpec

=============================================================================
