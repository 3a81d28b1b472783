--------------------------- MODULE CronScheduler ---------------------------
(***************************************************************************)
(* The scheduler replicas and the cron definitions of one queue.  A        *)
(* replica starts a tick at every interval, also while earlier ticks wait  *)
(* for redis, so the processes here are ticks: Slot bounds how many are in *)
(* flight, of one replica or of several.  Every await of tick ends a step; *)
(* addRepeatable and removeRepeatable come from other processes.           *)
(***************************************************************************)
EXTENDS RedisData

CONSTANTS
    Name,           \* the names of repeatable jobs
    Version,        \* the calls of addRepeatable: each carries cron, data and options
    Slot,           \* bound: the ticks that can be in flight at a time
    NoName,         \* a tick that holds no lock
    PollInterval,   \* pollIntervalMs of the schedulers
    Period,         \* the cron expressions fire at its multiples
    MaxSpan,        \* in a timely system, the longest time from hgetall to hset
    Timely,
    MaxTime,        \* bound: the clock stops here
    MaxAborts       \* bound: how often a tick ends in a crash or an error

ASSUME CronAssumption ==
    /\ {PollInterval, Period} \subseteq Nat \ {0}
    /\ {MaxSpan, MaxTime, MaxAborts} \subseteq Nat
    /\ Timely \in BOOLEAN
    /\ NoName \notin Name

VARIABLES
    clock,      \* the time at redis and at every process
    cron,       \* the cron hash: the definition of each registered name
    lock,       \* when the lock of each name expires
    tick,       \* the tick in each slot
    call,       \* how far each addRepeatable is
    fired,      \* history: how often each occurrence was enqueued
    lost,       \* history: how often a tick ended between its add and its hset
    removed,    \* history: the registrations removeRepeatable deleted
    aborts      \* how many ticks were aborted

history == <<fired, lost, removed, aborts>>
vars == <<clock, cron, lock, tick, call, history>>

\* No tick.  "since" is now, and from hgetall on the time of hgetall; defs is
\* what hgetall returned and left the due names the loop has yet to visit.
Idle == [at |-> "idle", since |-> 0, defs |-> Nothing, left |-> {},
         name |-> NoName, next |-> 0]

Unused == [at |-> "unused", name |-> NoName, next |-> 0]

Expired == -1

CronInit ==
    /\ clock = 0
    /\ cron = Nothing
    /\ lock = [n \in Name |-> Expired]
    /\ tick = [t \in Slot |-> Idle]
    /\ call = [v \in Version |-> Unused]
    /\ fired = Nothing /\ lost = Nothing /\ removed = {} /\ aborts = 0

\* CronExpressionParser.parse(cron).next(): the first occurrence after time.
NextOccurrence(time) == (time \div Period + 1) * Period

Times(f, x) == IF x \in DOMAIN f THEN f[x] ELSE 0
Counted(f, x) == Put(f, x, Times(f, x) + 1)

-----------------------------------------------------------------------------
(* Scheduler.tick                                                          *)

\* setInterval fires; the clock is read once, before the first await.
Begin(t) ==
    /\ tick[t] = Idle
    /\ tick' = [tick EXCEPT ![t].at = "reading", ![t].since = clock]
    /\ UNCHANGED <<clock, cron, lock, call, history>>

\* Mutant of Read: the tick keeps the due names and not the copy.
ReadNames(t) ==
    LET due == {n \in DOMAIN cron : cron[n].nextRunAt <= tick[t].since}
    IN  /\ tick[t].at = "reading"
        /\ tick' = [tick EXCEPT ![t] =
                       IF due = {} THEN Idle
                       ELSE [@ EXCEPT !.at = "locking", !.since = clock, !.left = due]]
        /\ UNCHANGED <<clock, cron, lock, call, history>>

\* hgetall: by this copy the tick decides what is due, and writes it back.
Read(t) ==
    LET due == {n \in DOMAIN cron : cron[n].nextRunAt <= tick[t].since}
    IN  /\ tick[t].at = "reading"
        /\ tick' = [tick EXCEPT ![t] =
                       IF due = {} THEN Idle
                       ELSE [@ EXCEPT !.at = "locking", !.since = clock,
                                      !.defs = cron, !.left = due]]
        /\ UNCHANGED <<clock, cron, lock, call, history>>

\* Mutant of Locked: SET NX without PX.
LockedEver(n) == lock[n] # Expired

\* Redis deletes a key once the time is past its expiry.
Locked(n) == clock <= lock[n]

\* Mutant of LockTime: one interval.
LockTimeOnce == PollInterval

LockTime == PollInterval * 2

\* SET NX PX succeeds: nobody releases the lock, it expires.
Lock(t, n) ==
    /\ tick[t].at = "locking" /\ n \in tick[t].left
    /\ ~Locked(n)
    /\ lock' = [lock EXCEPT ![n] = clock + LockTime]
    /\ tick' = [tick EXCEPT ![t].at = "adding", ![t].name = n,
                            ![t].left = @ \ {n}]
    /\ UNCHANGED <<clock, cron, call, history>>

\* The loop goes on with the names in left, or the tick is over.
Continue(t, left) ==
    tick' = [tick EXCEPT ![t] =
                IF left = {} THEN Idle
                ELSE [@ EXCEPT !.at = "locking", !.left = left,
                               !.name = NoName, !.next = 0]]

\* Another tick holds the lock: this one skips the name.
Skip(t, n) ==
    /\ tick[t].at = "locking" /\ n \in tick[t].left
    /\ Locked(n)
    /\ Continue(t, tick[t].left \ {n})
    /\ UNCHANGED <<clock, cron, lock, call, history>>

Definition(t) == tick[t].defs[tick[t].name]

\* The registration and the time for which the tick enqueues a job.
Occurrence(t) == <<tick[t].name, Definition(t).version, Definition(t).nextRunAt>>

\* queue.add stores the job.
Fire(t) ==
    /\ tick[t].at = "adding"
    /\ fired' = Counted(fired, Occurrence(t))
    /\ tick' = [tick EXCEPT ![t].at = "added"]
    /\ UNCHANGED <<clock, cron, lock, call, lost, removed, aborts>>

\* add returned: the next occurrence is computed from the time of this moment.
Compute(t) ==
    /\ tick[t].at = "added"
    /\ tick' = [tick EXCEPT ![t].at = "saving", ![t].next = NextOccurrence(clock)]
    /\ UNCHANGED <<clock, cron, lock, call, history>>

\* hset of the definition the tick read, with its new nextRunAt.
Save(t) ==
    /\ tick[t].at = "saving"
    /\ cron' = Put(cron, tick[t].name, [Definition(t) EXCEPT !.nextRunAt = tick[t].next])
    /\ Continue(t, tick[t].left)
    /\ UNCHANGED <<clock, lock, call, history>>

\* A crash of the process, or a command whose rejection ends tick early.
\* Bound: the lock of an aborted tick expires before the clock stops.
Abort(t) ==
    /\ tick[t] # Idle
    /\ aborts < MaxAborts
    /\ clock + LockTime < MaxTime
    /\ aborts' = aborts + 1
    /\ tick' = [tick EXCEPT ![t] = Idle]
    /\ lost' = IF tick[t].at \in {"added", "saving"} THEN Counted(lost, Occurrence(t))
                                                       ELSE lost
    /\ UNCHANGED <<clock, cron, lock, call, fired, removed>>

-----------------------------------------------------------------------------
(* Queue.addRepeatable and Queue.removeRepeatable                          *)

Parse(v, n) ==
    /\ call[v] = Unused
    /\ call' = [call EXCEPT ![v] = [at |-> "saving", name |-> n,
                                    next |-> NextOccurrence(clock)]]
    /\ UNCHANGED <<clock, cron, lock, tick, history>>

Register(v) ==
    /\ call[v].at = "saving"
    /\ cron' = Put(cron, call[v].name, [version |-> v, nextRunAt |-> call[v].next])
    /\ call' = [call EXCEPT ![v].at = "done"]
    /\ UNCHANGED <<clock, lock, tick, history>>

Remove(n) ==
    /\ n \in DOMAIN cron
    /\ cron' = Drop(cron, {n})
    /\ removed' = removed \cup {<<n, cron[n].version>>}
    /\ UNCHANGED <<clock, lock, tick, call, fired, lost, aborts>>

\* A timely system: the span from hgetall to hset is at most MaxSpan.
InTime(t) == tick[t].at \in {"idle", "reading"} \/ clock < tick[t].since + MaxSpan

Pass ==
    /\ clock < MaxTime
    /\ Timely => \A t \in Slot : InTime(t)
    /\ clock' = clock + 1
    /\ UNCHANGED <<cron, lock, tick, call, history>>

-----------------------------------------------------------------------------
Step(t) ==
    \/ Read(t) \/ Fire(t) \/ Compute(t) \/ Save(t)
    \/ \E n \in Name : Lock(t, n) \/ Skip(t, n)

CronNext ==
    \/ \E t \in Slot : Begin(t) \/ Step(t) \/ Abort(t)
    \/ \E v \in Version : Register(v) \/ \E n \in Name : Parse(v, n)
    \/ \E n \in Name : Remove(n)
    \/ Pass

CronSpec == CronInit /\ [][CronNext]_vars

\* The timers of the schedulers keep firing, and an await is answered.
CronFairness ==
    /\ \A t \in Slot : WF_vars(Begin(t)) /\ WF_vars(Step(t))
    /\ WF_vars(Pass)

FairCronSpec == CronSpec /\ CronFairness

-----------------------------------------------------------------------------
DefinitionType == [version : Version, nextRunAt : Nat]

Definitions(f) == f \in [DOMAIN f -> DefinitionType] /\ DOMAIN f \subseteq Name

\* Every variable has a value of its type.
CronTypeOK ==
    /\ clock \in 0 .. MaxTime
    /\ Definitions(cron)
    /\ lock \in [Name -> Nat \cup {Expired}]
    /\ \A t \in Slot :
          /\ tick[t].at \in {"idle", "reading", "locking", "adding", "added", "saving"}
          /\ tick[t].since \in 0 .. clock
          /\ Definitions(tick[t].defs) /\ tick[t].left \subseteq DOMAIN tick[t].defs
          /\ tick[t].name \in {NoName} \cup DOMAIN tick[t].defs /\ tick[t].next \in Nat
    /\ \A v \in Version : call[v].at \in {"unused", "saving", "done"}
    /\ aborts \in 0 .. MaxAborts

\* When no tick takes longer than half the life of a lock, an occurrence of a
\* registration is enqueued once, however many schedulers run (the lock of
\* src/src/Scheduler.ts:73), and once more for every tick that died after its
\* add and before its hset.  The lock alone does not give this: a tick that
\* read the definition before another one saved it finds the lock expired.
FiredOnce == \A o \in DOMAIN fired : fired[o] <= 1 + Times(lost, o)

\* The occurrence is overdue by more than a tick takes.
Overdue(n) == n \in DOMAIN cron /\ cron[n].nextRunAt + MaxSpan <= clock

\* In a timely system no definition stays overdue: it is fired, removed or
\* registered anew, although ticks die and nobody releases a lock.  Bound: as
\* long as a lock that is in the way expires before the clock stops.
DueIsFired ==
    \A n \in Name : (Overdue(n) /\ clock + LockTime < MaxTime) ~> ~Overdue(n)

\* src/src/Queue.ts:451, "Removes a repeatable job definition by name": the
\* registration that was removed is not in the hash again.  The tick that
\* fired it meanwhile writes it back.
RemovedStaysRemoved ==
    \A n \in DOMAIN cron : <<n, cron[n].version>> \notin removed
=============================================================================
