----------------------------- MODULE CronProofs -----------------------------
(***************************************************************************)
(* Theorems about CronScheduler, for any names, registrations, ticks in    *)
(* flight and intervals: types in every system, and that each occurrence   *)
(* is fired once in a timely one whose ticks take at most half the life of *)
(* a lock.                                                                 *)
(***************************************************************************)
EXTENDS CronScheduler, TLAPS

-----------------------------------------------------------------------------
(* Invariants                                                              *)

Copies == UNION {[D -> DefinitionType] : D \in SUBSET Name}

TickType == [at : {"idle", "reading", "locking", "adding", "added", "saving"}, since : Nat,
             defs : Copies, left : SUBSET Name, name : Name \cup {NoName}, next : Nat]

CallType == [at : {"unused", "saving", "done"}, name : Name \cup {NoName}, next : Nat]

Occurrences == Name \X Version \X Nat

Holding(t) == tick[t].at \in {"adding", "added", "saving"}

InLoop(t) == tick[t].at = "locking" \/ Holding(t)

\* What a tick holds: nothing before it has read, then names it has read, and
\* the name of a lock while it works under one.
TickOK(k, now) ==
    /\ k.since <= now
    /\ k.at \in {"idle", "reading"} => k.name = NoName /\ k.left = {} /\ k.defs = Nothing
    /\ k.left \subseteq DOMAIN k.defs
    /\ k.at \in {"adding", "added", "saving"} => k.name \in DOMAIN k.defs
    /\ k.name \in {NoName} \cup DOMAIN k.defs

TypeInv ==
    /\ clock \in 0 .. MaxTime /\ aborts \in 0 .. MaxAborts
    /\ cron \in Copies
    /\ lock \in [Name -> Nat \cup {Expired}]
    /\ tick \in [Slot -> TickType]
    /\ call \in [Version -> CallType]
    /\ \A t \in Slot : TickOK(tick[t], clock)
    /\ \A v \in Version : call[v].at = "saving" => call[v].name \in Name
    /\ DOMAIN fired \subseteq Occurrences /\ fired \in [DOMAIN fired -> Nat]
    /\ DOMAIN lost \subseteq Occurrences /\ lost \in [DOMAIN lost -> Nat]

Holds(t, n) == Holding(t) /\ tick[t].name = n

\* Ticks are in time, and a tick under a lock is alone under it: the lock
\* outlives the tick.
InSpan == \A t \in Slot : InLoop(t) => clock <= tick[t].since + MaxSpan

LockOutlives ==
    \A t \in Slot, n \in Name :
        Holds(t, n) => /\ lock[n] >= tick[t].since + LockTime
                       /\ \A u \in Slot : Holds(u, n) => u = t

\* A tick visits what was due when it read, so nothing is fired before its time.
IsDue(k, n) == k.defs[n].nextRunAt <= k.since

VisitsDue ==
    \A t \in Slot : /\ \A n \in tick[t].left : IsDue(tick[t], n)
                    /\ Holding(t) => IsDue(tick[t], tick[t].name)

FiredIsPast == \A o \in DOMAIN fired : o[3] <= clock

\* The time a tick is about to save is later than every occurrence fired.
SavesLater ==
    \A t \in Slot : tick[t].at = "saving" =>
        \A o \in DOMAIN fired : o[1] = tick[t].name => o[3] < tick[t].next

\* A registration that is not yet written is nowhere.
Fresh(v) ==
    /\ \A n \in DOMAIN cron : cron[n].version # v
    /\ \A t \in Slot : \A n \in DOMAIN tick[t].defs : tick[t].defs[n].version # v
    /\ \A o \in DOMAIN fired : o[2] # v

NewIsFresh == \A v \in Version : call[v].at # "done" => Fresh(v)

ClockInv == InSpan /\ LockOutlives /\ VisitsDue /\ FiredIsPast /\ SavesLater /\ NewIsFresh

\* The definition that fires occurrence o is in the copy f.
Has(f, o) == o[1] \in DOMAIN f /\ f[o[1]].version = o[2] /\ f[o[1]].nextRunAt = o[3]

\* A tick that has enqueued o is yet to save the definition.
Firing(t, o) == tick[t].at \in {"added", "saving"} /\ tick[t].name = o[1] /\ Has(tick[t].defs, o)

\* Nobody will fire o again: it is not in the hash, no tick is about to add
\* it, and every tick that has a copy of it finds the lock held until it is
\* over.
Barred(t, o) ==
    Has(tick[t].defs, o) =>
        /\ ~(tick[t].at = "adding" /\ tick[t].name = o[1])
        /\ o[1] \in tick[t].left => lock[o[1]] >= tick[t].since + MaxSpan

Over(o) == ~Has(cron, o) /\ \A t \in Slot : Barred(t, o)

OnceInv ==
    \A o \in DOMAIN fired :
        /\ fired[o] <= 1 + Times(lost, o)
        /\ fired[o] = 1 + Times(lost, o) => (\E t \in Slot : Firing(t, o)) \/ Over(o)

-----------------------------------------------------------------------------
(* Constants and operators                                                 *)

\* The numbers among the constants.
LEMMA Bounds ==
    /\ PollInterval \in Nat \ {0} /\ Period \in Nat \ {0}
    /\ MaxSpan \in Nat /\ MaxTime \in Nat /\ MaxAborts \in Nat
    /\ Timely \in BOOLEAN /\ NoName \notin Name
    /\ LockTime \in Nat
BY CronAssumption DEF CronAssumption, LockTime

\* The next occurrence is in the future.
LEMMA NextIsLater ==
    ASSUME NEW time \in Nat
    PROVE  NextOccurrence(time) \in Nat /\ time < NextOccurrence(time)
<1>1. \A a \in Nat, b \in Nat \ {0} :
         /\ a \div b \in Nat
         /\ a < (a \div b + 1) * b
         /\ (a \div b + 1) * b \in Nat
  BY SMT
<1> QED
  BY <1>1, Bounds DEF NextOccurrence

\* The hash, and what a tick read of it, maps names to definitions.
LEMMA CopyFacts ==
    ASSUME NEW f \in Copies
    PROVE  /\ DOMAIN f \subseteq Name
           /\ f \in [DOMAIN f -> DefinitionType]
           /\ \A n \in DOMAIN f : /\ f[n] \in DefinitionType
                                 /\ f[n].version \in Version /\ f[n].nextRunAt \in Nat
BY DEF Copies, DefinitionType

\* Writing a definition changes one name,
LEMMA CopyPut ==
    ASSUME NEW f \in Copies, NEW n \in Name, NEW d \in DefinitionType
    PROVE  /\ Put(f, n, d) \in Copies
           /\ DOMAIN Put(f, n, d) = DOMAIN f \cup {n}
           /\ \A m \in DOMAIN f \cup {n} : Put(f, n, d)[m] = IF m = n THEN d ELSE f[m]
<1>1. DOMAIN f \cup {n} \in SUBSET Name /\ \A m \in DOMAIN f : f[m] \in DefinitionType
  BY CopyFacts
<1>2. Put(f, n, d) \in [DOMAIN f \cup {n} -> DefinitionType]
  BY <1>1 DEF Put
<1> QED
  BY <1>1, <1>2 DEF Put, Copies

\* and removing one changes no other.
LEMMA CopyDrop ==
    ASSUME NEW f \in Copies, NEW n \in Name
    PROVE  /\ Drop(f, {n}) \in Copies
           /\ DOMAIN Drop(f, {n}) = DOMAIN f \ {n}
           /\ \A m \in DOMAIN f \ {n} : Drop(f, {n})[m] = f[m]
<1>1. DOMAIN f \ {n} \in SUBSET Name /\ \A m \in DOMAIN f : f[m] \in DefinitionType
  BY CopyFacts
<1>2. Drop(f, {n}) = [m \in DOMAIN f \ {n} |-> f[m]]
  BY DEF Drop, Restrict
<1>3. Drop(f, {n}) \in [DOMAIN f \ {n} -> DefinitionType]
  BY <1>1, <1>2
<1> QED
  BY <1>1, <1>2, <1>3 DEF Copies

\* A tick that has read nothing has an empty copy.
LEMMA EmptyCopy == Nothing \in Copies /\ DOMAIN Nothing = {}
<1>1. Nothing \in [{} -> DefinitionType]
  BY DEF Nothing
<1> QED
  BY <1>1 DEF Copies, Nothing

\* A tick that is over holds nothing.
LEMMA IdleTick == Idle \in TickType /\ \A now \in Nat : TickOK(Idle, now)
BY EmptyCopy DEF Idle, TickType, TickOK

\* Counting one more of an occurrence.
LEMMA CountedFacts ==
    ASSUME NEW f, DOMAIN f \subseteq Occurrences, f \in [DOMAIN f -> Nat],
           NEW x \in Occurrences
    PROVE  /\ DOMAIN Counted(f, x) = DOMAIN f \cup {x} /\ DOMAIN Counted(f, x) \subseteq Occurrences
           /\ Counted(f, x) \in [DOMAIN Counted(f, x) -> Nat]
           /\ Times(f, x) \in Nat /\ Counted(f, x)[x] = Times(f, x) + 1
           /\ Times(Counted(f, x), x) = Times(f, x) + 1
           /\ \A y \in DOMAIN f \ {x} : Counted(f, x)[y] = f[y]
           /\ \A y : y # x => Times(Counted(f, x), y) = Times(f, y)
<1>1. Times(f, x) \in Nat
  BY DEF Times
<1>2. Counted(f, x) = [y \in DOMAIN f \cup {x} |-> IF y = x THEN Times(f, x) + 1 ELSE f[y]]
  BY DEF Counted, Put
<1> QED
  BY <1>1, <1>2 DEF Times

-----------------------------------------------------------------------------
(* What each step makes of its tick                                        *)

\* The tick of slot t is k now, and the others are what they were.
Becomes(t, k) == tick' = [tick EXCEPT ![t] = k] /\ k \in TickType /\ TickOK(k, clock)

\* A step of a tick replaces its record and no other.
LEMMA BecomesFacts ==
    ASSUME TypeInv, NEW t \in Slot, NEW k, Becomes(t, k)
    PROVE  /\ tick' \in [Slot -> TickType] /\ tick'[t] = k
           /\ \A u \in Slot \ {t} : tick'[u] = tick[u]
           /\ \A u \in Slot : TickOK(tick'[u], clock)
BY DEF TypeInv, Becomes

\* What the types say of one tick.
LEMMA TickFacts ==
    ASSUME TypeInv, NEW t \in Slot
    PROVE  /\ tick[t] \in TickType /\ TickOK(tick[t], clock) /\ clock \in Nat
           /\ tick[t].since \in Nat /\ tick[t].since <= clock
           /\ tick[t].defs \in Copies /\ DOMAIN tick[t].defs \subseteq Name
           /\ tick[t].left \subseteq DOMAIN tick[t].defs /\ tick[t].next \in Nat
           /\ Holding(t) => tick[t].name \in DOMAIN tick[t].defs
           /\ tick[t].name \in Name \cup {NoName}
<1>1. tick[t] \in TickType /\ TickOK(tick[t], clock) /\ clock \in Nat
  BY Bounds DEF TypeInv
<1> QED
  BY <1>1, CopyFacts DEF TickType, TickOK, Holding

\* The interval starts a tick, which reads the clock.
LEMMA BeginTick ==
    ASSUME TypeInv, NEW t \in Slot, Begin(t)
    PROVE  \E k : /\ Becomes(t, k) /\ k.at = "reading" /\ k.since = clock
                  /\ k.defs = Nothing /\ k.left = {}
<1> DEFINE k == [tick[t] EXCEPT !.at = "reading", !.since = clock]
<1>1. tick[t] = Idle /\ Idle \in TickType /\ clock \in Nat
  BY TickFacts, IdleTick DEF Begin
<1>2. tick' = [tick EXCEPT ![t] = k]
  BY DEF Begin
<1>3. k \in TickType
  BY <1>1 DEF TickType
<1>4. /\ k.at = "reading" /\ k.since = clock
      /\ k.defs = Idle.defs /\ k.left = Idle.left /\ k.name = Idle.name
  BY <1>1 DEF TickType
<1>5. Idle.defs = Nothing /\ Idle.left = {} /\ Idle.name = NoName
  BY DEF Idle
<1> HIDE DEF k
<1>6. TickOK(k, clock)
  BY <1>1, <1>4, <1>5 DEF TickOK
<1> QED
  BY <1>2, <1>3, <1>4, <1>5, <1>6 DEF Becomes

\* hgetall gives it a copy, of which it visits what was due when it began.
LEMMA ReadTick ==
    ASSUME TypeInv, NEW t \in Slot, Read(t)
    PROVE  \E k : /\ Becomes(t, k)
                  /\ \/ k = Idle
                     \/ /\ k.at = "locking" /\ k.since = clock /\ k.defs = cron
                        /\ k.left = {n \in DOMAIN cron : cron[n].nextRunAt <= tick[t].since}
<1> DEFINE due == {n \in DOMAIN cron : cron[n].nextRunAt <= tick[t].since}
           k == [tick[t] EXCEPT !.at = "locking", !.since = clock, !.defs = cron, !.left = due]
<1>1. tick[t].at = "reading" /\ (tick' = [tick EXCEPT ![t] = Idle] \/ tick' = [tick EXCEPT ![t] = k])
  BY DEF Read
<1>2. cron \in Copies /\ DOMAIN cron \subseteq Name
  BY CopyFacts DEF TypeInv
<1>3. tick[t] \in TickType /\ tick[t].name = NoName /\ clock \in Nat
  BY <1>1, TickFacts DEF TickOK
<1>4. due \subseteq DOMAIN cron
  OBVIOUS
<1> HIDE DEF due
<1>5. k \in TickType
  BY <1>2, <1>3, <1>4 DEF TickType
<1>6. /\ k.at = "locking" /\ k.since = clock /\ k.defs = cron /\ k.left = due /\ k.name = NoName
  BY <1>3 DEF TickType
<1> HIDE DEF k
<1>7. TickOK(k, clock)
  BY <1>3, <1>4, <1>6 DEF TickOK
<1>8. CASE tick' = [tick EXCEPT ![t] = Idle]
  BY <1>3, <1>8, IdleTick DEF Becomes
<1>9. CASE tick' = [tick EXCEPT ![t] = k]
  BY <1>5, <1>6, <1>7, <1>9 DEF Becomes, due
<1> QED
  BY <1>1, <1>8, <1>9

\* A tick that got the lock of a name works on that name.
LEMMA LockTick ==
    ASSUME TypeInv, NEW t \in Slot, NEW n \in Name, Lock(t, n)
    PROVE  \E k : /\ Becomes(t, k) /\ n \in tick[t].left
                  /\ k.at = "adding" /\ k.name = n /\ k.left = tick[t].left \ {n}
                  /\ k.since = tick[t].since /\ k.defs = tick[t].defs
<1> DEFINE k == [tick[t] EXCEPT !.at = "adding", !.name = n, !.left = tick[t].left \ {n}]
<1>1. tick' = [tick EXCEPT ![t] = k] /\ n \in tick[t].left
  BY DEF Lock, TypeInv
<1>2. tick[t] \in TickType /\ tick[t].left \subseteq DOMAIN tick[t].defs /\ tick[t].since <= clock
  BY TickFacts
<1>3. k \in TickType
  BY <1>2 DEF TickType
<1>4. /\ k.at = "adding" /\ k.name = n /\ k.left = tick[t].left \ {n}
      /\ k.since = tick[t].since /\ k.defs = tick[t].defs
  BY <1>2 DEF TickType
<1> HIDE DEF k
<1>5. TickOK(k, clock)
  BY <1>1, <1>2, <1>4 DEF TickOK
<1> QED
  BY <1>1, <1>3, <1>4, <1>5 DEF Becomes

\* Skip and Save go on with the names they leave, or end the tick.
LEMMA ContinueTick ==
    ASSUME TypeInv, NEW t \in Slot, NEW left \in SUBSET tick[t].left, Continue(t, left)
    PROVE  \E k : /\ Becomes(t, k)
                  /\ \/ k = Idle
                     \/ /\ k.at = "locking" /\ k.since = tick[t].since
                        /\ k.defs = tick[t].defs /\ k.left = left
<1> DEFINE k == [tick[t] EXCEPT !.at = "locking", !.left = left, !.name = NoName, !.next = 0]
<1>1. tick' = [tick EXCEPT ![t] = Idle] \/ tick' = [tick EXCEPT ![t] = k]
  BY DEF Continue
<1>2. /\ tick[t] \in TickType /\ tick[t].left \subseteq DOMAIN tick[t].defs
      /\ tick[t].left \subseteq Name /\ tick[t].since <= clock /\ clock \in Nat
  BY TickFacts
<1>3. k \in TickType
  BY <1>2 DEF TickType
<1>4. /\ k.at = "locking" /\ k.name = NoName /\ k.left = left
      /\ k.since = tick[t].since /\ k.defs = tick[t].defs
  BY <1>2 DEF TickType
<1> HIDE DEF k
<1>5. TickOK(k, clock)
  BY <1>2, <1>4 DEF TickOK
<1>6. CASE tick' = [tick EXCEPT ![t] = Idle]
  BY <1>2, <1>6, IdleTick DEF Becomes
<1>7. CASE tick' = [tick EXCEPT ![t] = k]
  BY <1>3, <1>4, <1>5, <1>7 DEF Becomes
<1> QED
  BY <1>1, <1>6, <1>7

\* add leaves it at the same name, with the same copy,
LEMMA FireTick ==
    ASSUME TypeInv, NEW t \in Slot, Fire(t)
    PROVE  \E k : /\ Becomes(t, k) /\ Holding(t) /\ k.at = "added"
                  /\ k.since = tick[t].since /\ k.defs = tick[t].defs
                  /\ k.left = tick[t].left /\ k.name = tick[t].name
<1> DEFINE k == [tick[t] EXCEPT !.at = "added"]
<1>1. tick' = [tick EXCEPT ![t] = k] /\ Holding(t)
  BY DEF Fire, Holding
<1>2. tick[t] \in TickType /\ TickOK(tick[t], clock)
  BY TickFacts
<1>3. k \in TickType
  BY <1>2 DEF TickType
<1>4. /\ k.at = "added" /\ k.name = tick[t].name /\ k.left = tick[t].left
      /\ k.since = tick[t].since /\ k.defs = tick[t].defs
  BY <1>2 DEF TickType
<1> HIDE DEF k
<1>5. TickOK(k, clock)
  BY <1>1, <1>2, <1>4 DEF TickOK, Holding
<1> QED
  BY <1>1, <1>3, <1>4, <1>5 DEF Becomes

\* and so does the computation of the next time.
LEMMA ComputeTick ==
    ASSUME TypeInv, NEW t \in Slot, Compute(t)
    PROVE  \E k : /\ Becomes(t, k) /\ Holding(t)
                  /\ k.at = "saving" /\ k.next = NextOccurrence(clock)
                  /\ k.since = tick[t].since /\ k.defs = tick[t].defs
                  /\ k.left = tick[t].left /\ k.name = tick[t].name
<1> DEFINE k == [tick[t] EXCEPT !.at = "saving", !.next = NextOccurrence(clock)]
<1>1. tick' = [tick EXCEPT ![t] = k] /\ Holding(t)
  BY DEF Compute, Holding
<1>2. tick[t] \in TickType /\ TickOK(tick[t], clock) /\ NextOccurrence(clock) \in Nat
  BY TickFacts, NextIsLater
<1>3. k \in TickType
  BY <1>2 DEF TickType
<1>4. /\ k.at = "saving" /\ k.name = tick[t].name /\ k.left = tick[t].left
      /\ k.since = tick[t].since /\ k.defs = tick[t].defs /\ k.next = NextOccurrence(clock)
  BY <1>2 DEF TickType
<1> HIDE DEF k
<1>5. TickOK(k, clock)
  BY <1>1, <1>2, <1>4 DEF TickOK, Holding
<1> QED
  BY <1>1, <1>3, <1>4, <1>5 DEF Becomes

\* A tick that fails is over.
LEMMA AbortTick ==
    ASSUME TypeInv, NEW t \in Slot, Abort(t)
    PROVE  Becomes(t, Idle)
BY TickFacts, IdleTick DEF Abort, Becomes

\* The occurrence a tick fires is the one its copy has for the name.
LEMMA OccurrenceFacts ==
    ASSUME TypeInv, NEW t \in Slot, Holding(t)
    PROVE  /\ Occurrence(t) \in Occurrences /\ Definition(t) \in DefinitionType
           /\ Occurrence(t)[1] = tick[t].name /\ Has(tick[t].defs, Occurrence(t))
           /\ Occurrence(t)[2] = Definition(t).version
           /\ Occurrence(t)[3] = Definition(t).nextRunAt
           /\ tick[t].name \in Name /\ Definition(t) = tick[t].defs[tick[t].name]
<1>1. /\ tick[t].defs \in Copies /\ tick[t].name \in DOMAIN tick[t].defs
      /\ tick[t].name \in Name
  BY TickFacts
<1>2. /\ Definition(t) \in DefinitionType
      /\ Definition(t).version \in Version /\ Definition(t).nextRunAt \in Nat
  BY <1>1, CopyFacts DEF Definition
<1> QED
  BY <1>1, <1>2 DEF Occurrence, Occurrences, Has, Definition

-----------------------------------------------------------------------------
(* Types                                                                   *)

\* The schedulers start well typed,
LEMMA InitTypes == CronInit => TypeInv
<1> SUFFICES ASSUME CronInit
             PROVE  TypeInv
  OBVIOUS
<1>1. clock \in 0 .. MaxTime /\ aborts \in 0 .. MaxAborts /\ clock \in Nat
  BY Bounds DEF CronInit
<1>2. cron \in Copies /\ lock \in [Name -> Nat \cup {Expired}]
  BY EmptyCopy DEF CronInit
<1>3. tick \in [Slot -> TickType] /\ \A t \in Slot : TickOK(tick[t], clock)
  BY <1>1, IdleTick DEF CronInit
<1>4. Unused \in CallType
  BY DEF Unused, CallType
<1>5. call \in [Version -> CallType] /\ \A v \in Version : call[v].at = "unused"
  BY <1>4 DEF CronInit, Unused
<1>6. /\ DOMAIN fired \subseteq Occurrences /\ fired \in [DOMAIN fired -> Nat]
      /\ DOMAIN lost \subseteq Occurrences /\ lost \in [DOMAIN lost -> Nat]
  BY DEF CronInit, Nothing
<1> QED
  BY <1>1, <1>2, <1>3, <1>5, <1>6 DEF TypeInv

\* The variables a step of a tick can change, besides the tick itself.
LEMMA TickStepTypes ==
    ASSUME TypeInv, NEW t \in Slot, NEW k, Becomes(t, k),
           clock' = clock, call' = call, cron' \in Copies,
           lock' \in [Name -> Nat \cup {Expired}], aborts' \in 0 .. MaxAborts,
           DOMAIN fired' \subseteq Occurrences, fired' \in [DOMAIN fired' -> Nat],
           DOMAIN lost' \subseteq Occurrences, lost' \in [DOMAIN lost' -> Nat]
    PROVE  TypeInv'
BY BecomesFacts DEF TypeInv

\* and every step keeps them so.
LEMMA StepTypes ==
    ASSUME TypeInv, [CronNext]_vars
    PROVE  TypeInv'
<1> USE DEF history
<1>1. /\ cron \in Copies /\ lock \in [Name -> Nat \cup {Expired}] /\ aborts \in 0 .. MaxAborts
      /\ DOMAIN fired \subseteq Occurrences /\ fired \in [DOMAIN fired -> Nat]
      /\ DOMAIN lost \subseteq Occurrences /\ lost \in [DOMAIN lost -> Nat]
      /\ clock \in 0 .. MaxTime /\ clock \in Nat /\ call \in [Version -> CallType]
  BY Bounds DEF TypeInv
<1>2. ASSUME NEW t \in Slot, Begin(t)
      PROVE  TypeInv'
  <2>1. PICK k : Becomes(t, k)
    BY <1>2, BeginTick
  <2> QED
    BY <1>1, <1>2, <2>1, TickStepTypes DEF Begin
<1>3. ASSUME NEW t \in Slot, Read(t)
      PROVE  TypeInv'
  <2>1. PICK k : Becomes(t, k)
    BY <1>3, ReadTick
  <2> QED
    BY <1>1, <1>3, <2>1, TickStepTypes DEF Read
<1>4. ASSUME NEW t \in Slot, NEW n \in Name, Lock(t, n)
      PROVE  TypeInv'
  <2>1. PICK k : Becomes(t, k)
    BY <1>4, LockTick
  <2>2. lock' = [lock EXCEPT ![n] = clock + LockTime]
    BY <1>4 DEF Lock
  <2>3. lock' \in [Name -> Nat \cup {Expired}]
    BY <1>1, <2>2, Bounds
  <2> QED
    BY <1>1, <1>4, <2>1, <2>3, TickStepTypes DEF Lock
<1>5. ASSUME NEW t \in Slot, NEW n \in Name, Skip(t, n)
      PROVE  TypeInv'
  <2>1. Continue(t, tick[t].left \ {n})
    BY <1>5 DEF Skip
  <2>2. PICK k : Becomes(t, k)
    BY <2>1, ContinueTick
  <2> QED
    BY <1>1, <1>5, <2>2, TickStepTypes DEF Skip
<1>6. ASSUME NEW t \in Slot, Fire(t)
      PROVE  TypeInv'
  <2>1. PICK k : Becomes(t, k) /\ Holding(t)
    BY <1>6, FireTick
  <2>2. Occurrence(t) \in Occurrences /\ fired' = Counted(fired, Occurrence(t))
    BY <1>6, <2>1, OccurrenceFacts DEF Fire
  <2>3. DOMAIN fired' \subseteq Occurrences /\ fired' \in [DOMAIN fired' -> Nat]
    BY <1>1, <2>2, CountedFacts
  <2> QED
    BY <1>1, <1>6, <2>1, <2>3, TickStepTypes DEF Fire
<1>7. ASSUME NEW t \in Slot, Compute(t)
      PROVE  TypeInv'
  <2>1. PICK k : Becomes(t, k)
    BY <1>7, ComputeTick
  <2> QED
    BY <1>1, <1>7, <2>1, TickStepTypes DEF Compute
<1>8. ASSUME NEW t \in Slot, Save(t)
      PROVE  TypeInv'
  <2>1. Continue(t, tick[t].left) /\ Holding(t)
    BY <1>8 DEF Save, Holding
  <2>2. PICK k : Becomes(t, k)
    BY <2>1, ContinueTick
  <2>3. /\ tick[t].name \in Name /\ Definition(t) \in DefinitionType /\ tick[t].next \in Nat
    BY <2>1, OccurrenceFacts, TickFacts
  <2>4. [Definition(t) EXCEPT !.nextRunAt = tick[t].next] \in DefinitionType
    BY <2>3 DEF DefinitionType
  <2>5. cron' \in Copies
    BY <1>1, <1>8, <2>3, <2>4, CopyPut DEF Save
  <2> QED
    BY <1>1, <1>8, <2>2, <2>5, TickStepTypes DEF Save
<1>9. ASSUME NEW t \in Slot, Abort(t)
      PROVE  TypeInv'
  <2>1. Becomes(t, Idle)
    BY <1>9, AbortTick
  <2>2. aborts' \in 0 .. MaxAborts
    BY <1>1, <1>9, Bounds DEF Abort
  <2>3. DOMAIN lost' \subseteq Occurrences /\ lost' \in [DOMAIN lost' -> Nat]
    <3>1. CASE Holding(t)
      <4>1. lost' = lost \/ lost' = Counted(lost, Occurrence(t))
        BY <1>9 DEF Abort
      <4>2. Occurrence(t) \in Occurrences
        BY <3>1, OccurrenceFacts
      <4>3. DOMAIN Counted(lost, Occurrence(t)) \subseteq Occurrences
            /\ Counted(lost, Occurrence(t)) \in [DOMAIN Counted(lost, Occurrence(t)) -> Nat]
        BY <1>1, <4>2, CountedFacts
      <4> QED
        BY <1>1, <4>1, <4>3
    <3>2. CASE ~Holding(t)
      BY <1>1, <1>9, <3>2 DEF Abort, Holding
    <3> QED
      BY <3>1, <3>2
  <2> QED
    BY <1>1, <1>9, <2>1, <2>2, <2>3, TickStepTypes DEF Abort
<1>10. ASSUME NEW v \in Version, NEW n \in Name, Parse(v, n)
       PROVE  TypeInv'
  <2> DEFINE c == [at |-> "saving", name |-> n, next |-> NextOccurrence(clock)]
  <2>1. c \in CallType
    BY <1>1, NextIsLater DEF CallType
  <2>2. call' = [call EXCEPT ![v] = c] /\ c.name = n
    BY <1>10 DEF Parse
  <2> HIDE DEF c
  <2> QED
    BY <1>10, <2>1, <2>2 DEF Parse, TypeInv
<1>11. ASSUME NEW v \in Version, Register(v)
       PROVE  TypeInv'
  <2> DEFINE d == [version |-> v, nextRunAt |-> call[v].next]
  <2>1. call[v].next \in Nat /\ call[v].name \in Name /\ call[v] \in CallType
    BY <1>1, <1>11 DEF Register, TypeInv, CallType
  <2>2. d \in DefinitionType
    BY <2>1 DEF DefinitionType
  <2>3. cron' = Put(cron, call[v].name, d)
    BY <1>11 DEF Register
  <2>4. cron' \in Copies
    BY <1>1, <2>1, <2>2, <2>3, CopyPut
  <2>5. call' = [call EXCEPT ![v].at = "done"]
    BY <1>11 DEF Register
  <2>6. /\ call' \in [Version -> CallType]
        /\ \A w \in Version :
              call'[w].at = "saving" => call'[w].name = call[w].name /\ call[w].at = "saving"
    BY <1>1, <2>1, <2>5 DEF CallType
  <2> QED
    BY <1>11, <2>4, <2>6 DEF Register, TypeInv
<1>12. ASSUME NEW n \in Name, Remove(n)
       PROVE  TypeInv'
  <2>1. cron' \in Copies
    BY <1>1, <1>12, CopyDrop DEF Remove
  <2> QED
    BY <1>12, <2>1 DEF Remove, TypeInv
<1>13. CASE Pass
  <2>1. clock' = clock + 1 /\ clock' \in 0 .. MaxTime
    BY <1>1, <1>13, Bounds DEF Pass
  <2>2. \A t \in Slot : TickOK(tick[t], clock')
    <3> SUFFICES ASSUME NEW t \in Slot
                 PROVE  TickOK(tick[t], clock')
      OBVIOUS
    <3>1. tick[t].since \in Nat /\ TickOK(tick[t], clock)
      BY TickFacts
    <3> QED
      BY <1>1, <2>1, <3>1 DEF TickOK
  <2> QED
    BY <1>13, <2>1, <2>2 DEF Pass, TypeInv
<1>14. CASE UNCHANGED vars
  BY <1>14 DEF vars, TypeInv
<1> QED
  BY <1>2, <1>3, <1>4, <1>5, <1>6, <1>7, <1>8, <1>9, <1>10, <1>11, <1>12, <1>13, <1>14
     DEF CronNext, Step

\* Types hold in every behaviour of the schedulers, timely or not.
THEOREM CronTypes == CronSpec => []CronTypeOK
<1>1. TypeInv => CronTypeOK
  <2> SUFFICES ASSUME TypeInv
               PROVE  CronTypeOK
    OBVIOUS
  <2>1. ASSUME NEW f \in Copies
        PROVE  Definitions(f)
    BY CopyFacts DEF Definitions
  <2>2. ASSUME NEW t \in Slot
        PROVE  /\ tick[t].at \in {"idle", "reading", "locking", "adding", "added", "saving"}
               /\ tick[t].since \in 0 .. clock
               /\ Definitions(tick[t].defs) /\ tick[t].left \subseteq DOMAIN tick[t].defs
               /\ tick[t].name \in {NoName} \cup DOMAIN tick[t].defs /\ tick[t].next \in Nat
    BY <2>1, TickFacts DEF TickType, TickOK
  <2>3. \A v \in Version : call[v].at \in {"unused", "saving", "done"}
    BY DEF TypeInv, CallType
  <2> QED
    BY <2>1, <2>2, <2>3 DEF TypeInv, CronTypeOK
<1> QED
  BY <1>1, InitTypes, StepTypes, PTL DEF CronSpec

-----------------------------------------------------------------------------
(* Locks and time                                                          *)

\* The five things that can become of a tick.
Rests(k) == k.at \in {"idle", "reading"} /\ k.left = {} /\ k.defs = Nothing

Reads(k) ==
    /\ k.at = "locking" /\ k.since = clock /\ k.defs = cron
    /\ \A n \in k.left : n \in DOMAIN cron /\ cron[n].nextRunAt <= clock

GoesOn(t, k) ==
    /\ InLoop(t) /\ k.at = "locking"
    /\ k.since = tick[t].since /\ k.defs = tick[t].defs /\ k.left \subseteq tick[t].left

Locks(t, n, k) ==
    /\ Lock(t, n) /\ n \in tick[t].left
    /\ k.at = "adding" /\ k.name = n /\ k.left = tick[t].left \ {n}
    /\ k.since = tick[t].since /\ k.defs = tick[t].defs

Stays(t, k) ==
    /\ Holding(t)
    /\ \/ Fire(t) /\ k.at = "added"
       \/ Compute(t) /\ k.at = "saving" /\ k.next = NextOccurrence(clock)
    /\ k.since = tick[t].since /\ k.defs = tick[t].defs
    /\ k.left = tick[t].left /\ k.name = tick[t].name

\* Every step of a tick is of one of five kinds.
LEMMA TickSteps ==
    ASSUME TypeInv, NEW t \in Slot, Begin(t) \/ Step(t) \/ Abort(t)
    PROVE  /\ clock' = clock /\ call' = call
           /\ \E k : /\ Becomes(t, k)
                     /\ \/ Rests(k) /\ lock' = lock
                        \/ Reads(k) /\ Read(t) /\ lock' = lock
                        \/ GoesOn(t, k) /\ lock' = lock
                        \/ \E n \in Name : /\ Locks(t, n, k)
                                           /\ lock' = [lock EXCEPT ![n] = clock + LockTime]
                        \/ Stays(t, k) /\ lock' = lock
<1> USE DEF history
<1>1. CASE Begin(t)
  BY <1>1, BeginTick DEF Begin, Rests
<1>2. CASE Read(t)
  <2>1. PICK k : /\ Becomes(t, k)
                 /\ \/ k = Idle
                    \/ /\ k.at = "locking" /\ k.since = clock /\ k.defs = cron
                       /\ k.left = {n \in DOMAIN cron : cron[n].nextRunAt <= tick[t].since}
    BY <1>2, ReadTick
  <2>2. CASE k = Idle
    BY <1>2, <2>1, <2>2 DEF Read, Rests, Idle
  <2>3. CASE k # Idle
    <3>1. tick[t].since \in Nat /\ tick[t].since <= clock /\ clock \in Nat
      BY TickFacts
    <3>2. \A n \in k.left : n \in DOMAIN cron /\ cron[n].nextRunAt <= clock
      <4> SUFFICES ASSUME NEW n \in k.left
                   PROVE  n \in DOMAIN cron /\ cron[n].nextRunAt <= clock
        OBVIOUS
      <4>1. n \in DOMAIN cron /\ cron[n].nextRunAt <= tick[t].since /\ cron \in Copies
        BY <2>1, <2>3 DEF TypeInv
      <4>2. cron[n].nextRunAt \in Nat
        BY <4>1, CopyFacts
      <4> QED
        BY <3>1, <4>1, <4>2
    <3> QED
      BY <1>2, <2>1, <2>3, <3>2 DEF Read, Reads
  <2> QED
    BY <2>2, <2>3
<1>3. ASSUME NEW n \in Name, Lock(t, n)
      PROVE  /\ clock' = clock /\ call' = call /\ lock' = [lock EXCEPT ![n] = clock + LockTime]
             /\ \E k : Becomes(t, k) /\ Locks(t, n, k)
  <2>1. clock' = clock /\ call' = call /\ lock' = [lock EXCEPT ![n] = clock + LockTime]
    BY <1>3 DEF Lock
  <2>2. \E k : Becomes(t, k) /\ Locks(t, n, k)
    BY <1>3, LockTick DEF Locks
  <2> QED
    BY <2>1, <2>2
<1>4. ASSUME NEW left \in SUBSET tick[t].left, Continue(t, left), InLoop(t)
      PROVE  \E k : Becomes(t, k) /\ (Rests(k) \/ GoesOn(t, k))
  <2>1. PICK k : /\ Becomes(t, k)
                 /\ \/ k = Idle
                    \/ /\ k.at = "locking" /\ k.since = tick[t].since
                       /\ k.defs = tick[t].defs /\ k.left = left
    BY <1>4, ContinueTick
  <2>2. Rests(Idle)
    BY DEF Rests, Idle
  <2> QED
    BY <1>4, <2>1, <2>2 DEF GoesOn
<1>5. CASE \E n \in Name : Skip(t, n)
  <2>1. PICK n \in Name : Skip(t, n)
    BY <1>5
  <2>2. Continue(t, tick[t].left \ {n}) /\ InLoop(t) /\ UNCHANGED <<clock, call, lock>>
    BY <2>1 DEF Skip, InLoop
  <2>3. tick[t].left \ {n} \in SUBSET tick[t].left
    OBVIOUS
  <2> QED
    BY <1>4, <2>2, <2>3
<1>6. CASE Save(t)
  <2>1. Continue(t, tick[t].left) /\ InLoop(t) /\ UNCHANGED <<clock, call, lock>>
    BY <1>6 DEF Save, InLoop, Holding
  <2> QED
    BY <1>4, <2>1
<1>7. CASE Fire(t)
  BY <1>7, FireTick DEF Fire, Stays
<1>8. CASE Compute(t)
  BY <1>8, ComputeTick DEF Compute, Stays
<1>9. CASE Abort(t)
  <2>1. Becomes(t, Idle) /\ Rests(Idle)
    BY <1>9, AbortTick DEF Rests, Idle
  <2> QED
    BY <1>9, <2>1 DEF Abort
<1> QED
  BY <1>1, <1>2, <1>3, <1>5, <1>6, <1>7, <1>8, <1>9 DEF Step

TimelyTicks == Timely /\ 2 * MaxSpan <= LockTime

\* The clock waits for a tick whose span is over.
LEMMA StepInSpan ==
    ASSUME TimelyTicks, TypeInv, InSpan, [CronNext]_vars
    PROVE  InSpan'
<1> USE DEF InLoop, Holding
<1>1. ASSUME NEW t \in Slot, Begin(t) \/ Step(t) \/ Abort(t)
      PROVE  InSpan'
  <2>1. PICK k : /\ Becomes(t, k)
                 /\ \/ Rests(k) \/ Reads(k) \/ GoesOn(t, k) \/ Stays(t, k)
                    \/ \E n \in Name : Locks(t, n, k)
    BY <1>1, TickSteps
  <2>2. clock' = clock /\ clock \in Nat
    BY <1>1, TickSteps, TickFacts
  <2>3. /\ tick'[t] = k /\ \A u \in Slot \ {t} : tick'[u] = tick[u]
    BY <2>1, BecomesFacts
  <2>4. InLoop(t) => clock <= tick[t].since + MaxSpan
    BY DEF InSpan
  <2>5. k.at \in {"locking", "adding", "added", "saving"} => clock <= k.since + MaxSpan
    <3>1. CASE Rests(k)
      BY <3>1 DEF Rests
    <3>2. CASE Reads(k)
      BY <2>2, <3>2, Bounds DEF Reads
    <3>3. CASE GoesOn(t, k)
      BY <2>4, <3>3 DEF GoesOn
    <3>4. CASE Stays(t, k)
      BY <2>4, <3>4 DEF Stays
    <3>5. CASE \E n \in Name : Locks(t, n, k)
      BY <2>4, <3>5 DEF Locks, Lock
    <3> QED
      BY <2>1, <3>1, <3>2, <3>3, <3>4, <3>5
  <2> QED
    BY <2>2, <2>3, <2>5 DEF InSpan
<1>2. CASE Pass
  <2> SUFFICES ASSUME NEW t \in Slot, InLoop(t)'
               PROVE  clock' <= tick'[t].since + MaxSpan
    BY DEF InSpan
  <2>1. tick' = tick /\ clock' = clock + 1 /\ InTime(t)
    BY <1>2 DEF Pass, TimelyTicks
  <2>2. clock \in Nat /\ tick[t].since \in Nat
    BY TickFacts
  <2> QED
    BY <2>1, <2>2, Bounds DEF InTime
<1>3. CASE \/ \E v \in Version : Register(v) \/ \E n \in Name : Parse(v, n)
           \/ (\E n \in Name : Remove(n)) \/ UNCHANGED vars
  <2>1. tick' = tick /\ clock' = clock
    BY <1>3 DEF Register, Parse, Remove, vars, history
  <2> QED
    BY <2>1 DEF InSpan
<1> QED
  BY <1>1, <1>2, <1>3 DEF CronNext

\* Under a lock a tick is alone, because it is over before the lock is.
LEMMA LockedOut ==
    ASSUME TimelyTicks, TypeInv, InSpan, LockOutlives,
           NEW t \in Slot, NEW n \in Name, Holds(t, n)
    PROVE  Locked(n) /\ lock[n] >= clock + MaxSpan
<1>1. clock \in Nat /\ tick[t].since \in Nat /\ lock[n] \in Nat \cup {Expired}
  BY TickFacts DEF TypeInv
<1>2. clock <= tick[t].since + MaxSpan /\ lock[n] >= tick[t].since + LockTime
  BY DEF InSpan, LockOutlives, Holds, InLoop
<1> QED
  BY <1>1, <1>2, Bounds DEF TimelyTicks, Locked, Expired

\* A lock is taken when nobody holds it, and lives longer than a tick.
LEMMA StepLockOutlives ==
    ASSUME TimelyTicks, TypeInv, InSpan, LockOutlives, [CronNext]_vars
    PROVE  LockOutlives'
<1> USE DEF Holds, Holding
<1>1. ASSUME NEW t \in Slot, Begin(t) \/ Step(t) \/ Abort(t)
      PROVE  LockOutlives'
  <2>1. PICK k : /\ Becomes(t, k)
                 /\ \/ Rests(k) /\ lock' = lock
                    \/ Reads(k) /\ lock' = lock
                    \/ GoesOn(t, k) /\ lock' = lock
                    \/ \E n \in Name : Locks(t, n, k) /\ lock' = [lock EXCEPT ![n] = clock + LockTime]
                    \/ Stays(t, k) /\ lock' = lock
    BY <1>1, TickSteps
  <2>2. tick'[t] = k /\ \A u \in Slot \ {t} : tick'[u] = tick[u]
    BY <2>1, BecomesFacts
  <2>3. CASE (Rests(k) \/ Reads(k) \/ GoesOn(t, k)) /\ lock' = lock
    BY <2>2, <2>3 DEF LockOutlives, Rests, Reads, GoesOn
  <2>4. CASE Stays(t, k) /\ lock' = lock
    BY <2>2, <2>4 DEF LockOutlives, Stays
  <2>5. ASSUME NEW n \in Name, Locks(t, n, k), lock' = [lock EXCEPT ![n] = clock + LockTime]
        PROVE  LockOutlives'
    <3>1. \A u \in Slot : ~Holds(u, n)
      BY <2>5, LockedOut DEF Locks, Lock
    <3>2. tick[t].since <= clock /\ tick[t].since \in Nat /\ clock \in Nat
      BY TickFacts
    <3>3. lock'[n] = clock + LockTime /\ \A m \in Name \ {n} : lock'[m] = lock[m]
      BY <2>5 DEF TypeInv
    <3>4. k.at = "adding" /\ k.name = n /\ k.since = tick[t].since
      BY <2>5 DEF Locks
    <3> SUFFICES ASSUME NEW u \in Slot, NEW m \in Name, Holds(u, m)'
                 PROVE  /\ lock'[m] >= tick'[u].since + LockTime
                        /\ \A w \in Slot : Holds(w, m)' => w = u
      BY DEF LockOutlives
    <3>5. CASE m = n
      <4>1. \A w \in Slot : Holds(w, m)' => w = t
        BY <2>2, <3>1, <3>5
      <4> QED
        BY <2>2, <3>2, <3>3, <3>4, <3>5, <4>1, Bounds
    <3>6. CASE m # n
      <4>1. \A w \in Slot : Holds(w, m)' => w # t /\ Holds(w, m)
        BY <2>2, <3>4, <3>6
      <4>2. tick'[u] = tick[u] /\ Holds(u, m)
        BY <2>2, <4>1
      <4> QED
        BY <3>3, <3>6, <4>1, <4>2 DEF LockOutlives
    <3> QED
      BY <3>5, <3>6
  <2> QED
    BY <2>1, <2>3, <2>4, <2>5
<1>2. CASE \/ \E v \in Version : Register(v) \/ \E n \in Name : Parse(v, n)
           \/ (\E n \in Name : Remove(n)) \/ Pass \/ UNCHANGED vars
  <2>1. tick' = tick /\ lock' = lock
    BY <1>2 DEF Register, Parse, Remove, Pass, vars, history
  <2> QED
    BY <2>1 DEF LockOutlives
<1> QED
  BY <1>1, <1>2 DEF CronNext

-----------------------------------------------------------------------------
(* Occurrences                                                             *)

\* Which step changes which history: fired grows in Fire, lost in Abort, and
\* only Read takes a copy of the hash.
LEMMA HistorySteps ==
    ASSUME NEW t \in Slot, Begin(t) \/ Step(t) \/ Abort(t)
    PROVE  /\ fired' = fired \/ (Fire(t) /\ fired' = Counted(fired, Occurrence(t)))
           /\ \/ lost' = lost
              \/ /\ Abort(t) /\ tick[t].at \in {"added", "saving"} /\ fired' = fired
                 /\ lost' = Counted(lost, Occurrence(t))
           /\ \/ cron' = cron
              \/ /\ Save(t) /\ tick[t].at = "saving" /\ fired' = fired /\ lost' = lost
                 /\ cron' = Put(cron, tick[t].name, [Definition(t) EXCEPT !.nextRunAt = tick[t].next])
<1> USE DEF history
<1>1. CASE Begin(t)
  BY <1>1 DEF Begin
<1>2. CASE Read(t)
  BY <1>2 DEF Read
<1>3. CASE \E n \in Name : Lock(t, n) \/ Skip(t, n)
  BY <1>3 DEF Lock, Skip
<1>4. CASE Fire(t)
  BY <1>4 DEF Fire
<1>5. CASE Compute(t)
  BY <1>5 DEF Compute
<1>6. CASE Save(t)
  BY <1>6 DEF Save
<1>7. CASE Abort(t)
  BY <1>7 DEF Abort
<1> QED
  BY <1>1, <1>2, <1>3, <1>4, <1>5, <1>6, <1>7 DEF Step

\* The steps of other processes.
Outside ==
    \/ \E v \in Version : Register(v) \/ \E n \in Name : Parse(v, n)
    \/ (\E n \in Name : Remove(n)) \/ Pass \/ UNCHANGED vars

\* Registrations, removals and the clock leave ticks and locks alone.
LEMMA OutsideSteps ==
    ASSUME TypeInv, Outside
    PROVE  /\ tick' = tick /\ lock' = lock /\ fired' = fired /\ lost' = lost
           /\ clock \in Nat /\ clock' \in {clock, clock + 1}
<1>1. clock \in Nat
  BY Bounds DEF TypeInv
<1> QED
  BY <1>1 DEF Outside, Register, Parse, Remove, Pass, vars, history

\* Every step is a tick's, or one from outside.
LEMMA TwoKinds ==
    ASSUME [CronNext]_vars
    PROVE  Outside \/ \E t \in Slot : Begin(t) \/ Step(t) \/ Abort(t)
BY DEF CronNext, Outside

\* What a tick visits stays due.
LEMMA StepVisitsDue ==
    ASSUME TypeInv, VisitsDue, [CronNext]_vars
    PROVE  VisitsDue'
<1> USE DEF Holding, IsDue
<1>1. ASSUME NEW t \in Slot, Begin(t) \/ Step(t) \/ Abort(t)
      PROVE  VisitsDue'
  <2>1. PICK k : /\ Becomes(t, k)
                 /\ \/ Rests(k) \/ Reads(k) \/ GoesOn(t, k) \/ Stays(t, k)
                    \/ \E n \in Name : Locks(t, n, k)
    BY <1>1, TickSteps
  <2>2. tick'[t] = k /\ \A u \in Slot \ {t} : tick'[u] = tick[u]
    BY <2>1, BecomesFacts
  <2>3. /\ \A n \in tick[t].left : tick[t].defs[n].nextRunAt <= tick[t].since
        /\ tick[t].at \in {"adding", "added", "saving"} =>
               tick[t].defs[tick[t].name].nextRunAt <= tick[t].since
    BY DEF VisitsDue
  <2>4. /\ \A n \in k.left : k.defs[n].nextRunAt <= k.since
        /\ k.at \in {"adding", "added", "saving"} => k.defs[k.name].nextRunAt <= k.since
    <3>1. CASE Rests(k) \/ Reads(k)
      BY <3>1 DEF Rests, Reads
    <3>2. CASE GoesOn(t, k)
      BY <2>3, <3>2 DEF GoesOn
    <3>3. CASE Stays(t, k)
      BY <2>3, <3>3 DEF Stays
    <3>4. CASE \E n \in Name : Locks(t, n, k)
      BY <2>3, <3>4 DEF Locks
    <3> QED
      BY <2>1, <3>1, <3>2, <3>3, <3>4
  <2> QED
    BY <2>2, <2>4 DEF VisitsDue
<1>2. CASE Outside
  BY <1>2, OutsideSteps DEF VisitsDue
<1> QED
  BY <1>1, <1>2, TwoKinds

\* What is fired was due.
LEMMA FiresThePast ==
    ASSUME TypeInv, VisitsDue, NEW t \in Slot, Fire(t)
    PROVE  Holding(t) /\ Occurrence(t)[3] <= clock
<1>1. Holding(t) /\ tick[t].defs[tick[t].name].nextRunAt <= tick[t].since
  BY DEF Fire, Holding, VisitsDue, IsDue
<1>2. Occurrence(t) \in Occurrences /\ Occurrence(t)[3] = tick[t].defs[tick[t].name].nextRunAt
  BY <1>1, OccurrenceFacts
<1>3. tick[t].since \in Nat /\ tick[t].since <= clock /\ clock \in Nat /\ Occurrence(t)[3] \in Nat
  BY <1>2, TickFacts DEF Occurrences
<1> QED
  BY <1>1, <1>2, <1>3

\* What is fired stays in the past.
LEMMA StepFiredIsPast ==
    ASSUME TypeInv, VisitsDue, FiredIsPast, [CronNext]_vars
    PROVE  FiredIsPast'
<1>1. clock \in Nat /\ \A o \in DOMAIN fired : o \in Occurrences /\ o[3] \in Nat
  BY Bounds DEF TypeInv, Occurrences
<1>2. ASSUME NEW t \in Slot, Begin(t) \/ Step(t) \/ Abort(t)
      PROVE  FiredIsPast'
  <2>1. clock' = clock
    BY <1>2, TickSteps
  <2>2. CASE fired' = fired
    BY <2>1, <2>2 DEF FiredIsPast
  <2>3. CASE Fire(t) /\ fired' = Counted(fired, Occurrence(t))
    <3>1. DOMAIN fired' = DOMAIN fired \cup {Occurrence(t)}
      BY <2>3 DEF Counted, Put
    <3> QED
      BY <2>1, <2>3, <3>1, FiresThePast DEF FiredIsPast
  <2> QED
    BY <1>2, <2>2, <2>3, HistorySteps
<1>3. CASE Outside
  <2>1. fired' = fired /\ clock' \in {clock, clock + 1}
    BY <1>3, OutsideSteps
  <2> QED
    BY <1>1, <2>1 DEF FiredIsPast
<1> QED
  BY <1>2, <1>3, TwoKinds

\* Nobody else fires the name while a tick holds its lock, so the time it
\* saves stays the latest.
LEMMA StepSavesLater ==
    ASSUME TypeInv, LockOutlives, FiredIsPast, SavesLater, [CronNext]_vars
    PROVE  SavesLater'
<1>1. clock \in Nat /\ \A o \in DOMAIN fired : o[3] \in Nat /\ o[3] <= clock
  BY Bounds DEF TypeInv, Occurrences, FiredIsPast
<1>2. ASSUME NEW t \in Slot, Begin(t) \/ Step(t) \/ Abort(t)
      PROVE  SavesLater'
  <2>1. PICK k : /\ Becomes(t, k)
                 /\ \/ Rests(k) \/ Reads(k) \/ GoesOn(t, k) \/ Stays(t, k)
                    \/ \E n \in Name : Locks(t, n, k)
    BY <1>2, TickSteps
  <2>2. tick'[t] = k /\ \A u \in Slot \ {t} : tick'[u] = tick[u]
    BY <2>1, BecomesFacts
  <2>3. CASE Fire(t)
    <3>1. DOMAIN fired' = DOMAIN fired \cup {Occurrence(t)}
      BY <2>3 DEF Fire, Counted, Put
    <3>2. tick'[t].at = "added"
      BY <2>3, BecomesFacts, FireTick
    <3>3. /\ Holding(t) /\ Occurrence(t)[1] = tick[t].name
          /\ tick[t].name \in Name /\ tick[t].at = "adding"
      BY <2>3, OccurrenceFacts DEF Fire, Holding
    <3>4. \A u \in Slot \ {t} : ~(tick[u].at = "saving" /\ tick[u].name = tick[t].name)
      BY <3>3 DEF LockOutlives, Holds, Holding
    <3> QED
      BY <2>2, <3>1, <3>2, <3>3, <3>4 DEF SavesLater
  <2>4. CASE Compute(t)
    <3>1. fired' = fired
      BY <2>4 DEF Compute, history
    <3>2. PICK c : Becomes(t, c) /\ c.next = NextOccurrence(clock)
      BY <2>4, ComputeTick
    <3>3. tick'[t].next = NextOccurrence(clock)
      BY <3>2, BecomesFacts
    <3>4. \A o \in DOMAIN fired : o[3] < NextOccurrence(clock)
      BY <1>1, NextIsLater
    <3> QED
      BY <2>2, <3>1, <3>3, <3>4 DEF SavesLater
  <2>5. CASE ~Fire(t) /\ ~Compute(t)
    <3>1. fired' = fired
      BY <1>2, <2>5, HistorySteps
    <3>2. k.at # "saving"
      BY <2>1, <2>5 DEF Rests, Reads, GoesOn, Stays, Locks
    <3> QED
      BY <2>2, <3>1, <3>2 DEF SavesLater
  <2> QED
    BY <2>3, <2>4, <2>5
<1>3. CASE Outside
  BY <1>3, OutsideSteps DEF SavesLater
<1> QED
  BY <1>2, <1>3, TwoKinds

\* What hset changes of the hash.
LEMMA HashWrite ==
    ASSUME TypeInv, NEW n \in Name, NEW d \in DefinitionType, cron' = Put(cron, n, d)
    PROVE  /\ DOMAIN cron' = DOMAIN cron \cup {n}
           /\ \A m \in DOMAIN cron' : cron'[m] = IF m = n THEN d ELSE cron[m]
<1>1. cron \in Copies
  BY DEF TypeInv
<1>2. /\ DOMAIN Put(cron, n, d) = DOMAIN cron \cup {n}
      /\ \A m \in DOMAIN cron \cup {n} : Put(cron, n, d)[m] = IF m = n THEN d ELSE cron[m]
  BY <1>1, CopyPut
<1> QED
  BY <1>2

\* Only the registration itself brings its version into the hash.
LEMMA StepNewIsFresh ==
    ASSUME TypeInv, NewIsFresh, [CronNext]_vars
    PROVE  NewIsFresh'
<1> SUFFICES ASSUME NEW v \in Version, call'[v].at # "done"
             PROVE  Fresh(v)'
  BY DEF NewIsFresh
<1>1. ASSUME NEW t \in Slot, Begin(t) \/ Step(t) \/ Abort(t)
      PROVE  Fresh(v)'
  <2>1. PICK k : /\ Becomes(t, k)
                 /\ \/ Rests(k) \/ Reads(k) \/ GoesOn(t, k) \/ Stays(t, k)
                    \/ \E n \in Name : Locks(t, n, k)
    BY <1>1, TickSteps
  <2>2. tick'[t] = k /\ \A u \in Slot \ {t} : tick'[u] = tick[u]
    BY <2>1, BecomesFacts
  <2>3. Fresh(v)
    BY <1>1, TickSteps DEF NewIsFresh
  <2>4. \A u \in Slot : \A n \in DOMAIN tick'[u].defs : tick'[u].defs[n].version # v
    <3>1. k.defs = Nothing \/ k.defs = cron \/ k.defs = tick[t].defs
      BY <2>1 DEF Rests, Reads, GoesOn, Stays, Locks
    <3>2. \A n \in DOMAIN k.defs : k.defs[n].version # v
      BY <2>3, <3>1, EmptyCopy DEF Fresh
    <3> QED
      BY <2>2, <2>3, <3>2 DEF Fresh
  <2>5. Holding(t) => /\ Definition(t).version # v /\ Occurrence(t)[2] # v
                      /\ tick[t].name \in Name /\ Definition(t) \in DefinitionType
    BY <2>3, TickFacts, OccurrenceFacts DEF Fresh
  <2>6. \A o \in DOMAIN fired' : o[2] # v
    <3>1. CASE fired' = fired
      BY <2>3, <3>1 DEF Fresh
    <3>2. CASE Fire(t)
      <4>1. Holding(t) /\ DOMAIN fired' = DOMAIN fired \cup {Occurrence(t)}
        BY <3>2 DEF Fire, Holding, Counted, Put
      <4> QED
        BY <2>3, <2>5, <4>1 DEF Fresh
    <3> QED
      BY <1>1, <3>1, <3>2, HistorySteps
  <2>7. \A n \in DOMAIN cron' : cron'[n].version # v
    <3>1. CASE cron' = cron
      BY <2>3, <3>1 DEF Fresh
    <3>2. CASE Save(t)
      <4> DEFINE d == [Definition(t) EXCEPT !.nextRunAt = tick[t].next]
      <4>1. Holding(t) /\ cron' = Put(cron, tick[t].name, d)
        BY <3>2 DEF Save, Holding
      <4>2. d \in DefinitionType /\ d.version = Definition(t).version
        BY <2>5, <4>1, TickFacts DEF DefinitionType
      <4> HIDE DEF d
      <4>3. /\ DOMAIN cron' = DOMAIN cron \cup {tick[t].name}
            /\ \A n \in DOMAIN cron' : cron'[n] = IF n = tick[t].name THEN d ELSE cron[n]
        BY <2>5, <4>1, <4>2, HashWrite
      <4> QED
        BY <2>3, <2>5, <4>1, <4>2, <4>3 DEF Fresh
    <3> QED
      BY <1>1, <3>1, <3>2, HistorySteps
  <2> QED
    BY <2>4, <2>6, <2>7 DEF Fresh
<1>2. ASSUME NEW w \in Version, Register(w)
      PROVE  Fresh(v)'
  <2>1. call[w].name \in Name /\ call[w].next \in Nat /\ call[w] \in CallType
    BY <1>2 DEF Register, TypeInv, CallType
  <2>2. v # w /\ call'[v] = call[v]
    BY <1>2, <2>1 DEF Register, TypeInv, CallType
  <2> DEFINE d == [version |-> w, nextRunAt |-> call[w].next]
  <2>3. d \in DefinitionType /\ d.version = w
    BY <2>1 DEF DefinitionType
  <2>4. cron' = Put(cron, call[w].name, d)
    BY <1>2 DEF Register
  <2> HIDE DEF d
  <2>5. /\ DOMAIN cron' = DOMAIN cron \cup {call[w].name}
        /\ \A n \in DOMAIN cron' : cron'[n] = IF n = call[w].name THEN d ELSE cron[n]
    BY <2>1, <2>3, <2>4, HashWrite
  <2>6. Fresh(v)
    BY <2>2 DEF NewIsFresh
  <2>7. tick' = tick /\ fired' = fired
    BY <1>2 DEF Register, history
  <2> QED
    BY <2>2, <2>3, <2>5, <2>6, <2>7 DEF Fresh
<1>3. ASSUME NEW n \in Name, Remove(n)
      PROVE  Fresh(v)'
  <2>1. Fresh(v) /\ tick' = tick /\ fired' = fired
    BY <1>3 DEF Remove, history, NewIsFresh
  <2>2. /\ DOMAIN cron' = DOMAIN cron \ {n} /\ \A m \in DOMAIN cron \ {n} : cron'[m] = cron[m]
    BY <1>3, CopyDrop DEF Remove, TypeInv
  <2> QED
    BY <2>1, <2>2 DEF Fresh
<1>4. ASSUME NEW w \in Version, NEW n \in Name, Parse(w, n)
      PROVE  Fresh(v)'
  <2>1. call[w].at = "unused" /\ (v # w => call'[v] = call[v])
    BY <1>4 DEF Parse, Unused, TypeInv
  <2>2. Fresh(v)
    BY <2>1 DEF NewIsFresh
  <2> QED
    BY <1>4, <2>2 DEF Parse, history, Fresh
<1>5. CASE Pass \/ UNCHANGED vars
  <2>1. Fresh(v) /\ UNCHANGED <<cron, tick, fired>>
    BY <1>5 DEF Pass, vars, history, NewIsFresh
  <2> QED
    BY <2>1 DEF Fresh
<1> QED
  BY <1>1, <1>2, <1>3, <1>4, <1>5, TwoKinds DEF Outside

\* ClockInv holds at first,
LEMMA InitClockInv == CronInit => ClockInv
<1> SUFFICES ASSUME CronInit
             PROVE  ClockInv
  OBVIOUS
<1>1. DOMAIN cron = {} /\ DOMAIN fired = {}
  BY DEF CronInit, Nothing
<1>2. \A t \in Slot : tick[t] = Idle
  BY DEF CronInit
<1>3. Idle.at = "idle" /\ Idle.left = {} /\ DOMAIN Idle.defs = {}
  BY EmptyCopy DEF Idle
<1> QED
  BY <1>1, <1>2, <1>3 DEF ClockInv, InSpan, InLoop, Holding, Holds, LockOutlives, VisitsDue,
                          FiredIsPast, SavesLater, NewIsFresh, Fresh

\* and every step keeps it.
LEMMA StepClockInv ==
    ASSUME TimelyTicks, TypeInv, ClockInv, [CronNext]_vars
    PROVE  ClockInv'
<1>1. InSpan /\ LockOutlives /\ VisitsDue /\ FiredIsPast /\ SavesLater /\ NewIsFresh
  BY DEF ClockInv
<1>2. InSpan'
  BY <1>1, StepInSpan
<1>3. LockOutlives'
  BY <1>1, StepLockOutlives
<1>4. VisitsDue'
  BY <1>1, StepVisitsDue
<1>5. FiredIsPast'
  BY <1>1, StepFiredIsPast
<1>6. SavesLater'
  BY <1>1, StepSavesLater
<1>7. NewIsFresh'
  BY <1>1, StepNewIsFresh
<1> QED
  BY <1>2, <1>3, <1>4, <1>5, <1>6, <1>7 DEF ClockInv

-----------------------------------------------------------------------------
(* Fired once                                                              *)

\* A definition that is saved or registered never brings back an occurrence
\* that was fired: a tick saves a later time, a new registration is new.
LEMMA HashStaysRid ==
    ASSUME TypeInv, ClockInv, [CronNext]_vars, NEW o \in DOMAIN fired, ~Has(cron, o)
    PROVE  ~Has(cron', o)
<1> USE DEF ClockInv
<1>1. o \in Occurrences
  BY DEF TypeInv
<1>2. ASSUME NEW t \in Slot, Begin(t) \/ Step(t) \/ Abort(t)
      PROVE  ~Has(cron', o)
  <2>1. CASE cron' = cron
    BY <2>1
  <2>2. CASE Save(t)
    <3> DEFINE d == [Definition(t) EXCEPT !.nextRunAt = tick[t].next]
    <3>1. Holding(t) /\ tick[t].at = "saving" /\ cron' = Put(cron, tick[t].name, d)
      BY <2>2 DEF Save, Holding
    <3>2. /\ Definition(t) \in DefinitionType /\ tick[t].name \in Name /\ tick[t].next \in Nat
      BY <3>1, OccurrenceFacts, TickFacts
    <3>3. d \in DefinitionType /\ d.nextRunAt = tick[t].next
      BY <3>2 DEF DefinitionType
    <3> HIDE DEF d
    <3>4. /\ DOMAIN cron' = DOMAIN cron \cup {tick[t].name}
          /\ \A m \in DOMAIN cron' : cron'[m] = IF m = tick[t].name THEN d ELSE cron[m]
      BY <3>1, <3>2, <3>3, HashWrite
    <3>5. o[1] = tick[t].name => o[3] < tick[t].next
      BY <3>1 DEF SavesLater
    <3>6. o[3] \in Nat
      BY <1>1 DEF Occurrences
    <3> QED
      BY <3>2, <3>3, <3>4, <3>5, <3>6 DEF Has
  <2> QED
    BY <1>2, <2>1, <2>2, HistorySteps
<1>3. ASSUME NEW w \in Version, Register(w)
      PROVE  ~Has(cron', o)
  <2>1. call[w].name \in Name /\ call[w].next \in Nat
    BY <1>3 DEF Register, TypeInv, CallType
  <2> DEFINE d == [version |-> w, nextRunAt |-> call[w].next]
  <2>2. d \in DefinitionType /\ d.version = w
    BY <2>1 DEF DefinitionType
  <2>3. cron' = Put(cron, call[w].name, d)
    BY <1>3 DEF Register
  <2> HIDE DEF d
  <2>4. /\ DOMAIN cron' = DOMAIN cron \cup {call[w].name}
        /\ \A m \in DOMAIN cron' : cron'[m] = IF m = call[w].name THEN d ELSE cron[m]
    BY <2>1, <2>2, <2>3, HashWrite
  <2>5. o[2] # w
    BY <1>3 DEF Register, NewIsFresh, Fresh
  <2> QED
    BY <2>2, <2>4, <2>5 DEF Has
<1>4. ASSUME NEW n \in Name, Remove(n)
      PROVE  ~Has(cron', o)
  <2>1. /\ DOMAIN cron' = DOMAIN cron \ {n} /\ \A m \in DOMAIN cron \ {n} : cron'[m] = cron[m]
    BY <1>4, CopyDrop DEF Remove, TypeInv
  <2> QED
    BY <2>1 DEF Has
<1>5. CASE (\E w \in Version, n \in Name : Parse(w, n)) \/ Pass \/ UNCHANGED vars
  BY <1>5 DEF Parse, Pass, vars
<1> QED
  BY <1>2, <1>3, <1>4, <1>5, TwoKinds DEF Outside

\* An occurrence that is over stays over.
LEMMA OverIsStable ==
    ASSUME TimelyTicks, TypeInv, ClockInv, [CronNext]_vars, NEW o \in DOMAIN fired, Over(o)
    PROVE  Over(o)'
<1> USE DEF ClockInv
<1>1. ~Has(cron', o)
  BY HashStaysRid DEF Over
<1>2. o \in Occurrences /\ o[1] \in Name
  BY DEF TypeInv, Occurrences
<1>3. ASSUME NEW t \in Slot, Begin(t) \/ Step(t) \/ Abort(t)
      PROVE  \A u \in Slot : Barred(u, o)'
  <2>1. PICK k : /\ Becomes(t, k)
                 /\ \/ Rests(k) /\ lock' = lock
                    \/ Reads(k) /\ lock' = lock
                    \/ GoesOn(t, k) /\ lock' = lock
                    \/ \E n \in Name : Locks(t, n, k) /\ lock' = [lock EXCEPT ![n] = clock + LockTime]
                    \/ Stays(t, k) /\ lock' = lock
    BY <1>3, TickSteps
  <2>2. tick'[t] = k /\ \A u \in Slot \ {t} : tick'[u] = tick[u]
    BY <2>1, BecomesFacts
  <2>3. Barred(t, o) /\ ~Has(cron, o)
    BY DEF Over
  <2>4. CASE Rests(k) /\ lock' = lock
    <3>1. ~Has(k.defs, o)
      BY <2>4, EmptyCopy DEF Rests, Has
    <3> QED
      BY <2>2, <2>4, <3>1 DEF Over, Barred
  <2>5. CASE Reads(k) /\ lock' = lock
    <3>1. ~Has(k.defs, o)
      BY <2>3, <2>5 DEF Reads
    <3> QED
      BY <2>2, <2>5, <3>1 DEF Over, Barred
  <2>6. CASE GoesOn(t, k) /\ lock' = lock
    <3>1. /\ k.at = "locking" /\ k.defs = tick[t].defs /\ k.since = tick[t].since
          /\ k.left \subseteq tick[t].left
      BY <2>6 DEF GoesOn
    <3> QED
      BY <2>2, <2>6, <3>1 DEF Over, Barred
  <2>7. CASE Stays(t, k) /\ lock' = lock
    <3>1. /\ k.at # "adding" /\ k.defs = tick[t].defs /\ k.since = tick[t].since
          /\ k.left = tick[t].left
      BY <2>7 DEF Stays
    <3> QED
      BY <2>2, <2>7, <3>1 DEF Over, Barred
  <2>8. ASSUME NEW n \in Name, Locks(t, n, k), lock' = [lock EXCEPT ![n] = clock + LockTime]
        PROVE  \A u \in Slot : Barred(u, o)'
    <3>1. /\ n \in tick[t].left /\ ~Locked(n) /\ InLoop(t)
          /\ k.name = n /\ k.left = tick[t].left \ {n}
          /\ k.since = tick[t].since /\ k.defs = tick[t].defs
      BY <2>8 DEF Locks, Lock, InLoop
    <3>2. clock \in Nat /\ tick[t].since \in Nat /\ lock[n] \in Nat \cup {Expired}
      BY TickFacts DEF TypeInv
    <3>3. clock <= tick[t].since + MaxSpan
      BY <3>1 DEF InSpan
    <3>4. ~(lock[n] >= tick[t].since + MaxSpan)
      BY <3>1, <3>2, <3>3, Bounds DEF Locked, Expired
    <3>5. Has(tick[t].defs, o) => o[1] # n
      BY <2>3, <3>1, <3>4 DEF Barred
    <3>6. lock'[n] >= lock[n] /\ \A m \in Name \ {n} : lock'[m] = lock[m]
      BY <2>8, <3>1, <3>2, Bounds DEF Locked, TypeInv, Expired
    <3>7. Barred(t, o)'
      BY <1>2, <2>2, <2>3, <3>1, <3>5, <3>6 DEF Barred
    <3>8. ASSUME NEW u \in Slot \ {t}
          PROVE  Barred(u, o)'
      <4>1. Barred(u, o) /\ tick'[u] = tick[u] /\ tick[u].since \in Nat
        BY <2>2, TickFacts DEF Over
      <4>2. lock[o[1]] >= tick[u].since + MaxSpan => lock'[o[1]] >= tick[u].since + MaxSpan
        <5>1. CASE o[1] = n
          <6>1. lock'[n] = clock + LockTime
            BY <2>8 DEF TypeInv
          <6> QED
            BY <3>2, <3>6, <4>1, <5>1, <6>1, Bounds DEF Expired
        <5>2. CASE o[1] # n
          BY <1>2, <3>6, <5>2
        <5> QED
          BY <5>1, <5>2
      <4> QED
        BY <4>1, <4>2 DEF Barred
    <3> QED
      BY <3>7, <3>8
  <2> QED
    BY <2>1, <2>4, <2>5, <2>6, <2>7, <2>8
<1>4. ASSUME Outside
      PROVE  \A u \in Slot : Barred(u, o)'
  <2>1. tick' = tick /\ lock' = lock
    BY <1>4, OutsideSteps
  <2>2. \A u \in Slot : Barred(u, o)
    BY DEF Over
  <2> QED
    BY <2>1, <2>2 DEF Barred, Has
<1> QED
  BY <1>1, <1>3, <1>4, TwoKinds DEF Over, Has

\* A tick that saves what it fired makes the occurrence one that is over: other
\* copies of the old definition are no older than the lock allows.
LEMMA SaveEnds ==
    ASSUME TimelyTicks, TypeInv, ClockInv, NEW t \in Slot, Save(t),
           NEW o \in DOMAIN fired, Firing(t, o)
    PROVE  Over(o)'
<1> USE DEF ClockInv
<1>1. /\ o \in Occurrences /\ o[1] \in Name /\ o[3] \in Nat
      /\ o[1] = tick[t].name /\ Has(tick[t].defs, o) /\ tick[t].at = "saving" /\ Holding(t)
  BY DEF TypeInv, Occurrences, Firing, Save, Holding
<1>2. ~Has(cron', o)
  <2> DEFINE d == [Definition(t) EXCEPT !.nextRunAt = tick[t].next]
  <2>1. cron' = Put(cron, tick[t].name, d)
    BY DEF Save
  <2>2. Definition(t) \in DefinitionType /\ tick[t].next \in Nat
    BY <1>1, OccurrenceFacts, TickFacts
  <2>3. d \in DefinitionType /\ d.nextRunAt = tick[t].next
    BY <2>2 DEF DefinitionType
  <2> HIDE DEF d
  <2>4. \A m \in DOMAIN cron' : cron'[m] = IF m = tick[t].name THEN d ELSE cron[m]
    BY <1>1, <2>1, <2>3, HashWrite
  <2>5. o[3] < tick[t].next
    BY <1>1 DEF SavesLater
  <2> QED
    BY <1>1, <2>2, <2>3, <2>4, <2>5 DEF Has
<1>3. Holds(t, o[1])
  BY <1>1 DEF Holds
<1>4. /\ lock[o[1]] >= clock + MaxSpan /\ lock' = lock
      /\ lock[o[1]] \in Nat \cup {Expired} /\ clock \in Nat
  BY <1>1, <1>3, LockedOut, TickFacts DEF Save, TypeInv
<1>5. Continue(t, tick[t].left)
  BY DEF Save
<1>6. PICK k : /\ Becomes(t, k)
               /\ \/ k = Idle
                  \/ /\ k.at = "locking" /\ k.since = tick[t].since
                     /\ k.defs = tick[t].defs /\ k.left = tick[t].left
  BY <1>5, ContinueTick
<1>7. tick'[t] = k /\ (\A u \in Slot \ {t} : tick'[u] = tick[u]) /\ k \in TickType
      /\ TickOK(k, clock)
  BY <1>6, BecomesFacts DEF Becomes
<1>8. ASSUME NEW u \in Slot
      PROVE  Barred(u, o)'
  <2>1. ~(tick'[u].at = "adding" /\ tick'[u].name = o[1])
    <3>1. CASE u = t
      BY <1>6, <1>7, <3>1 DEF Idle
    <3>2. CASE u # t
      BY <1>1, <1>3, <1>7, <3>2 DEF LockOutlives, Holds, Holding
    <3> QED
      BY <3>1, <3>2
  <2>2. tick'[u].since \in Nat /\ tick'[u].since <= clock
    <3>1. CASE u = t
      BY <1>7, <3>1 DEF TickType, TickOK
    <3>2. CASE u # t
      BY <1>7, <3>2, TickFacts
    <3> QED
      BY <3>1, <3>2
  <2>3. lock'[o[1]] >= tick'[u].since + MaxSpan
    BY <1>4, <2>2, Bounds DEF Expired
  <2> QED
    BY <2>1, <2>3 DEF Barred
<1> QED
  BY <1>2, <1>8 DEF Over

\* A tick between its add and its hset goes on to its hset, or dies.
LEMMA FiringGoesOn ==
    ASSUME TimelyTicks, TypeInv, ClockInv, NEW t \in Slot, Begin(t) \/ Step(t) \/ Abort(t),
           NEW u \in Slot, NEW o \in DOMAIN fired, Firing(u, o)
    PROVE  Firing(u, o)' \/ Over(o)' \/ (u = t /\ Abort(t))
<1>1. PICK k : Becomes(t, k)
  BY TickSteps
<1>2. tick'[t] = k /\ \A w \in Slot \ {t} : tick'[w] = tick[w]
  BY <1>1, BecomesFacts
<1>3. CASE u # t
  BY <1>2, <1>3 DEF Firing
<1>4. CASE u = t
  <2>1. tick[t].at \in {"added", "saving"}
    BY <1>4 DEF Firing
  <2>2. Compute(t) \/ Save(t) \/ Abort(t)
    <3>1. tick[t].at \notin {"idle", "reading", "locking", "adding"} /\ Idle.at = "idle"
      BY <2>1 DEF Idle
    <3>2. ~Begin(t) /\ ~Read(t) /\ ~Fire(t)
      BY <3>1 DEF Begin, Read, Fire
    <3>3. \A n \in Name : ~Lock(t, n) /\ ~Skip(t, n)
      BY <3>1 DEF Lock, Skip
    <3> QED
      BY <3>2, <3>3 DEF Step
  <2>3. CASE Compute(t)
    <3>1. PICK c : Becomes(t, c) /\ c.at = "saving" /\ c.name = tick[t].name /\ c.defs = tick[t].defs
      BY <2>3, ComputeTick
    <3>2. tick'[t] = c
      BY <3>1, BecomesFacts
    <3> QED
      BY <1>4, <3>1, <3>2 DEF Firing
  <2>4. CASE Save(t)
    BY <1>4, <2>4, SaveEnds
  <2> QED
    BY <1>4, <2>2, <2>3, <2>4
<1> QED
  BY <1>3, <1>4

\* An occurrence is what a tick fires exactly when the tick has its definition.
LEMMA OneOccurrence ==
    ASSUME TypeInv, NEW t \in Slot, Holding(t), NEW o \in Occurrences,
           tick[t].name = o[1], Has(tick[t].defs, o)
    PROVE  o = Occurrence(t)
<1>1. o = <<o[1], o[2], o[3]>>
  BY DEF Occurrences
<1> QED
  BY <1>1 DEF Has, Occurrence, Definition

\* No step fires an occurrence that is over, or makes it possible again, and
\* the tick that fired one ends it by saving, or is counted as lost.
LEMMA StepOnceInv ==
    ASSUME TimelyTicks, TypeInv, ClockInv, OnceInv, [CronNext]_vars
    PROVE  OnceInv'
<1>1. /\ DOMAIN fired \subseteq Occurrences /\ fired \in [DOMAIN fired -> Nat]
      /\ DOMAIN lost \subseteq Occurrences /\ lost \in [DOMAIN lost -> Nat]
  BY DEF TypeInv
<1>2. \A o : Times(lost, o) \in Nat
  BY <1>1 DEF Times
<1>3. ASSUME NEW t \in Slot, Fire(t)
      PROVE  OnceInv'
  <2>0. PICK x : x = Occurrence(t)
    OBVIOUS
  <2>1. Holding(t) /\ tick[t].at = "adding" /\ fired' = Counted(fired, x) /\ lost' = lost
    BY <1>3, <2>0 DEF Fire, Holding
  <2>2. x \in Occurrences /\ x[1] = tick[t].name /\ Has(tick[t].defs, x) /\ tick[t].name \in Name
    BY <2>0, <2>1, OccurrenceFacts
  <2>3. /\ DOMAIN fired' = DOMAIN fired \cup {x} /\ fired'[x] = Times(fired, x) + 1
        /\ Times(fired, x) \in Nat
        /\ \A y \in DOMAIN fired \ {x} : fired'[y] = fired[y]
    BY <1>1, <2>1, <2>2, CountedFacts
  <2>4. Times(fired, x) <= Times(lost, x)
    <3>1. CASE x \notin DOMAIN fired
      BY <1>2, <3>1 DEF Times
    <3>2. CASE x \in DOMAIN fired
      <4>1. ~Over(x)
        BY <2>1, <2>2 DEF Over, Barred
      <4>2. \A u \in Slot : ~Firing(u, x)
        <5> SUFFICES ASSUME NEW u \in Slot, Firing(u, x)
                     PROVE  FALSE
          OBVIOUS
        <5>1. Holds(u, x[1]) /\ Holds(t, x[1]) /\ tick[u].at # "adding"
          BY <2>1, <2>2 DEF Firing, Holds, Holding
        <5>2. u = t
          BY <2>2, <5>1 DEF ClockInv, LockOutlives
        <5> QED
          BY <2>1, <5>1, <5>2
      <4>3. fired[x] <= 1 + Times(lost, x) /\ fired[x] # 1 + Times(lost, x) /\ fired[x] \in Nat
        BY <1>1, <3>2, <4>1, <4>2 DEF OnceInv
      <4> QED
        BY <1>2, <3>2, <4>3 DEF Times
    <3> QED
      BY <3>1, <3>2
  <2>5. Firing(t, x)'
    <3>1. PICK k : /\ Becomes(t, k) /\ k.at = "added"
                   /\ k.defs = tick[t].defs /\ k.name = tick[t].name
      BY <1>3, FireTick
    <3>2. tick'[t] = k
      BY <3>1, BecomesFacts
    <3> QED
      BY <2>2, <3>1, <3>2 DEF Firing
  <2>6. ASSUME NEW o \in DOMAIN fired \ {x}, fired[o] = 1 + Times(lost, o)
        PROVE  (\E u \in Slot : Firing(u, o)') \/ Over(o)'
    <3>1. CASE Over(o)
      BY <3>1, OverIsStable
    <3>2. CASE \E u \in Slot : Firing(u, o)
      <4>1. PICK u \in Slot : Firing(u, o)
        BY <3>2
      <4>2. ~Abort(t)
        BY <1>3, <2>1 DEF Abort, Fire, Idle, TypeInv
      <4> QED
        BY <1>3, <4>1, <4>2, FiringGoesOn DEF Step
    <3> QED
      BY <2>6, <3>1, <3>2 DEF OnceInv
  <2> SUFFICES ASSUME NEW o \in DOMAIN fired'
               PROVE  /\ fired'[o] <= 1 + Times(lost', o)
                      /\ fired'[o] = 1 + Times(lost', o) =>
                            (\E u \in Slot : Firing(u, o)') \/ Over(o)'
    BY DEF OnceInv
  <2>7. CASE o = x
    BY <1>2, <2>1, <2>3, <2>4, <2>5, <2>7
  <2>8. CASE o # x
    BY <2>1, <2>3, <2>6, <2>8 DEF OnceInv
  <2> QED
    BY <2>7, <2>8
<1>4. ASSUME NEW t \in Slot, Begin(t) \/ Step(t) \/ Abort(t), ~Fire(t)
      PROVE  OnceInv'
  <2>1. fired' = fired
    BY <1>4, HistorySteps
  <2> SUFFICES ASSUME NEW o \in DOMAIN fired
               PROVE  /\ fired[o] <= 1 + Times(lost', o)
                      /\ fired[o] = 1 + Times(lost', o) =>
                            (\E u \in Slot : Firing(u, o)') \/ Over(o)'
    BY <2>1 DEF OnceInv
  <2>2. /\ fired[o] <= 1 + Times(lost, o) /\ fired[o] \in Nat /\ o \in Occurrences
        /\ fired[o] = 1 + Times(lost, o) => (\E u \in Slot : Firing(u, o)) \/ Over(o)
    BY <1>1 DEF OnceInv
  <2>3. CASE Abort(t) /\ tick[t].at \in {"added", "saving"}
    <3>1. Holding(t) /\ lost' = Counted(lost, Occurrence(t))
      BY <2>3 DEF Abort, Holding
    <3>2. Occurrence(t) \in Occurrences
      BY <3>1, OccurrenceFacts
    <3>3. /\ Times(lost', Occurrence(t)) = Times(lost, Occurrence(t)) + 1
          /\ \A y : y # Occurrence(t) => Times(lost', y) = Times(lost, y)
      BY <1>1, <3>1, <3>2, CountedFacts
    <3>4. CASE o = Occurrence(t)
      BY <1>2, <2>2, <3>3, <3>4
    <3>5. CASE o # Occurrence(t)
      <4>1. ~Firing(t, o)
        BY <2>2, <3>1, <3>5, OneOccurrence DEF Firing
      <4>2. ASSUME NEW u \in Slot, Firing(u, o)
            PROVE  Firing(u, o)' \/ Over(o)'
        BY <1>4, <4>1, <4>2, FiringGoesOn
      <4> QED
        BY <2>2, <3>3, <3>5, <4>2, OverIsStable
    <3> QED
      BY <3>4, <3>5
  <2>4. CASE ~(Abort(t) /\ tick[t].at \in {"added", "saving"})
    <3>1. lost' = lost
      BY <1>4, <2>4, HistorySteps
    <3>2. ASSUME NEW u \in Slot, Firing(u, o)
          PROVE  Firing(u, o)' \/ Over(o)'
      <4>1. ~(u = t /\ Abort(t))
        BY <2>4, <3>2 DEF Firing
      <4> QED
        BY <1>4, <3>2, <4>1, FiringGoesOn
    <3> QED
      BY <2>2, <3>1, <3>2, OverIsStable
  <2> QED
    BY <2>3, <2>4
<1>5. CASE Outside
  <2>1. tick' = tick /\ fired' = fired /\ lost' = lost
    BY <1>5, OutsideSteps
  <2> SUFFICES ASSUME NEW o \in DOMAIN fired
               PROVE  /\ fired[o] <= 1 + Times(lost, o)
                      /\ fired[o] = 1 + Times(lost, o) =>
                            (\E u \in Slot : Firing(u, o)') \/ Over(o)'
    BY <2>1 DEF OnceInv
  <2>2. /\ fired[o] <= 1 + Times(lost, o)
        /\ fired[o] = 1 + Times(lost, o) => (\E u \in Slot : Firing(u, o)) \/ Over(o)
    BY DEF OnceInv
  <2>3. \A u \in Slot : Firing(u, o) => Firing(u, o)'
    BY <2>1 DEF Firing
  <2> QED
    BY <2>2, <2>3, OverIsStable
<1> QED
  BY <1>3, <1>4, <1>5, TwoKinds

\* When no tick takes longer than half the life of a lock, an occurrence of a
\* registration is enqueued once, and once more for every tick that died after
\* its add and before its hset (src/src/Scheduler.ts:73-94): for any number of
\* schedulers and ticks in flight, and although definitions are registered and
\* removed while ticks hold copies of them.
THEOREM OccurrencesFireOnce ==
    ASSUME Timely, 2 * MaxSpan <= LockTime
    PROVE  CronSpec => []FiredOnce
<1>1. TimelyTicks
  BY DEF TimelyTicks
<1>2. CronInit => OnceInv
  BY DEF CronInit, OnceInv, Nothing
<1>3. TypeInv /\ ClockInv /\ OnceInv /\ [CronNext]_vars => ClockInv' /\ OnceInv'
  BY <1>1, StepClockInv, StepOnceInv
<1>4. OnceInv => FiredOnce
  BY DEF OnceInv, FiredOnce
<1> QED
  BY <1>2, <1>3, <1>4, InitTypes, StepTypes, InitClockInv, PTL DEF CronSpec
=============================================================================
