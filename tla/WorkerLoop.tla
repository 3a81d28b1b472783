----------------------------- MODULE WorkerLoop -----------------------------
(***************************************************************************)
(* One Worker object that serves several queues: its poll chains, start    *)
(* and stop in any order, the pause keys it reads before each claim, the   *)
(* rate limit, and the status hash by which the API knows it.              *)
(*                                                                         *)
(* A chain is a sequence of calls of poll, each made by the one before it. *)
(* It waits for a timer, for Redis, or for the processor of its job, and   *)
(* between two waits it runs without interleaving.  Every start() begins   *)
(* one.  What becomes of a job is WorkerPool's subject: here queues only   *)
(* hold a number of jobs.                                                  *)
(***************************************************************************)
EXTENDS Integers, FiniteSets

CONSTANTS
    NQueues,        \* queueNames.length
    Concurrency,    \* options.concurrency
    Pausable,       \* bound: the queues an operator pauses
    RateLimit,      \* TRUE when rateLimit.max is 1, FALSE when there is no limit
    MaxQueued,      \* bound: the jobs that wait in one queue at a time
    MaxAdds,        \* bound: the jobs added
    MaxStarts,      \* bound: how often start() is called
    MaxErrors,      \* bound: how many commands fail, of polls and of publications
    StatusLife      \* STATUS_TTL in heartbeat intervals: 45 s / 15 s

ASSUME LoopAssumption ==
    /\ {NQueues, Concurrency, MaxQueued, StatusLife} \subseteq Nat \ {0}
    /\ {MaxAdds, MaxStarts, MaxErrors} \subseteq Nat
    /\ RateLimit \in BOOLEAN
    /\ Pausable \subseteq 0 .. NQueues - 1

QueueIndex == 0 .. NQueues - 1
Chain == 1 .. MaxStarts

VARIABLES
    queued,     \* how many jobs wait in each queue
    paused,     \* whether the pause key of each queue is set
    limited,    \* whether the limiter of each queue is full
    chain,      \* where each poll chain is
    base,       \* currentQueueIndex
    running,    \* the running flag
    starting,   \* the calls of start() that wait for setupSubscriber
    timer,      \* workerStatusTimer: "off", "on", or "late", set after stop()
    leaked,     \* a status interval runs that no variable refers to any more
    listed,     \* the status hash of this worker exists
    missed,     \* intervals since it was written, StatusLife when it may be gone
    adds, starts, errors,   \* how often each bounded thing has happened
    sincePause, \* history: claims from each queue since it was paused
    sinceStop   \* history: jobs started since stop() was called

redisVars == <<queued, paused, limited, adds, sincePause>>
statusVars == <<timer, leaked, listed, missed>>
lifeVars == <<running, starting, starts>>
vars == <<redisVars, chain, base, errors, sinceStop, statusVars, lifeVars>>

\* "none": no such chain.  "timer": a timeout will call poll.  "asking",
\* "claiming", "fetching", "removing": waits for get, moveToActive, hgetall,
\* hdel.  "busy": waits for processJob.
PC == {"none", "timer", "asking", "claiming", "fetching", "removing", "busy"}

\* i is the loop's counter, q the index of the queue it is at, found jobFound.
Ended == [pc |-> "none", i |-> 0, q |-> 0, found |-> FALSE]
Waiting == [Ended EXCEPT !.pc = "timer"]
Busy == [Ended EXCEPT !.pc = "busy"]

LoopInit ==
    /\ queued = [q \in QueueIndex |-> 0]
    /\ paused = [q \in QueueIndex |-> FALSE]
    /\ limited = [q \in QueueIndex |-> FALSE]
    /\ chain = [c \in Chain |-> Ended]
    /\ base = 0
    /\ running = FALSE /\ starting = 0
    /\ timer = "off" /\ leaked = FALSE /\ listed = FALSE /\ missed = 0
    /\ adds = 0 /\ starts = 0 /\ errors = 0
    /\ sincePause = [q \in QueueIndex |-> 0]
    /\ sinceStop = 0

ActiveJobsCount == Cardinality({c \in Chain : chain[c].pc = "busy"})

At(c, pc) == chain[c].pc = pc
Goto(c, pc) == chain' = [chain EXCEPT ![c].pc = pc]

-----------------------------------------------------------------------------
(* poll                                                                    *)

\* Mutant of Visit: the index is not reduced to the queues there are.
VisitPastEnd(c, i, from, found) ==
    chain' = [chain EXCEPT ![c] = [pc |-> "asking", i |-> i, q |-> from + i, found |-> found]]

\* One pass of the for loop begins: which queue it is at depends on what
\* currentQueueIndex is by now.
Visit(c, i, from, found) ==
    chain' = [chain EXCEPT ![c] =
                 [pc |-> "asking", i |-> i, q |-> (from + i) % NQueues, found |-> found]]

\* Mutant of BeginPoll: running is not looked at.
BeginPollAnyway(c) ==
    /\ At(c, "timer")
    /\ ActiveJobsCount < Concurrency /\ Visit(c, 0, base, FALSE)
    /\ UNCHANGED <<redisVars, base, errors, sinceStop, statusVars, lifeVars>>

\* poll is called: a stopped worker's chain ends, and one that has enough to
\* do looks again in 100 ms.
BeginPoll(c) ==
    /\ At(c, "timer")
    /\ IF ~running THEN chain' = [chain EXCEPT ![c] = Ended]
       ELSE ActiveJobsCount < Concurrency /\ Visit(c, 0, base, FALSE)
    /\ UNCHANGED <<redisVars, base, errors, sinceStop, statusVars, lifeVars>>

\* The loop goes on, or is over and schedules the next poll.  Without a job
\* the next poll begins one queue further.
Continue(c) ==
    IF chain[c].i + 1 < NQueues
      THEN Visit(c, chain[c].i + 1, base, chain[c].found) /\ UNCHANGED base
      ELSE /\ chain' = [chain EXCEPT ![c] = Waiting]
           /\ base' = IF chain[c].found THEN base ELSE (base + 1) % NQueues

\* Mutant of ReadPause: the key is read for the first queue only.
ReadPauseOnce(c) ==
    /\ At(c, "asking")
    /\ IF chain[c].i = 0 /\ paused[chain[c].q] THEN Continue(c) ELSE Goto(c, "claiming") /\ UNCHANGED base
    /\ UNCHANGED <<redisVars, errors, sinceStop, statusVars, lifeVars>>

\* get of the pause key.
ReadPause(c) ==
    /\ At(c, "asking")
    /\ IF paused[chain[c].q] THEN Continue(c) ELSE Goto(c, "claiming") /\ UNCHANGED base
    /\ UNCHANGED <<redisVars, errors, sinceStop, statusVars, lifeVars>>

\* What moveToActive changes when it hands out a job of queue q.
TakeFrom(q) ==
    /\ ~limited[q] /\ queued[q] > 0
    /\ queued' = [queued EXCEPT ![q] = @ - 1]
    /\ limited' = [limited EXCEPT ![q] = RateLimit]
    /\ sincePause' = [sincePause EXCEPT ![q] = IF paused[q] THEN @ + 1 ELSE @]
    /\ UNCHANGED <<paused, adds>>

\* moveToActive returned an id: the next poll begins at this queue.
Claim(c) ==
    /\ At(c, "claiming")
    /\ TakeFrom(chain[c].q)
    /\ chain' = [chain EXCEPT ![c].pc = "fetching", ![c].found = TRUE]
    /\ base' = chain[c].q
    /\ UNCHANGED <<errors, sinceStop, statusVars, lifeVars>>

\* moveToActive returned nil or RATE_LIMIT.
FindNothing(c) ==
    /\ At(c, "claiming")
    /\ limited[chain[c].q] \/ queued[chain[c].q] = 0
    /\ Continue(c)
    /\ UNCHANGED <<redisVars, errors, sinceStop, statusVars, lifeVars>>

\* hgetall: a job to process, or an id whose hash was deleted.
Fetch(c) ==
    /\ At(c, "fetching")
    /\ \/ /\ chain' = [chain EXCEPT ![c] = Busy]
          /\ sinceStop' = IF running THEN sinceStop ELSE sinceStop + 1
       \/ Goto(c, "removing") /\ UNCHANGED sinceStop
    /\ UNCHANGED <<redisVars, base, errors, statusVars, lifeVars>>

RemoveOrphan(c) ==
    /\ At(c, "removing")
    /\ Continue(c)
    /\ UNCHANGED <<redisVars, errors, sinceStop, statusVars, lifeVars>>

CommandFails ==
    /\ errors < MaxErrors
    /\ errors' = errors + 1

\* A command fails and the loop goes on with the next queue.  The reply of
\* moveToActive can be lost after the script ran.
PollError(c) ==
    /\ CommandFails
    /\ \/ /\ chain[c].pc \in {"asking", "claiming", "fetching", "removing"}
          /\ UNCHANGED redisVars
       \/ At(c, "claiming") /\ TakeFrom(chain[c].q)
    /\ Continue(c)
    /\ UNCHANGED <<sinceStop, statusVars, lifeVars>>

\* publishWorkerStatus: HSET and EXPIRE.  Its failure is ignored everywhere.
Publish == listed' = TRUE /\ missed' = 0

\* Mutant of Finish: the chain ends with its job.
FinishForGood(c) ==
    /\ At(c, "busy")
    /\ chain' = [chain EXCEPT ![c] = Ended]
    /\ Publish
    /\ UNCHANGED <<redisVars, base, errors, sinceStop, timer, leaked, lifeVars>>

\* processJob is over and poll is called again.  A job that completed has
\* the worker publish its status, stopped or not; a job that failed does not.
Finish(c) ==
    /\ At(c, "busy")
    /\ chain' = [chain EXCEPT ![c] = Waiting]
    /\ Publish \/ UNCHANGED <<listed, missed>>
    /\ UNCHANGED <<redisVars, base, errors, sinceStop, timer, leaked, lifeVars>>

-----------------------------------------------------------------------------
(* start, stop and the status hash                                         *)

HasInterval == timer # "off" \/ leaked

Start ==
    /\ ~running /\ starts < MaxStarts
    /\ running' = TRUE
    /\ starting' = starting + 1
    /\ starts' = starts + 1
    /\ sinceStop' = 0
    /\ UNCHANGED <<redisVars, chain, base, errors, statusVars>>

\* setupSubscriber is done.  The interval is created whether or not stop()
\* was called meanwhile, and whether or not there is one already; the first
\* poll of the new chain looks at running like every other.  The publication
\* may fail, and a hash that no interval renewed before may be of any age.
Started ==
    /\ starting > 0
    /\ starting' = starting - 1
    /\ leaked' = (leaked \/ timer # "off")
    /\ timer' = IF running THEN "on" ELSE "late"
    /\ \/ Publish /\ UNCHANGED errors
       \/ /\ CommandFails
          /\ missed' = IF HasInterval /\ listed THEN missed ELSE StatusLife
          /\ UNCHANGED listed
    /\ LET c == CHOOSE d \in Chain : At(d, "none")
       IN  chain' = [chain EXCEPT ![c] = Waiting]
    /\ UNCHANGED <<redisVars, base, sinceStop, running, starts>>

\* Mutant of Stop: the status interval goes on.
StopKeepsTimer ==
    /\ running' = FALSE /\ sinceStop' = IF running THEN 0 ELSE sinceStop
    /\ listed' = FALSE /\ missed' = 0
    /\ UNCHANGED <<redisVars, chain, base, errors, timer, leaked, starting, starts>>

\* Of a worker that runs or not: nothing is checked.  That the hash was not
\* deleted is ignored.
Stop ==
    /\ running' = FALSE /\ sinceStop' = IF running THEN 0 ELSE sinceStop
    /\ timer' = "off"
    /\ \/ listed' = FALSE /\ missed' = 0 /\ UNCHANGED errors
       \/ CommandFails /\ UNCHANGED <<listed, missed>>
    /\ UNCHANGED <<redisVars, chain, base, leaked, starting, starts>>

\* publishWorkerStatus, every 15 s,
StatusTick ==
    /\ HasInterval
    /\ Publish
    /\ UNCHANGED <<redisVars, chain, base, errors, sinceStop, timer, leaked, lifeVars>>

\* which fails, or the interval passes without it.
StatusMissed ==
    /\ HasInterval /\ listed /\ missed < StatusLife
    /\ CommandFails
    /\ missed' = missed + 1
    /\ UNCHANGED <<redisVars, chain, base, sinceStop, timer, leaked, listed, lifeVars>>

\* Mutant of StatusExpires: the TTL is an interval shorter.
StatusExpiresEarly ==
    /\ ~HasInterval \/ missed >= StatusLife - 1
    /\ listed' = FALSE
    /\ UNCHANGED <<redisVars, chain, base, errors, sinceStop, timer, leaked, missed, lifeVars>>

\* 45 s after the last publication: no interval renews the hash, or as many
\* intervals as fit in its TTL were missed.
StatusExpires ==
    /\ ~HasInterval \/ missed = StatusLife
    /\ listed' = FALSE
    /\ UNCHANGED <<redisVars, chain, base, errors, sinceStop, timer, leaked, missed, lifeVars>>

-----------------------------------------------------------------------------
(* Producers, operators and time                                           *)

Add(q) ==
    /\ queued[q] < MaxQueued
    /\ adds < MaxAdds
    /\ queued' = [queued EXCEPT ![q] = @ + 1]
    /\ adds' = adds + 1
    /\ UNCHANGED <<paused, limited, sincePause, chain, base, errors, sinceStop, statusVars, lifeVars>>

SetPaused(q, value) ==
    /\ q \in Pausable /\ paused[q] # value
    /\ paused' = [paused EXCEPT ![q] = value]
    /\ sincePause' = [sincePause EXCEPT ![q] = 0]
    /\ UNCHANGED <<queued, limited, adds, chain, base, errors, sinceStop, statusVars, lifeVars>>

PauseQueue(q) == SetPaused(q, TRUE)

ResumeQueue(q) == SetPaused(q, FALSE)

\* The entries of the limiter leave its window.
WindowPasses(q) ==
    /\ limited[q]
    /\ limited' = [limited EXCEPT ![q] = FALSE]
    /\ UNCHANGED <<queued, paused, adds, sincePause, chain, base, errors, sinceStop, statusVars, lifeVars>>

-----------------------------------------------------------------------------
Step(c) ==
    \/ BeginPoll(c) \/ ReadPause(c) \/ Claim(c) \/ FindNothing(c)
    \/ Fetch(c) \/ RemoveOrphan(c) \/ Finish(c)

LoopNext ==
    \/ \E c \in Chain : Step(c) \/ PollError(c)
    \/ Start \/ Started \/ Stop \/ StatusTick \/ StatusMissed \/ StatusExpires
    \/ \E q \in QueueIndex : Add(q) \/ PauseQueue(q) \/ ResumeQueue(q) \/ WindowPasses(q)

\* Timers fire, Redis answers, processors end, windows and keys expire.
LoopFairness ==
    /\ \A c \in Chain : WF_vars(Step(c))
    /\ \A q \in QueueIndex : WF_vars(WindowPasses(q))
    /\ WF_vars(Started) /\ WF_vars(StatusExpires)

LoopSpec == LoopInit /\ [][LoopNext]_vars /\ LoopFairness

-----------------------------------------------------------------------------
\* Every variable has a value of its type.
LoopTypeOK ==
    /\ queued \in [QueueIndex -> 0 .. MaxQueued]
    /\ paused \in [QueueIndex -> BOOLEAN] /\ limited \in [QueueIndex -> BOOLEAN]
    /\ chain \in [Chain -> [pc : PC, i : QueueIndex, q : QueueIndex, found : BOOLEAN]]
    /\ base \in QueueIndex
    /\ {running, leaked, listed} \subseteq BOOLEAN /\ timer \in {"off", "on", "late"}
    /\ missed \in 0 .. StatusLife
    /\ {starting, starts} \subseteq 0 .. MaxStarts
    /\ sincePause \in [QueueIndex -> Nat] /\ sinceStop \in Nat

\* A pause holds although the key is read before the claim
\* (src/src/Worker.ts:193): after pauseQueue, and until the queue is resumed,
\* every chain takes at most one more job from it, the one it was about to
\* claim when the queue was paused.
PauseHolds == \A q \in QueueIndex : sincePause[q] <= starts

\* stop() holds although poll looks at running only when it begins
\* (src/src/Worker.ts:170): a chain that is under way starts at most one more
\* job, whatever queues it still visits and whatever fails on the way.
StopHolds == sinceStop <= starts

\* A running worker is known to the API (GET /workers), whatever stop() deleted
\* while an earlier or a later start() was under way and whichever publications
\* failed (src/src/Worker.ts:292, 337, 339), until it has missed as many in a row
\* as fit in the TTL of its hash, or the first one of its start().
RunningIsListed == running /\ starting = 0 /\ missed < StatusLife => listed

\* A worker that is stopped disappears from the API, and each time a job that
\* ends during the drain publishes its status again (src/src/Worker.ts:292) it
\* disappears once more, whether or not stop() could delete the hash: it is not
\* listed from some time on while it stays stopped.  Excepted are the interval
\* that a start() created after stop(), until stop() is called once more, and
\* intervals created beside another one, which nothing can clear.
StoppedIsForgotten ==
    []<>(~listed \/ running \/ starting > 0 \/ timer = "late" \/ leaked)

\* Rotation: once producers pause, no queue's jobs wait for ever for a worker
\* that serves the queue, whatever other queues hold, whichever polls fail or
\* find orphans, and however often the worker was restarted: again and again
\* the queue is empty, paused, or the worker stopped.  A queue that gets jobs
\* without end keeps currentQueueIndex (src/src/Worker.ts:214) and the queues
\* after it wait: MaxAdds leaves that out.
QueuesAreServed ==
    \A q \in QueueIndex : []<>(queued[q] = 0 \/ paused[q] \/ ~running)
=============================================================================
