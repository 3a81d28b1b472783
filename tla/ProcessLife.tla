---------------------------- MODULE ProcessLife ----------------------------
(***************************************************************************)
(* One process of the system, from main() in src/src/server.ts to its      *)
(* exit: the awaits of the start, the workers it runs, the connection to   *)
(* Redis with its limited retries, and the shutdown that each signal       *)
(* starts on its own.                                                      *)
(*                                                                         *)
(* There is no clock: a timeout may fire at any moment after it was set.   *)
(***************************************************************************)
EXTENDS Integers, FiniteSets

CONSTANTS
    Worker,         \* the Worker objects of the process
    HasServer,      \* FALSE with DISABLE_API
    MaxRetries,     \* reconnections before retryStrategy returns null
    MaxOutages,     \* bound: how often the connection is lost
    MaxSignals      \* bound: the signals the process gets

ASSUME ProcessAssumption ==
    /\ HasServer \in BOOLEAN
    /\ {MaxRetries, MaxOutages, MaxSignals} \subseteq Nat

Signal == {"SIGTERM", "SIGINT"}

VARIABLES
    boot,       \* which await of main() the process is at
    chain,      \* what the poll chain of each worker is at
    running,    \* the running flag of each worker
    conn,       \* the connection: "ready", "lost" or "ended"
    retries,    \* the times argument of retryStrategy
    shutdown,   \* the shutdown of each signal: "none", "stopping", "closing"
    stop,       \* what the stop() call of each signal is at, for each worker
    timers,     \* the cleanup and watchdog timers and the scheduler run
    exit,       \* "none", or how the process ended: "0", "1", "killed"
    outages, signals,   \* how often each bounded thing has happened
    owed        \* history: workers whose job ran at the first signal, until
                \* Redis has what became of it

bootVars == <<boot, timers>>
workVars == <<chain, running, owed>>
connVars == <<conn, retries, outages>>
stopVars == <<shutdown, stop, signals>>
vars == <<bootVars, workVars, connVars, stopVars, exit>>

ProcessInit ==
    /\ boot = "scripts"
    /\ chain = [w \in Worker |-> "none"]
    /\ running = [w \in Worker |-> FALSE]
    /\ conn = "ready" /\ retries = 0
    /\ shutdown = [s \in Signal |-> "none"]
    /\ stop = [s \in Signal |-> [w \in Worker |-> "none"]]
    /\ timers = FALSE
    /\ exit = "none"
    /\ outages = 0 /\ signals = 0
    /\ owed = {}

Alive == exit = "none"

\* A command that was sent is answered, or is rejected once retries are over.
Replied == conn = "ready"
Rejected == conn = "ended"

-----------------------------------------------------------------------------
(* main()                                                                  *)

\* loadScripts only defines commands; then the workers start, one after the
\* other: start() catches what setupSubscriber throws.
StartWorker(w) ==
    /\ Alive /\ boot = "scripts"
    /\ ~running[w] /\ chain[w] = "none"
    /\ conn # "lost"
    /\ running' = [running EXCEPT ![w] = TRUE]
    /\ chain' = [chain EXCEPT ![w] = "idle"]
    /\ UNCHANGED <<bootVars, owed, connVars, stopVars, exit>>

\* Timers and scheduler start; addRepeatable and the subscription of the
\* relay are next.
StartTimers ==
    /\ Alive /\ boot = "scripts"
    /\ \A w \in Worker : running[w]
    /\ timers' = TRUE /\ boot' = "wiring"
    /\ UNCHANGED <<workVars, connVars, stopVars, exit>>

\* Handlers of signals are registered last.
Register ==
    /\ Alive /\ boot = "wiring"
    /\ Replied
    /\ boot' = "up"
    /\ UNCHANGED <<timers, workVars, connVars, stopVars, exit>>

BootFails ==
    /\ Alive /\ boot = "wiring"
    /\ Rejected
    /\ exit' = "1"
    /\ UNCHANGED <<bootVars, workVars, connVars, stopVars>>

-----------------------------------------------------------------------------
(* The poll chains                                                         *)

Goto(w, to) == chain' = [chain EXCEPT ![w] = to]

Poll(w) ==
    /\ Alive /\ chain[w] = "idle"
    /\ Goto(w, IF running[w] THEN "claiming" ELSE "ended")
    /\ UNCHANGED <<bootVars, running, owed, connVars, stopVars, exit>>

\* moveToActive and hgetall are answered: a job to run, or none, or one that
\* was cancelled and is dropped.  Only now is the job counted, and nobody looks
\* at running again.
Claimed(w) ==
    /\ Alive /\ chain[w] = "claiming"
    /\ Replied
    /\ \E to \in {"busy", "idle"} : Goto(w, to)
    /\ UNCHANGED <<bootVars, running, owed, connVars, stopVars, exit>>

\* Mutant of PollFails: an error ends the chain.
PollFailsForGood(w) ==
    /\ Alive /\ chain[w] = "claiming"
    /\ Goto(w, "ended")
    /\ UNCHANGED <<bootVars, running, owed, connVars, stopVars, exit>>

\* The catch of poll logs the error; the chain goes on.
PollFails(w) ==
    /\ Alive /\ chain[w] = "claiming"
    /\ Goto(w, "idle")
    /\ UNCHANGED <<bootVars, running, owed, connVars, stopVars, exit>>

\* The processor returned or threw, and Redis took complete or fail.
JobEnds(w) ==
    /\ Alive /\ chain[w] = "busy"
    /\ Replied
    /\ Goto(w, "idle")
    /\ owed' = owed \ {w}
    /\ UNCHANGED <<bootVars, running, connVars, stopVars, exit>>

\* complete, if it was sent, and fail are rejected: the connection has ended,
\* or Redis answers both with an error.  fail is called in the catch of
\* processJob and poll has no catch for processJob, so the rejection is nobody's
\* and Node ends the process.
ReportFails(w) ==
    /\ Alive /\ chain[w] = "busy"
    /\ Replied \/ Rejected
    /\ exit' = "1"
    /\ UNCHANGED <<bootVars, workVars, connVars, stopVars>>

-----------------------------------------------------------------------------
(* retryStrategy                                                           *)

ConnectionLost ==
    /\ Alive /\ conn = "ready" /\ outages < MaxOutages
    /\ conn' = "lost" /\ retries' = 0 /\ outages' = outages + 1
    /\ UNCHANGED <<bootVars, workVars, stopVars, exit>>

\* Mutant of Reconnect: one more attempt than the limit.
ReconnectOnceMore ==
    /\ Alive /\ conn = "lost"
    /\ retries' = retries + 1
    /\ conn' \in IF retries <= MaxRetries THEN {"ready", "lost"} ELSE {"ended"}
    /\ UNCHANGED <<bootVars, workVars, outages, stopVars, exit>>

\* retryStrategy is called with the next attempt's number: up to the limit
\* ioredis tries again, above it the connection has ended for good.
Reconnect ==
    /\ Alive /\ conn = "lost"
    /\ retries' = retries + 1
    /\ conn' \in IF retries < MaxRetries THEN {"ready", "lost"} ELSE {"ended"}
    /\ UNCHANGED <<bootVars, workVars, outages, stopVars, exit>>

-----------------------------------------------------------------------------
(* shutdown()                                                              *)

\* A signal without a handler ends the process: before Register, and when the
\* same signal comes again, for which process.once listens no more.
Unhandled(s) ==
    /\ Alive /\ signals < MaxSignals
    /\ boot # "up" \/ shutdown[s] # "none"
    /\ signals' = signals + 1
    /\ exit' = "killed"
    /\ UNCHANGED <<bootVars, workVars, connVars, shutdown, stop>>

NoStop == [w \in Worker |-> "none"]

\* stop() is called of every worker: no new poll begins.
Handle(s) ==
    /\ Alive /\ signals < MaxSignals
    /\ boot = "up" /\ shutdown[s] = "none"
    /\ signals' = signals + 1
    /\ shutdown' = [shutdown EXCEPT ![s] = "stopping"]
    /\ running' = [w \in Worker |-> FALSE]
    /\ stop' = [stop EXCEPT ![s] = [w \in Worker |-> "deleting"]]
    /\ owed' = IF signals = 0 THEN {w \in Worker : chain[w] = "busy"} ELSE owed
    /\ UNCHANGED <<bootVars, chain, connVars, exit>>

Resolve(s, w, to) == stop' = [stop EXCEPT ![s][w] = to]

\* Mutant of StatusDeleted: a worker that does not run has nothing to drain.
StatusDeletedOnce(s, w) ==
    /\ Alive /\ stop[s][w] = "deleting" /\ conn # "lost"
    /\ Resolve(s, w, IF \E t \in Signal \ {s} : stop[t][w] # "none" THEN "clean" ELSE "draining")
    /\ UNCHANGED <<bootVars, workVars, connVars, shutdown, signals, exit>>

\* deleteWorkerStatus was answered, or its failure ignored.
StatusDeleted(s, w) ==
    /\ Alive /\ stop[s][w] = "deleting" /\ conn # "lost"
    /\ Resolve(s, w, "draining")
    /\ UNCHANGED <<bootVars, workVars, connVars, shutdown, signals, exit>>

\* activeJobsCount is zero: a claim that waits for Redis is not in it.
Drained(s, w) ==
    /\ Alive /\ stop[s][w] = "draining" /\ chain[w] # "busy"
    /\ Resolve(s, w, "clean")
    /\ UNCHANGED <<bootVars, workVars, connVars, shutdown, signals, exit>>

\* The timeout wins the race, perhaps within the 500 ms that drainLoop sleeps
\* after the last job ended.
DrainTimesOut(s, w) ==
    /\ Alive /\ stop[s][w] = "draining"
    /\ Resolve(s, w, "timeout")
    /\ UNCHANGED <<bootVars, workVars, connVars, shutdown, signals, exit>>

AllStopped(s) == shutdown[s] = "stopping" /\ \A w \in Worker : stop[s][w] \in {"clean", "timeout"}

AllClean(s) == \A w \in Worker : stop[s][w] = "clean"

\* Every worker drained: timers and scheduler stop and the server closes.
StopTimers(s) ==
    /\ Alive /\ AllStopped(s) /\ AllClean(s)
    /\ timers' = FALSE
    /\ shutdown' = [shutdown EXCEPT ![s] = "closing"]
    /\ UNCHANGED <<boot, workVars, connVars, stop, signals, exit>>

ForceExit(s) ==
    /\ Alive /\ AllStopped(s) /\ ~AllClean(s)
    /\ exit' = "1"
    /\ UNCHANGED <<bootVars, workVars, connVars, stopVars>>

\* Mutant of CloseServer: no 5 s limit, so a client that keeps its connection
\* keeps the process.
CloseServerPolitely(s) ==
    /\ Alive /\ shutdown[s] = "closing" /\ ~HasServer
    /\ exit' = "0"
    /\ UNCHANGED <<bootVars, workVars, connVars, stopVars>>

\* The server closed, or 5 s are over; the process exits.
CloseServer(s) ==
    /\ Alive /\ shutdown[s] = "closing"
    /\ exit' = "0"
    /\ UNCHANGED <<bootVars, workVars, connVars, stopVars>>

-----------------------------------------------------------------------------
Step(w) == Poll(w) \/ Claimed(w) \/ PollFails(w)

Resolving(s, w) == StatusDeleted(s, w) \/ Drained(s, w) \/ DrainTimesOut(s, w)

Shutdown(s) == StopTimers(s) \/ ForceExit(s) \/ CloseServer(s)

ProcessNext ==
    \/ StartTimers \/ Register \/ BootFails
    \/ ConnectionLost \/ Reconnect
    \/ \E w \in Worker : StartWorker(w) \/ Step(w) \/ JobEnds(w) \/ ReportFails(w)
    \/ \E s \in Signal : Unhandled(s) \/ Handle(s) \/ Shutdown(s)
    \/ \E s \in Signal, w \in Worker : Resolving(s, w)

\* Timers fire, reconnections are tried, Redis answers.  Nothing makes a
\* processor end.
ProcessFairness ==
    /\ WF_vars(Reconnect)
    /\ \A w \in Worker : WF_vars(Step(w))
    /\ \A s \in Signal : WF_vars(Shutdown(s))
    /\ \A s \in Signal, w \in Worker : WF_vars(Resolving(s, w))

ProcessSpec == ProcessInit /\ [][ProcessNext]_vars /\ ProcessFairness

-----------------------------------------------------------------------------
\* Every variable has a value of its type.
ProcessTypeOK ==
    /\ boot \in {"scripts", "wiring", "up"}
    /\ chain \in [Worker -> {"none", "idle", "claiming", "busy", "ended"}]
    /\ running \in [Worker -> BOOLEAN]
    /\ conn \in {"ready", "lost", "ended"} /\ retries \in 0 .. MaxRetries + 1
    /\ shutdown \in [Signal -> {"none", "stopping", "closing"}]
    /\ stop \in [Signal -> [Worker -> {"none", "deleting", "draining", "clean", "timeout"}]]
    /\ timers \in BOOLEAN /\ exit \in {"none", "0", "1", "killed"}
    /\ outages \in 0 .. MaxOutages /\ signals \in 0 .. MaxSignals
    /\ owed \subseteq Worker

\* "Workers drain active jobs before exiting on SIGTERM / SIGINT"
\* (src/README.md:45): when a process exits with code 0, Redis has been told of
\* every job that ran when the first signal came, whether it completed or failed,
\* although the second signal starts a shutdown of its own that calls stop()
\* again (src/src/shutdown.ts:90-91) and the connection may be lost or end
\* meanwhile.  A job whose claim was under way is not among them.
CleanExit == exit = "0" => owed = {}

\* Every shutdown comes to an end, whether or not the jobs end, clients of
\* the server leave, or Redis is there (src/src/shutdown.ts:51-87).
ShutdownEnds == \A s \in Signal : shutdown[s] # "none" ~> ~Alive

\* An outage that is over in time takes no worker out of service: as long as a
\* worker is meant to run, it sends a claim to a Redis that is there, or has a
\* job, however its polls failed while the connection was lost
\* (src/src/Worker.ts:232, src/src/redis.ts:9-15).  Excepted are processes whose
\* retries are over, or that ended because a job could not be reported.
ServesAfterOutage ==
    \A w \in Worker :
        (running[w] /\ Alive)
            ~> \/ chain[w] = "busy" \/ (chain[w] = "claiming" /\ conn = "ready")
               \/ conn = "ended" \/ ~running[w] \/ ~Alive
=============================================================================
