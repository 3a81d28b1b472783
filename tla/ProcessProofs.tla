---------------------------- MODULE ProcessProofs ----------------------------
(***************************************************************************)
(* Theorems about ProcessLife, for any set of workers and any bounds.      *)
(***************************************************************************)
EXTENDS ProcessLife, TLAPS

-----------------------------------------------------------------------------
(* Types                                                                   *)

\* While retryStrategy is asked, it has not yet given up.
RetriesLeft == conn = "lost" => retries <= MaxRetries

TypeInv == ProcessTypeOK /\ RetriesLeft

\* The numbers among the constants.
LEMMA Bounds == MaxRetries \in Nat /\ MaxOutages \in Nat /\ MaxSignals \in Nat
BY ProcessAssumption DEF ProcessAssumption

\* A process starts well typed,
LEMMA InitTypes == ProcessInit => TypeInv
<1> SUFFICES ASSUME ProcessInit
             PROVE  TypeInv
  OBVIOUS
<1>1. NoStop \in [Worker -> {"none", "deleting", "draining", "clean", "timeout"}]
  BY DEF NoStop
<1>2. stop = [s \in Signal |-> NoStop]
  BY DEF ProcessInit, NoStop
<1>3. stop \in [Signal -> [Worker -> {"none", "deleting", "draining", "clean", "timeout"}]]
  BY <1>1, <1>2
<1>4. /\ chain \in [Worker -> {"none", "idle", "claiming", "busy", "ended"}]
      /\ running \in [Worker -> BOOLEAN]
      /\ shutdown \in [Signal -> {"none", "stopping", "closing"}]
  BY DEF ProcessInit
<1>5. retries \in 0 .. MaxRetries + 1 /\ outages \in 0 .. MaxOutages /\ signals \in 0 .. MaxSignals
  BY Bounds DEF ProcessInit
<1>6. /\ boot \in {"scripts", "wiring", "up"} /\ conn = "ready"
      /\ timers \in BOOLEAN /\ exit \in {"none", "0", "1", "killed"} /\ owed \subseteq Worker
  BY DEF ProcessInit
<1> QED
  BY <1>3, <1>4, <1>5, <1>6 DEF TypeInv, ProcessTypeOK, RetriesLeft

\* and every step keeps it so.
LEMMA StepTypes ==
    ASSUME TypeInv, [ProcessNext]_vars
    PROVE  TypeInv'
<1> USE Bounds DEF TypeInv, ProcessTypeOK, RetriesLeft, bootVars, workVars, connVars, stopVars
<1>1. CASE StartTimers \/ Register \/ BootFails
  BY <1>1 DEF StartTimers, Register, BootFails
<1>2. CASE ConnectionLost
  BY <1>2 DEF ConnectionLost
<1>3. CASE Reconnect
  BY <1>3 DEF Reconnect
<1>4. ASSUME NEW w \in Worker, StartWorker(w)
      PROVE  TypeInv'
  BY <1>4 DEF StartWorker
<1>5. ASSUME NEW w \in Worker, Step(w) \/ JobEnds(w) \/ ReportFails(w)
      PROVE  TypeInv'
  BY <1>5 DEF Step, Poll, Claimed, PollFails, JobEnds, ReportFails, Goto
<1>6. ASSUME NEW s \in Signal, Unhandled(s) \/ Handle(s)
      PROVE  TypeInv'
  <2>1. CASE Unhandled(s)
    BY <2>1 DEF Unhandled
  <2>2. CASE Handle(s)
    <3> DEFINE told == [w \in Worker |-> "deleting"]
    <3>1. told \in [Worker -> {"none", "deleting", "draining", "clean", "timeout"}]
      OBVIOUS
    <3>2. stop' = [stop EXCEPT ![s] = told]
      BY <2>2 DEF Handle
    <3>3. [w \in Worker |-> FALSE] \in [Worker -> BOOLEAN]
      OBVIOUS
    <3> HIDE DEF told
    <3> QED
      BY <2>2, <3>1, <3>2, <3>3 DEF Handle
  <2> QED
    BY <1>6, <2>1, <2>2
<1>7. ASSUME NEW s \in Signal, Shutdown(s)
      PROVE  TypeInv'
  BY <1>7 DEF Shutdown, StopTimers, ForceExit, CloseServer
<1>8. ASSUME NEW s \in Signal, NEW w \in Worker, Resolving(s, w)
      PROVE  TypeInv'
  BY <1>8 DEF Resolving, StatusDeleted, Drained, DrainTimesOut, Resolve
<1>9. CASE UNCHANGED vars
  BY <1>9 DEF vars
<1> QED
  BY <1>1, <1>2, <1>3, <1>4, <1>5, <1>6, <1>7, <1>8, <1>9 DEF ProcessNext

\* Types hold in every behaviour of a process.
THEOREM ProcessTypes == ProcessSpec => []ProcessTypeOK
<1>1. TypeInv => ProcessTypeOK
  BY DEF TypeInv
<1> QED
  BY <1>1, InitTypes, StepTypes, PTL DEF ProcessSpec

-----------------------------------------------------------------------------
(* The drain                                                               *)

\* A job that is owed still runs, so no stop() call takes its worker for
\* drained; the first signal is before every stop() call, so no call can have
\* found a worker idle that is busy when owed is filled.
OwedRuns == \A w \in owed : chain[w] = "busy"

CleanOwesNothing == \A s \in Signal, w \in Worker : stop[s][w] = "clean" => w \notin owed

\* Once a process closes its server, every worker of that shutdown is clean.
ClosingIsClean == \A s \in Signal : shutdown[s] = "closing" => AllClean(s)

QuietUntilSignalled ==
    signals = 0 => \A s \in Signal, w \in Worker : shutdown[s] = "none" /\ stop[s][w] = "none"

DrainInv == OwedRuns /\ CleanOwesNothing /\ ClosingIsClean /\ QuietUntilSignalled /\ CleanExit

\* Nothing is owed before a signal comes,
LEMMA InitDrain == ProcessInit => DrainInv
BY DEF ProcessInit, DrainInv, OwedRuns, CleanOwesNothing, ClosingIsClean, QuietUntilSignalled,
       CleanExit

\* and every step keeps account of what is.
LEMMA StepDrain ==
    ASSUME TypeInv, DrainInv, [ProcessNext]_vars
    PROVE  DrainInv'
<1> USE DEF TypeInv, ProcessTypeOK, DrainInv, OwedRuns, CleanOwesNothing, ClosingIsClean,
            QuietUntilSignalled, CleanExit, AllClean, Alive,
            bootVars, workVars, connVars, stopVars
<1>1. CASE StartTimers \/ Register \/ BootFails \/ ConnectionLost \/ Reconnect
  BY <1>1 DEF StartTimers, Register, BootFails, ConnectionLost, Reconnect
<1>2. ASSUME NEW w \in Worker, StartWorker(w) \/ Step(w) \/ JobEnds(w) \/ ReportFails(w)
      PROVE  DrainInv'
  BY <1>2 DEF StartWorker, Step, Poll, Claimed, PollFails, JobEnds, ReportFails, Goto
<1>3. ASSUME NEW s \in Signal, Unhandled(s)
      PROVE  DrainInv'
  BY <1>3, Bounds DEF Unhandled
<1>4. ASSUME NEW s \in Signal, Handle(s)
      PROVE  DrainInv'
  <2>1. shutdown' = [shutdown EXCEPT ![s] = "stopping"]
        /\ stop' = [stop EXCEPT ![s] = [w \in Worker |-> "deleting"]]
        /\ shutdown[s] = "none"
    BY <1>4 DEF Handle
  <2>2. OwedRuns'
    BY <1>4 DEF Handle
  <2>3. ClosingIsClean'
    BY <2>1 
  <2>4. CleanOwesNothing'
    BY <1>4, <2>1 DEF Handle
  <2>5. QuietUntilSignalled' /\ CleanExit'
    BY <1>4 DEF Handle
  <2> QED
    BY <2>2, <2>3, <2>4, <2>5
<1>5. ASSUME NEW s \in Signal, StopTimers(s) \/ ForceExit(s)
      PROVE  DrainInv'
  BY <1>5 DEF StopTimers, ForceExit, AllStopped
<1>6. ASSUME NEW s \in Signal, CloseServer(s)
      PROVE  DrainInv'
  BY <1>6 DEF CloseServer
<1>7. ASSUME NEW s \in Signal, NEW w \in Worker, Resolving(s, w)
      PROVE  DrainInv'
  <2>1. PICK to \in {"draining", "clean", "timeout"} :
           /\ stop' = [stop EXCEPT ![s][w] = to]
           /\ to = "clean" => chain[w] # "busy"
    BY <1>7 DEF Resolving, StatusDeleted, Drained, DrainTimesOut, Resolve
  <2>2. stop[s][w] \in {"deleting", "draining"} /\ Alive
    BY <1>7 DEF Resolving, StatusDeleted, Drained, DrainTimesOut
  <2>3. UNCHANGED <<workVars, shutdown, signals, exit>>
    BY <1>7 DEF Resolving, StatusDeleted, Drained, DrainTimesOut
  <2>4. stop'[s][w] = to
    BY <2>1
  <2>5. \A t \in Signal, v \in Worker : (t # s \/ v # w) => stop'[t][v] = stop[t][v]
    BY <2>1
  <2>6. signals # 0 /\ shutdown[s] # "closing"
    BY <2>2
  <2>7. OwedRuns' /\ CleanExit' /\ QuietUntilSignalled'
    BY <2>3, <2>6
  <2>8. CleanOwesNothing'
    BY <2>1, <2>3, <2>4, <2>5
  <2>9. ClosingIsClean'
    BY <2>3, <2>5, <2>6
  <2> QED
    BY <2>7, <2>8, <2>9
<1>8. CASE UNCHANGED vars
  BY <1>8 DEF vars
<1> QED
  BY <1>1, <1>2, <1>3, <1>4, <1>5, <1>6, <1>7, <1>8 DEF ProcessNext, Shutdown

\* When a process exits with code 0, Redis has been told of every job that ran
\* when its first signal came, although a second signal calls stop() again and
\* the connection is lost or ends meanwhile (src/src/shutdown.ts:51-91): a job
\* that cannot be reported ends the process with code 1 (src/src/Worker.ts:222,
\* 305) and stays owed.
THEOREM ExitIsClean == ProcessSpec => []CleanExit
<1>1. DrainInv => CleanExit
  BY DEF DrainInv
<1> QED
  BY <1>1, InitTypes, StepTypes, InitDrain, StepDrain, PTL DEF ProcessSpec
=============================================================================
