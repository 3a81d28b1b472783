------------------------------ MODULE QueueApi ------------------------------
(***************************************************************************)
(* The HTTP API of src/src/api.ts: which handler answers a request, and    *)
(* what each handler changes.  Express takes the first registered route    *)
(* that fits, so the order of Routes is part of the program.               *)
(*                                                                         *)
(* What a handler does to jobs is the subject of QueueStore and QueueAdmin.*)
(* Here the jobs of a queue are a version number that each change raises:  *)
(* enough to tell whether something that was read is still true.           *)
(***************************************************************************)
EXTENDS Integers, Sequences

CONSTANTS
    Queue,      \* the names in the registry
    Home,       \* the queue each job was added to
    MaxVersion  \* bound: further changes to the jobs of a queue are not told apart

ASSUME ApiAssumption == MaxVersion \in Nat /\ \A j \in DOMAIN Home : Home[j] \in Queue

JobId == DOMAIN Home

VARIABLES
    version,    \* how often the jobs of each queue have changed
    pauses,     \* how often the pause key of each queue was set or deleted
    listed      \* the ids in the sets of each queue

apiVars == <<version, pauses, listed>>

ApiInit ==
    /\ version = [q \in Queue |-> 0]
    /\ pauses = [q \in Queue |-> 0]
    /\ listed = [q \in Queue |-> {j \in JobId : Home[j] = q}]

-----------------------------------------------------------------------------
(* The router                                                              *)

Route(method, path, handler) == [method |-> method, path |-> path, handler |-> handler]

OfQueue(rest) == <<"queues", ":name">> \o rest

Routes == <<
    Route("GET",    <<"queues">>,                           "queues"),
    Route("GET",    <<"workers">>,                          "workers"),
    Route("GET",    OfQueue(<<"metrics">>),                 "metrics"),
    Route("GET",    OfQueue(<<"jobs">>),                    "jobs"),
    Route("GET",    OfQueue(<<"jobs", ":id">>),             "job"),
    Route("POST",   OfQueue(<<"jobs">>),                    "add"),
    Route("POST",   OfQueue(<<"jobs", ":id", "retry">>),    "retry"),
    Route("DELETE", OfQueue(<<"jobs", ":id">>),             "cancel"),
    Route("POST",   OfQueue(<<"retry-all">>),               "retryAll"),
    Route("DELETE", OfQueue(<<"jobs", "completed">>),       "clearCompleted"),
    Route("POST",   OfQueue(<<"pause">>),                   "pauseQueue"),
    Route("DELETE", OfQueue(<<"pause">>),                   "resumeQueue"),
    Route("GET",    OfQueue(<<"pause">>),                   "isPaused"),
    Route("POST",   OfQueue(<<"cleanup">>),                 "runCleanup"),
    Route("GET",    OfQueue(<<"throughput">>),              "throughput"),
    Route("GET",    <<"health">>,                           "health") >>

Fits(route, method, path) ==
    /\ route.method = method
    /\ Len(route.path) = Len(path)
    /\ \A i \in DOMAIN path : route.path[i] \in {path[i], ":name", ":id"}

\* The handler of the first route that fits.
HandlerOf(method, path) ==
    LET fitting == {i \in DOMAIN Routes : Fits(Routes[i], method, path)}
        first == CHOOSE i \in fitting : \A k \in fitting : i <= k
    IN  Routes[first].handler

-----------------------------------------------------------------------------
(* The handlers.  q and id are the parameters of the path, ok is whether   *)
(* the answer is a success.                                                *)

JobsChange(q) == version' = [version EXCEPT ![q] = IF @ < MaxVersion THEN @ + 1 ELSE @]

\* The jobs of q change, unless there is none the call applies to.
JobsMayChange(q) == JobsChange(q) \/ UNCHANGED version

List(q, id) == listed' = [listed EXCEPT ![q] = @ \cup {id}]

AddJob(q, id, ok) == ok /\ JobsChange(q) /\ List(q, id) /\ UNCHANGED pauses

\* Mutant of RetryJob: the failed set is not looked at.
RetryAnyJob(q, id, ok) == ok /\ JobsChange(q) /\ List(q, id) /\ UNCHANGED pauses

\* The job is in the failed set of q, or the answer is 404.
RetryJob(q, id, ok) ==
    IF ok THEN id \in listed[q] /\ JobsChange(q) /\ List(q, id) /\ UNCHANGED pauses
          ELSE UNCHANGED apiVars

\* cancel finds nothing wrong with any id.
CancelJob(q, id, ok) == ok /\ JobsChange(q) /\ List(q, id) /\ UNCHANGED pauses

RetryAllJobs(q, ok) == ok /\ JobsMayChange(q) /\ UNCHANGED <<pauses, listed>>

ClearCompleted(q, ok) == ok /\ JobsMayChange(q) /\ UNCHANGED <<pauses, listed>>

RunCleanup(q, ok) == ok /\ JobsMayChange(q) /\ UNCHANGED <<pauses, listed>>

\* Whether the key is there after it was set and deleted in turn n times.
IsPaused(n) == n % 2 = 1

SetPaused(q, value, ok) ==
    /\ ok
    /\ pauses' = [pauses EXCEPT ![q] = IF IsPaused(@) = value THEN @ ELSE @ + 1]
    /\ UNCHANGED <<version, listed>>

\* One request about queue path[2] is answered.
Answer(method, path, ok) ==
    LET q == path[2]
        id == IF Len(path) > 3 THEN path[4] ELSE "none"
        h == HandlerOf(method, path)
    IN  \/ h = "retry" /\ RetryJob(q, id, ok)
        \/ h = "cancel" /\ CancelJob(q, id, ok)
        \/ h = "retryAll" /\ RetryAllJobs(q, ok)
        \/ h = "clearCompleted" /\ ClearCompleted(q, ok)
        \/ h = "runCleanup" /\ RunCleanup(q, ok)
        \/ h = "pauseQueue" /\ SetPaused(q, TRUE, ok)
        \/ h = "resumeQueue" /\ SetPaused(q, FALSE, ok)
        \/ h \in {"metrics", "jobs", "job", "isPaused"} /\ ok /\ UNCHANGED apiVars

\* No click of the page makes a queue list an id that was not added to it: a row
\* shown before the selection changed sends its id to the queue selected now,
\* and retry finds no such job there.  It is about the page's clicks: cancel
\* takes any id (src/src/api.ts:152, src/src/lua/cancel.lua), and other clients
\* are taken to cancel only ids they saw listed.  DELETE jobs/completed is
\* excepted: it reaches the handler that cancels a job.
NoStrayJobs == \A q \in Queue : listed[q] \subseteq {j \in JobId : Home[j] = q} \cup {"completed"}

\* src/README.md:205, "`DELETE` | `/api/queues/:name/jobs/completed` | Clear
\* old completed jobs": no job of that name is cancelled instead.  The route
\* is registered after DELETE jobs/:id (src/src/api.ts:152, 182), which fits.
ClearCancelsNothing == \A q \in Queue : "completed" \notin listed[q]
=============================================================================
