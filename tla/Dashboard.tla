----------------------------- MODULE Dashboard -----------------------------
(***************************************************************************)
(* The dashboard of src/dashboard/src/App.tsx as a client of QueueApi: one *)
(* open page, its operator, and the answers that are on their way to it.   *)
(*                                                                         *)
(* A handler of the page runs without interleaving up to its next await.   *)
(* What it captured when it began (the selected queue, the filter, the     *)
(* label of the pause button) stays with it: answers are applied in the    *)
(* order in which they arrive, whatever the page shows by then.            *)
(***************************************************************************)
EXTENDS QueueApi, FiniteSets, SequencesExt

CONSTANTS
    FirstQueue,     \* data.queues[0]
    NoQueue,        \* selectedQueue before the list arrived
    Filter,         \* the statuses the operator looks at
    NReads,         \* bound: the refreshes in flight that no answer started
    NAsks,          \* bound: the reads of the pause key in flight
    MaxClicks,      \* bound: what the operator does
    MaxErrors,      \* bound: the requests that fail
    Busy            \* bound: the queues workers and other clients use

ASSUME DashboardAssumption ==
    /\ FirstQueue \in Queue /\ Busy \subseteq Queue /\ NoQueue \notin Queue /\ "waiting" \in Filter
    /\ {NReads, NAsks, MaxClicks, MaxErrors} \subseteq Nat

VARIABLES
    list,           \* the answer of GET /queues: "asked", "known" or "failed"
    sel, filter,    \* selectedQueue and statusFilter
    metrics,        \* what the counters were read from, none before
    rows,           \* the pages of jobs in the table
    isPaused, isRefreshing, loading, error,
    reads,          \* the refreshes that wait for their two answers, as sent
    asks,           \* the reads of the pause key that wait for theirs
    clicks,         \* the operator's requests, in the order of the clicks
    clicked, errors     \* how often each bounded thing has happened

selection == <<list, sel, filter>>
view == <<metrics, rows, isPaused, isRefreshing, loading, error>>
requests == <<reads, asks, clicks>>
counts == <<clicked, errors>>
dashVars == <<apiVars, selection, view, requests, counts>>

Unread == -1
NoMetrics == [queue |-> NoQueue, version |-> Unread]

\* A page of the table: what it was asked for, and when it was read.
Page(q, f, v, at) == [queue |-> q, filter |-> f, version |-> v, at |-> at]

DashInit ==
    /\ ApiInit
    /\ list = "asked" /\ sel = NoQueue /\ filter = "waiting"
    /\ metrics = NoMetrics /\ rows = {}
    /\ isPaused = FALSE /\ isRefreshing = FALSE /\ loading = TRUE /\ error = FALSE
    /\ reads = <<>> /\ asks = <<>> /\ clicks = <<>>
    /\ clicked = 0 /\ errors = 0

-----------------------------------------------------------------------------
(* refreshDashboard, the reads of the pause key, and the effects that      *)
(* start them                                                              *)

\* A request that is under way was sent when its queue had version "since"; a
\* read of the pause key, when the key had changed "since" times.
Refresh(q, f, manual) ==
    [queue |-> q, filter |-> f, manual |-> manual, since |-> version[q]]

\* refreshDashboard(manual), called with queue q and filter f in its closure.
StartRefresh(q, f, manual) ==
    /\ Len(reads) < NReads
    /\ reads' = Append(reads, Refresh(q, f, manual))

StartAsk(q) ==
    /\ Len(asks) < NAsks
    /\ asks' = Append(asks, [queue |-> q, since |-> pauses[q]])

\* The effects that depend on selectedQueue, after it became q.
OnSelect(q, f) == StartRefresh(q, f, FALSE) /\ StartAsk(q)

QueuesListed ==
    /\ list = "asked"
    /\ list' = "known" /\ sel' = FirstQueue
    /\ OnSelect(FirstQueue, filter)
    /\ UNCHANGED <<apiVars, filter, view, clicks, counts>>

\* Mutant of QueuesFailed: the list counts as known.
QueuesFailedAnyway ==
    /\ list = "asked" /\ errors < MaxErrors
    /\ list' = "known" /\ error' = TRUE /\ errors' = errors + 1
    /\ UNCHANGED <<apiVars, sel, filter, metrics, rows, isPaused, isRefreshing, loading,
                   requests, clicked>>

\* Nothing asks again.
QueuesFailed ==
    /\ list = "asked" /\ errors < MaxErrors
    /\ list' = "failed" /\ error' = TRUE /\ errors' = errors + 1
    /\ UNCHANGED <<apiVars, sel, filter, metrics, rows, isPaused, isRefreshing, loading,
                   requests, clicked>>

\* Mutant of PollRefresh: the interval keeps the closure of its first effect.
PollRefreshFirst ==
    /\ sel # NoQueue
    /\ Len(reads) + 1 < NReads
    /\ StartRefresh(FirstQueue, "waiting", FALSE)
    /\ UNCHANGED <<apiVars, selection, view, asks, clicks, counts>>

\* The interval, which each change of queue or filter creates anew.  Bound:
\* it leaves room for a refresh that something else starts.
PollRefresh ==
    /\ sel # NoQueue
    /\ Len(reads) + 1 < NReads
    /\ StartRefresh(sel, filter, FALSE)
    /\ UNCHANGED <<apiVars, selection, view, asks, clicks, counts>>

PollPause ==
    /\ sel # NoQueue
    /\ Len(asks) + 1 < NAsks
    /\ StartAsk(sel)
    /\ UNCHANGED <<apiVars, selection, view, reads, clicks, counts>>

\* The finally of refreshDashboard.
FinishRefresh(r) ==
    /\ reads' = RemoveAt(reads, r)
    /\ isRefreshing' = (isRefreshing /\ ~reads[r].manual)
    /\ loading' = FALSE

\* Both answers have arrived.  Each was read at some moment on the way.
ShowRefresh(r) ==
    /\ LET q == reads[r].queue
       IN  \E m, j \in reads[r].since .. version[q] :
              /\ metrics' = [queue |-> q, version |-> m]
              /\ rows' = {Page(q, reads[r].filter, j, "first")}
    /\ error' = FALSE
    /\ FinishRefresh(r)
    /\ UNCHANGED <<apiVars, selection, isPaused, asks, clicks, counts>>

\* One request is not answered, or answered with an error.
RefreshFails(r) ==
    /\ errors < MaxErrors
    /\ errors' = errors + 1
    /\ error' \in {TRUE, error}
    /\ FinishRefresh(r)
    /\ UNCHANGED <<apiVars, selection, metrics, rows, isPaused, asks, clicks, clicked>>

ShowPause(a) ==
    /\ \E n \in asks[a].since .. pauses[asks[a].queue] : isPaused' = IsPaused(n)
    /\ asks' = RemoveAt(asks, a)
    /\ UNCHANGED <<apiVars, selection, metrics, rows, isRefreshing, loading, error,
                   reads, clicks, counts>>

PauseFails(a) ==
    /\ errors < MaxErrors
    /\ errors' = errors + 1
    /\ asks' = RemoveAt(asks, a)
    /\ UNCHANGED <<apiVars, selection, view, reads, clicks, clicked>>

-----------------------------------------------------------------------------
(* The operator                                                            *)

Clicks == clicked < MaxClicks /\ sel # NoQueue /\ clicked' = clicked + 1

SelectQueue(q) ==
    /\ Clicks /\ q # sel
    /\ sel' = q
    /\ OnSelect(q, filter)
    /\ UNCHANGED <<apiVars, list, filter, view, clicks, errors>>

\* The table is emptied even when the filter stays what it is.
SelectFilter(f) ==
    /\ Clicks
    /\ filter' = f /\ rows' = {}
    /\ IF f # filter THEN StartRefresh(sel, f, FALSE) ELSE UNCHANGED reads
    /\ UNCHANGED <<apiVars, list, sel, metrics, isPaused, isRefreshing, loading, error,
                   asks, clicks, errors>>

RefreshNow ==
    /\ Clicks
    /\ StartRefresh(sel, filter, TRUE)
    /\ isRefreshing' = TRUE
    /\ UNCHANGED <<apiVars, selection, metrics, rows, isPaused, loading, error, asks, clicks, errors>>

\* A button of that kind is disabled while its request is under way.
Pending(kind) == \E c \in DOMAIN clicks : clicks[c].kind = kind

Send(kind, id) ==
    clicks' = Append(clicks, [at |-> "sent", kind |-> kind, queue |-> sel, filter |-> filter,
                              id |-> id, label |-> isPaused, version |-> Unread, ok |-> FALSE])

\* Row buttons: retryJob sends the id of a row and the queue selected now.
ClickRetry(j) ==
    /\ Clicks
    /\ \E page \in rows : page.queue = Home[j]
    /\ Send("retry", j)
    /\ UNCHANGED <<apiVars, selection, view, reads, asks, errors>>

ClickButton(kind) ==
    /\ Clicks /\ ~Pending(kind)
    /\ Send(kind, "none")
    /\ UNCHANGED <<apiVars, selection, view, reads, asks, errors>>

\* loadMoreJobs, offered below a full page.
ClickMore ==
    /\ Clicks /\ ~isRefreshing /\ rows # {}
    /\ isRefreshing' = TRUE
    /\ Send("more", "none")
    /\ UNCHANGED <<apiVars, selection, metrics, rows, isPaused, loading, error, reads, asks, errors>>

\* What the page sends for a click.
MethodOf(click) ==
    CASE click.kind \in {"retry", "retryAll", "cleanup"} -> "POST"
      [] click.kind = "clear"                            -> "DELETE"
      [] click.kind = "pause"                            -> IF click.label THEN "DELETE" ELSE "POST"
      [] click.kind = "more"                             -> "GET"

PathOf(click) ==
    <<"queues", click.queue>> \o
    CASE click.kind = "retry"    -> <<"jobs", click.id, "retry">>
      [] click.kind = "retryAll" -> <<"retry-all">>
      [] click.kind = "cleanup"  -> <<"cleanup">>
      [] click.kind = "clear"    -> <<"jobs", "completed">>
      [] click.kind = "pause"    -> <<"pause">>
      [] click.kind = "more"     -> <<"jobs">>

Answered(c) ==
    /\ clicks[c].at = "sent"
    /\ \E ok \in BOOLEAN :
          /\ Answer(MethodOf(clicks[c]), PathOf(clicks[c]), ok)
          /\ clicks' = [clicks EXCEPT ![c].at = "answered", ![c].ok = ok,
                                      ![c].version = version[clicks[c].queue]]
    /\ UNCHANGED <<selection, view, reads, asks, counts>>

\* refreshDashboard(true), with the closure of the click.
AndRefresh(c, sent) ==
    /\ reads' = Append(sent, Refresh(clicks[c].queue, clicks[c].filter, TRUE))
    /\ isRefreshing' = TRUE

\* retryJob and clearOldCompleted look at the answer; runCleanup does not, and
\* refreshes after an error answer too (see ClickFails).
AfterRefreshing(c) ==
    /\ clicks[c].kind \in {"cleanup", "retry", "clear"}
    /\ IF clicks[c].ok THEN AndRefresh(c, reads) ELSE UNCHANGED <<reads, isRefreshing>>
    /\ UNCHANGED <<filter, rows, isPaused>>

\* The filter changes, whose effect refreshes with the selection of now.
AfterRetryAll(c) ==
    /\ clicks[c].kind = "retryAll"
    /\ filter' = "waiting"
    /\ AndRefresh(c, IF filter = "waiting" THEN reads
                     ELSE Append(reads, Refresh(sel, "waiting", FALSE)))
    /\ UNCHANGED <<rows, isPaused>>

AfterPause(c) ==
    /\ clicks[c].kind = "pause"
    /\ isPaused' = ~clicks[c].label
    /\ UNCHANGED <<filter, rows, reads, isRefreshing>>

AfterMore(c) ==
    /\ clicks[c].kind = "more"
    /\ rows' = rows \cup {Page(clicks[c].queue, clicks[c].filter, clicks[c].version, "more")}
    /\ isRefreshing' = FALSE
    /\ UNCHANGED <<filter, isPaused, reads>>

\* The answer arrives and the button is enabled again.
Arrived(c) ==
    /\ clicks[c].at = "answered"
    /\ AfterRefreshing(c) \/ AfterRetryAll(c) \/ AfterPause(c) \/ AfterMore(c)
    /\ clicks' = RemoveAt(clicks, c)
    /\ UNCHANGED <<apiVars, list, sel, metrics, loading, error, asks, counts>>

\* The request or its answer is lost, or the answer is an error.
ClickFails(c) ==
    /\ errors < MaxErrors
    /\ errors' = errors + 1
    /\ clicks' = RemoveAt(clicks, c)
    /\ \/ clicks[c].kind = "cleanup" /\ AndRefresh(c, reads)
       \/ isRefreshing' = (isRefreshing /\ clicks[c].kind # "more") /\ UNCHANGED reads
    /\ UNCHANGED <<apiVars, selection, metrics, rows, isPaused, loading, error, asks, clicked>>

\* Workers, and other clients of the API.
Others ==
    /\ \E q \in Busy :
          \/ JobsChange(q) /\ UNCHANGED <<pauses, listed>>
          \/ \E j \in listed[q] : AddJob(q, j, TRUE) \/ CancelJob(q, j, TRUE)
    /\ UNCHANGED <<selection, view, requests, counts>>

-----------------------------------------------------------------------------
Buttons == {"retryAll", "cleanup", "clear", "pause"}

DashNext ==
    \/ QueuesListed \/ QueuesFailed \/ PollRefresh \/ PollPause
    \/ \E r \in DOMAIN reads : ShowRefresh(r) \/ RefreshFails(r)
    \/ \E a \in DOMAIN asks : ShowPause(a) \/ PauseFails(a)
    \/ \E q \in Queue : SelectQueue(q)
    \/ \E f \in Filter : SelectFilter(f)
    \/ \E j \in JobId : ClickRetry(j)
    \/ \E kind \in Buttons : ClickButton(kind)
    \/ RefreshNow \/ ClickMore
    \/ \E c \in DOMAIN clicks : Answered(c) \/ Arrived(c) \/ ClickFails(c)
    \/ Others

\* The API answers, the browser runs its timers and applies what arrives:
\* what was sent first does not wait for ever, so nothing does.
DashFairness ==
    /\ WF_dashVars(PollRefresh) /\ WF_dashVars(PollPause)
    /\ WF_dashVars(reads # <<>> /\ ShowRefresh(1))
    /\ WF_dashVars(asks # <<>> /\ ShowPause(1))
    /\ WF_dashVars(clicks # <<>> /\ (Answered(1) \/ Arrived(1)))

DashSpec == DashInit /\ [][DashNext]_dashVars /\ DashFairness

-----------------------------------------------------------------------------
\* Every variable has a value of its type.
DashTypeOK ==
    /\ version \in [Queue -> Nat] /\ pauses \in [Queue -> Nat]
    /\ list \in {"asked", "known", "failed"}
    /\ sel \in Queue \cup {NoQueue} /\ filter \in Filter
    /\ {isPaused, isRefreshing, loading, error} \subseteq BOOLEAN
    /\ list = "known" <=> sel # NoQueue
    /\ \A page \in rows : page.queue \in Queue /\ page.filter \in Filter /\ page.version \in Nat
    /\ metrics = NoMetrics \/ metrics.queue \in Queue

\* What the page shows is what it says it shows: the counters and the first
\* page of the selected queue and filter, and its pause state, as they are;
\* no error, and every button enabled.
ViewIsCurrent ==
    /\ metrics = [queue |-> sel, version |-> version[sel]]
    /\ rows = {Page(sel, filter, version[sel], "first")}
    /\ isPaused = IsPaused(pauses[sel])
    /\ ~error /\ ~loading /\ ~isRefreshing
    /\ clicks = <<>>

\* Once the page has its list of queues, it ends by showing what is true,
\* although answers overtake each other, arrive after the operator selected
\* another queue or filter, or fail, and although handlers refresh with the
\* selection of the click rather than that of now
\* (src/dashboard/src/App.tsx:167-190, 309-356).
ViewConverges == <>[](list = "known" => ViewIsCurrent)
=============================================================================
