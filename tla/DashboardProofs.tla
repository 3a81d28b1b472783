-------------------------- MODULE DashboardProofs --------------------------
(***************************************************************************)
(* Theorems about Dashboard and the API it talks to, for any queues, jobs, *)
(* filters and bounds.                                                     *)
(***************************************************************************)
EXTENDS Dashboard, SequenceTheorems, WellFoundedInduction, TLAPS

-----------------------------------------------------------------------------
(* The router                                                              *)

\* A set of positions that is not empty has a first one.
LEMMA FirstPosition ==
    ASSUME NEW n \in Nat, NEW S \in SUBSET (1 .. n), S # {}
    PROVE  \E i \in S : \A k \in S : i <= k
<1> DEFINE Below == OpToRel(<, Nat)
<1>1. IsWellFoundedOn(Below, Nat)
  BY NatLessThanWellFounded
<1>2. \A i, k \in Nat : k < i => <<k, i>> \in Below
  BY DEF OpToRel
<1> HIDE DEF Below
<1>3. S \subseteq Nat
  OBVIOUS
<1>4. PICK i \in S : \A k \in S : ~(<<k, i>> \in Below)
  BY <1>1, <1>3, WFMin
<1>5. ASSUME NEW k \in S PROVE i <= k
  <2>1. i \in Nat /\ k \in Nat /\ ~(k < i)
    BY <1>2, <1>3, <1>4
  <2>2. QED BY <2>1
<1>6. QED BY <1>5

\* Concatenation of two short tuples.
LEMMA Joined ==
    ASSUME NEW S, NEW f \in Seq(S), NEW r \in Seq(S), NEW t \in Seq(S),
           Len(f) = 2, Len(t) = 2 + Len(r), t[1] = f[1], t[2] = f[2],
           \A i \in 1 .. Len(r) : t[i + 2] = r[i]
    PROVE  f \o r = t
<1>1. /\ f \o r \in Seq(S) /\ Len(f \o r) = Len(f) + Len(r)
      /\ \A i \in 1 .. Len(f) + Len(r) :
            (f \o r)[i] = IF i <= Len(f) THEN f[i] ELSE r[i - Len(f)]
  BY ConcatProperties
<1>2. Len(r) \in Nat
  BY LenProperties
<1>3. ASSUME NEW i \in 1 .. Len(t) PROVE (f \o r)[i] = t[i]
  <2>0. i \in Int /\ Len(t) = 2 + Len(r)
    BY <1>2
  <2>1. CASE i <= 2
    BY <1>1, <1>2, <2>1
  <2>2. CASE i > 2
    <3>1. i - 2 \in 1 .. Len(r) /\ (i - 2) + 2 = i
      BY <1>2, <2>2
    <3>2. t[(i - 2) + 2] = r[i - 2]
      BY <3>1
    <3>3. (f \o r)[i] = r[i - 2]
      BY <1>1, <1>2, <2>2
    <3>4. QED BY <3>1, <3>2, <3>3
  <2>3. i <= 2 \/ i > 2
    BY <2>0
  <2>4. QED BY <2>1, <2>2, <2>3
<1>4. Len(f \o r) = Len(t)
  BY <1>1
<1>5. \A i \in 1 .. Len(f \o r) : (f \o r)[i] = t[i]
  BY <1>3, <1>4
<1>6. QED BY <1>1, <1>4, <1>5, SeqEqual

\* The paths of a queue, as registered and as sent.
LEMMA QueuePaths ==
    ASSUME NEW q, NEW a, NEW b, NEW c
    PROVE  /\ <<"queues", q>> \o <<a>> = <<"queues", q, a>>
           /\ <<"queues", q>> \o <<a, b>> = <<"queues", q, a, b>>
           /\ <<"queues", q>> \o <<a, b, c>> = <<"queues", q, a, b, c>>
<1> DEFINE S == {"queues", q, a, b, c}
           f == <<"queues", q>>
<1>1. f \in Seq(S) /\ Len(f) = 2 /\ f[1] = "queues" /\ f[2] = q
  OBVIOUS
<1>2. f \o <<a>> = <<"queues", q, a>>
  <2> DEFINE r == <<a>>
             t == <<"queues", q, a>>
  <2>1. r \in Seq(S) /\ Len(r) = 1 /\ r[1] = a
    OBVIOUS
  <2>2. t \in Seq(S) /\ Len(t) = 3 /\ t[1] = "queues" /\ t[2] = q /\ t[3] = a
    OBVIOUS
  <2> HIDE DEF f, r, t, S
  <2>3. /\ Len(t) = 2 + Len(r) /\ t[1] = f[1] /\ t[2] = f[2]
        /\ \A i \in 1 .. Len(r) : t[i + 2] = r[i]
    BY <1>1, <2>1, <2>2
  <2>4. f \o r = t
    BY <1>1, <2>1, <2>2, <2>3, Joined
  <2>5. QED BY <2>4 DEF f, r, t
<1>3. f \o <<a, b>> = <<"queues", q, a, b>>
  <2> DEFINE r == <<a, b>>
             t == <<"queues", q, a, b>>
  <2>1. r \in Seq(S) /\ Len(r) = 2 /\ r[1] = a /\ r[2] = b
    OBVIOUS
  <2>2. t \in Seq(S) /\ Len(t) = 4 /\ t[1] = "queues" /\ t[2] = q /\ t[3] = a /\ t[4] = b
    OBVIOUS
  <2> HIDE DEF f, r, t, S
  <2>3. /\ Len(t) = 2 + Len(r) /\ t[1] = f[1] /\ t[2] = f[2]
        /\ \A i \in 1 .. Len(r) : t[i + 2] = r[i]
    BY <1>1, <2>1, <2>2
  <2>4. f \o r = t
    BY <1>1, <2>1, <2>2, <2>3, Joined
  <2>5. QED BY <2>4 DEF f, r, t
<1>4. f \o <<a, b, c>> = <<"queues", q, a, b, c>>
  <2> DEFINE r == <<a, b, c>>
             t == <<"queues", q, a, b, c>>
  <2>1. r \in Seq(S) /\ Len(r) = 3 /\ r[1] = a /\ r[2] = b /\ r[3] = c
    OBVIOUS
  <2>2. /\ t \in Seq(S) /\ Len(t) = 5 /\ t[1] = "queues" /\ t[2] = q
        /\ t[3] = a /\ t[4] = b /\ t[5] = c
    OBVIOUS
  <2> HIDE DEF f, r, t, S
  <2>3. /\ Len(t) = 2 + Len(r) /\ t[1] = f[1] /\ t[2] = f[2]
        /\ \A i \in 1 .. Len(r) : t[i + 2] = r[i]
    BY <1>1, <2>1, <2>2
  <2>4. f \o r = t
    BY <1>1, <2>1, <2>2, <2>3, Joined
  <2>5. QED BY <2>4 DEF f, r, t
<1>5. QED BY <1>2, <1>3, <1>4

\* The registered routes that the page uses.
LEMMA Registered ==
    /\ DOMAIN Routes = 1 .. 16
    /\ Routes[4]  = Route("GET", <<"queues", ":name", "jobs">>, "jobs")
    /\ Routes[7]  = Route("POST", <<"queues", ":name", "jobs", ":id", "retry">>, "retry")
    /\ Routes[8]  = Route("DELETE", <<"queues", ":name", "jobs", ":id">>, "cancel")
    /\ Routes[9]  = Route("POST", <<"queues", ":name", "retry-all">>, "retryAll")
    /\ Routes[11] = Route("POST", <<"queues", ":name", "pause">>, "pauseQueue")
    /\ Routes[12] = Route("DELETE", <<"queues", ":name", "pause">>, "resumeQueue")
    /\ Routes[14] = Route("POST", <<"queues", ":name", "cleanup">>, "runCleanup")
<1>1. \A a, b, c : /\ OfQueue(<<a>>) = <<"queues", ":name", a>>
                   /\ OfQueue(<<a, b>>) = <<"queues", ":name", a, b>>
                   /\ OfQueue(<<a, b, c>>) = <<"queues", ":name", a, b, c>>
  BY QueuePaths DEF OfQueue
<1>2. DOMAIN Routes = 1 .. 16
  BY DEF Routes
<1>3. /\ Routes[4]  = Route("GET", OfQueue(<<"jobs">>), "jobs")
      /\ Routes[7]  = Route("POST", OfQueue(<<"jobs", ":id", "retry">>), "retry")
      /\ Routes[8]  = Route("DELETE", OfQueue(<<"jobs", ":id">>), "cancel")
      /\ Routes[9]  = Route("POST", OfQueue(<<"retry-all">>), "retryAll")
      /\ Routes[11] = Route("POST", OfQueue(<<"pause">>), "pauseQueue")
      /\ Routes[12] = Route("DELETE", OfQueue(<<"pause">>), "resumeQueue")
      /\ Routes[14] = Route("POST", OfQueue(<<"cleanup">>), "runCleanup")
  BY DEF Routes
<1>4. QED BY <1>1, <1>2, <1>3

\* One route has the handler of cancel.
LEMMA OneCancelRoute ==
    ASSUME NEW i \in DOMAIN Routes, Routes[i].handler = "cancel"
    PROVE  i = 8
<1>1. i \in 1 .. 16
  BY Registered
<1>2. QED BY <1>1 DEF Routes, Route

\* HandlerOf takes the handler of a route that fits, if there is one.
LEMMA HandlerFits ==
    ASSUME NEW m, NEW p, NEW n \in DOMAIN Routes, Fits(Routes[n], m, p)
    PROVE  \E i \in DOMAIN Routes : Fits(Routes[i], m, p) /\ HandlerOf(m, p) = Routes[i].handler
<1> DEFINE fitting == {i \in DOMAIN Routes : Fits(Routes[i], m, p)}
           first == CHOOSE i \in fitting : \A k \in fitting : i <= k
<1>1. fitting \in SUBSET (1 .. 16) /\ fitting # {}
  BY Registered
<1>2. \E i \in fitting : \A k \in fitting : i <= k
  <2> HIDE DEF fitting
  <2>1. QED BY <1>1, FirstPosition
<1>3. first \in fitting
  <2> HIDE DEF fitting
  <2>1. QED BY <1>2
<1>4. HandlerOf(m, p) = Routes[first].handler
  BY DEF HandlerOf
<1>5. QED BY <1>3, <1>4

-----------------------------------------------------------------------------
(* Requests                                                                *)

ReadType == [queue : Queue, filter : Filter, manual : BOOLEAN, since : Nat]

AskType == [queue : Queue, since : Nat]

ClickType == [at : {"sent", "answered"}, kind : Buttons \cup {"retry", "more"}, queue : Queue,
              filter : Filter, id : JobId \cup {"none"}, label : BOOLEAN,
              version : Int, ok : BOOLEAN]

\* A path is as long as its kind says, and the third and fifth parts tell the
\* kinds apart.
LEMMA SentPaths ==
    ASSUME NEW click \in ClickType
    PROVE  PathOf(click) =
             CASE click.kind = "retry"    -> <<"queues", click.queue, "jobs", click.id, "retry">>
               [] click.kind = "retryAll" -> <<"queues", click.queue, "retry-all">>
               [] click.kind = "cleanup"  -> <<"queues", click.queue, "cleanup">>
               [] click.kind = "clear"    -> <<"queues", click.queue, "jobs", "completed">>
               [] click.kind = "pause"    -> <<"queues", click.queue, "pause">>
               [] click.kind = "more"     -> <<"queues", click.queue, "jobs">>
<1>1. click.kind \in {"retry", "retryAll", "cleanup", "clear", "pause", "more"}
  BY DEF ClickType, Buttons
<1>2. CASE click.kind = "retry"
  <2>1. PathOf(click) = <<"queues", click.queue>> \o <<"jobs", click.id, "retry">>
    BY <1>2 DEF PathOf
  <2>2. PathOf(click) = <<"queues", click.queue, "jobs", click.id, "retry">>
    BY <2>1, QueuePaths
  <2>3. QED BY <1>2, <2>2
<1>3. CASE click.kind = "retryAll"
  BY <1>3, QueuePaths DEF PathOf
<1>4. CASE click.kind = "cleanup"
  BY <1>4, QueuePaths DEF PathOf
<1>5. CASE click.kind = "clear"
  BY <1>5, QueuePaths DEF PathOf
<1>6. CASE click.kind = "pause"
  BY <1>6, QueuePaths DEF PathOf
<1>7. CASE click.kind = "more"
  BY <1>7, QueuePaths DEF PathOf
<1>8. QED BY <1>1, <1>2, <1>3, <1>4, <1>5, <1>6, <1>7

\* Some route fits every request of the page.
LEMMA SomethingFits ==
    ASSUME NEW click \in ClickType, click.kind # "clear"
    PROVE  \E n \in DOMAIN Routes : Fits(Routes[n], MethodOf(click), PathOf(click))
<1>1. click.kind \in {"retry", "retryAll", "cleanup", "pause", "more"}
  BY DEF ClickType, Buttons
<1>2. CASE click.kind = "retry"
  <2>1. /\ PathOf(click) = <<"queues", click.queue, "jobs", click.id, "retry">>
        /\ MethodOf(click) = "POST"
    BY <1>2, SentPaths DEF MethodOf
  <2>2. Fits(Route("POST", <<"queues", ":name", "jobs", ":id", "retry">>, "retry"),
              "POST", <<"queues", click.queue, "jobs", click.id, "retry">>)
    BY DEF Fits, Route
  <2>3. QED BY <2>1, <2>2, Registered
<1>3. CASE click.kind = "retryAll"
  <2>1. /\ PathOf(click) = <<"queues", click.queue, "retry-all">>
        /\ MethodOf(click) = "POST"
    BY <1>3, SentPaths DEF MethodOf
  <2>2. Fits(Route("POST", <<"queues", ":name", "retry-all">>, "retryAll"),
              "POST", <<"queues", click.queue, "retry-all">>)
    BY DEF Fits, Route
  <2>3. QED BY <2>1, <2>2, Registered
<1>4. CASE click.kind = "cleanup"
  <2>1. /\ PathOf(click) = <<"queues", click.queue, "cleanup">>
        /\ MethodOf(click) = "POST"
    BY <1>4, SentPaths DEF MethodOf
  <2>2. Fits(Route("POST", <<"queues", ":name", "cleanup">>, "runCleanup"),
              "POST", <<"queues", click.queue, "cleanup">>)
    BY DEF Fits, Route
  <2>3. QED BY <2>1, <2>2, Registered
<1>5. CASE click.kind = "pause" /\ click.label
  <2>1. /\ PathOf(click) = <<"queues", click.queue, "pause">>
        /\ MethodOf(click) = "DELETE"
    BY <1>5, SentPaths DEF MethodOf
  <2>2. Fits(Route("DELETE", <<"queues", ":name", "pause">>, "resumeQueue"),
              "DELETE", <<"queues", click.queue, "pause">>)
    BY DEF Fits, Route
  <2>3. QED BY <2>1, <2>2, Registered
<1>6. CASE click.kind = "pause" /\ ~click.label
  <2>1. /\ PathOf(click) = <<"queues", click.queue, "pause">>
        /\ MethodOf(click) = "POST"
    BY <1>6, SentPaths DEF MethodOf
  <2>2. Fits(Route("POST", <<"queues", ":name", "pause">>, "pauseQueue"),
              "POST", <<"queues", click.queue, "pause">>)
    BY DEF Fits, Route
  <2>3. QED BY <2>1, <2>2, Registered
<1>7. CASE click.kind = "more"
  <2>1. /\ PathOf(click) = <<"queues", click.queue, "jobs">>
        /\ MethodOf(click) = "GET"
    BY <1>7, SentPaths DEF MethodOf
  <2>2. Fits(Route("GET", <<"queues", ":name", "jobs">>, "jobs"),
              "GET", <<"queues", click.queue, "jobs">>)
    BY DEF Fits, Route
  <2>3. QED BY <2>1, <2>2, Registered
<1>8. QED BY <1>1, <1>2, <1>3, <1>4, <1>5, <1>6, <1>7 DEF ClickType

\* Only the button that clears the history reaches the handler of cancel.
LEMMA OnlyClearCancels ==
    ASSUME NEW click \in ClickType,
           HandlerOf(MethodOf(click), PathOf(click)) = "cancel"
    PROVE  click.kind = "clear"
<1> SUFFICES ASSUME click.kind # "clear" PROVE FALSE
  OBVIOUS
<1>1. PICK i \in DOMAIN Routes : /\ Fits(Routes[i], MethodOf(click), PathOf(click))
                                 /\ Routes[i].handler = "cancel"
  BY SomethingFits, HandlerFits
<1>2. i = 8
  BY <1>1, OneCancelRoute
<1>3. MethodOf(click) = "DELETE" /\ Len(PathOf(click)) = 4
  BY <1>1, <1>2, Registered DEF Fits, Route
<1>4. click.kind = "pause"
  BY <1>3 DEF MethodOf, ClickType, Buttons
<1>5. Len(PathOf(click)) = 3
  BY <1>4, SentPaths
<1>6. QED BY <1>3, <1>5

-----------------------------------------------------------------------------
(* Invariant                                                               *)

\* The version an answer was read at is known once there is one.
AnsweredOnce(click) == click.at = "answered" => click.version \in Nat

DashInv ==
    /\ DashTypeOK /\ NoStrayJobs
    /\ listed \in [Queue -> SUBSET (JobId \cup {"completed"})]
    /\ reads \in Seq(ReadType) /\ asks \in Seq(AskType) /\ clicks \in Seq(ClickType)
    /\ \A c \in DOMAIN clicks : AnsweredOnce(clicks[c])
    /\ sel = NoQueue => clicks = <<>>

\* What an answer leaves of the requests in flight were requests before.
LEMMA RemovedIsSeq ==
    ASSUME NEW S, NEW s \in Seq(S), NEW i \in DOMAIN s
    PROVE  /\ RemoveAt(s, i) \in Seq(S)
           /\ \A k \in DOMAIN RemoveAt(s, i) : \E n \in DOMAIN s : RemoveAt(s, i)[k] = s[n]
<1>1. DOMAIN s = 1 .. Len(s) /\ Len(s) \in Nat
  BY LenProperties
<1> DEFINE R == {s[n] : n \in DOMAIN s}
<1>2. /\ \A n \in 1 .. i - 1 : s[n] \in R
      /\ \A n \in i + 1 .. Len(s) : s[n] \in R
  BY <1>1
<1>3. R \subseteq S
  BY <1>1, ElementOfSeq
<1> HIDE DEF R
<1>4. SubSeq(s, 1, i - 1) \in Seq(R) /\ SubSeq(s, i + 1, Len(s)) \in Seq(R)
  BY <1>1, <1>2, SubSeqProperties
<1>5. RemoveAt(s, i) \in Seq(R)
  BY <1>4, ConcatProperties DEF RemoveAt
<1>6. RemoveAt(s, i) \in Seq(S)
  BY <1>3, <1>5, SeqMonotonic
<1>7. \A k \in DOMAIN RemoveAt(s, i) : RemoveAt(s, i)[k] \in R
  BY <1>5, ElementOfSeq, LenProperties
<1>8. QED BY <1>6, <1>7 DEF R

\* At first nothing is in flight and every job is listed at home.
LEMMA InitDash == DashInit => DashInv
<1> SUFFICES ASSUME DashInit PROVE DashInv
  OBVIOUS
<1>1. DashTypeOK
  BY DashboardAssumption DEF DashInit, ApiInit, DashTypeOK
<1>2. NoStrayJobs /\ listed \in [Queue -> SUBSET (JobId \cup {"completed"})]
  BY DEF DashInit, ApiInit, NoStrayJobs
<1>3. QED BY <1>1, <1>2, EmptySeq DEF DashInit, DashInv

\* What handlers append to the requests in flight.
LEMMA Requested ==
    ASSUME DashInv
    PROVE  /\ \A q \in Queue, f \in Filter, manual \in BOOLEAN :
                 /\ Refresh(q, f, manual) \in ReadType
                 /\ StartRefresh(q, f, manual) => reads' \in Seq(ReadType)
           /\ \A q \in Queue : StartAsk(q) => asks' \in Seq(AskType)
<1>1. \A q \in Queue : version[q] \in Nat /\ pauses[q] \in Nat
  BY DEF DashInv, DashTypeOK
<1>2. reads \in Seq(ReadType) /\ asks \in Seq(AskType)
  BY DEF DashInv
<1>3. ASSUME NEW q \in Queue, NEW f \in Filter, NEW manual \in BOOLEAN
      PROVE  /\ Refresh(q, f, manual) \in ReadType
             /\ StartRefresh(q, f, manual) => reads' \in Seq(ReadType)
  <2>1. Refresh(q, f, manual) \in ReadType
    BY <1>1 DEF Refresh, ReadType
  <2>2. QED BY <1>2, <2>1, AppendProperties DEF StartRefresh
<1>4. ASSUME NEW q \in Queue, StartAsk(q) PROVE asks' \in Seq(AskType)
  <2>1. [queue |-> q, since |-> pauses[q]] \in AskType
    BY <1>1 DEF AskType
  <2>2. QED BY <1>2, <1>4, <2>1, AppendProperties DEF StartAsk
<1>5. QED BY <1>3, <1>4

\* A click that is sent has no answer yet.
LEMMA Sent ==
    ASSUME DashInv, sel \in Queue, NEW kind \in Buttons \cup {"retry", "more"},
           NEW id \in JobId \cup {"none"}, Send(kind, id)
    PROVE  clicks' \in Seq(ClickType) /\ \A c \in DOMAIN clicks' : AnsweredOnce(clicks'[c])
<1> DEFINE new == [at |-> "sent", kind |-> kind, queue |-> sel, filter |-> filter, id |-> id,
                   label |-> isPaused, version |-> Unread, ok |-> FALSE]
<1>1. new \in ClickType /\ AnsweredOnce(new)
  BY DEF DashInv, DashTypeOK, ClickType, Unread, AnsweredOnce
<1>2. clicks' = Append(clicks, new)
  BY DEF Send
<1>3. clicks \in Seq(ClickType) /\ \A c \in DOMAIN clicks : AnsweredOnce(clicks[c])
  BY DEF DashInv
<1> HIDE DEF new
<1>4. /\ clicks' \in Seq(ClickType) /\ Len(clicks') = Len(clicks) + 1
      /\ \A c \in 1 .. Len(clicks) : clicks'[c] = clicks[c]
      /\ clicks'[Len(clicks) + 1] = new
  BY <1>1, <1>2, <1>3, AppendProperties
<1>5. /\ DOMAIN clicks = 1 .. Len(clicks) /\ Len(clicks) \in Nat
      /\ DOMAIN clicks' = 1 .. Len(clicks) + 1
  BY <1>3, <1>4, LenProperties
<1>6. ASSUME NEW c \in DOMAIN clicks' PROVE AnsweredOnce(clicks'[c])
  <2>1. CASE c = Len(clicks) + 1
    BY <1>1, <1>4, <2>1
  <2>2. CASE c # Len(clicks) + 1
    <3>1. c \in DOMAIN clicks /\ clicks'[c] = clicks[c]
      BY <1>4, <1>5, <2>2
    <3>2. QED BY <1>3, <3>1
  <2>3. QED BY <2>1, <2>2
<1>7. QED BY <1>4, <1>6

\* The page alone: refreshes, reads of the pause key, what the operator does.
LEMMA PageSteps ==
    ASSUME DashInv,
           \/ QueuesListed \/ QueuesFailed \/ PollRefresh \/ PollPause \/ RefreshNow
           \/ \E q \in Queue : SelectQueue(q)
           \/ \E f \in Filter : SelectFilter(f)
    PROVE  DashInv'
<1> USE DashboardAssumption DEF DashInv, DashTypeOK, apiVars, view, selection
<1>1. CASE QueuesListed
  <2>1. reads' \in Seq(ReadType) /\ asks' \in Seq(AskType)
    BY <1>1, Requested DEF QueuesListed, OnSelect
  <2>2. QED BY <1>1, <2>1 DEF QueuesListed, NoStrayJobs
<1>2. CASE QueuesFailed
  BY <1>2 DEF QueuesFailed, NoStrayJobs, requests
<1>3. CASE PollRefresh
  <2>1. reads' \in Seq(ReadType)
    BY <1>3, Requested DEF PollRefresh
  <2>2. QED BY <1>3, <2>1 DEF PollRefresh, NoStrayJobs
<1>4. CASE PollPause
  <2>1. asks' \in Seq(AskType)
    BY <1>4, Requested DEF PollPause
  <2>2. QED BY <1>4, <2>1 DEF PollPause, NoStrayJobs
<1>5. CASE RefreshNow
  <2>1. reads' \in Seq(ReadType)
    BY <1>5, Requested DEF RefreshNow, Clicks
  <2>2. QED BY <1>5, <2>1 DEF RefreshNow, NoStrayJobs
<1>6. ASSUME NEW q \in Queue, SelectQueue(q) PROVE DashInv'
  <2>1. reads' \in Seq(ReadType) /\ asks' \in Seq(AskType)
    BY <1>6, Requested DEF SelectQueue, OnSelect
  <2>2. QED BY <1>6, <2>1 DEF SelectQueue, Clicks, NoStrayJobs
<1>7. ASSUME NEW f \in Filter, SelectFilter(f) PROVE DashInv'
  <2>1. reads' \in Seq(ReadType)
    BY <1>7, Requested DEF SelectFilter, Clicks
  <2>2. QED BY <1>7, <2>1 DEF SelectFilter, NoStrayJobs
<1>8. QED BY <1>1, <1>2, <1>3, <1>4, <1>5, <1>6, <1>7

\* Answers to refreshes and to reads of the pause key.
LEMMA ReadSteps ==
    ASSUME DashInv,
           \/ \E r \in DOMAIN reads : ShowRefresh(r) \/ RefreshFails(r)
           \/ \E a \in DOMAIN asks : ShowPause(a) \/ PauseFails(a)
    PROVE  DashInv'
<1> USE DEF DashInv, DashTypeOK, apiVars, view, selection
<1>1. ASSUME NEW r \in DOMAIN reads
      PROVE  reads[r] \in ReadType /\ RemoveAt(reads, r) \in Seq(ReadType)
  BY <1>1, RemovedIsSeq, ElementOfSeq, LenProperties
<1>2. ASSUME NEW a \in DOMAIN asks
      PROVE  asks[a] \in AskType /\ RemoveAt(asks, a) \in Seq(AskType)
  BY <1>2, RemovedIsSeq, ElementOfSeq, LenProperties
<1>3. ASSUME NEW r \in DOMAIN reads, ShowRefresh(r) PROVE DashInv'
  <2>1. reads[r].queue \in Queue /\ reads[r].filter \in Filter /\ reads[r].since \in Nat
    BY <1>1 DEF ReadType
  <2>2. reads' \in Seq(ReadType) /\ isRefreshing' \in BOOLEAN
    BY <1>1, <1>3 DEF ShowRefresh, FinishRefresh
  <2>3. metrics'.queue \in Queue
    BY <1>3, <2>1 DEF ShowRefresh
  <2>4. \A page \in rows' : page.queue \in Queue /\ page.filter \in Filter /\ page.version \in Nat
    BY <1>3, <2>1 DEF ShowRefresh, Page
  <2>5. QED BY <1>3, <2>2, <2>3, <2>4 DEF ShowRefresh, FinishRefresh, NoStrayJobs
<1>4. ASSUME NEW r \in DOMAIN reads, RefreshFails(r) PROVE DashInv'
  <2>1. reads' \in Seq(ReadType) /\ isRefreshing' \in BOOLEAN
    BY <1>1, <1>4 DEF RefreshFails, FinishRefresh
  <2>2. QED BY <1>4, <2>1 DEF RefreshFails, FinishRefresh, NoStrayJobs
<1>5. ASSUME NEW a \in DOMAIN asks, ShowPause(a) PROVE DashInv'
  <2>1. asks' \in Seq(AskType) /\ isPaused' \in BOOLEAN
    BY <1>2, <1>5 DEF ShowPause, IsPaused
  <2>2. QED BY <1>5, <2>1 DEF ShowPause, NoStrayJobs
<1>6. ASSUME NEW a \in DOMAIN asks, PauseFails(a) PROVE DashInv'
  BY <1>2, <1>6 DEF PauseFails, NoStrayJobs
<1>7. QED BY <1>3, <1>4, <1>5, <1>6

\* The buttons.
LEMMA ClickSteps ==
    ASSUME DashInv,
           \/ ClickMore
           \/ \E j \in JobId : ClickRetry(j)
           \/ \E kind \in Buttons : ClickButton(kind)
    PROVE  DashInv'
<1> USE DashboardAssumption DEF DashInv, DashTypeOK, apiVars, view, selection
<1>1. CASE ClickMore
  <2>1. clicks' \in Seq(ClickType) /\ \A c \in DOMAIN clicks' : AnsweredOnce(clicks'[c])
    <3>1. sel \in Queue /\ Send("more", "none")
      BY <1>1 DEF ClickMore, Clicks
    <3>2. QED BY <3>1, Sent
  <2>2. sel' # NoQueue
    BY <1>1 DEF ClickMore, Clicks
  <2>3. QED BY <1>1, <2>1, <2>2 DEF ClickMore, NoStrayJobs
<1>2. ASSUME NEW j \in JobId, ClickRetry(j) PROVE DashInv'
  <2>1. clicks' \in Seq(ClickType) /\ \A c \in DOMAIN clicks' : AnsweredOnce(clicks'[c])
    <3>1. sel \in Queue /\ Send("retry", j)
      BY <1>2 DEF ClickRetry, Clicks
    <3>2. QED BY <3>1, Sent
  <2>2. sel' # NoQueue
    BY <1>2 DEF ClickRetry, Clicks
  <2>3. QED BY <1>2, <2>1, <2>2 DEF ClickRetry, NoStrayJobs
<1>3. ASSUME NEW kind \in Buttons, ClickButton(kind) PROVE DashInv'
  <2>1. clicks' \in Seq(ClickType) /\ \A c \in DOMAIN clicks' : AnsweredOnce(clicks'[c])
    <3>1. sel \in Queue /\ Send(kind, "none")
      BY <1>3 DEF ClickButton, Clicks
    <3>2. QED BY <3>1, Sent
  <2>2. sel' # NoQueue
    BY <1>3 DEF ClickButton, Clicks
  <2>3. QED BY <1>3, <2>1, <2>2 DEF ClickButton, NoStrayJobs
<1>4. QED BY <1>1, <1>2, <1>3

-----------------------------------------------------------------------------
(* What the API does to a queue                                            *)

ApiInv ==
    /\ version \in [Queue -> Nat] /\ pauses \in [Queue -> Nat]
    /\ listed \in [Queue -> SUBSET (JobId \cup {"completed"})]
    /\ NoStrayJobs

\* The version of a queue that changes.
LEMMA Changes ==
    ASSUME ApiInv, NEW q \in Queue
    PROVE  JobsChange(q) => version' \in [Queue -> Nat]
  BY DEF ApiInv, JobsChange

\* Naming an id that the queue lists, or "completed", adds no job to it.
LEMMA Lists ==
    ASSUME ApiInv, NEW q \in Queue, NEW id \in listed[q] \cup {"completed"}, List(q, id)
    PROVE  listed' \in [Queue -> SUBSET (JobId \cup {"completed"})] /\ NoStrayJobs'
  BY DEF ApiInv, List, NoStrayJobs

\* Every request of the page leaves each job in its own queue.
LEMMA AnswerKeeps ==
    ASSUME ApiInv, NEW click \in ClickType, NEW ok \in BOOLEAN,
           Answer(MethodOf(click), PathOf(click), ok)
    PROVE  ApiInv'
<1> DEFINE path == PathOf(click)
           q == path[2]
           id == IF Len(path) > 3 THEN path[4] ELSE "none"
           h == HandlerOf(MethodOf(click), path)
<1>1. q = click.queue /\ q \in Queue
  <2>1. click.kind \in {"retry", "retryAll", "cleanup", "clear", "pause", "more"}
    BY DEF ClickType, Buttons
  <2>2. q = click.queue
    BY <2>1, SentPaths
  <2>3. QED BY <2>2 DEF ClickType
<1>2. \/ h = "retry" /\ RetryJob(q, id, ok)
      \/ h = "cancel" /\ CancelJob(q, id, ok)
      \/ h = "retryAll" /\ RetryAllJobs(q, ok)
      \/ h = "clearCompleted" /\ ClearCompleted(q, ok)
      \/ h = "runCleanup" /\ RunCleanup(q, ok)
      \/ h = "pauseQueue" /\ SetPaused(q, TRUE, ok)
      \/ h = "resumeQueue" /\ SetPaused(q, FALSE, ok)
      \/ UNCHANGED apiVars
  BY DEF Answer
<1>3. h = "cancel" => id = "completed"
  <2>1. ASSUME h = "cancel" PROVE id = "completed"
    <3>1. path = <<"queues", click.queue, "jobs", "completed">>
      BY <2>1, OnlyClearCancels, SentPaths
    <3>2. QED BY <3>1
  <2>2. QED BY <2>1
<1> HIDE DEF path, q, id, h
<1> USE DEF ApiInv
<1>4. ASSUME UNCHANGED apiVars PROVE ApiInv'
  BY <1>4 DEF apiVars, NoStrayJobs
<1>5. CASE RetryJob(q, id, ok)
  BY <1>1, <1>4, <1>5, Changes, Lists DEF RetryJob
<1>6. CASE h = "cancel" /\ CancelJob(q, id, ok)
  BY <1>1, <1>3, <1>6, Changes, Lists DEF CancelJob
<1>7. CASE RetryAllJobs(q, ok) \/ ClearCompleted(q, ok) \/ RunCleanup(q, ok)
  BY <1>1, <1>7, Changes DEF RetryAllJobs, ClearCompleted, RunCleanup, JobsMayChange, NoStrayJobs
<1>8. ASSUME NEW value \in BOOLEAN, SetPaused(q, value, ok) PROVE ApiInv'
  BY <1>1, <1>8 DEF SetPaused, NoStrayJobs
<1>9. QED BY <1>2, <1>4, <1>5, <1>6, <1>7, <1>8

\* A click whose answer is known.
LEMMA AnsweredType ==
    ASSUME NEW click \in ClickType, NEW ok \in BOOLEAN, NEW v \in Nat
    PROVE  LET new == [click EXCEPT !.at = "answered", !.ok = ok, !.version = v]
           IN  new \in ClickType /\ AnsweredOnce(new)
<1>1. [click EXCEPT !.at = "answered"] \in ClickType
  BY DEF ClickType
<1>2. \A k \in ClickType : [k EXCEPT !.ok = ok] \in ClickType
  BY DEF ClickType
<1>3. \A k \in ClickType : /\ [k EXCEPT !.version = v] \in ClickType
                            /\ [k EXCEPT !.version = v].version = v
  BY DEF ClickType
<1>4. [click EXCEPT !.at = "answered", !.ok = ok, !.version = v] =
         [[[click EXCEPT !.at = "answered"] EXCEPT !.ok = ok] EXCEPT !.version = v]
  BY DEF ClickType
<1>5. QED BY <1>1, <1>2, <1>3, <1>4 DEF AnsweredOnce

\* The answer to a click.
LEMMA AnsweredSteps ==
    ASSUME DashInv, \E c \in DOMAIN clicks : Answered(c)
    PROVE  DashInv'
<1>1. PICK c \in DOMAIN clicks : Answered(c)
  OBVIOUS
<1>2. clicks \in Seq(ClickType) /\ clicks[c] \in ClickType /\ c \in 1 .. Len(clicks)
  BY ElementOfSeq, LenProperties DEF DashInv
<1>3. ApiInv
  BY DEF DashInv, DashTypeOK, ApiInv
<1>4. PICK ok \in BOOLEAN :
         /\ Answer(MethodOf(clicks[c]), PathOf(clicks[c]), ok)
         /\ clicks' = [clicks EXCEPT ![c].at = "answered", ![c].ok = ok,
                                     ![c].version = version[clicks[c].queue]]
  BY <1>1 DEF Answered
<1>5. ApiInv'
  BY <1>2, <1>3, <1>4, AnswerKeeps
<1> DEFINE new == [clicks[c] EXCEPT !.at = "answered", !.ok = ok,
                                    !.version = version[clicks[c].queue]]
<1>6. new \in ClickType /\ AnsweredOnce(new)
  <2>1. version[clicks[c].queue] \in Nat
    BY <1>2, <1>3 DEF ApiInv, ClickType
  <2>2. QED BY <1>2, <2>1, AnsweredType
<1>7. clicks' = [clicks EXCEPT ![c] = new]
  BY <1>2, <1>4
<1> HIDE DEF new
<1>8. clicks' \in Seq(ClickType) /\ \A d \in DOMAIN clicks' : AnsweredOnce(clicks'[d])
  <2>1. /\ clicks' \in Seq(ClickType) /\ DOMAIN clicks' = DOMAIN clicks
        /\ \A d \in DOMAIN clicks : clicks'[d] = IF d = c THEN new ELSE clicks[d]
    BY <1>2, <1>6, <1>7, ExceptSeq, LenProperties
  <2>2. QED BY <1>6, <2>1 DEF DashInv
<1>9. UNCHANGED <<selection, view, reads, asks, counts>>
  BY <1>1 DEF Answered
<1>10. QED BY <1>2, <1>5, <1>8, <1>9 DEF DashInv, DashTypeOK, ApiInv, selection, view

\* Workers and other clients name ids the queue lists.
LEMMA OthersStep == ASSUME DashInv, Others PROVE DashInv'
<1>1. ApiInv
  BY DEF DashInv, DashTypeOK, ApiInv
<1>2. PICK q \in Busy : \/ JobsChange(q) /\ UNCHANGED <<pauses, listed>>
                        \/ \E j \in listed[q] : AddJob(q, j, TRUE) \/ CancelJob(q, j, TRUE)
  BY DEF Others
<1>3. q \in Queue
  BY DashboardAssumption
<1>4. ApiInv'
  BY <1>1, <1>2, <1>3, Changes, Lists DEF ApiInv, AddJob, CancelJob, NoStrayJobs
<1>5. UNCHANGED <<selection, view, requests, counts>>
  BY DEF Others
<1>6. QED BY <1>4, <1>5 DEF DashInv, DashTypeOK, ApiInv, selection, view, requests

\* What is left of the clicks when one is over.
LEMMA ClickOver ==
    ASSUME DashInv, NEW c \in DOMAIN clicks, clicks' = RemoveAt(clicks, c)
    PROVE  clicks' \in Seq(ClickType) /\ \A d \in DOMAIN clicks' : AnsweredOnce(clicks'[d])
  BY RemovedIsSeq DEF DashInv

\* A handler that refreshes with the closure of its click.
LEMMA RefreshesAgain ==
    ASSUME DashInv, NEW c \in DOMAIN clicks, NEW sent \in Seq(ReadType), AndRefresh(c, sent)
    PROVE  reads' \in Seq(ReadType) /\ isRefreshing' \in BOOLEAN
<1>1. clicks[c].queue \in Queue /\ clicks[c].filter \in Filter
  <2>1. clicks[c] \in ClickType
    BY ElementOfSeq, LenProperties DEF DashInv
  <2>2. QED BY <2>1 DEF ClickType
<1>2. Refresh(clicks[c].queue, clicks[c].filter, TRUE) \in ReadType
  BY <1>1, Requested
<1>3. QED BY <1>2, AppendProperties DEF AndRefresh

\* The page applies the answer to a click, or learns that there is none.
LEMMA ArrivedSteps ==
    ASSUME DashInv, NEW c \in DOMAIN clicks, Arrived(c) \/ ClickFails(c)
    PROVE  DashInv'
<1>1. clicks[c] \in ClickType /\ AnsweredOnce(clicks[c])
  BY ElementOfSeq, LenProperties DEF DashInv
<1>2. clicks' = RemoveAt(clicks, c)
  BY DEF Arrived, ClickFails
<1>3. clicks' \in Seq(ClickType) /\ \A d \in DOMAIN clicks' : AnsweredOnce(clicks'[d])
  BY <1>2, ClickOver
<1>0. sel \in Queue
  BY DEF DashInv, DashTypeOK
<1> USE DashboardAssumption DEF DashInv, DashTypeOK, apiVars, selection
<1>4. CASE Arrived(c)
  <2>1. UNCHANGED <<apiVars, list, sel, metrics, loading, error, asks, counts>>
    BY <1>4 DEF Arrived
  <2>2. CASE AfterRefreshing(c)
    <3>1. reads' \in Seq(ReadType) /\ isRefreshing' \in BOOLEAN
      BY <2>2, RefreshesAgain DEF AfterRefreshing
    <3>2. QED BY <1>0, <1>3, <2>1, <2>2, <3>1 DEF AfterRefreshing, NoStrayJobs
  <2>3. CASE AfterRetryAll(c)
    <3>1. filter' \in Filter /\ UNCHANGED <<rows, isPaused>>
      BY <2>3, DashboardAssumption DEF AfterRetryAll
    <3>2. Refresh(sel, "waiting", FALSE) \in ReadType
      BY <1>0, Requested, DashboardAssumption
    <3>3. reads' \in Seq(ReadType) /\ isRefreshing' \in BOOLEAN
      BY <2>3, <3>2, RefreshesAgain, AppendProperties DEF AfterRetryAll
    <3>4. QED BY <1>0, <1>3, <2>1, <3>1, <3>3 DEF NoStrayJobs
  <2>4. CASE AfterPause(c)
    BY <1>0, <1>3, <2>1, <2>4 DEF AfterPause, NoStrayJobs
  <2>5. CASE AfterMore(c)
    <3>1. clicks[c].queue \in Queue /\ clicks[c].filter \in Filter /\ clicks[c].version \in Nat
      BY <1>1, <1>4 DEF Arrived, AnsweredOnce, ClickType
    <3>2. \A page \in rows' : page.queue \in Queue /\ page.filter \in Filter /\ page.version \in Nat
      BY <2>5, <3>1 DEF AfterMore, Page
    <3>3. QED BY <1>0, <1>3, <2>1, <2>5, <3>2 DEF AfterMore, NoStrayJobs
  <2>6. QED BY <1>4, <2>2, <2>3, <2>4, <2>5 DEF Arrived
<1>5. CASE ClickFails(c)
  <2>1. reads' \in Seq(ReadType) /\ isRefreshing' \in BOOLEAN
    <3>1. CASE AndRefresh(c, reads)
      BY <3>1, RefreshesAgain
    <3>2. CASE isRefreshing' = (isRefreshing /\ clicks[c].kind # "more") /\ UNCHANGED reads
      BY <3>2
    <3>3. QED BY <1>5, <3>1, <3>2 DEF ClickFails
  <2>2. QED BY <1>0, <1>3, <1>5, <2>1 DEF ClickFails, NoStrayJobs
<1>6. QED BY <1>4, <1>5

\* Every step is one of these.
LEMMA StepDash == ASSUME DashInv, [DashNext]_dashVars PROVE DashInv'
<1>1. CASE UNCHANGED dashVars
  BY <1>1 DEF dashVars, apiVars, selection, view, requests, DashInv, DashTypeOK, NoStrayJobs
<1>2. QED BY <1>1, PageSteps, ReadSteps, ClickSteps, AnsweredSteps, ArrivedSteps, OthersStep
          DEF DashNext

-----------------------------------------------------------------------------
\* Types hold in every behaviour of a page.
THEOREM DashTypes == DashSpec => []DashTypeOK
<1>1. DashInv => DashTypeOK
  BY DEF DashInv
<1>2. QED BY <1>1, InitDash, StepDash, PTL DEF DashSpec

\* Whatever answers overtake each other, and although a row's retry button sends
\* the queue that is selected by then (src/dashboard/src/App.tsx:283), no click
\* puts a job into a queue that it was not added to: only the request that
\* clears the history reaches the handler of cancel (src/src/api.ts:152), and
\* retry looks at the failed set first.
THEOREM ClicksReachOwnJobs == DashSpec => []NoStrayJobs
<1>1. DashInv => NoStrayJobs
  BY DEF DashInv
<1>2. QED BY <1>1, InitDash, StepDash, PTL DEF DashSpec
=============================================================================
