----------------------------- MODULE Connection -----------------------------
(***************************************************************************)
(* A downstream connection from Accept to its end: Listener.handle chooses *)
(* the network filters and runs them, HCM.Handle serves the requests of an *)
(* HTTP/1.1 connection one after the other, and h2Handler those of an      *)
(* HTTP/2 connection.  Both run the HTTP filters on a request: the rate    *)
(* limiter (RateLimiter), the router and the route options (Routing), and  *)
(* the upstream proxy.  The last one is UpstreamProxy in detail; here it   *)
(* is what its OnRequest may do to the request it is given.                *)
(*                                                                         *)
(* The logging and forwarded-headers filters change nothing that is kept   *)
(* here.  Of the concurrent streams of an HTTP/2 connection one is shown:  *)
(* streams share the limiter and nothing else, and so do connections.      *)
(***************************************************************************)
EXTENDS RateLimiter, Routing, Metrics

CONSTANTS
  Conns,            \* connections
  Handshakes,       \* how each connection may begin: tls, alpn, sni, ok
  Chains,           \* filter_chains of the listener
  Routes,           \* routes of the configuration
  RequestKinds,     \* the requests on each connection: method, path, body, close
  UpstreamStatuses, \* the statuses that endpoints answer with
  MaxRequests       \* bound: the requests on each connection

ASSUME ConnectionConstants ==
  /\ Limiters = {"hcm", "h2"}
  /\ Chains # <<>>
  /\ Routes \in Seq(RouteRule) /\ ValidRoutes(Routes)
  /\ Clusters \cup {NoCluster} \subseteq Targets
  /\ UpstreamStatuses \subseteq Statuses
  /\ MaxRequests \in [Conns -> Nat]
  /\ \A c \in Conns :
       RequestKinds[c] \subseteq [method : Methods, path : Seq(Chars), body : BOOLEAN, close : BOOLEAN]

VARIABLES
  pc,       \* where the goroutine of a connection is
  open,     \* handle has not returned
  gone,     \* the connection is closed, by the client or by the proxy
  proto,    \* "h1" or "h2"
  client,   \* the address at the other end
  nets,     \* the network filters that have not returned
  todo,     \* the HTTP filters that have not run on the request
  rc,       \* the request and what the filters made of it
  lost,     \* history: how many requests got no answer
  served,   \* how many requests were read
  stopped   \* the listener's context is cancelled

connVars == <<pc, open, gone, proto, client, nets, todo, rc, lost, served, stopped>>
vars == <<connVars, limiterVars, metricsVars>>

\* A RequestCtx, with the loop variable of the upstream filter (turn) and
\* where that filter waits for capacity.  answers, limited, sent and logged
\* are history: the responses written for the request, whether the limiter
\* denied it, the attempts to forward it and the status in the access log.
NewRequest(k, h1) ==
  [kind |-> k, cluster |-> NoCluster, route |-> 1, override |-> 0,
   turn |-> 0, wait |-> "no", responded |-> FALSE, status |-> 0, err |-> "none",
   unread |-> k.body /\ h1,  \* the body is still in the connection's reader
   answers |-> <<>>, limited |-> FALSE, sent |-> 0, logged |-> 0]

NoKind == [method |-> "none", path |-> <<>>, body |-> FALSE, close |-> FALSE]
NoRequest == NewRequest(NoKind, TRUE)

Init ==
  /\ LimiterInit
  /\ MetricsInit
  /\ pc = [c \in Conns |-> "new"]
  /\ open = [c \in Conns |-> FALSE]
  /\ gone = [c \in Conns |-> FALSE]
  /\ proto = [c \in Conns |-> "h1"]
  /\ client \in [Conns -> Clients]
  /\ nets = [c \in Conns |-> <<>>]
  /\ todo = [c \in Conns |-> <<>>]
  /\ rc = [c \in Conns |-> NoRequest]
  /\ lost = 0
  /\ served = [c \in Conns |-> 0]
  /\ stopped = FALSE
-----------------------------------------------------------------------------
(* The listener.                                                           *)

\* The first chain that lists the name the client asked for, or else the
\* first one.
ChainFor(hs) ==
  LET listing == SelectInSeq(Chains, LAMBDA ch : hs.tls /\ hs.sni \in ch.sni)
  IN  Chains[IF listing = 0 THEN 1 ELSE listing].filters

\* run accepts a connection, which it still may after a shutdown, as another
\* goroutine closes the socket; handle chooses what will serve it.  The error
\* of a handshake is ignored: the connection is of no use after it.
Accept(c, hs) ==
  /\ pc[c] = "new"
  /\ open' = [open EXCEPT ![c] = TRUE]
  /\ gone' = [gone EXCEPT ![c] = ~hs.ok]
  /\ proto' = [proto EXCEPT ![c] = IF hs.tls /\ hs.alpn = "h2" THEN "h2" ELSE "h1"]
  /\ IF hs.tls /\ hs.alpn = "h2"
     THEN pc' = [pc EXCEPT ![c] = "read"] /\ UNCHANGED nets
     ELSE pc' = [pc EXCEPT ![c] = "net"] /\ nets' = [nets EXCEPT ![c] = ChainFor(hs)]
  /\ Inc({Accepted})
  /\ AddGauge(1)
  /\ UNCHANGED <<client, todo, rc, lost, served, stopped, logged, limiterVars>>

\* Chain.Execute goes to the next network filter; logging returns at once.
Execute(c) ==
  /\ pc[c] = "net" /\ nets[c] # <<>>
  /\ IF Head(nets[c]) = "hcm"
     THEN pc' = [pc EXCEPT ![c] = "read"] /\ UNCHANGED nets
     ELSE nets' = [nets EXCEPT ![c] = Tail(@)] /\ UNCHANGED pc
  /\ UNCHANGED <<open, gone, proto, client, todo, rc, lost, served, stopped, metricsVars, limiterVars>>

\* A network filter returns, nil or an error, which ends the chain.
Return(c, failed) ==
  /\ pc' = [pc EXCEPT ![c] = "net"]
  /\ nets' = [nets EXCEPT ![c] = IF failed THEN <<>> ELSE Tail(@)]

\* handle returns: the chain is done, or ServeConn has lost its connection,
\* which does not wait for the stream's handler.
HandleReturns(c) ==
  /\ open[c]
  /\ IF proto[c] = "h2" THEN gone[c] ELSE pc[c] = "net" /\ nets[c] = <<>>
  /\ pc' = IF proto[c] = "h2" THEN pc ELSE [pc EXCEPT ![c] = "closed"]
  /\ open' = [open EXCEPT ![c] = FALSE]
  /\ gone' = [gone EXCEPT ![c] = TRUE]
  /\ AddGauge(-1)
  /\ UNCHANGED <<proto, client, nets, todo, rc, lost, served, stopped, counters, logged, limiterVars>>

\* The client closes the connection.
ClientCloses(c) ==
  /\ open[c] /\ ~gone[c]
  /\ gone' = [gone EXCEPT ![c] = TRUE]
  /\ UNCHANGED <<pc, open, proto, client, nets, todo, rc, lost, served, stopped, metricsVars, limiterVars>>

\* The supervisor cancels the listener's context.
Shutdown ==
  /\ ~stopped
  /\ stopped' = TRUE
  /\ UNCHANGED <<pc, open, gone, proto, client, nets, todo, rc, lost, served, metricsVars, limiterVars>>

\* A closing goroutine that ends when the first request was read.
CloseUnserved(c) ==
  /\ stopped /\ open[c] /\ ~gone[c] /\ served[c] = 0
  /\ gone' = [gone EXCEPT ![c] = TRUE]
  /\ UNCHANGED <<pc, open, proto, client, nets, todo, rc, lost, served, stopped, metricsVars, limiterVars>>

\* The goroutine that handle starts closes the connection at shutdown.
CloseAtShutdown(c) ==
  /\ stopped /\ open[c] /\ ~gone[c]
  /\ gone' = [gone EXCEPT ![c] = TRUE]
  /\ UNCHANGED <<pc, open, proto, client, nets, todo, rc, lost, served, stopped, metricsVars, limiterVars>>
-----------------------------------------------------------------------------
(* Reading requests.                                                       *)

\* The HTTP filters that NewRegistry gives to the connection manager and those
\* of NewH2Handler, which has no route options.
HcmFilters == <<"limit", "route", "options", "upstream">>
H2Filters == <<"limit", "route", "upstream">>
FiltersOf(p) == IF p = "h1" THEN HcmFilters ELSE H2Filters

\* The next request of a connection, which may be in the reader when the
\* connection is closed.  When the body of the one before is still in the
\* reader it is text of that body that is parsed.
ReadRequest(c, k) ==
  /\ pc[c] = "read" /\ open[c]
  /\ proto[c] = "h2" => ~gone[c]
  /\ served[c] < MaxRequests[c]
  /\ served' = [served EXCEPT ![c] = @ + 1]
  /\ rc' = [rc EXCEPT ![c] = NewRequest(k, proto[c] = "h1")]
  /\ todo' = [todo EXCEPT ![c] = FiltersOf(proto[c])]
  /\ pc' = [pc EXCEPT ![c] = "chain"]
  /\ IF proto[c] = "h1" THEN Inc({Requests}) ELSE UNCHANGED counters
  /\ UNCHANGED <<open, gone, proto, client, nets, lost, stopped, active, logged, limiterVars>>

\* ReadRequest fails: the end of the input gives nil, any other cause an error.
ReadFails(c) ==
  /\ pc[c] = "read" /\ proto[c] = "h1" /\ gone[c]
  /\ \E failed \in BOOLEAN : Return(c, failed)
  /\ UNCHANGED <<open, gone, proto, client, todo, rc, lost, served, stopped, metricsVars, limiterVars>>

\* The client sends what is no request, or the text of a body that was left in
\* the reader is none.
ParseFails(c) ==
  /\ pc[c] = "read" /\ proto[c] = "h1"
  /\ Return(c, TRUE)
  /\ UNCHANGED <<open, gone, proto, client, todo, rc, lost, served, stopped, metricsVars, limiterVars>>
-----------------------------------------------------------------------------
(* The HTTP filters.                                                       *)

AtFilter(c, f) ==
  pc[c] = "chain" /\ todo[c] # <<>> /\ Head(todo[c]) = f /\ rc[c].err = "none"

\* A filter returns nil: Chain.Run goes on with the next one, whether the
\* request was answered or not.
NextFilter(c) == todo' = [todo EXCEPT ![c] = Tail(@)]

quiet == <<pc, open, gone, proto, client, nets, lost, served, stopped>>

\* A response is written to rc.W.
Written(r, status, whole) ==
  [r EXCEPT !.answers = Append(@, [status |-> status, whole |-> whole])]

\* What becomes of it.  On HTTP/2 respTranslator passes what follows a first
\* response on as text of that one, head and all: http2 takes all of it, or,
\* where it has the length of the first, a part or nothing.
Writes(c, r, status, whole) ==
  {Written(r, status, whole)} \cup
    (IF proto[c] = "h2" /\ r.answers # <<>> THEN {Written(r, status, FALSE), r} ELSE {})

\* A filter has answered the request itself.
Answered(r, status) == [r EXCEPT !.responded = TRUE, !.status = status]

\* A limiter that looks at the bucket and charges nobody.
LimitFree(c) ==
  /\ AtFilter(c, "limit")
  /\ NextFilter(c)
  /\ made' = made \cup {BucketOf(IF proto[c] = "h1" THEN "hcm" ELSE "h2", client[c])}
  /\ UNCHANGED <<quiet, rc, metricsVars, clock, tok, last, grants>>

\* RateLimiter.OnRequest.
Limit(c) ==
  LET b == BucketOf(IF proto[c] = "h1" THEN "hcm" ELSE "h2", client[c])
  IN  /\ AtFilter(c, "limit")
      /\ NextFilter(c)
      /\ Charge(b)
      /\ IF Allows(b) THEN UNCHANGED <<rc, counters>>
         ELSE /\ rc' = [rc EXCEPT ![c] = [Answered(Written(@, 429, TRUE), 429) EXCEPT !.limited = TRUE]]
              /\ Inc({RateLimited})
      /\ UNCHANGED <<quiet, active, logged>>

\* Router.OnRequest.
Route(c) ==
  LET r == RouteOf(Routes, rc[c].kind.path)
  IN  /\ AtFilter(c, "route")
      /\ NextFilter(c)
      /\ rc' = [rc EXCEPT ![c].cluster = r.cluster, ![c].route = r.route]
      /\ UNCHANGED <<quiet, metricsVars, limiterVars>>

\* RouteOptionsFilter.OnRequest, which trusts whatever RouteID is there.
RouteOptions(c) ==
  /\ AtFilter(c, "options")
  /\ NextFilter(c)
  /\ rc' = [rc EXCEPT ![c].override = RetryOverride(Routes, rc[c].route)]
  /\ UNCHANGED <<quiet, metricsVars, limiterVars>>

AtUpstream(c) ==
  /\ AtFilter(c, "upstream") /\ rc[c].cluster # NoCluster
  /\ rc[c].wait \in {"no", "held"}

\* An upstream filter that goes on only for a request that was answered.
UnforwardedAnswered(c) ==
  /\ AtFilter(c, "upstream") /\ rc[c].cluster = NoCluster /\ rc[c].responded
  /\ NextFilter(c)
  /\ UNCHANGED <<quiet, rc, metricsVars, limiterVars>>

\* The router set no target: the upstream filter does nothing.
Unforwarded(c) ==
  /\ AtFilter(c, "upstream") /\ rc[c].cluster = NoCluster
  /\ NextFilter(c)
  /\ UNCHANGED <<quiet, rc, metricsVars, limiterVars>>

\* The body is read by the first attempt, and closed with it: a second
\* attempt finds no body and fails.
BodyThere(c) == ~rc[c].kind.body \/ rc[c].sent = 0

\* An attempt was made.  It may end early, before the body was read: the
\* transport reads and closes the body in a goroutine of its own.
Attempted(r, early) == [r EXCEPT !.sent = @ + 1, !.unread = @ /\ early]

\* The endpoint answers and its response is copied.
Proxied(c) ==
  /\ AtUpstream(c) /\ BodyThere(c)
  /\ NextFilter(c)
  /\ \E status \in UpstreamStatuses, early \in BOOLEAN :
       \E w \in Writes(c, rc[c], status, TRUE) :
         rc' = [rc EXCEPT ![c] = Attempted(Answered(w, status), early)]
  /\ UNCHANGED <<quiet, metricsVars, limiterVars>>

\* The attempts that the policy gives a request.
Attempts(r) == MaxAttempts(r.cluster, r.override, r.kind.method)

\* waitForCapacity polls: for a slot of the cluster at the top of the loop, or
\* because Pick finds every endpoint at its limit.
Wait(c) ==
  /\ AtUpstream(c)
  /\ \E place \in {"slot", "endpoint"} :
       /\ place = "slot" => rc[c].wait = "no"
       /\ rc' = [rc EXCEPT ![c].wait = place]
  /\ UNCHANGED <<quiet, todo, metricsVars, limiterVars>>

Waiting(c) == AtFilter(c, "upstream") /\ rc[c].wait \in {"slot", "endpoint"}

\* TryAcquire succeeds in the end: the turn goes on with the slot, or, after
\* the wait for an endpoint, with the next turn, if there is one; if not, an
\* error of an earlier attempt is returned, or that there was none.
Acquired(c) ==
  /\ Waiting(c)
  /\ \/ rc[c].wait = "slot" /\ rc' = [rc EXCEPT ![c].wait = "held"]
     \/ /\ rc[c].wait = "endpoint" /\ rc[c].turn + 1 < Attempts(rc[c])
        /\ rc' = [rc EXCEPT ![c].wait = "no", ![c].turn = @ + 1]
     \/ /\ rc[c].wait = "endpoint" /\ rc[c].turn + 1 >= Attempts(rc[c])
        /\ \E err \in {"error"} \cup (IF rc[c].sent > 0 THEN {"timeout"} ELSE {}) :
             rc' = [rc EXCEPT ![c].wait = "no", ![c].err = err]
  /\ UNCHANGED <<quiet, todo, metricsVars, limiterVars>>

\* waitForCapacity answers 503: nobody may wait, or too many do.
Refused(c) ==
  /\ AtUpstream(c)
  /\ NextFilter(c)
  /\ \E w \in Writes(c, rc[c], 503, TRUE) :
       rc' = [rc EXCEPT ![c] = [Answered(w, 503) EXCEPT !.wait = "no"]]
  /\ UNCHANGED <<quiet, metricsVars, limiterVars>>

\* The connection's context, or the stream's, ends the wait with 504.
WaitEnds(c) ==
  /\ Waiting(c)
  /\ IF proto[c] = "h1" THEN stopped ELSE gone[c]
  /\ NextFilter(c)
  /\ \E w \in Writes(c, rc[c], 504, TRUE) :
       rc' = [rc EXCEPT ![c] = [Answered(w, 504) EXCEPT !.wait = "no"]]
  /\ UNCHANGED <<quiet, metricsVars, limiterVars>>

\* The attempt of this turn fails.
Failed(r, early, err) ==
  [Attempted(r, early) EXCEPT !.err = err, !.turn = @ + 1, !.wait = "no"]

\* An attempt too many: the first one counts as a retry that is left.
AttemptFailsOnceMore(c) ==
  /\ AtUpstream(c)
  /\ \E err \in {"none", "error", "timeout"}, early \in BOOLEAN :
       /\ err = "none" => rc[c].turn < Attempts(rc[c])
       /\ rc' = [rc EXCEPT ![c] = Failed(@, early, err)]
  /\ UNCHANGED <<quiet, todo, metricsVars, limiterVars>>

\* An attempt fails.  The next turn follows, or the error is returned: after
\* the last one, and when the request's context ends during the backoff.
AttemptFails(c) ==
  /\ AtUpstream(c)
  /\ \E err \in {"none", "error", "timeout"}, early \in BOOLEAN :
       /\ err = "none" => rc[c].turn + 1 < Attempts(rc[c])
       /\ rc' = [rc EXCEPT ![c] = Failed(@, early, err)]
  /\ UNCHANGED <<quiet, todo, metricsVars, limiterVars>>

\* Pick finds no endpoint that it may take, or the request cannot be built.
NoEndpoint(c) ==
  /\ AtUpstream(c)
  /\ rc' = [rc EXCEPT ![c].err = "error"]
  /\ UNCHANGED <<quiet, todo, metricsVars, limiterVars>>

\* The response ends in the middle, or cannot be written.
Cut(c) ==
  /\ AtUpstream(c) /\ BodyThere(c)
  /\ \E status \in UpstreamStatuses, err \in {"error", "timeout"}, early \in BOOLEAN :
       \E w \in Writes(c, rc[c], status, FALSE) :
         rc' = [rc EXCEPT ![c] = [Attempted(w, early) EXCEPT !.err = err]]
  /\ UNCHANGED <<quiet, todo, metricsVars, limiterVars>>
-----------------------------------------------------------------------------
(* Answering a request that the filters are done with.                     *)

FiltersDone(c) == pc[c] = "chain" /\ (todo[c] = <<>> \/ rc[c].err # "none")

\* The answer to a request that neither failed nor was answered.
DefaultStatus(r) == IF r.cluster = NoCluster THEN 404 ELSE 200

\* An answer that overlooks the error, as that of the HTTP/2 handler does.
FallbackIgnoringError(r) == DefaultStatus(r)

\* The answer of the connection manager to an unanswered request.
FallbackStatus(r) ==
  CASE r.err = "timeout" -> 504 [] r.err = "error" -> 502 [] OTHER -> DefaultStatus(r)

\* The status that HCM.Handle logs.
FinalStatus(r) == IF r.responded THEN r.status ELSE FallbackStatus(r)

\* A connection manager that also answers what a filter has answered.
CompletedAgain(r) ==
  [Written(r, FallbackStatus(r), TRUE) EXCEPT !.logged = FinalStatus(r)]

\* The request once HCM.Handle has answered it, where no filter did.
Completed(r) ==
  [(IF r.responded THEN r ELSE Written(r, FallbackStatus(r), TRUE)) EXCEPT !.logged = FinalStatus(r)]

\* HCM.Handle: answer if no filter did, flush, log and count.
Finish(c) ==
  /\ proto[c] = "h1" /\ FiltersDone(c)
  /\ rc' = [rc EXCEPT ![c] = Completed(@)]
  /\ logged' = [logged EXCEPT ![ClassOf(FinalStatus(rc[c]))] = @ + 1]
  /\ Inc(IncDownstreamRequest(rc[c].kind.method, rc[c].cluster) \cup IncCode(FinalStatus(rc[c])))
  /\ pc' = [pc EXCEPT ![c] = "answered"]
  /\ UNCHANGED <<open, gone, proto, client, nets, todo, lost, served, stopped, active, limiterVars>>

\* The answer cannot be written: HCM.Handle returns before it logs.
WriteFails(c) ==
  /\ proto[c] = "h1" /\ FiltersDone(c) /\ gone[c]
  /\ Return(c, TRUE)
  /\ lost' = lost + 1
  /\ rc' = [rc EXCEPT ![c] = NoRequest]
  /\ todo' = [todo EXCEPT ![c] = <<>>]
  /\ UNCHANGED <<open, gone, proto, client, served, stopped, metricsVars, limiterVars>>

\* h2Handler.ServeHTTP ignores the error, logs and counts nothing.  Where a
\* response was cut the default answer is added to it.
FinishStream(c) ==
  /\ proto[c] = "h2" /\ FiltersDone(c)
  /\ \E w \in IF rc[c].responded THEN {rc[c]} ELSE Writes(c, rc[c], DefaultStatus(rc[c]), TRUE) :
       rc' = [rc EXCEPT ![c] = w]
  /\ pc' = [pc EXCEPT ![c] = "answered"]
  /\ UNCHANGED <<open, gone, proto, client, nets, todo, lost, served, stopped, metricsVars, limiterVars>>

\* The turn of the loop, or the stream, ends and its request is forgotten,
\* but for a body that is still in the reader.
NextTurn(c) ==
  /\ pc[c] = "answered"
  /\ IF proto[c] = "h1" /\ rc[c].kind.close THEN Return(c, FALSE)
     ELSE pc' = [pc EXCEPT ![c] = "read"] /\ UNCHANGED nets
  /\ rc' = [rc EXCEPT ![c] = [NoRequest EXCEPT !.unread = rc[c].unread]]
  /\ todo' = [todo EXCEPT ![c] = <<>>]
  /\ UNCHANGED <<open, gone, proto, client, lost, served, stopped, metricsVars, limiterVars>>

Upstream(c) ==
  \/ Unforwarded(c) \/ Proxied(c) \/ Refused(c) \/ Wait(c) \/ WaitEnds(c)
  \/ AttemptFails(c) \/ NoEndpoint(c) \/ Cut(c)

\* The steps that a connection's goroutine takes without its client.
Step(c) ==
  \/ Execute(c) \/ HandleReturns(c) \/ ReadFails(c)
  \/ Limit(c) \/ Route(c) \/ RouteOptions(c) \/ Upstream(c)
  \/ Finish(c) \/ WriteFails(c) \/ FinishStream(c) \/ NextTurn(c)

Next ==
  \/ \E c \in Conns :
       \/ \E hs \in Handshakes[c] : Accept(c, hs)
       \/ \E k \in RequestKinds[c] : ReadRequest(c, k)
       \/ Step(c) \/ Acquired(c) \/ ParseFails(c) \/ ClientCloses(c) \/ CloseAtShutdown(c)
  \/ Shutdown
  \/ Tick /\ UNCHANGED <<connVars, metricsVars>>

\* The scheduler runs every goroutine; an attempt ends, by the timeouts or
\* by the endpoint.  Capacity need not come, as its wait has no other end than
\* that of the context.  Clients, the clock and the supervisor need not move.
Fairness == \A c \in Conns : WF_vars(Step(c)) /\ WF_vars(CloseAtShutdown(c))

Spec == Init /\ [][Next]_vars /\ Fairness
-----------------------------------------------------------------------------
(* Properties.                                                             *)

AttemptBound ==
  1 + Max({0} \cup {RetryPolicy[cl].retries : cl \in Clusters}
              \cup {Routes[i].retries : i \in DOMAIN Routes})

(* Every variable has its type; no policy gives more attempts than the     *)
(* largest max_retries of the configuration.                               *)
TypeOK ==
  /\ LimiterTypeOK
  /\ counters \in [Names -> Nat] /\ active \in Nat /\ logged \in [Classes -> Nat]
  /\ pc \in [Conns -> {"new", "net", "read", "chain", "answered", "closed"}]
  /\ open \in [Conns -> BOOLEAN] /\ gone \in [Conns -> BOOLEAN] /\ stopped \in BOOLEAN
  /\ proto \in [Conns -> {"h1", "h2"}] /\ client \in [Conns -> Clients]
  /\ \A c \in Conns : served[c] \in 0 .. MaxRequests[c]
  /\ \A c \in Conns :
       /\ IsSuffix(todo[c], FiltersOf(proto[c]))
       /\ rc[c].kind \in RequestKinds[c] \cup {NoKind}
       /\ rc[c].cluster \in Clusters \cup {NoCluster}
       /\ rc[c].sent \in 0 .. AttemptBound
       /\ rc[c].wait \in {"no", "slot", "held", "endpoint"}
       /\ rc[c].err \in {"none", "error", "timeout"}
       /\ \A i \in DOMAIN rc[c].answers : rc[c].answers[i].status \in Statuses

(* A request is answered before the next one is read.  A second response   *)
(* follows only where the first is the limiter's 429, or a response of the *)
(* endpoint that ended in the middle, and a third one never.  The access   *)
(* log shows the status of one of them.                                    *)
OneAnswer ==
  \A c \in Conns :
    LET answers == rc[c].answers
    IN  /\ pc[c] = "answered" => answers # <<>>
        /\ Len(answers) <= 2
        /\ Len(answers) = 2 => rc[c].limited \/ ~answers[1].whole
        /\ rc[c].logged # 0 => \E i \in DOMAIN answers : answers[i].status = rc[c].logged

(* A request that was forwarded and whose path some rule matches went to   *)
(* the cluster of the first such rule, and no more often than that rule's  *)
(* options and the cluster's policy say; HTTP/2 has no options.            *)
ForwardedByItsRule ==
  \A c \in Conns :
    LET hits == Matching(Routes, rc[c].kind.path)
        rule == Routes[Min(hits)]
    IN  rc[c].sent # 0 /\ hits # {} =>
          /\ rc[c].cluster = rule.cluster
          /\ rc[c].sent <= MaxAttempts(rule.cluster, IF proto[c] = "h1" THEN rule.retries ELSE 0,
                                       rc[c].kind.method)

(* An HTTP/1.1 request that the limiter let pass and that could not be     *)
(* forwarded ends with 502, or 504 after a timeout, and not with the       *)
(* default answer that names the cluster as if it had been reached.        *)
FailureReported ==
  \A c \in Conns :
    proto[c] = "h1" /\ rc[c].logged # 0 /\ ~rc[c].limited /\ rc[c].err # "none" =>
      /\ rc[c].logged = IF rc[c].err = "timeout" THEN 504 ELSE 502
      /\ Last(rc[c].answers) = [status |-> rc[c].logged, whole |-> TRUE]

(* The metrics agree with each other and with the access log: responses in *)
(* total, by class and by label, the requests that are not logged yet or   *)
(* whose answer could not be written, and the connections being handled.   *)
CountersExact ==
  LET SumOf(S, f(_)) == MapThenSumSet(f, S)
  IN  /\ active = Cardinality({c \in Conns : open[c]})
      /\ counters[Responses] = SumOf(Classes, LAMBDA n : logged[n])
      /\ \A n \in Classes : counters[Class(n)] = logged[n]
      /\ counters[Responses] = SumOf(Methods \X Targets, LAMBDA x : counters[Labelled(x[1], x[2])])
      /\ counters[Requests] = counters[Responses] + lost +
           Cardinality({c \in Conns : proto[c] = "h1" /\ pc[c] = "chain"})

(* Every request that was read is charged once, whichever connection it    *)
(* came on: some bucket gave it a token, or it was denied and counted as   *)
(* such, or the limiter has not seen it yet.                               *)
EveryRequestCharged ==
  MapThenSumSet(LAMBDA b : Len(grants[b]), Buckets) + counters[RateLimited]
      + Cardinality({c \in Conns : pc[c] = "chain" /\ todo[c] = FiltersOf(proto[c])})
    = MapThenSumSet(LAMBDA c : served[c], Conns)

(* Whatever the filters and the endpoint do, a request that was read gets  *)
(* an answer, unless its connection is closed before or it waits for       *)
(* capacity for ever.                                                      *)
RequestsAnswered ==
  \A c \in Conns :
    pc[c] = "chain" ~>
      gone[c] \/ (pc[c] = "answered" /\ rc[c].answers # <<>>) \/ []Waiting(c)

(* After a shutdown every connection's handler returns, which is what the  *)
(* listener's wait group waits for.                                        *)
ShutdownReturns == stopped ~> \A c \in Conns : ~open[c]

(* "Each accepted request takes one token. No tokens -> 429": a request    *)
(* that the limiter denied is not forwarded.                               *)
LimitedNotForwarded == \A c \in Conns : rc[c].limited => rc[c].sent = 0

(* "The router picks a cluster by longest-matching path prefix": the rule  *)
(* that gave a request its cluster has the longest prefix that matches.    *)
LongestPrefixRouted ==
  \A c \in Conns :
    LET hits == Matching(Routes, rc[c].kind.path)
    IN  rc[c].cluster # NoCluster /\ hits # {} =>
          \A i \in hits : Len(Routes[i].prefix) <= Len(Routes[rc[c].route].prefix)
=============================================================================
