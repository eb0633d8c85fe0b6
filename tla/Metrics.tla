------------------------------ MODULE Metrics ------------------------------
(***************************************************************************)
(* The counters of internal/obs/metrics that the listener, the connection  *)
(* manager and the rate limiter keep, and the access log they must agree   *)
(* with.  A counter is made when it is first used and is then only added   *)
(* to, atomically, so the additions of one call are one step.              *)
(***************************************************************************)
EXTENDS Integers, FiniteSetsExt

CONSTANTS
  Methods,  \* the request methods
  Targets   \* the clusters a request may be labelled with

\* The labels are those of the requests that come, which are finitely many.
ASSUME MetricsConstants == IsFiniteSet(Methods) /\ IsFiniteSet(Targets)

VARIABLES
  counters,  \* the value of each counter
  active,    \* the gauge downstream_active_connections
  logged     \* history: the access log entries of each class of status

metricsVars == <<counters, active, logged>>

Accepted == <<"downstream_connections_accepted_total">>
Requests == <<"downstream_http_requests_total">>
Responses == <<"http_responses_total">>
RateLimited == <<"rate_limit_dropped_total">>
Class(n) == <<"http_responses_class_total", n>>
Labelled(method, cluster) == <<"downstream_http_requests_total", method, cluster>>

\* The statuses of HTTP, and their classes; 0 is "other".
Statuses == 100 .. 999
Classes == 0 .. 5
ClassOf(status) == IF status < 600 THEN status \div 100 ELSE 0

Names ==
  {Accepted, Requests, Responses, RateLimited} \cup {Class(n) : n \in Classes}
    \cup {Labelled(m, t) : m \in Methods, t \in Targets}

MetricsInit ==
  /\ counters = [n \in Names |-> 0]
  /\ active = 0
  /\ logged = [n \in Classes |-> 0]

\* Inc of each of some counters.
Inc(names) == counters' = [n \in Names |-> IF n \in names THEN counters[n] + 1 ELSE counters[n]]

\* IncCode without the class of an error of the server.
IncCodeBelow500(status) ==
  IF status < 500 THEN {Responses, Class(ClassOf(status))} ELSE {Responses}

\* The counters that IncDownstreamRequest and IncCode add to.
IncDownstreamRequest(method, cluster) == {Labelled(method, cluster)}
IncCode(status) == {Responses, Class(ClassOf(status))}

AddGauge(delta) == active' = active + delta
=============================================================================
