------------------------------ MODULE Cluster ------------------------------
(***************************************************************************)
(* One upstream cluster of internal/cluster/manager.go: the counters and   *)
(* the endpoint table that every request goroutine, every health-check     *)
(* goroutine and every resolver goroutine shares.  Clusters do not share   *)
(* state with one another, so one of them is modelled.                     *)
(*                                                                         *)
(* The module owns the shared variables and offers one operator per method *)
(* (or per atomic access of a method).  The modules that EXTEND it say who *)
(* calls them and when.                                                    *)
(*                                                                         *)
(* An entry of the map `state` exists for every address that was ever in   *)
(* the endpoint slice and is never deleted, so the nil cases of the source *)
(* cannot be met by a picked endpoint and `state` is a total function.     *)
(***************************************************************************)
EXTENDS Integers, Sequences, FiniteSets

CONSTANTS
  Endpoints,           \* the addresses the endpoint slice may ever hold
  EndpointLists,       \* the slices the cluster may start with, or discovery install
  LbPolicies,          \* the policies to consider, a subset of Policies
  CbMaxReqs,           \* circuit_breaker.max_requests, 0 = unlimited
  EpMaxReqs,           \* circuit_breaker.per_endpoint_max_requests, 0 = unlimited
  Consecutive,         \* outlier.consecutive_failures
  EjectFor,            \* outlier.ejection_seconds, in ticks of the clock
  HealthyThreshold,    \* health_check.healthy_threshold
  UnhealthyThreshold,  \* health_check.unhealthy_threshold
  HealthChecked,       \* the endpoints with an active check ({}: no health_check)
  TimeBound            \* bound of the model: the clock stops here

Policies == {"round_robin", "random", "least_requests"}

ASSUME LimitsAssumption ==
  /\ CbMaxReqs \in Nat
  /\ EpMaxReqs \in Nat
ASSUME OutlierAssumption ==
  /\ Consecutive \in Nat \ {0}
  /\ EjectFor \in Nat \ {0}
ASSUME HealthCheckAssumption ==
  /\ HealthyThreshold \in Nat \ {0}
  /\ UnhealthyThreshold \in Nat \ {0}
  /\ HealthChecked \subseteq Endpoints
ASSUME EndpointListsAssumption == EndpointLists \subseteq Seq(Endpoints)
ASSUME LbPoliciesAssumption == LbPolicies \subseteq Policies
ASSUME TimeBoundAssumption == TimeBound \in Nat

VARIABLES
  lbPolicy,    \* Cluster.lbPolicy, fixed by NewManager
  endpoints,   \* Cluster.Endpoints, swapped whole under mu
  rr,          \* Cluster.rr, the round-robin cursor
  inflight,    \* Cluster.inflight, the breaker's atomic counter
  epInflight,  \* epState.inFlight of every endpoint, an atomic counter
  health,      \* the other fields of every epState
  now          \* what time.Now() returns

clusterVars == <<lbPolicy, endpoints, rr, inflight, epInflight, health, now>>

\* The fields of epState that Pick, the outlier detector and the active checks use.
Health ==
  [failures: Nat, unhealthyUntil: Nat, activeUnhealthy: BOOLEAN,
   consecSucc: Nat, consecFail: Nat]

\* Type correctness of the shared fields of Cluster and epState.
ClusterTypeOK ==
  /\ lbPolicy \in Policies
  /\ endpoints \in Seq(Endpoints)
  /\ rr \in Nat
  /\ inflight \in Int
  /\ epInflight \in [Endpoints -> Int]
  /\ health \in [Endpoints -> Health]
  /\ now \in Nat

\* A zero epState.
FreshHealth ==
  [failures |-> 0, unhealthyUntil |-> 0, activeUnhealthy |-> FALSE,
   consecSucc |-> 0, consecFail |-> 0]

\* NewManager, and the defaults it fills in (the constants are the resulting values).
NewManager ==
  /\ lbPolicy \in LbPolicies
  /\ endpoints \in EndpointLists
  /\ rr = 0
  /\ inflight = 0
  /\ epInflight = [e \in Endpoints |-> 0]
  /\ health = [e \in Endpoints |-> FreshHealth]
  /\ now = 0

----------------------------------------------------------------------------
(* The circuit breaker's counter.                                          *)

\* The atomic add of TryAcquire.  It always happens; whether it admits is read off its result.
AddInflight == inflight' = inflight + 1

\* Mutant: the comparison is made with the count before the add.
AdmitsOneMore == CbMaxReqs = 0 \/ inflight <= CbMaxReqs

\* Mutant: the last slot is never given.
AdmitsOneLess == CbMaxReqs = 0 \/ inflight + 1 < CbMaxReqs

\* TryAcquire returns true when there is no limit or the add stayed within it.
Admits == CbMaxReqs = 0 \/ inflight + 1 <= CbMaxReqs

\* The second atomic add of a TryAcquire that is denied.
RollBack == inflight' = inflight - 1

\* Release: atomic add of -1, and a store of 0 should the result be negative.
ReleaseSlot == inflight' = IF inflight - 1 < 0 THEN 0 ELSE inflight - 1

----------------------------------------------------------------------------
(* The per-endpoint counters.                                              *)

\* IncEndpointInFlight does not look at the limit: the caller checked it in Pick.
IncEndpointInFlight(e) == epInflight' = [epInflight EXCEPT ![e] = @ + 1]

\* DecEndpointInFlight clamps at 0 as Release does.
DecEndpointInFlight(e) ==
  epInflight' = [epInflight EXCEPT ![e] = IF @ - 1 < 0 THEN 0 ELSE @ - 1]

underEndpointCap(e) == EpMaxReqs = 0 \/ epInflight[e] < EpMaxReqs

----------------------------------------------------------------------------
(* Health of an endpoint.                                                  *)

\* Seen by a Pick that read the clock at time t.
isAvailable(e, t) ==
  /\ ~health[e].activeUnhealthy
  /\ t >= health[e].unhealthyUntil

\* One more failure at time t: count it, or eject the endpoint and start counting anew.
AfterFailure(h, t) ==
  IF h.failures + 1 >= Consecutive
    THEN [h EXCEPT !.failures = 0, !.unhealthyUntil = t + EjectFor]
    ELSE [h EXCEPT !.failures = @ + 1]

\* markFailure under mu, with the time t that ReportFailure read before locking.
markFailure(e, t) == health' = [health EXCEPT ![e] = AfterFailure(@, t)]

\* markSuccess resets the count; an ejection in force stays.
markSuccess(e) == health' = [health EXCEPT ![e].failures = 0]

\* A streak counter is only compared with its threshold: it saturates there.
Bump(n, threshold) == IF n < threshold THEN n + 1 ELSE n

\* One more probe: the streaks, and the verdict when one of them reaches its threshold.
AfterProbe(h, healthy) ==
  LET succ == IF healthy THEN Bump(h.consecSucc, HealthyThreshold) ELSE 0
      fail == IF healthy THEN 0 ELSE Bump(h.consecFail, UnhealthyThreshold)
  IN  [h EXCEPT !.consecSucc = succ,
                !.consecFail = fail,
                !.activeUnhealthy = IF @ THEN succ < HealthyThreshold
                                         ELSE fail >= UnhealthyThreshold]

\* updateActiveHealth under mu, with the result of one probe.
updateActiveHealth(e, healthy) == health' = [health EXCEPT ![e] = AfterProbe(@, healthy)]

----------------------------------------------------------------------------
(* What happens to the cluster besides requests.                           *)

\* One tick of runHealthCheck for e: the probe's answer is the network's.
Probe(e) ==
  /\ \E healthy \in BOOLEAN : updateActiveHealth(e, healthy)
  /\ UNCHANGED <<lbPolicy, endpoints, rr, inflight, epInflight, now>>

\* applyEndpointSet swaps the slice under mu; requests keep the copy they took.  A lookup that
\* succeeds has an answer, so the slice is empty only before the first one.
ApplyEndpointSet(eps) ==
  /\ eps # <<>>
  /\ eps # endpoints
  /\ endpoints' = eps
  /\ UNCHANGED <<lbPolicy, rr, inflight, epInflight, health, now>>

\* Time passes.
Tick ==
  /\ now < TimeBound
  /\ now' = now + 1
  /\ UNCHANGED <<lbPolicy, endpoints, rr, inflight, epInflight, health>>

ClusterEnv ==
  \/ \E e \in HealthChecked : Probe(e)
  \/ \E eps \in EndpointLists : ApplyEndpointSet(eps)
  \/ Tick
=============================================================================
