-------------------------- MODULE ConnectionProofs --------------------------
(***************************************************************************)
(* The buckets, the routes, the attempts and the metrics of the proxy with *)
(* any number of connections, filter chains, routes and requests.          *)
(***************************************************************************)
EXTENDS Connection, RateLimiterProofs, RoutingProofs, AnswerProofs, FiniteSetTheorems

\* A connection does not change its client.
ClientsKnown == client \in [Conns -> Clients]

\* The step of a connection that touches the limiter charges the bucket that
\* belongs to its protocol and its client.
LEMMA LimitCharges ==
  ASSUME ClientsKnown, NEW c \in Conns, Limit(c)
  PROVE  LimiterNext
<1> DEFINE l == IF proto[c] = "h1" THEN "hcm" ELSE "h2"
<1>1. Charge(BucketOf(l, client[c]))
  BY DEF Limit
<1>2. l \in Limiters /\ client[c] \in Clients
  BY ConnectionConstants DEF ClientsKnown
<1> QED BY <1>1, <1>2 DEF LimiterNext

\* The other steps of a connection leave the buckets and its client alone.
LEMMA OtherStepsQuiet ==
  ASSUME NEW c \in Conns,
         \/ \E hs \in Handshakes[c] : Accept(c, hs)
         \/ \E k \in RequestKinds[c] : ReadRequest(c, k)
         \/ Execute(c) \/ HandleReturns(c) \/ ReadFails(c) \/ ParseFails(c)
         \/ Route(c) \/ RouteOptions(c) \/ Upstream(c)
         \/ Finish(c) \/ WriteFails(c) \/ FinishStream(c) \/ NextTurn(c)
         \/ Acquired(c) \/ ClientCloses(c) \/ CloseAtShutdown(c)
  PROVE  UNCHANGED limiterVars /\ UNCHANGED client
<1>1. ASSUME NEW hs, Accept(c, hs) PROVE UNCHANGED limiterVars /\ UNCHANGED client
  BY <1>1 DEF Accept, limiterVars
<1>2. ASSUME NEW k, ReadRequest(c, k) PROVE UNCHANGED limiterVars /\ UNCHANGED client
  BY <1>2 DEF ReadRequest, limiterVars
<1>3. ASSUME Execute(c) \/ HandleReturns(c) \/ ReadFails(c) \/ ParseFails(c)
      PROVE  UNCHANGED limiterVars /\ UNCHANGED client
  BY <1>3 DEF Execute, HandleReturns, ReadFails, ParseFails, limiterVars
<1>4. ASSUME Route(c) \/ RouteOptions(c)
      PROVE  UNCHANGED limiterVars /\ UNCHANGED client
  BY <1>4 DEF Route, RouteOptions, quiet, limiterVars
<1>5. ASSUME Upstream(c) \/ Acquired(c) PROVE UNCHANGED limiterVars /\ UNCHANGED client
  BY <1>5 DEF Upstream, Unforwarded, Proxied, Refused, Wait, WaitEnds, AttemptFails, NoEndpoint, Cut,
     Acquired, quiet, limiterVars
<1>6. ASSUME Finish(c) \/ WriteFails(c) \/ FinishStream(c) \/ NextTurn(c)
      PROVE  UNCHANGED limiterVars /\ UNCHANGED client
  BY <1>6 DEF Finish, WriteFails, FinishStream, NextTurn, limiterVars
<1>7. ASSUME ClientCloses(c) \/ CloseAtShutdown(c)
      PROVE  UNCHANGED limiterVars /\ UNCHANGED client
  BY <1>7 DEF ClientCloses, CloseAtShutdown, limiterVars
<1> QED BY <1>1, <1>2, <1>3, <1>4, <1>5, <1>6, <1>7

\* Every step of the proxy is a step of the limiters or leaves them alone.
LEMMA StepRefines ==
  ClientsKnown /\ [Next]_vars => [LimiterNext]_limiterVars /\ ClientsKnown'
<1> SUFFICES ASSUME ClientsKnown, [Next]_vars
             PROVE  [LimiterNext]_limiterVars /\ ClientsKnown'
  OBVIOUS
<1>1. CASE \E c \in Conns : Limit(c)
  <2>1. PICK c \in Conns : Limit(c)
    BY <1>1
  <2>2. LimiterNext
    BY <2>1, LimitCharges
  <2>3. UNCHANGED client
    BY <2>1 DEF Limit, quiet
  <2> QED BY <2>2, <2>3 DEF ClientsKnown
<1>2. CASE Tick /\ UNCHANGED <<connVars, metricsVars>>
  <2>1. UNCHANGED client
    BY <1>2 DEF connVars
  <2> QED BY <1>2, <2>1 DEF LimiterNext, ClientsKnown
<1>3. CASE Shutdown \/ UNCHANGED vars
  <2>1. UNCHANGED limiterVars /\ UNCHANGED client
    BY <1>3 DEF Shutdown, vars, connVars, limiterVars
  <2> QED BY <2>1 DEF ClientsKnown
<1>4. CASE /\ Next /\ ~(\E c \in Conns : Limit(c)) /\ ~Shutdown
           /\ ~(Tick /\ UNCHANGED <<connVars, metricsVars>>)
  <2>1. UNCHANGED limiterVars /\ UNCHANGED client
    BY <1>4, OtherStepsQuiet DEF Next, Step
  <2> QED BY <2>1 DEF ClientsKnown
<1> QED BY <1>1, <1>2, <1>3, <1>4

\* The connections charge the buckets as the limiter's specification says.
LEMMA BucketsAsSpecified == Spec => LimiterSpec
<1>1. Init => LimiterInit /\ ClientsKnown
  BY DEF Init, ClientsKnown
<1> QED BY <1>1, StepRefines, PTL DEF Spec, LimiterSpec

(* Each bucket of each of the two limiters keeps its limit for all the     *)
(* connections together that charge it, however their requests interleave. *)
(* That says nothing of a client that uses both protocols, and so two      *)
(* buckets, also where the scope is global.                                *)
THEOREM BucketsKeepLimit == Spec => [](BucketExact /\ WindowBound)
BY BucketsAsSpecified, TokensExact, LimitKept, PTL
-----------------------------------------------------------------------------
(* Sums over a finite set, as MapThenSumSet computes them.                 *)

\* it gives the sum of h over every part of S.
Sums(it, h, S) ==
  it = [s \in SUBSET S |->
          IF s = {} THEN 0 ELSE h[CHOOSE x \in s : TRUE] + it[s \ {CHOOSE x \in s : TRUE}]]

\* A set without one of its elements is smaller.
LEMMA OneLess ==
  ASSUME NEW S, IsFiniteSet(S), NEW s \in SUBSET S, s # {}
  PROVE  /\ (CHOOSE x \in s : TRUE) \in s
         /\ Cardinality(s) \in Nat /\ Cardinality(s) >= 1
         /\ Cardinality(s \ {CHOOSE x \in s : TRUE}) = Cardinality(s) - 1
<1> DEFINE x == CHOOSE x1 \in s : TRUE
<1>1. x \in s
  OBVIOUS
<1>2. IsFiniteSet(s)
  BY FS_Subset
<1> HIDE DEF x
<1>3. Cardinality(s) \in Nat /\ Cardinality(s) # 0 /\ Cardinality(s \ {x}) = Cardinality(s) - 1
  BY <1>1, <1>2, FS_CardinalityType, FS_EmptySet, FS_RemoveElement
<1> QED BY <1>1, <1>3 DEF x

\* The sums exist.
LEMMA SumsExist ==
  ASSUME NEW S, IsFiniteSet(S), NEW h
  PROVE  \E it : Sums(it, h, S)
<1> DEFINE x(s) == CHOOSE x1 \in s : TRUE
           Turn(it, s) == IF s = {} THEN 0 ELSE h[x(s)] + it[s \ {x(s)}]
           D(k) == {s \in SUBSET S : Cardinality(s) <= k}
           K == {k \in Nat : \E it : it = [s \in D(k) |-> Turn(it, s)]}
<1>0. \A s \in SUBSET S : s # {} =>
        /\ x(s) \in s /\ Cardinality(s) \in Nat /\ Cardinality(s) >= 1
        /\ Cardinality(s \ {x(s)}) = Cardinality(s) - 1
  BY OneLess
<1> HIDE DEF x
<1>1. 0 \in K
  <2> DEFINE it == [s \in D(0) |-> 0]
  <2>1. \A s \in D(0) : s = {}
    <3> SUFFICES ASSUME NEW s \in D(0), s # {} PROVE FALSE
      OBVIOUS
    <3>1. s \in SUBSET S /\ Cardinality(s) <= 0
      OBVIOUS
    <3>2. Cardinality(s) \in Nat /\ Cardinality(s) >= 1
      BY <1>0, <3>1
    <3> QED BY <3>1, <3>2
  <2>2. it = [s \in D(0) |-> Turn(it, s)]
    BY <2>1
  <2> QED BY <2>2
<1>2. ASSUME NEW k \in Nat, k \in K PROVE k + 1 \in K
  <2>1. PICK it : it = [s \in D(k) |-> Turn(it, s)]
    BY <1>2
  <2> DEFINE up == [s \in D(k + 1) |-> Turn(it, s)]
  <2>2. \A t \in D(k) : t \in D(k + 1)
    <3> SUFFICES ASSUME NEW t \in D(k) PROVE Cardinality(t) <= k + 1
      OBVIOUS
    <3>1. Cardinality(t) \in Nat
      BY FS_Subset, FS_CardinalityType
    <3> QED BY <3>1
  <2>3. \A s \in D(k + 1) : s # {} => s \ {x(s)} \in D(k)
    <3> SUFFICES ASSUME NEW s \in D(k + 1), s # {} PROVE Cardinality(s \ {x(s)}) <= k
      OBVIOUS
    <3>1. Cardinality(s) \in Nat /\ Cardinality(s) <= k + 1 /\ Cardinality(s \ {x(s)}) = Cardinality(s) - 1
      BY <1>0
    <3> QED BY <3>1
  <2> HIDE DEF D
  <2>4. \A t \in D(k) : up[t] = it[t]
    <3> HIDE DEF Turn
    <3> QED BY <2>1, <2>2
  <2>5. \A s \in D(k + 1) : Turn(it, s) = Turn(up, s)
    <3> HIDE DEF up
    <3> QED BY <2>3, <2>4
  <2>6. up = [s \in D(k + 1) |-> Turn(up, s)]
    <3> HIDE DEF Turn
    <3> QED BY <2>5
  <2> HIDE DEF up, Turn
  <2> QED BY <2>6
<1>3. Cardinality(S) \in Nat /\ D(Cardinality(S)) = SUBSET S
  BY FS_CardinalityType, FS_Subset
<1>4. Cardinality(S) \in K
  <2> HIDE DEF K
  <2> QED BY <1>1, <1>2, <1>3, SetInduction
<1>5. PICK it : it = [s \in SUBSET S |-> Turn(it, s)]
  BY <1>3, <1>4
<1> QED BY <1>5 DEF Sums, x

\* The values h2 are the values h1, but for one more of e.
OneUp(h1, h2, e, S) ==
  \A y \in S : h1[y] \in Nat /\ h2[y] = IF y = e THEN h1[y] + 1 ELSE h1[y]

\* Where one value is more by one, so is the sum.
LEMMA SumMove ==
  ASSUME NEW S, IsFiniteSet(S), NEW h1, NEW h2, NEW i1, NEW i2, NEW e,
         Sums(i1, h1, S), Sums(i2, h2, S), OneUp(h1, h2, e, S)
  PROVE  i1[S] \in Nat /\ i2[S] = IF e \in S THEN i1[S] + 1 ELSE i1[S]
<1> DEFINE x(s) == CHOOSE x1 \in s : TRUE
           Good(s) == i1[s] \in Nat /\ i2[s] = IF e \in s THEN i1[s] + 1 ELSE i1[s]
           K == {k \in Nat : \A s \in SUBSET S : Cardinality(s) <= k => Good(s)}
<1>0. \A s \in SUBSET S : s # {} =>
        /\ x(s) \in s /\ Cardinality(s) \in Nat /\ Cardinality(s) >= 1
        /\ Cardinality(s \ {x(s)}) = Cardinality(s) - 1
  BY OneLess
<1>1. \A s \in SUBSET S : s # {} =>
        i1[s] = h1[x(s)] + i1[s \ {x(s)}] /\ i2[s] = h2[x(s)] + i2[s \ {x(s)}]
  BY DEF Sums
<1>2. Good({})
  BY DEF Sums
<1> HIDE DEF x
<1>3. 0 \in K
  <2>1. \A s \in SUBSET S : Cardinality(s) <= 0 => s = {}
    <3> SUFFICES ASSUME NEW s \in SUBSET S, Cardinality(s) <= 0, s # {} PROVE FALSE
      OBVIOUS
    <3>1. Cardinality(s) \in Nat /\ Cardinality(s) >= 1
      BY <1>0
    <3> QED BY <3>1
  <2> HIDE DEF Good
  <2> QED BY <1>2, <2>1
<1>4. ASSUME NEW k \in Nat, k \in K PROVE k + 1 \in K
  <2>0. k + 1 \in Nat
    OBVIOUS
  <2> SUFFICES ASSUME NEW s \in SUBSET S, Cardinality(s) <= k + 1, s # {} PROVE Good(s)
    <3> HIDE DEF Good
    <3> QED BY <1>2, <2>0
  <2> DEFINE t == s \ {x(s)}
  <2>1. t \in SUBSET S /\ Cardinality(t) <= k /\ x(s) \in s /\ x(s) \in S
    BY <1>0
  <2>2. Good(t)
    BY <1>4, <2>1
  <2>3. i1[s] = h1[x(s)] + i1[t] /\ i2[s] = h2[x(s)] + i2[t]
    BY <1>1
  <2>4. h1[x(s)] \in Nat /\ h2[x(s)] = IF x(s) = e THEN h1[x(s)] + 1 ELSE h1[x(s)]
    BY <2>1 DEF OneUp
  <2>5. e \in s <=> e \in t \/ x(s) = e
    BY <2>1
  <2>6. x(s) = e => e \notin t
    OBVIOUS
  <2> HIDE DEF t
  <2> QED BY <2>2, <2>3, <2>4, <2>5, <2>6
<1>5. Cardinality(S) \in Nat
  BY FS_CardinalityType
<1>6. Cardinality(S) \in K
  <2> HIDE DEF K
  <2> QED BY <1>3, <1>4, <1>5, SetInduction
<1> QED BY <1>5, <1>6

\* The sum of zeros is zero.
LEMMA SumZero ==
  ASSUME NEW S, IsFiniteSet(S), NEW h, NEW it, Sums(it, h, S), \A y \in S : h[y] = 0
  PROVE  it[S] = 0
<1> DEFINE K == {k \in Nat : \A s \in SUBSET S : Cardinality(s) <= k => it[s] = 0}
<1>1. \A s \in SUBSET S : IsFiniteSet(s) /\ Cardinality(s) \in Nat
  BY FS_Subset, FS_CardinalityType
<1>2. it[{}] = 0
  BY DEF Sums
<1>3. 0 \in K
  <2> SUFFICES ASSUME NEW s \in SUBSET S, Cardinality(s) <= 0 PROVE s = {}
    BY <1>2
  <2> QED BY <1>1, FS_EmptySet
<1>4. ASSUME NEW k \in Nat, k \in K PROVE k + 1 \in K
  <2> SUFFICES ASSUME NEW s \in SUBSET S, Cardinality(s) <= k + 1, s # {} PROVE it[s] = 0
    BY <1>2
  <2> DEFINE x == CHOOSE x1 \in s : TRUE
             t == s \ {x}
  <2>1. x \in S /\ t \in SUBSET S /\ Cardinality(t) <= k
    BY <1>1, OneLess
  <2>2. it[s] = h[x] + it[t]
    BY DEF Sums
  <2> HIDE DEF x, t
  <2> QED BY <1>4, <2>1, <2>2
<1>5. Cardinality(S) \in K
  <2> HIDE DEF K
  <2> QED BY <1>1, <1>3, <1>4, SetInduction
<1> QED BY <1>1, <1>5
-----------------------------------------------------------------------------
(* The request of a connection: its route and its attempts.                *)

\* The filters that are left, by protocol.
TodoOf(p) ==
  IF p = "h1"
  THEN {<<>>, <<"upstream">>, <<"options", "upstream">>, <<"route", "options", "upstream">>, HcmFilters}
  ELSE {<<>>, <<"upstream">>, <<"route", "upstream">>, H2Filters}

Overrides == {0} \cup {Routes[i].retries : i \in DOMAIN Routes}
Waits == {"no", "slot", "held", "endpoint"}

RequestFits(c, q) ==
  /\ q.kind \in RequestKinds[c] \cup {NoKind}
  /\ q.cluster \in Clusters \cup {NoCluster}
  /\ q.override \in Overrides
  /\ q.sent \in 0 .. AttemptBound
  /\ q.wait \in Waits

(* Only the upstream proxy, the last filter, has begun a turn of its loop, *)
(* no turn makes more than one attempt, and as long as the proxy has not   *)
(* returned the turn it is at is one that the policy allows.               *)
AttemptLeft(q, rest) ==
  rest # <<>> /\ q.err = "none" =>
    /\ q.turn \in Nat /\ q.sent <= q.turn
    /\ q.turn # 0 => rest = <<"upstream">> /\ (q.cluster # NoCluster => q.turn < Attempts(q))

LastRests == {<<>>, <<"upstream">>}

(* After the router the cluster is that of the route, and after the route  *)
(* options, which HTTP/2 does not have, so are they; only then attempts    *)
(* are made, and no more than both allow, or an error is returned.         *)
Routed(q, rest, p) ==
  LET to == RouteOf(Routes, q.kind.path)
  IN  /\ rest \in LastRests =>
           /\ q.cluster = to.cluster
           /\ q.override = IF p = "h1" THEN RetryOverride(Routes, to.route) ELSE 0
      /\ rest = <<"options", "upstream">> => q.cluster = to.cluster /\ q.route = to.route
      /\ p = "h2" => q.override = 0
      /\ q.sent # 0 => rest \in LastRests /\ q.cluster # NoCluster /\ q.sent <= Attempts(q)
      /\ rest \notin LastRests => q.err = "none"

RouteAt(c) ==
  /\ todo[c] \in TodoOf(proto[c])
  /\ pc[c] = "new" => todo[c] = <<>>
  /\ RequestFits(c, rc[c])
  /\ pc[c] = "chain" => AttemptLeft(rc[c], todo[c])
  /\ pc[c] \in {"chain", "answered"} =>
       rc[c].kind \in RequestKinds[c] /\ Routed(rc[c], todo[c], proto[c])
  /\ pc[c] \notin {"chain", "answered"} => rc[c].sent = 0

RouteInv == \A c \in Conns : RouteAt(c)

\* A finite set of naturals has a bound.
LEMMA FiniteBounded ==
  ASSUME NEW S \in SUBSET Nat, IsFiniteSet(S)
  PROVE  \E b \in Nat : \A y \in S : y <= b
<1>1. PICK n \in Nat : ExistsSurjection(1 .. n, S)
  BY FS_NatSurjection
<1>2. PICK f \in [1 .. n -> S] : \A y \in S : \E i \in 1 .. n : f[i] = y
  BY <1>1 DEF ExistsSurjection, Surjection
<1> DEFINE K == {k \in Nat : k <= n => \E b \in Nat : \A i \in 1 .. k : f[i] <= b}
<1>3. 0 \in K
  OBVIOUS
<1>4. ASSUME NEW k \in Nat, k \in K PROVE k + 1 \in K
  <2> SUFFICES ASSUME k + 1 <= n PROVE \E b \in Nat : \A i \in 1 .. k + 1 : f[i] <= b
    OBVIOUS
  <2>1. PICK b \in Nat : \A i \in 1 .. k : f[i] <= b
    BY <1>4
  <2>2. f[k + 1] \in Nat /\ \A i \in 1 .. k + 1 : f[i] \in Nat
    <3>1. \A i \in 1 .. n : f[i] \in S
      BY <1>2
    <3>2. k + 1 \in 1 .. n /\ \A i \in 1 .. k + 1 : i \in 1 .. n
      OBVIOUS
    <3> QED BY <3>1, <3>2
  <2>3. \A i \in 1 .. k + 1 : i \in 1 .. k \/ i = k + 1
    OBVIOUS
  <2>4. b + f[k + 1] \in Nat /\ \A i \in 1 .. k + 1 : f[i] <= b + f[k + 1]
    BY <2>1, <2>2, <2>3
  <2> QED BY <2>4
<1>5. n \in K
  <2> HIDE DEF K
  <2> QED BY <1>3, <1>4, SetInduction
<1>6. PICK b \in Nat : \A i \in 1 .. n : f[i] <= b
  BY <1>5
<1> QED BY <1>2, <1>6

\* The numbers of retries of the configuration have a maximum.
LEMMA RetriesBounded ==
  /\ AttemptBound \in Nat /\ AttemptBound >= 1
  /\ \A cl \in Clusters : RetryPolicy[cl].retries \in Nat /\ RetryPolicy[cl].retries + 1 <= AttemptBound
  /\ \A o \in Overrides : o \in Nat /\ o + 1 <= AttemptBound
<1> DEFINE A == {RetryPolicy[cl].retries : cl \in Clusters}
           B == {Routes[i].retries : i \in DOMAIN Routes}
           S == {0} \cup A \cup B
<1>1. IsFiniteSet(A)
  <2> DEFINE f == [cl \in Clusters |-> RetryPolicy[cl].retries]
  <2>1. f \in Surjection(Clusters, A)
    BY DEF Surjection
  <2> HIDE DEF f, A
  <2> QED BY <2>1, FS_Surjection, RoutingConstants
<1>2. IsFiniteSet(B)
  <2>0. Len(Routes) \in Nat /\ DOMAIN Routes = 1 .. Len(Routes)
    BY ConnectionConstants, LenProperties
  <2>1. IsFiniteSet(DOMAIN Routes)
    BY <2>0, FS_Interval
  <2> DEFINE f == [i \in DOMAIN Routes |-> Routes[i].retries]
  <2>2. f \in Surjection(DOMAIN Routes, B)
    BY DEF Surjection
  <2> HIDE DEF f, B
  <2> QED BY <2>1, <2>2, FS_Surjection
<1>3. A \subseteq Nat
  BY RoutingConstants
<1>4. B \subseteq Nat
  <2> SUFFICES ASSUME NEW i \in DOMAIN Routes PROVE Routes[i].retries \in Nat
    OBVIOUS
  <2>1. Routes \in Seq(RouteRule) /\ i \in 1 .. Len(Routes)
    BY ConnectionConstants, LenProperties
  <2>2. Routes[i] \in RouteRule
    BY <2>1, ElementOfSeq
  <2> QED BY <2>2 DEF RouteRule
<1>5. IsFiniteSet(S)
  <2> HIDE DEF A, B
  <2> QED BY <1>1, <1>2, FS_Singleton, FS_Union
<1>6. S \in SUBSET Nat /\ S # {} /\ 0 \in S
  BY <1>3, <1>4
<1>7. AttemptBound = 1 + Max(S)
  BY DEF AttemptBound
<1> HIDE DEF S
<1>8. PICK n \in Nat : \A y \in S : y <= n
  BY <1>5, <1>6, FiniteBounded
<1>9. Max(S) \in Nat /\ \A y \in S : Max(S) >= y
  BY <1>6, <1>8, MaxIs
<1>10. AttemptBound \in Nat /\ AttemptBound >= 1 /\ \A y \in S : y \in Nat /\ y + 1 <= AttemptBound
  BY <1>6, <1>7, <1>9
<1>11. A \subseteq S /\ Overrides \subseteq S
  BY DEF S, Overrides
<1>12. \A cl \in Clusters : RetryPolicy[cl].retries \in A
  OBVIOUS
<1> HIDE DEF A, B
<1> QED BY <1>10, <1>11, <1>12

\* A request has one attempt at least, and no more than the configuration allows.
LEMMA AttemptsBounded ==
  ASSUME NEW cl \in Clusters, NEW o \in Overrides, NEW m
  PROVE  MaxAttempts(cl, o, m) \in Nat /\ 1 <= MaxAttempts(cl, o, m) /\ MaxAttempts(cl, o, m) <= AttemptBound
BY RetriesBounded DEF MaxAttempts

\* What is known of the other connections is not touched by the step of one.
LEMMA OneRoutes ==
  ASSUME RouteInv, NEW c \in Conns, RouteAt(c)',
         \A d \in Conns : d # c =>
           pc'[d] = pc[d] /\ proto'[d] = proto[d] /\ todo'[d] = todo[d] /\ rc'[d] = rc[d]
  PROVE  RouteInv'
BY DEF RouteInv, RouteAt

\* The chain of a protocol and what is left of it after a filter.
LEMMA TodoTail ==
  ASSUME NEW p, NEW s \in TodoOf(p), s # <<>>
  PROVE  /\ Tail(s) \in TodoOf(p)
         /\ Head(s) = "upstream" => s = <<"upstream">> /\ Tail(s) = <<>>
         /\ Head(s) = "limit" => Tail(s) \notin LastRests \cup {<<"options", "upstream">>}
         /\ Head(s) = "options" => s = <<"options", "upstream">> /\ p = "h1"
         /\ Head(s) = "route" =>
              Tail(s) = IF p = "h1" THEN <<"options", "upstream">> ELSE <<"upstream">>
<1> USE DEF TodoOf, HcmFilters, H2Filters, LastRests
<1>1. CASE s = <<"upstream">>
  BY <1>1
<1>2. CASE s = <<"options", "upstream">> /\ p = "h1"
  BY <1>2
<1>3. CASE s = <<"route", "upstream">> /\ p # "h1"
  BY <1>3
<1>4. CASE s = <<"route", "options", "upstream">> /\ p = "h1"
  BY <1>4
<1>5. CASE s = HcmFilters
  BY <1>5
<1>6. CASE s = H2Filters
  BY <1>6
<1> QED BY <1>1, <1>2, <1>3, <1>4, <1>5, <1>6

\* The request that a filter finds: only the upstream proxy has made attempts, and it has
\* one left.
LEMMA FilterRequest ==
  ASSUME RouteInv, NEW c \in Conns, NEW f, AtFilter(c, f)
  PROVE  /\ pc[c] = "chain" /\ todo[c] # <<>> /\ Head(todo[c]) = f /\ rc[c].err = "none"
         /\ todo[c] \in TodoOf(proto[c])
         /\ RequestFits(c, rc[c]) /\ rc[c].kind \in RequestKinds[c]
         /\ Routed(rc[c], todo[c], proto[c])
         /\ Tail(todo[c]) \in TodoOf(proto[c])
         /\ f = "upstream" => todo[c] = <<"upstream">> /\ Tail(todo[c]) = <<>>
         /\ f # "upstream" => rc[c].sent = 0 /\ rc[c].turn = 0
         /\ f = "upstream" => rc[c].turn \in Nat /\ rc[c].sent \in Nat /\ rc[c].sent <= rc[c].turn
         /\ f = "upstream" /\ rc[c].cluster # NoCluster =>
              /\ Attempts(rc[c]) \in Nat /\ rc[c].turn < Attempts(rc[c])
              /\ rc[c].sent + 1 <= Attempts(rc[c]) /\ rc[c].sent + 1 \in 0 .. AttemptBound
<1> DEFINE r == rc[c]
<1>1. /\ pc[c] = "chain" /\ todo[c] # <<>> /\ Head(todo[c]) = f /\ r.err = "none"
      /\ todo[c] \in TodoOf(proto[c]) /\ RequestFits(c, r) /\ r.kind \in RequestKinds[c]
      /\ AttemptLeft(r, todo[c]) /\ Routed(r, todo[c], proto[c])
  BY DEF AtFilter, RouteInv, RouteAt
<1>2. /\ Tail(todo[c]) \in TodoOf(proto[c])
      /\ f = "upstream" => todo[c] = <<"upstream">> /\ Tail(todo[c]) = <<>>
  BY <1>1, TodoTail
<1>3. /\ AttemptBound \in Nat /\ r.sent \in 0 .. AttemptBound /\ r.turn \in Nat /\ r.sent <= r.turn
      /\ r.turn # 0 => f = "upstream" /\ (r.cluster # NoCluster => r.turn < Attempts(r))
  BY <1>1, RetriesBounded DEF AttemptLeft, RequestFits
<1>4. r.cluster # NoCluster =>
        Attempts(r) \in Nat /\ 1 <= Attempts(r) /\ Attempts(r) <= AttemptBound
  BY <1>1, AttemptsBounded DEF RequestFits, Attempts
<1> HIDE DEF r
<1>5. r.sent \in Nat /\ (f # "upstream" => r.turn = 0 /\ r.sent = 0)
  BY <1>3
<1>6. ASSUME r.cluster # NoCluster
      PROVE  r.turn < Attempts(r) /\ r.sent + 1 <= Attempts(r) /\ r.sent + 1 \in 0 .. AttemptBound
  BY <1>3, <1>4, <1>6
<1> QED BY <1>1, <1>2, <1>3, <1>4, <1>5, <1>6 DEF r

\* A filter that returns nil hands the request q to the next one.
LEMMA FilterHandsOn ==
  ASSUME AnswerInv, RouteInv, NEW c \in Conns, NEW f, AtFilter(c, f), NextFilter(c),
         UNCHANGED <<pc, proto>>, NEW q, rc' = [rc EXCEPT ![c] = q] \/ (rc' = rc /\ rc[c] = q),
         RequestFits(c, q), q.kind = rc[c].kind, f # "upstream" => q.sent = 0 /\ q.turn = 0,
         Routed(q, Tail(todo[c]), proto[c])
  PROVE  RouteInv'
<1>1. /\ DOMAIN rc = Conns /\ todo \in [Conns -> Rests]
  BY DEF AnswerInv, ConnTypes
<1>2. /\ rc'[c] = q /\ todo'[c] = Tail(todo[c])
      /\ \A d \in Conns : d # c => todo'[d] = todo[d] /\ rc'[d] = rc[d]
  BY <1>1 DEF NextFilter
<1>3. /\ pc[c] = "chain" /\ Tail(todo[c]) \in TodoOf(proto[c])
      /\ f = "upstream" => Tail(todo[c]) = <<>>
      /\ q.kind \in RequestKinds[c]
  BY FilterRequest
<1>4. AttemptLeft(q, Tail(todo[c]))
  BY <1>3 DEF AttemptLeft
<1>5. RouteAt(c)'
  BY <1>2, <1>3, <1>4 DEF RouteAt, RequestFits, AttemptLeft, Attempts, Routed
<1> QED BY <1>2, <1>5, OneRoutes

\* A filter that fails or goes on keeps the request.
LEMMA FilterStays ==
  ASSUME AnswerInv, RouteInv, NEW c \in Conns, NEW f, AtFilter(c, f), UNCHANGED <<pc, proto, todo>>,
         NEW q, rc' = [rc EXCEPT ![c] = q],
         RequestFits(c, q), q.kind = rc[c].kind, AttemptLeft(q, todo[c]),
         Routed(q, todo[c], proto[c])
  PROVE  RouteInv'
<1>1. DOMAIN rc = Conns
  BY DEF AnswerInv, ConnTypes
<1>2. rc'[c] = q /\ \A d \in Conns : d # c => rc'[d] = rc[d]
  BY <1>1
<1>3. /\ pc[c] = "chain" /\ todo[c] \in TodoOf(proto[c]) /\ q.kind \in RequestKinds[c]
  BY FilterRequest
<1>4. RouteAt(c)'
  BY <1>2, <1>3 DEF RouteAt, RequestFits, AttemptLeft, Attempts, Routed
<1> QED BY <1>2, <1>4, OneRoutes

\* The limiter knows nothing of routes.
LEMMA LimitRoutes ==
  ASSUME AnswerInv, RouteInv, NEW c \in Conns, Limit(c)
  PROVE  RouteInv'
<1> DEFINE r == rc[c]
           w == Answered(Written(r, 429, TRUE), 429)
           q == [w EXCEPT !.limited = TRUE]
<1>0. IsRequest(r)
  BY DEF AnswerInv, ConnTypes
<1>1. /\ AtFilter(c, "limit") /\ NextFilter(c) /\ UNCHANGED <<pc, proto>>
      /\ rc' = rc \/ rc' = [rc EXCEPT ![c] = q]
  BY DEF Limit, quiet
<1>2. /\ RequestFits(c, r) /\ r.sent = 0 /\ r.turn = 0 /\ r.err = "none"
      /\ Tail(todo[c]) \notin LastRests \cup {<<"options", "upstream">>}
      /\ proto[c] = "h2" => r.override = 0
  BY <1>1, FilterRequest, TodoTail DEF Routed
<1>3. CASE rc' = rc
  <2>1. Routed(r, Tail(todo[c]), proto[c])
    BY <1>2 DEF Routed
  <2> QED BY <1>1, <1>2, <1>3, <2>1, FilterHandsOn
<1>4. CASE rc' = [rc EXCEPT ![c] = q]
  <2>1. AnswerEffect(r, w, 429, proto[c])
    <3> DEFINE v == Written(r, 429, TRUE)
    <3>1. v \in Writes(c, r, 429, TRUE)
      BY DEF Writes
    <3>2. 429 \in Statuses
      BY DEF Statuses
    <3> HIDE DEF v, r
    <3>3. \A x \in Writes(c, r, 429, TRUE) : AnswerEffect(r, Answered(x, 429), 429, proto[c])
      BY <1>0, <3>2, AnsweredIs
    <3> QED BY <3>1, <3>3 DEF v
  <2> HIDE DEF w
  <2>2. /\ q.kind = r.kind /\ q.cluster = r.cluster /\ q.override = r.override
        /\ q.sent = r.sent /\ q.turn = r.turn /\ q.wait = r.wait /\ q.err = r.err
    BY <2>1 DEF AnswerEffect, IsRequest, Fields
  <2> HIDE DEF q
  <2>3. RequestFits(c, q) /\ Routed(q, Tail(todo[c]), proto[c])
    BY <1>2, <2>2 DEF RequestFits, Routed
  <2> QED BY <1>1, <1>2, <1>4, <2>2, <2>3, FilterHandsOn
<1> QED BY <1>1, <1>3, <1>4

\* The router gives the request its cluster, and the route options their override.
LEMMA EarlyRoutes ==
  ASSUME AnswerInv, RouteInv, NEW c \in Conns, Route(c) \/ RouteOptions(c)
  PROVE  RouteInv'
<1> DEFINE r == rc[c]
           to == RouteOf(Routes, r.kind.path)
<1>0. IsRequest(r) /\ proto[c] \in {"h1", "h2"}
  BY DEF AnswerInv, ConnTypes
<1>1. CASE Route(c)
  <2> DEFINE q == [r EXCEPT !.cluster = to.cluster, !.route = to.route]
  <2>1. /\ AtFilter(c, "route") /\ NextFilter(c) /\ UNCHANGED <<pc, proto>>
        /\ rc' = [rc EXCEPT ![c] = q]
    BY <1>1 DEF Route, quiet
  <2>2. /\ RequestFits(c, r) /\ r.sent = 0 /\ r.turn = 0 /\ r.kind \in RequestKinds[c]
        /\ r.err = "none"
        /\ Tail(todo[c]) = IF proto[c] = "h1" THEN <<"options", "upstream">> ELSE <<"upstream">>
        /\ proto[c] = "h2" => r.override = 0
    <3>1. /\ todo[c] # <<>> /\ Head(todo[c]) = "route" /\ todo[c] \in TodoOf(proto[c])
          /\ RequestFits(c, r) /\ r.sent = 0 /\ r.turn = 0 /\ r.kind \in RequestKinds[c]
          /\ r.err = "none" /\ Routed(r, todo[c], proto[c])
      BY <2>1, FilterRequest
    <3>2. Tail(todo[c]) = IF proto[c] = "h1" THEN <<"options", "upstream">> ELSE <<"upstream">>
      BY <3>1, TodoTail
    <3>3. proto[c] = "h2" => r.override = 0
      BY <3>1 DEF Routed
    <3> QED BY <3>1, <3>2, <3>3
  <2>3. r.kind.path \in Seq(Chars)
    BY <2>2, ConnectionConstants
  <2>4. to.cluster \in Clusters \cup {NoCluster}
    BY <2>3, RouteCluster, ConnectionConstants
  <2> HIDE DEF to
  <2>5. /\ q.kind = r.kind /\ q.cluster = to.cluster /\ q.route = to.route
        /\ q.override = r.override /\ q.sent = r.sent /\ q.turn = r.turn /\ q.wait = r.wait
        /\ q.err = r.err
    BY <1>0 DEF IsRequest, Fields
  <2> HIDE DEF q
  <2>6. RequestFits(c, q)
    BY <2>2, <2>4, <2>5 DEF RequestFits
  <2>7. Routed(q, Tail(todo[c]), proto[c])
    <3>1. CASE proto[c] = "h1"
      <4>1. Tail(todo[c]) = <<"options", "upstream">> /\ Tail(todo[c]) \notin LastRests
        BY <2>2, <3>1 DEF LastRests
      <4> QED BY <2>2, <2>5, <3>1, <4>1 DEF Routed, to
    <3>2. CASE proto[c] = "h2"
      <4>1. Tail(todo[c]) = <<"upstream">> /\ Tail(todo[c]) # <<"options", "upstream">>
        BY <2>2, <3>2
      <4> QED BY <2>2, <2>5, <3>2, <4>1 DEF Routed, to
    <3> QED BY <1>0, <3>1, <3>2
  <2> QED BY <2>1, <2>2, <2>5, <2>6, <2>7, FilterHandsOn
<1>2. CASE RouteOptions(c)
  <2> DEFINE o == RetryOverride(Routes, r.route)
             q == [r EXCEPT !.override = o]
  <2>1. /\ AtFilter(c, "options") /\ NextFilter(c) /\ UNCHANGED <<pc, proto>>
        /\ rc' = [rc EXCEPT ![c] = q]
    BY <1>2 DEF RouteOptions, quiet
  <2>2. /\ RequestFits(c, r) /\ r.sent = 0 /\ r.turn = 0
        /\ todo[c] = <<"options", "upstream">> /\ Tail(todo[c]) = <<"upstream">> /\ proto[c] = "h1"
        /\ r.cluster = to.cluster /\ r.route = to.route
    <3>1. /\ todo[c] # <<>> /\ Head(todo[c]) = "options" /\ todo[c] \in TodoOf(proto[c])
          /\ RequestFits(c, r) /\ r.sent = 0 /\ r.turn = 0 /\ Routed(r, todo[c], proto[c])
      BY <2>1, FilterRequest
    <3>2. todo[c] = <<"options", "upstream">> /\ proto[c] = "h1"
      BY <3>1, TodoTail
    <3>3. r.cluster = to.cluster /\ r.route = to.route
      BY <3>1, <3>2 DEF Routed
    <3>4. Tail(todo[c]) = <<"upstream">>
      BY <3>2
    <3> QED BY <3>1, <3>2, <3>3, <3>4
  <2>3. o \in Overrides
    BY DEF RetryOverride, Overrides
  <2>4. o = RetryOverride(Routes, to.route)
    BY <2>2
  <2> HIDE DEF o, to
  <2>5. /\ q.kind = r.kind /\ q.cluster = r.cluster /\ q.override = o
        /\ q.sent = r.sent /\ q.turn = r.turn /\ q.wait = r.wait
    BY <1>0 DEF IsRequest, Fields
  <2> HIDE DEF q
  <2>6. RequestFits(c, q)
    BY <2>2, <2>3, <2>5 DEF RequestFits
  <2>7. Routed(q, Tail(todo[c]), proto[c])
    BY <2>2, <2>4, <2>5 DEF Routed, LastRests, to
  <2> QED BY <2>1, <2>2, <2>5, <2>6, <2>7, FilterHandsOn
<1> QED BY <1>1, <1>2

SameRoute(q, r) ==
  q.kind = r.kind /\ q.cluster = r.cluster /\ q.route = r.route /\ q.override = r.override

(* What a step of the upstream proxy makes of the request r: its route     *)
(* stays, it was sent once more at most, and the proxy returns, fails or   *)
(* goes on with a turn that the policy allows.                             *)
Forwards(r, q, returns) ==
  /\ SameRoute(q, r) /\ q.wait \in Waits
  /\ q.sent = r.sent \/ (r.cluster # NoCluster /\ q.sent = r.sent + 1)
  /\ returns \/ AttemptLeft(q, <<"upstream">>)

\* Such a step keeps what is known of the routes.
LEMMA ForwardRoutes ==
  ASSUME AnswerInv, RouteInv, NEW c \in Conns, AtFilter(c, "upstream"), UNCHANGED <<pc, proto>>,
         NEW q, rc' = [rc EXCEPT ![c] = q] \/ (rc' = rc /\ rc[c] = q),
         NEW returns \in BOOLEAN, Forwards(rc[c], q, returns),
         IF returns THEN NextFilter(c) ELSE UNCHANGED todo /\ rc' = [rc EXCEPT ![c] = q]
  PROVE  RouteInv'
<1> DEFINE r == rc[c]
<1>1. /\ RequestFits(c, r) /\ Routed(r, <<"upstream">>, proto[c])
      /\ todo[c] = <<"upstream">> /\ Tail(todo[c]) = <<>> /\ r.sent \in Nat
      /\ r.cluster # NoCluster =>
           Attempts(r) \in Nat /\ r.sent + 1 <= Attempts(r) /\ r.sent + 1 \in 0 .. AttemptBound
  BY FilterRequest
<1>2. /\ q.kind = r.kind /\ q.cluster = r.cluster /\ q.route = r.route /\ q.override = r.override
      /\ q.wait \in Waits /\ Attempts(q) = Attempts(r)
      /\ q.sent = r.sent \/ (r.cluster # NoCluster /\ q.sent = r.sent + 1)
      /\ returns \/ AttemptLeft(q, <<"upstream">>)
  BY DEF Forwards, SameRoute, Attempts
<1> HIDE DEF r
<1>3. RequestFits(c, q)
  BY <1>1, <1>2 DEF RequestFits
<1>4. q.sent # 0 => q.cluster # NoCluster /\ q.sent <= Attempts(q)
  BY <1>1, <1>2 DEF Routed
<1>5. Routed(q, <<"upstream">>, proto[c]) /\ Routed(q, <<>>, proto[c])
  BY <1>1, <1>2, <1>4 DEF Routed, LastRests
<1>6. CASE returns = TRUE
  BY <1>1, <1>2, <1>3, <1>5, <1>6, FilterHandsOn DEF r
<1>7. CASE returns = FALSE
  BY <1>1, <1>2, <1>3, <1>5, <1>7, FilterStays DEF r
<1> QED BY <1>6, <1>7

\* The upstream proxy does nothing, answers itself or forwards the endpoint's answer.
LEMMA ReturnRoutes ==
  ASSUME AnswerInv, RouteInv, NEW c \in Conns,
         Unforwarded(c) \/ Proxied(c) \/ Refused(c) \/ WaitEnds(c)
  PROVE  RouteInv'
<1> DEFINE r == rc[c]
<1>0. IsRequest(r)
  BY DEF AnswerInv, ConnTypes
<1>1. AtFilter(c, "upstream") /\ NextFilter(c) /\ UNCHANGED <<pc, proto>>
  BY DEF Unforwarded, Proxied, Refused, WaitEnds, AtUpstream, Waiting, quiet
<1>2. r.wait \in Waits
  BY <1>1, FilterRequest DEF RequestFits
<1>3. CASE Unforwarded(c)
  <2>1. rc' = rc
    BY <1>3 DEF Unforwarded
  <2>2. Forwards(r, r, TRUE)
    BY <1>2 DEF Forwards, SameRoute
  <2> QED BY <1>1, <2>1, <2>2, ForwardRoutes
<1>4. CASE Proxied(c)
  <2>1. PICK status \in UpstreamStatuses, early \in BOOLEAN :
          \E w \in Writes(c, r, status, TRUE) :
            rc' = [rc EXCEPT ![c] = Attempted(Answered(w, status), early)]
    BY <1>4 DEF Proxied
  <2>2. PICK w \in Writes(c, r, status, TRUE) :
          rc' = [rc EXCEPT ![c] = Attempted(Answered(w, status), early)]
    BY <2>1
  <2>3. r.cluster # NoCluster
    BY <1>4 DEF Proxied, AtUpstream
  <2> DEFINE v == Answered(w, status)
             q == Attempted(v, early)
  <2>4. AnswerEffect(r, v, status, proto[c])
    BY <1>0, AnsweredIs, ConnectionConstants
  <2>5. rc' = [rc EXCEPT ![c] = q]
    BY <2>2
  <2> HIDE DEF v
  <2>6. SameRoute(q, r) /\ q.sent = r.sent + 1 /\ q.wait = r.wait
    BY <2>4 DEF AnswerEffect, IsRequest, Fields, Attempted, SameRoute
  <2> HIDE DEF q
  <2>7. Forwards(r, q, TRUE)
    BY <1>2, <2>3, <2>6 DEF Forwards
  <2> QED BY <1>1, <2>5, <2>7, ForwardRoutes
<1>5. CASE Refused(c) \/ WaitEnds(c)
  <2>0. 503 \in Statuses /\ 504 \in Statuses
    BY DEF Statuses
  <2>1. PICK status \in Statuses :
          \E w \in Writes(c, rc[c], status, TRUE) :
            rc' = [rc EXCEPT ![c] = [Answered(w, status) EXCEPT !.wait = "no"]]
    <3>1. CASE Refused(c)
      BY <2>0, <3>1, Zenon DEF Refused
    <3>2. CASE WaitEnds(c)
      BY <2>0, <3>2, Zenon DEF WaitEnds
    <3> QED BY <1>5, <3>1, <3>2
  <2>2. PICK w \in Writes(c, rc[c], status, TRUE) :
          rc' = [rc EXCEPT ![c] = [Answered(w, status) EXCEPT !.wait = "no"]]
    BY <2>1
  <2> DEFINE v == Answered(w, status)
             q == [v EXCEPT !.wait = "no"]
  <2>3. AnswerEffect(r, v, status, proto[c])
    BY <1>0, AnsweredIs
  <2>4. rc' = [rc EXCEPT ![c] = q]
    BY <2>2
  <2> HIDE DEF v
  <2>5. SameRoute(q, r) /\ q.sent = r.sent /\ q.wait = "no"
    BY <2>3 DEF AnswerEffect, IsRequest, Fields, SameRoute
  <2> HIDE DEF q
  <2>6. Forwards(r, q, TRUE)
    BY <2>5 DEF Forwards, Waits
  <2> QED BY <1>1, <2>4, <2>6, ForwardRoutes
<1> QED BY <1>3, <1>4, <1>5

\* The upstream proxy waits, and has waited.
LEMMA WaitRoutes ==
  ASSUME AnswerInv, RouteInv, NEW c \in Conns, Wait(c) \/ Acquired(c)
  PROVE  RouteInv'
<1> DEFINE r == rc[c]
<1>0. IsRequest(r)
  BY DEF AnswerInv, ConnTypes
<1>1. AtFilter(c, "upstream") /\ UNCHANGED <<pc, proto, todo>>
  BY DEF Wait, Acquired, AtUpstream, Waiting, quiet
<1>2. /\ r.turn \in Nat /\ r.sent \in Nat /\ r.sent <= r.turn /\ r.wait \in Waits
      /\ r.cluster # NoCluster => Attempts(r) \in Nat /\ r.turn < Attempts(r)
  BY <1>1, FilterRequest DEF RequestFits
<1>3. ASSUME NEW place \in Waits, rc' = [rc EXCEPT ![c] = [r EXCEPT !.wait = place]]
      PROVE  RouteInv'
  <2> DEFINE q == [r EXCEPT !.wait = place]
  <2>1. rc' = [rc EXCEPT ![c] = q]
    BY <1>3
  <2>2. SameRoute(q, r) /\ q.sent = r.sent /\ q.turn = r.turn /\ q.wait = place
    BY <1>0 DEF IsRequest, Fields, SameRoute
  <2> HIDE DEF q
  <2>3. Forwards(r, q, FALSE)
    BY <1>2, <2>2 DEF Forwards, AttemptLeft, SameRoute, Attempts
  <2> QED BY <1>1, <2>1, <2>3, ForwardRoutes
<1>4. ASSUME r.turn + 1 < Attempts(r),
             rc' = [rc EXCEPT ![c] = [r EXCEPT !.wait = "no", !.turn = @ + 1]]
      PROVE  RouteInv'
  <2> DEFINE q == [r EXCEPT !.wait = "no", !.turn = @ + 1]
  <2>1. rc' = [rc EXCEPT ![c] = q]
    BY <1>4
  <2>2. SameRoute(q, r) /\ q.sent = r.sent /\ q.turn = r.turn + 1 /\ q.wait = "no"
    BY <1>0 DEF IsRequest, Fields, SameRoute
  <2> HIDE DEF q
  <2>3. q.turn \in Nat /\ q.sent <= q.turn /\ q.turn < Attempts(q)
    BY <1>2, <1>4, <2>2 DEF SameRoute, Attempts
  <2>4. Forwards(r, q, FALSE)
    BY <2>2, <2>3 DEF Forwards, AttemptLeft, Waits
  <2> QED BY <1>1, <2>1, <2>4, ForwardRoutes
<1>5. ASSUME NEW err, err # "none",
             rc' = [rc EXCEPT ![c] = [r EXCEPT !.wait = "no", !.err = err]]
      PROVE  RouteInv'
  <2> DEFINE q == [r EXCEPT !.wait = "no", !.err = err]
  <2>1. rc' = [rc EXCEPT ![c] = q]
    BY <1>5
  <2>2. SameRoute(q, r) /\ q.sent = r.sent /\ q.err = err /\ q.wait = "no"
    BY <1>0 DEF IsRequest, Fields, SameRoute
  <2> HIDE DEF q
  <2>3. Forwards(r, q, FALSE)
    BY <1>5, <2>2 DEF Forwards, AttemptLeft, Waits
  <2> QED BY <1>1, <2>1, <2>3, ForwardRoutes
<1>6. CASE Wait(c)
  <2>1. PICK place \in {"slot", "endpoint"} : rc' = [rc EXCEPT ![c] = [r EXCEPT !.wait = place]]
    BY <1>6 DEF Wait
  <2> QED BY <1>3, <2>1 DEF Waits
<1>7. CASE Acquired(c)
  <2>1. \/ rc' = [rc EXCEPT ![c] = [r EXCEPT !.wait = "held"]]
        \/ /\ r.turn + 1 < Attempts(r)
           /\ rc' = [rc EXCEPT ![c] = [r EXCEPT !.wait = "no", !.turn = @ + 1]]
        \/ \E err \in {"error", "timeout"} :
             rc' = [rc EXCEPT ![c] = [r EXCEPT !.wait = "no", !.err = err]]
    BY <1>7 DEF Acquired
  <2> QED BY <1>3, <1>4, <1>5, <2>1 DEF Waits
<1> QED BY <1>6, <1>7

\* The upstream proxy goes on with the next attempt only if one is left.
LEMMA FailRoutes ==
  ASSUME AnswerInv, RouteInv, NEW c \in Conns, AttemptFails(c) \/ NoEndpoint(c) \/ Cut(c)
  PROVE  RouteInv'
<1> DEFINE r == rc[c]
<1>0. IsRequest(r)
  BY DEF AnswerInv, ConnTypes
<1>1. AtFilter(c, "upstream") /\ r.cluster # NoCluster /\ UNCHANGED <<pc, proto, todo>>
  BY DEF AttemptFails, NoEndpoint, Cut, AtUpstream, quiet
<1>2. /\ r.turn \in Nat /\ r.sent \in Nat /\ r.sent <= r.turn /\ r.wait \in Waits
      /\ Attempts(r) \in Nat
  BY <1>1, FilterRequest DEF RequestFits
<1>3. CASE AttemptFails(c)
  <2>1. PICK err \in {"none", "error", "timeout"}, early \in BOOLEAN :
          /\ err = "none" => r.turn + 1 < Attempts(r)
          /\ rc' = [rc EXCEPT ![c] = Failed(r, early, err)]
    BY <1>3 DEF AttemptFails
  <2> DEFINE q == Failed(r, early, err)
  <2>2. /\ SameRoute(q, r) /\ q.sent = r.sent + 1 /\ q.turn = r.turn + 1 /\ q.err = err
        /\ q.wait = "no"
    BY <1>0 DEF IsRequest, Fields, Failed, Attempted, SameRoute
  <2>3. rc' = [rc EXCEPT ![c] = q]
    BY <2>1
  <2> HIDE DEF q
  <2>4. /\ q.turn \in Nat /\ q.sent <= q.turn
        /\ q.err = "none" => q.turn < Attempts(q)
    BY <1>2, <2>1, <2>2 DEF SameRoute, Attempts
  <2>5. Forwards(r, q, FALSE)
    BY <1>1, <2>2, <2>4 DEF Forwards, AttemptLeft, Waits
  <2> QED BY <1>1, <2>3, <2>5, ForwardRoutes
<1>4. CASE NoEndpoint(c)
  <2> DEFINE q == [r EXCEPT !.err = "error"]
  <2>1. rc' = [rc EXCEPT ![c] = q]
    BY <1>4 DEF NoEndpoint
  <2>2. SameRoute(q, r) /\ q.sent = r.sent /\ q.err = "error" /\ q.wait = r.wait
    BY <1>0 DEF IsRequest, Fields, SameRoute
  <2> HIDE DEF q
  <2>3. Forwards(r, q, FALSE)
    BY <1>2, <2>2 DEF Forwards, AttemptLeft
  <2> QED BY <1>1, <2>1, <2>3, ForwardRoutes
<1>5. CASE Cut(c)
  <2>1. PICK status \in UpstreamStatuses, err \in {"error", "timeout"}, early \in BOOLEAN :
          \E w \in Writes(c, r, status, FALSE) :
            rc' = [rc EXCEPT ![c] = [Attempted(w, early) EXCEPT !.err = err]]
    BY <1>5 DEF Cut
  <2>2. PICK w \in Writes(c, r, status, FALSE) :
          rc' = [rc EXCEPT ![c] = [Attempted(w, early) EXCEPT !.err = err]]
    BY <2>1
  <2> DEFINE q == [Attempted(w, early) EXCEPT !.err = err]
  <2>3. WriteEffect(r, w, [status |-> status, whole |-> FALSE], proto[c])
    BY <1>0, WritesAre, ConnectionConstants
  <2>4. rc' = [rc EXCEPT ![c] = q]
    BY <2>2
  <2>5. SameRoute(q, r) /\ q.sent = r.sent + 1 /\ q.err = err /\ q.wait = r.wait
    BY <2>3 DEF WriteEffect, IsRequest, Fields, Attempted, SameRoute
  <2> HIDE DEF q
  <2>6. Forwards(r, q, FALSE)
    BY <1>1, <1>2, <2>5 DEF Forwards, AttemptLeft
  <2> QED BY <1>1, <2>4, <2>6, ForwardRoutes
<1> QED BY <1>3, <1>4, <1>5

\* A connection that has no request in the filters.
LEMMA OutsideRoutes ==
  ASSUME RouteInv, NEW c \in Conns, pc'[c] \notin {"new", "chain", "answered"},
         todo'[c] \in TodoOf(proto'[c]), RequestFits(c, rc'[c]), rc'[c].sent = 0,
         \A d \in Conns : d # c =>
           pc'[d] = pc[d] /\ proto'[d] = proto[d] /\ todo'[d] = todo[d] /\ rc'[d] = rc[d]
  PROVE  RouteInv'
<1>1. RouteAt(c)'
  BY DEF RouteAt, RequestFits
<1> QED BY <1>1, OneRoutes

\* The place of a request that was not read fits every connection.
LEMMA NoRequestFits ==
  ASSUME NEW c
  PROVE  /\ RequestFits(c, NoRequest) /\ NoRequest.sent = 0
         /\ \A u : /\ RequestFits(c, [NoRequest EXCEPT !.unread = u])
                   /\ [NoRequest EXCEPT !.unread = u].sent = 0
BY RetriesBounded DEF NoRequest, NewRequest, RequestFits, Overrides, Waits

\* The connection begins, goes through its network filters or ends.
LEMMA NetworkRoutes ==
  ASSUME AnswerInv, RouteInv, NEW c \in Conns,
         \/ \E hs \in Handshakes[c] : Accept(c, hs)
         \/ Execute(c) \/ HandleReturns(c) \/ ReadFails(c) \/ ParseFails(c)
  PROVE  RouteInv'
<1>1. /\ DOMAIN pc = Conns /\ DOMAIN proto = Conns /\ UNCHANGED <<todo, rc>>
      /\ RouteAt(c) /\ <<>> \in TodoOf("h1") /\ <<>> \in TodoOf("h2")
  BY DEF AnswerInv, ConnTypes, RouteInv, Accept, Execute, HandleReturns, ReadFails, ParseFails, TodoOf
<1>2. CASE \E hs \in Handshakes[c] : Accept(c, hs)
  <2>1. PICK hs \in Handshakes[c] : Accept(c, hs)
    BY <1>2
  <2>2. /\ pc'[c] \in {"read", "net"} /\ proto'[c] \in {"h1", "h2"} /\ pc[c] = "new"
        /\ \A d \in Conns : d # c => pc'[d] = pc[d] /\ proto'[d] = proto[d]
    BY <1>1, <2>1 DEF Accept
  <2>3. todo'[c] \in TodoOf(proto'[c]) /\ RequestFits(c, rc'[c]) /\ rc'[c].sent = 0
    BY <1>1, <2>2 DEF RouteAt
  <2> QED BY <1>1, <2>2, <2>3, OutsideRoutes
<1>3. CASE Execute(c) \/ ReadFails(c) \/ ParseFails(c)
  <2>1. /\ pc[c] \in {"read", "net"} /\ pc'[c] \in {"read", "net"} /\ proto' = proto
        /\ \A d \in Conns : d # c => pc'[d] = pc[d]
    BY <1>1, <1>3 DEF Execute, ReadFails, ParseFails, Return
  <2> QED BY <1>1, <2>1, OutsideRoutes DEF RouteAt
<1>4. CASE HandleReturns(c)
  <2>1. /\ proto' = proto
        /\ pc' = pc \/ (pc[c] = "net" /\ pc' = [pc EXCEPT ![c] = "closed"])
    BY <1>4 DEF HandleReturns
  <2>2. CASE pc' = pc
    BY <1>1, <2>1, <2>2 DEF RouteInv, RouteAt
  <2>3. CASE pc[c] = "net" /\ pc' = [pc EXCEPT ![c] = "closed"]
    BY <1>1, <2>1, <2>3, OutsideRoutes DEF RouteAt
  <2> QED BY <2>1, <2>2, <2>3
<1> QED BY <1>2, <1>3, <1>4

\* A request is read: the filters of the protocol are before it.
LEMMA ReadRoutes ==
  ASSUME AnswerInv, RouteInv, NEW c \in Conns, NEW k \in RequestKinds[c], ReadRequest(c, k)
  PROVE  RouteInv'
<1> DEFINE q == NewRequest(k, proto[c] = "h1")
           rest == FiltersOf(proto[c])
<1>1. /\ pc' = [pc EXCEPT ![c] = "chain"] /\ proto' = proto
      /\ rc' = [rc EXCEPT ![c] = q] /\ todo' = [todo EXCEPT ![c] = rest]
  BY DEF ReadRequest
<1>2. DOMAIN pc = Conns /\ DOMAIN rc = Conns /\ DOMAIN todo = Conns
  BY DEF AnswerInv, ConnTypes
<1>3. /\ RequestFits(c, q) /\ q.sent = 0 /\ q.turn = 0 /\ q.override = 0 /\ q.kind = k
      /\ q.err = "none"
  BY RetriesBounded DEF NewRequest, RequestFits, Overrides, Waits
<1> HIDE DEF q
<1>4. rest \in TodoOf(proto[c]) /\ rest \notin LastRests \cup {<<"options", "upstream">>}
  BY DEF FiltersOf, TodoOf, HcmFilters, H2Filters, LastRests
<1> HIDE DEF rest
<1>5. pc'[c] = "chain" /\ rc'[c] = q /\ todo'[c] = rest
  BY <1>1, <1>2
<1>6. AttemptLeft(q, rest) /\ Routed(q, rest, proto[c])
  BY <1>3, <1>4 DEF AttemptLeft, Routed
<1>7. RouteAt(c)'
  BY <1>1, <1>3, <1>4, <1>5, <1>6 DEF RouteAt, RequestFits, AttemptLeft, Attempts, Routed
<1> QED BY <1>1, <1>2, <1>7, OneRoutes

\* The request is answered.
LEMMA AnswerRoutes ==
  ASSUME AnswerInv, RouteInv, NEW c \in Conns, Finish(c) \/ FinishStream(c)
  PROVE  RouteInv'
<1> DEFINE r == rc[c]
           q == rc'[c]
<1>1. /\ DOMAIN pc = Conns /\ DOMAIN rc = Conns /\ IsRequest(r) /\ pc[c] = "chain"
      /\ RequestFits(c, r) /\ r.kind \in RequestKinds[c] /\ todo[c] \in TodoOf(proto[c])
      /\ Routed(r, todo[c], proto[c])
  BY DEF AnswerInv, ConnTypes, RouteInv, RouteAt, Finish, FinishStream, FiltersDone
<1>2. /\ pc' = [pc EXCEPT ![c] = "answered"] /\ proto' = proto /\ todo' = todo
      /\ \A d \in Conns : d # c => rc'[d] = rc[d]
  BY <1>1 DEF Finish, FinishStream
<1>3. FallbackStatus(r) \in Statuses /\ DefaultStatus(r) \in Statuses
  BY DEF FallbackStatus, DefaultStatus, Statuses
<1>4. PICK w : /\ w = r \/ \E status \in Statuses : w \in Writes(c, r, status, TRUE)
               /\ q = w \/ \E n : q = [w EXCEPT !.logged = n]
  <2>1. CASE Finish(c)
    <3> DEFINE v == IF r.responded THEN r ELSE Written(r, FallbackStatus(r), TRUE)
    <3>1. q = [v EXCEPT !.logged = FinalStatus(r)]
      BY <1>1, <2>1 DEF Finish, Completed
    <3>2. Written(r, FallbackStatus(r), TRUE) \in Writes(c, r, FallbackStatus(r), TRUE)
      BY DEF Writes
    <3>3. v = r \/ \E status \in Statuses : v \in Writes(c, r, status, TRUE)
      BY <1>3, <3>2
    <3> HIDE DEF v, q
    <3> QED BY <3>1, <3>3
  <2>2. CASE FinishStream(c)
    <3>1. \E w \in IF r.responded THEN {r} ELSE Writes(c, r, DefaultStatus(r), TRUE) : q = w
      BY <1>1, <2>2 DEF FinishStream
    <3> HIDE DEF q
    <3> QED BY <1>3, <3>1
  <2> QED BY <2>1, <2>2
<1>5. DOMAIN w = Fields /\ \A f \in Fields : f # "answers" => w[f] = r[f]
  <2>1. CASE w = r
    BY <1>1, <2>1 DEF IsRequest
  <2>2. ASSUME NEW status \in Statuses, w \in Writes(c, r, status, TRUE)
        PROVE  DOMAIN w = Fields /\ \A f \in Fields : f # "answers" => w[f] = r[f]
    <3>1. WriteEffect(r, w, [status |-> status, whole |-> TRUE], proto[c])
      BY <1>1, <2>2, WritesAre
    <3> QED BY <3>1 DEF WriteEffect, IsRequest
  <2> QED BY <1>4, <2>1, <2>2
<1> HIDE DEF q, r
<1>6. SameRoute(q, r) /\ q.sent = r.sent /\ q.wait = r.wait /\ q.err = r.err
  <2>1. SameRoute(w, r) /\ w.sent = r.sent /\ w.wait = r.wait /\ w.err = r.err
    BY <1>5 DEF Fields, SameRoute
  <2>2. ASSUME NEW n, q = [w EXCEPT !.logged = n]
        PROVE  SameRoute(q, w) /\ q.sent = w.sent /\ q.wait = w.wait /\ q.err = w.err
    BY <1>5, <2>2 DEF Fields, SameRoute
  <2> QED BY <1>4, <2>1, <2>2 DEF SameRoute
<1>7. RequestFits(c, q) /\ q.kind \in RequestKinds[c] /\ Routed(q, todo[c], proto[c])
  BY <1>1, <1>6 DEF SameRoute, RequestFits, Routed, Attempts
<1>8. RouteAt(c)'
  BY <1>1, <1>2, <1>7 DEF RouteAt, RequestFits, Routed, Attempts, q
<1> QED BY <1>1, <1>2, <1>8, OneRoutes

\* The request is forgotten.
LEMMA EndRoutes ==
  ASSUME AnswerInv, RouteInv, NEW c \in Conns, WriteFails(c) \/ NextTurn(c)
  PROVE  RouteInv'
<1>1. /\ DOMAIN pc = Conns /\ DOMAIN rc = Conns /\ DOMAIN todo = Conns
      /\ <<>> \in TodoOf(proto[c])
  BY DEF AnswerInv, ConnTypes, TodoOf
<1>2. /\ proto' = proto /\ pc'[c] \in {"read", "net"} /\ todo'[c] = <<>>
      /\ \A d \in Conns : d # c => pc'[d] = pc[d] /\ todo'[d] = todo[d] /\ rc'[d] = rc[d]
      /\ rc'[c] = NoRequest \/ \E u : rc'[c] = [NoRequest EXCEPT !.unread = u]
  BY <1>1 DEF WriteFails, NextTurn, Return
<1>3. RequestFits(c, rc'[c]) /\ rc'[c].sent = 0
  <2>1. /\ RequestFits(c, NoRequest) /\ NoRequest.sent = 0
        /\ \A u : /\ RequestFits(c, [NoRequest EXCEPT !.unread = u])
                  /\ [NoRequest EXCEPT !.unread = u].sent = 0
    BY NoRequestFits
  <2>2. CASE rc'[c] = NoRequest
    BY <2>1, <2>2
  <2>3. ASSUME NEW u, rc'[c] = [NoRequest EXCEPT !.unread = u]
        PROVE  RequestFits(c, rc'[c]) /\ rc'[c].sent = 0
    <3>1. RequestFits(c, [NoRequest EXCEPT !.unread = u]) /\ [NoRequest EXCEPT !.unread = u].sent = 0
      BY <2>1
    <3> QED BY <2>3, <3>1, Zenon
  <2> QED BY <1>2, <2>2, <2>3
<1> QED BY <1>1, <1>2, <1>3, OutsideRoutes

\* Whatever happens, the request of a connection stays within its routes and its attempts.
LEMMA RouteStep == AnswerInv /\ RouteInv /\ [Next]_vars => RouteInv'
<1> SUFFICES ASSUME AnswerInv, RouteInv, [Next]_vars PROVE RouteInv'
  OBVIOUS
<1>1. CASE UNCHANGED <<pc, proto, todo, rc>>
  BY <1>1 DEF RouteInv, RouteAt
<1>2. ASSUME NEW c \in Conns, ClientCloses(c) \/ CloseAtShutdown(c)
      PROVE  UNCHANGED <<pc, proto, todo, rc>>
  BY <1>2 DEF ClientCloses, CloseAtShutdown
<1>3. ASSUME Shutdown \/ (Tick /\ UNCHANGED <<connVars, metricsVars>>) \/ UNCHANGED vars
      PROVE  UNCHANGED <<pc, proto, todo, rc>>
  BY <1>3 DEF Shutdown, vars, connVars
<1>4. ASSUME NEW c \in Conns,
             \/ \E hs \in Handshakes[c] : Accept(c, hs)
             \/ \E k \in RequestKinds[c] : ReadRequest(c, k)
             \/ Step(c) \/ Acquired(c) \/ ParseFails(c)
      PROVE  RouteInv'
  BY <1>4, NetworkRoutes, ReadRoutes, LimitRoutes, EarlyRoutes, ReturnRoutes, WaitRoutes, FailRoutes,
     AnswerRoutes, EndRoutes
     DEF Step, Upstream
<1> QED BY <1>1, <1>2, <1>3, <1>4 DEF Next

\* No connection has a request at first.
LEMMA RouteStart == Init => RouteInv
<1> SUFFICES ASSUME Init, NEW c \in Conns PROVE RouteAt(c)
  BY DEF RouteInv
<1>1. /\ pc[c] = "new" /\ proto[c] = "h1" /\ todo[c] = <<>> /\ rc[c] = NoRequest
  BY DEF Init
<1> QED BY <1>1, NoRequestFits DEF RouteAt, TodoOf
-----------------------------------------------------------------------------
(* The metrics.                                                            *)

ClassSum(lg) == MapThenSumSet(LAMBDA n : lg[n], Classes)
LabelSum(ct) == MapThenSumSet(LAMBDA x : ct[Labelled(x[1], x[2])], Methods \X Targets)

\* The classes of the statuses.
LEMMA ClassesAre == IsFiniteSet(Classes) /\ \A s \in Statuses : ClassOf(s) \in Classes
<1>1. IsFiniteSet(Classes)
  <2>1. PICK a \in Int, b \in Int : a = 0 /\ b = 5
    OBVIOUS
  <2>2. Classes = a .. b
    BY <2>1 DEF Classes
  <2> QED BY <2>2, FS_Interval
<1>2. ASSUME NEW s \in Statuses PROVE ClassOf(s) \in Classes
  <2>1. s \in Int /\ 100 <= s
    BY DEF Statuses
  <2>2. CASE s < 600
    BY <2>1, <2>2 DEF ClassOf, Classes
  <2>3. CASE ~(s < 600)
    BY <2>3 DEF ClassOf, Classes
  <2> QED BY <2>2, <2>3
<1> QED BY <1>1, <1>2

\* The sum over the classes.
LEMMA ClassSumIs ==
  ASSUME NEW lg
  PROVE  \E it : Sums(it, lg, Classes) /\ ClassSum(lg) = it[Classes]
<1> DEFINE it == CHOOSE it1 : Sums(it1, lg, Classes)
<1>1. ClassSum(lg) = it[Classes]
  BY Zenon DEF ClassSum, MapThenSumSet, MapThenFoldSet, Sums
<1>2. \E it1 : Sums(it1, lg, Classes)
  BY ClassesAre, SumsExist
<1>3. Sums(it, lg, Classes)
  BY <1>2, Zenon
<1> HIDE DEF it
<1> QED BY <1>1, <1>3

Pairs == Methods \X Targets
LabelValues(ct) == [x \in Pairs |-> ct[Labelled(x[1], x[2])]]
LabelLoop(it, ct) ==
  it = [s \in SUBSET Pairs |->
          IF s = {} THEN 0
          ELSE ct[Labelled((CHOOSE x \in s : TRUE)[1], (CHOOSE x \in s : TRUE)[2])]
                 + it[s \ {CHOOSE x \in s : TRUE}]]

\* The sum over the labels.
LEMMA LabelSumIs ==
  ASSUME NEW ct
  PROVE  \E it : Sums(it, LabelValues(ct), Pairs) /\ LabelSum(ct) = it[Pairs]
<1> DEFINE it == CHOOSE it1 : LabelLoop(it1, ct)
<1>1. LabelSum(ct) = it[Pairs]
  BY Zenon DEF LabelSum, MapThenSumSet, MapThenFoldSet, LabelLoop, Pairs
<1>2. ASSUME NEW it1 PROVE LabelLoop(it1, ct) <=> Sums(it1, LabelValues(ct), Pairs)
  <2>1. \A s \in SUBSET Pairs : s # {} =>
          LabelValues(ct)[CHOOSE x \in s : TRUE]
            = ct[Labelled((CHOOSE x \in s : TRUE)[1], (CHOOSE x \in s : TRUE)[2])]
    <3> SUFFICES ASSUME NEW s \in SUBSET Pairs, s # {}
                 PROVE  LabelValues(ct)[CHOOSE x \in s : TRUE]
                          = ct[Labelled((CHOOSE x \in s : TRUE)[1], (CHOOSE x \in s : TRUE)[2])]
      OBVIOUS
    <3> DEFINE y == CHOOSE x \in s : TRUE
    <3>1. y \in Pairs
      OBVIOUS
    <3> HIDE DEF y
    <3>2. LabelValues(ct)[y] = ct[Labelled(y[1], y[2])]
      BY <3>1 DEF LabelValues
    <3> QED BY <3>2 DEF y
  <2>2. [s \in SUBSET Pairs |->
          IF s = {} THEN 0
          ELSE ct[Labelled((CHOOSE x \in s : TRUE)[1], (CHOOSE x \in s : TRUE)[2])]
                 + it1[s \ {CHOOSE x \in s : TRUE}]]
        = [s \in SUBSET Pairs |->
          IF s = {} THEN 0
          ELSE LabelValues(ct)[CHOOSE x \in s : TRUE] + it1[s \ {CHOOSE x \in s : TRUE}]]
    BY <2>1
  <2> QED BY <2>2, Zenon DEF LabelLoop, Sums
<1>3. IsFiniteSet(Pairs)
  BY FS_Product, MetricsConstants DEF Pairs
<1>4. \E it1 : LabelLoop(it1, ct)
  BY <1>2, <1>3, SumsExist
<1>5. LabelLoop(it, ct)
  BY <1>4, Zenon
<1> HIDE DEF it
<1> QED BY <1>1, <1>2, <1>5

\* One more response of class k.
LEMMA ClassSumMoves ==
  ASSUME NEW lg \in [Classes -> Nat], NEW k \in Classes
  PROVE  ClassSum(lg) \in Nat /\ ClassSum([lg EXCEPT ![k] = @ + 1]) = ClassSum(lg) + 1
<1> DEFINE up == [lg EXCEPT ![k] = @ + 1]
<1>1. PICK i1 : Sums(i1, lg, Classes) /\ ClassSum(lg) = i1[Classes]
  BY ClassSumIs
<1>2. PICK i2 : Sums(i2, up, Classes) /\ ClassSum(up) = i2[Classes]
  BY ClassSumIs
<1>3. OneUp(lg, up, k, Classes) /\ IsFiniteSet(Classes)
  BY ClassesAre DEF OneUp
<1> HIDE DEF up
<1>4. i1[Classes] \in Nat /\ i2[Classes] = IF k \in Classes THEN i1[Classes] + 1 ELSE i1[Classes]
  BY <1>1, <1>2, <1>3, SumMove
<1> QED BY <1>1, <1>2, <1>4 DEF up

\* The counters have different names.
LEMMA NamesDiffer ==
  /\ Accepted \in Names /\ Requests \in Names /\ Responses \in Names /\ RateLimited \in Names
  /\ \A n \in Classes : Class(n) \in Names
  /\ \A m \in Methods, t \in Targets : Labelled(m, t) \in Names
  /\ Responses # Accepted /\ Responses # RateLimited /\ Responses # Requests
  /\ Requests # Accepted /\ Requests # RateLimited /\ Accepted # RateLimited
  /\ \A n : Class(n) \notin {Accepted, Requests, Responses, RateLimited}
  /\ \A m, t : Labelled(m, t) \notin {Accepted, Requests, Responses, RateLimited}
  /\ \A n, m, t : Class(n) # Labelled(m, t)
  /\ \A n, k : Class(n) = Class(k) => n = k
  /\ \A m, t, m1, t1 : Labelled(m, t) = Labelled(m1, t1) => m = m1 /\ t = t1
BY DEF Names, Accepted, Requests, Responses, RateLimited, Class, Labelled

\* Inc of some counters.
Added(ct, names) == [n \in Names |-> IF n \in names THEN ct[n] + 1 ELSE ct[n]]

\* One more request of a method to a cluster, or of none.
LEMMA LabelSumMoves ==
  ASSUME NEW ct \in [Names -> Nat], NEW up \in [Names -> Nat], NEW m, NEW t,
         \A m1 \in Methods, t1 \in Targets :
           up[Labelled(m1, t1)] = IF <<m1, t1>> = <<m, t>> THEN ct[Labelled(m1, t1)] + 1
                                  ELSE ct[Labelled(m1, t1)]
  PROVE  /\ LabelSum(ct) \in Nat
         /\ LabelSum(up) = IF <<m, t>> \in Pairs THEN LabelSum(ct) + 1 ELSE LabelSum(ct)
<1>1. PICK i1 : Sums(i1, LabelValues(ct), Pairs) /\ LabelSum(ct) = i1[Pairs]
  BY LabelSumIs
<1>2. PICK i2 : Sums(i2, LabelValues(up), Pairs) /\ LabelSum(up) = i2[Pairs]
  BY LabelSumIs
<1>3. OneUp(LabelValues(ct), LabelValues(up), <<m, t>>, Pairs)
  <2> SUFFICES ASSUME NEW m1 \in Methods, NEW t1 \in Targets
               PROVE  /\ LabelValues(ct)[<<m1, t1>>] \in Nat
                      /\ LabelValues(up)[<<m1, t1>>] =
                           IF <<m1, t1>> = <<m, t>> THEN LabelValues(ct)[<<m1, t1>>] + 1
                           ELSE LabelValues(ct)[<<m1, t1>>]
    BY DEF OneUp, Pairs
  <2>1. /\ LabelValues(ct)[<<m1, t1>>] = ct[Labelled(m1, t1)]
        /\ LabelValues(up)[<<m1, t1>>] = up[Labelled(m1, t1)]
    BY DEF LabelValues, Pairs
  <2>2. ct[Labelled(m1, t1)] \in Nat
    BY NamesDiffer
  <2> QED BY <2>1, <2>2
<1>4. IsFiniteSet(Pairs)
  BY FS_Product, MetricsConstants DEF Pairs
<1> DEFINE e == <<m, t>>
<1> HIDE DEF e
<1>5. OneUp(LabelValues(ct), LabelValues(up), e, Pairs)
  BY <1>3 DEF e
<1>6. i1[Pairs] \in Nat /\ i2[Pairs] = IF e \in Pairs THEN i1[Pairs] + 1 ELSE i1[Pairs]
  BY <1>1, <1>2, <1>4, <1>5, SumMove
<1> QED BY <1>1, <1>2, <1>6 DEF e

\* The sum over the labels is that of the labelled counters and no other.
LEMMA LabelSumSame ==
  ASSUME NEW ct \in [Names -> Nat], NEW up \in [Names -> Nat],
         \A m1 \in Methods, t1 \in Targets : up[Labelled(m1, t1)] = ct[Labelled(m1, t1)]
  PROVE  LabelSum(up) = LabelSum(ct)
<1>1. PICK e : e \notin Targets
  BY NoSetContainsEverything
<1>2. \A m1 \in Methods, t1 \in Targets :
        up[Labelled(m1, t1)] = IF <<m1, t1>> = <<e, e>> THEN ct[Labelled(m1, t1)] + 1
                               ELSE ct[Labelled(m1, t1)]
  BY <1>1
<1>3. <<e, e>> \notin Pairs
  BY <1>1 DEF Pairs
<1> QED BY <1>2, <1>3, LabelSumMoves

(* What CountersExact says of the counters ct, the access log lg, the lost *)
(* requests lo and the requests us that are not answered yet.              *)
Counted(ct, lg, lo, us) ==
  /\ ct \in [Names -> Nat] /\ lg \in [Classes -> Nat] /\ lo \in Nat /\ IsFiniteSet(us)
  /\ ct[Responses] = ClassSum(lg)
  /\ \A n \in Classes : ct[Class(n)] = lg[n]
  /\ ct[Responses] = LabelSum(ct)
  /\ ct[Requests] = ct[Responses] + lo + Cardinality(us)

\* The counters of connections and of the limiter have no part in the requests.
LEMMA CountedApart ==
  ASSUME NEW ct, NEW lg, NEW lo, NEW us, Counted(ct, lg, lo, us),
         NEW names, names \subseteq {Accepted, RateLimited}
  PROVE  Counted(Added(ct, names), lg, lo, us)
<1> DEFINE up == Added(ct, names)
<1>1. ct \in [Names -> Nat]
  BY DEF Counted
<1>2. up \in [Names -> Nat]
  BY <1>1 DEF Added
<1>3. /\ up[Responses] = ct[Responses] /\ up[Requests] = ct[Requests]
      /\ \A n \in Classes : up[Class(n)] = ct[Class(n)]
      /\ \A m1 \in Methods, t1 \in Targets : up[Labelled(m1, t1)] = ct[Labelled(m1, t1)]
  BY NamesDiffer DEF Added
<1> HIDE DEF up
<1>4. LabelSum(up) = LabelSum(ct)
  BY <1>1, <1>2, <1>3, LabelSumSame
<1>5. Counted(up, lg, lo, us)
  BY <1>2, <1>3, <1>4 DEF Counted
<1> QED BY <1>5 DEF up

\* HCM.Handle reads a request and counts it.
LEMMA CountedRead ==
  ASSUME NEW ct, NEW lg, NEW lo, NEW us, Counted(ct, lg, lo, us), NEW c, c \notin us
  PROVE  Counted(Added(ct, {Requests}), lg, lo, us \cup {c})
<1> DEFINE up == Added(ct, {Requests})
<1>1. ct \in [Names -> Nat]
  BY DEF Counted
<1>2. up \in [Names -> Nat]
  BY <1>1 DEF Added
<1>3. /\ up[Responses] = ct[Responses] /\ up[Requests] = ct[Requests] + 1
      /\ \A n \in Classes : up[Class(n)] = ct[Class(n)]
      /\ \A m1 \in Methods, t1 \in Targets : up[Labelled(m1, t1)] = ct[Labelled(m1, t1)]
  BY NamesDiffer DEF Added
<1> HIDE DEF up
<1>4. LabelSum(up) = LabelSum(ct)
  BY <1>1, <1>2, <1>3, LabelSumSame
<1>5. /\ IsFiniteSet(us \cup {c}) /\ Cardinality(us) \in Nat
      /\ Cardinality(us \cup {c}) = Cardinality(us) + 1
  BY FS_AddElement, FS_CardinalityType DEF Counted
<1>6. ct[Responses] \in Nat /\ lo \in Nat
  BY <1>1, NamesDiffer DEF Counted
<1>7. up[Requests] = up[Responses] + lo + Cardinality(us \cup {c})
  BY <1>3, <1>5, <1>6 DEF Counted
<1>8. Counted(up, lg, lo, us \cup {c})
  BY <1>2, <1>3, <1>4, <1>5, <1>7 DEF Counted
<1> QED BY <1>8 DEF up

\* The answer to a request cannot be written.
LEMMA CountedLost ==
  ASSUME NEW ct, NEW lg, NEW lo, NEW us, Counted(ct, lg, lo, us), NEW c \in us
  PROVE  Counted(ct, lg, lo + 1, us \ {c})
<1>1. /\ IsFiniteSet(us \ {c}) /\ Cardinality(us) \in Nat
      /\ Cardinality(us \ {c}) = Cardinality(us) - 1
  BY FS_RemoveElement, FS_CardinalityType DEF Counted
<1>2. ct[Responses] \in Nat /\ lo \in Nat
  BY NamesDiffer DEF Counted
<1>3. ct[Requests] = ct[Responses] + (lo + 1) + Cardinality(us \ {c})
  BY <1>1, <1>2 DEF Counted
<1> QED BY <1>1, <1>2, <1>3 DEF Counted

\* HCM.Handle logs the answer and counts it: in total, by class and by label.
LEMMA CountedAnswer ==
  ASSUME NEW ct, NEW lg, NEW lo, NEW us, Counted(ct, lg, lo, us), NEW c \in us,
         NEW m \in Methods, NEW t \in Targets, NEW k \in Classes
  PROVE  Counted(Added(ct, {Labelled(m, t)} \cup {Responses, Class(k)}),
                 [lg EXCEPT ![k] = @ + 1], lo, us \ {c})
<1> DEFINE up == Added(ct, {Labelled(m, t)} \cup {Responses, Class(k)})
           lu == [lg EXCEPT ![k] = @ + 1]
<1>1. ct \in [Names -> Nat] /\ lg \in [Classes -> Nat] /\ lo \in Nat
  BY DEF Counted
<1>2. up \in [Names -> Nat] /\ lu \in [Classes -> Nat]
  BY <1>1 DEF Added
<1>3. up[Responses] = ct[Responses] + 1 /\ up[Requests] = ct[Requests]
  BY NamesDiffer DEF Added
<1>4. \A n \in Classes : up[Class(n)] = IF n = k THEN ct[Class(n)] + 1 ELSE ct[Class(n)]
  <2> SUFFICES ASSUME NEW n \in Classes
               PROVE  up[Class(n)] = IF n = k THEN ct[Class(n)] + 1 ELSE ct[Class(n)]
    OBVIOUS
  <2>1. Class(n) \in Names /\ (Class(n) \in {Labelled(m, t)} \cup {Responses, Class(k)} <=> n = k)
    BY NamesDiffer
  <2> QED BY <2>1 DEF Added
<1>5. \A m1 \in Methods, t1 \in Targets :
        up[Labelled(m1, t1)] = IF <<m1, t1>> = <<m, t>> THEN ct[Labelled(m1, t1)] + 1
                               ELSE ct[Labelled(m1, t1)]
  <2> SUFFICES ASSUME NEW m1 \in Methods, NEW t1 \in Targets
               PROVE  up[Labelled(m1, t1)] = IF <<m1, t1>> = <<m, t>> THEN ct[Labelled(m1, t1)] + 1
                                             ELSE ct[Labelled(m1, t1)]
    OBVIOUS
  <2>1. /\ Labelled(m1, t1) \in Names
        /\ Labelled(m1, t1) \in {Labelled(m, t)} \cup {Responses, Class(k)} <=> <<m1, t1>> = <<m, t>>
    BY NamesDiffer
  <2> QED BY <2>1 DEF Added
<1> HIDE DEF up
<1>6. LabelSum(ct) \in Nat /\ LabelSum(up) = LabelSum(ct) + 1
  <2>1. <<m, t>> \in Pairs
    BY DEF Pairs
  <2> QED BY <1>1, <1>2, <1>5, <2>1, LabelSumMoves
<1>7. ClassSum(lg) \in Nat /\ ClassSum(lu) = ClassSum(lg) + 1
  BY <1>1, ClassSumMoves
<1>8. \A n \in Classes : up[Class(n)] = lu[n]
  BY <1>1, <1>4 DEF Counted
<1> HIDE DEF lu
<1>9. /\ IsFiniteSet(us \ {c}) /\ Cardinality(us) \in Nat
      /\ Cardinality(us \ {c}) = Cardinality(us) - 1
  BY FS_RemoveElement, FS_CardinalityType DEF Counted
<1>10. ct[Responses] \in Nat /\ up[Requests] = up[Responses] + lo + Cardinality(us \ {c})
  BY <1>1, <1>3, <1>9, NamesDiffer DEF Counted
<1>11. Counted(up, lu, lo, us \ {c})
  BY <1>1, <1>2, <1>3, <1>6, <1>7, <1>8, <1>9, <1>10 DEF Counted
<1> QED BY <1>11 DEF up, lu

Handled == {c \in Conns : open[c]}
Unanswered == {c \in Conns : proto[c] = "h1" /\ pc[c] = "chain"}

(* CountersExact, with the connections and requests it counts finite in    *)
(* number; a connection is open only after Accept.                         *)
CountInv ==
  /\ Counted(counters, logged, lost, Unanswered)
  /\ active \in Nat /\ IsFiniteSet(Handled) /\ active = Cardinality(Handled)
  /\ open \in [Conns -> BOOLEAN]
  /\ \A c \in Conns : pc[c] = "new" => open[c] = FALSE

\* A step that neither begins nor ends a connection, nor counts a request.
LEMMA CountSame ==
  ASSUME CountInv, UNCHANGED <<active, open>>,
         \A c \in Conns : pc'[c] = "new" => pc[c] = "new",
         Counted(counters', logged', lost', Unanswered')
  PROVE  CountInv'
<1>1. Handled' = Handled
  BY DEF Handled
<1> QED BY <1>1 DEF CountInv

\* Accept and the end of handle: the gauge follows the connections.
LEMMA CountConnections ==
  ASSUME AnswerInv, CountInv, NEW c \in Conns,
         (\E hs \in Handshakes[c] : Accept(c, hs)) \/ HandleReturns(c)
  PROVE  CountInv'
<1>1. DOMAIN pc = Conns /\ DOMAIN proto = Conns /\ DOMAIN open = Conns
  BY DEF AnswerInv, ConnTypes, CountInv
<1>2. /\ Counted(counters, logged, lost, Unanswered)
      /\ active \in Nat /\ IsFiniteSet(Handled) /\ active = Cardinality(Handled)
      /\ open \in [Conns -> BOOLEAN]
      /\ \A d \in Conns : pc[d] = "new" => open[d] = FALSE
  BY DEF CountInv
<1>3. CASE \E hs \in Handshakes[c] : Accept(c, hs)
  <2>1. PICK hs \in Handshakes[c] : Accept(c, hs)
    BY <1>3
  <2>2. /\ pc[c] = "new" /\ pc'[c] \in {"read", "net"} /\ open' = [open EXCEPT ![c] = TRUE]
        /\ \A d \in Conns : d # c => pc'[d] = pc[d] /\ proto'[d] = proto[d]
        /\ active' = active + 1 /\ logged' = logged /\ lost' = lost
        /\ counters' = Added(counters, {Accepted})
    BY <1>1, <2>1 DEF Accept, Inc, AddGauge, Added
  <2>3. Unanswered' = Unanswered
    BY <2>2 DEF Unanswered
  <2>4. Counted(counters', logged', lost', Unanswered')
    <3>1. Counted(Added(counters, {Accepted}), logged, lost, Unanswered)
      BY <1>2, CountedApart
    <3> QED BY <2>2, <2>3, <3>1
  <2>5. Handled' = Handled \cup {c} /\ c \notin Handled
    BY <1>2, <2>2 DEF Handled
  <2>6. IsFiniteSet(Handled \cup {c}) /\ Cardinality(Handled \cup {c}) = Cardinality(Handled) + 1
    BY <1>2, <2>5, FS_AddElement
  <2> QED BY <1>2, <2>2, <2>4, <2>5, <2>6 DEF CountInv
<1>4. CASE HandleReturns(c)
  <2>1. /\ open[c] /\ open' = [open EXCEPT ![c] = FALSE] /\ active' = active + (-1)
        /\ UNCHANGED <<proto, counters, logged, lost>>
        /\ pc' = pc \/ (pc[c] = "net" /\ pc' = [pc EXCEPT ![c] = "closed"])
    BY <1>4 DEF HandleReturns, AddGauge
  <2>2. Unanswered' = Unanswered /\ \A d \in Conns : pc'[d] = "new" => pc[d] = "new"
    BY <1>1, <2>1 DEF Unanswered
  <2>3. Counted(counters', logged', lost', Unanswered')
    BY <1>2, <2>1, <2>2
  <2>4. Handled' = Handled \ {c} /\ c \in Handled
    BY <1>2, <2>1 DEF Handled
  <2>5. /\ IsFiniteSet(Handled \ {c}) /\ Cardinality(Handled \ {c}) = Cardinality(Handled) - 1
        /\ Cardinality(Handled) # 0
    BY <1>2, <2>4, FS_RemoveElement, FS_EmptySet
  <2>6. active' \in Nat /\ active' = Cardinality(Handled')
    BY <1>2, <2>1, <2>4, <2>5
  <2>7. open' \in [Conns -> BOOLEAN] /\ \A d \in Conns : pc'[d] = "new" => open'[d] = FALSE
    BY <1>2, <2>1, <2>2
  <2> QED BY <2>3, <2>4, <2>5, <2>6, <2>7 DEF CountInv
<1> QED BY <1>3, <1>4

\* A request is read, or answered, or its answer is lost.
LEMMA CountRequests ==
  ASSUME AnswerInv, RouteInv, CountInv, NEW c \in Conns,
         (\E k \in RequestKinds[c] : ReadRequest(c, k)) \/ Finish(c) \/ WriteFails(c)
  PROVE  CountInv'
<1>1. /\ DOMAIN pc = Conns /\ Counted(counters, logged, lost, Unanswered)
      /\ counters \in [Names -> Nat] /\ logged \in [Classes -> Nat]
  BY DEF AnswerInv, ConnTypes, CountInv, Counted
<1>2. CASE \E k \in RequestKinds[c] : ReadRequest(c, k)
  <2>1. /\ pc[c] = "read" /\ pc' = [pc EXCEPT ![c] = "chain"]
        /\ UNCHANGED <<open, active, proto, logged, lost>>
        /\ counters' = IF proto[c] = "h1" THEN Added(counters, {Requests}) ELSE counters
    BY <1>2 DEF ReadRequest, Inc, Added
  <2>2. c \notin Unanswered /\ Unanswered' = IF proto[c] = "h1" THEN Unanswered \cup {c} ELSE Unanswered
    BY <1>1, <2>1 DEF Unanswered
  <2>3. Counted(Added(counters, {Requests}), logged, lost, Unanswered \cup {c})
    BY <1>1, <2>2, CountedRead
  <2>4. Counted(counters', logged', lost', Unanswered')
    BY <1>1, <2>1, <2>2, <2>3
  <2>5. \A d \in Conns : pc'[d] = "new" => pc[d] = "new"
    BY <1>1, <2>1
  <2> QED BY <2>1, <2>4, <2>5, CountSame
<1>3. CASE Finish(c)
  <2> DEFINE r == rc[c]
             k == ClassOf(FinalStatus(r))
             m == r.kind.method
             t == r.cluster
  <2>1. /\ pc[c] = "chain" /\ proto[c] = "h1" /\ pc' = [pc EXCEPT ![c] = "answered"]
        /\ UNCHANGED <<open, active, proto, lost>>
        /\ logged' = [logged EXCEPT ![k] = @ + 1]
        /\ counters' = Added(counters, {Labelled(m, t)} \cup {Responses, Class(k)})
    BY <1>3 DEF Finish, FiltersDone, Inc, Added, IncDownstreamRequest, IncCode
  <2>2. FinalStatus(r) \in Statuses
    <3>1. IsRequest(r) /\ Progress(r, "h1")
      BY <2>1 DEF AnswerInv, ConnTypes, AnswersAt, InChain
    <3>2. r.responded = TRUE => r.status \in Statuses
      BY <3>1, Zenon DEF Progress
    <3>3. FallbackStatus(r) \in Statuses
      BY DEF FallbackStatus, DefaultStatus, Statuses
    <3> QED BY <3>1, <3>2, <3>3 DEF FinalStatus, IsRequest
  <2>3. k \in Classes
    BY <2>2, ClassesAre
  <2>4. m \in Methods /\ t \in Targets
    <3>1. r.kind \in RequestKinds[c] /\ r.cluster \in Clusters \cup {NoCluster}
      BY <2>1 DEF RouteInv, RouteAt, RequestFits
    <3> QED BY <3>1, ConnectionConstants
  <2> HIDE DEF k, m, t, r
  <2>5. c \in Unanswered /\ Unanswered' = Unanswered \ {c}
    BY <1>1, <2>1 DEF Unanswered
  <2>6. Counted(Added(counters, {Labelled(m, t)} \cup {Responses, Class(k)}),
                [logged EXCEPT ![k] = @ + 1], lost, Unanswered \ {c})
    BY <1>1, <2>3, <2>4, <2>5, CountedAnswer
  <2>7. Counted(counters', logged', lost', Unanswered')
    BY <2>1, <2>5, <2>6
  <2>8. \A d \in Conns : pc'[d] = "new" => pc[d] = "new"
    BY <1>1, <2>1
  <2> QED BY <2>1, <2>7, <2>8, CountSame
<1>4. CASE WriteFails(c)
  <2>1. /\ pc[c] = "chain" /\ proto[c] = "h1" /\ pc' = [pc EXCEPT ![c] = "net"]
        /\ UNCHANGED <<open, active, proto, counters, logged>> /\ lost' = lost + 1
    BY <1>4 DEF WriteFails, FiltersDone, Return, metricsVars
  <2>2. c \in Unanswered /\ Unanswered' = Unanswered \ {c}
    BY <1>1, <2>1 DEF Unanswered
  <2>3. Counted(counters, logged, lost + 1, Unanswered \ {c})
    BY <1>1, <2>2, CountedLost
  <2>4. Counted(counters', logged', lost', Unanswered')
    BY <2>1, <2>2, <2>3
  <2>5. \A d \in Conns : pc'[d] = "new" => pc[d] = "new"
    BY <1>1, <2>1
  <2> QED BY <2>1, <2>4, <2>5, CountSame
<1> QED BY <1>2, <1>3, <1>4

\* The other steps count nothing, or a request that the limiter denied.
LEMMA CountOthers ==
  ASSUME AnswerInv, CountInv, NEW c \in Conns,
         \/ Execute(c) \/ ReadFails(c) \/ ParseFails(c) \/ Limit(c) \/ Route(c) \/ RouteOptions(c)
         \/ Upstream(c) \/ Acquired(c) \/ FinishStream(c) \/ NextTurn(c)
         \/ ClientCloses(c) \/ CloseAtShutdown(c)
  PROVE  CountInv'
<1>1. DOMAIN pc = Conns /\ Counted(counters, logged, lost, Unanswered)
  BY DEF AnswerInv, ConnTypes, CountInv
<1>2. CASE Limit(c)
  <2>1. /\ UNCHANGED <<pc, proto, open, active, logged, lost>>
        /\ counters' = counters \/ counters' = Added(counters, {RateLimited})
    BY <1>2 DEF Limit, quiet, Inc, Added
  <2>2. Counted(Added(counters, {RateLimited}), logged, lost, Unanswered)
    BY <1>1, CountedApart
  <2>3. Unanswered' = Unanswered
    BY <2>1 DEF Unanswered
  <2>4. Counted(counters', logged', lost', Unanswered')
    BY <1>1, <2>1, <2>2, <2>3
  <2> QED BY <2>1, <2>4, CountSame
<1>3. CASE \/ Execute(c) \/ ReadFails(c) \/ ParseFails(c) \/ FinishStream(c) \/ NextTurn(c)
  <2>1. /\ UNCHANGED <<proto, open, active, counters, logged, lost>>
        /\ pc[c] # "chain" \/ proto[c] = "h2"
        /\ pc' = pc \/ \E to \in {"net", "read", "answered"} : pc' = [pc EXCEPT ![c] = to]
    BY <1>3 DEF Execute, ReadFails, ParseFails, FinishStream, NextTurn, Return, metricsVars
  <2>2. Unanswered' = Unanswered /\ \A d \in Conns : pc'[d] = "new" => pc[d] = "new"
    BY <1>1, <2>1 DEF Unanswered
  <2> QED BY <1>1, <2>1, <2>2, CountSame
<1>4. CASE \/ Route(c) \/ RouteOptions(c) \/ Upstream(c) \/ Acquired(c)
           \/ ClientCloses(c) \/ CloseAtShutdown(c)
  <2>1. UNCHANGED <<pc, proto, open, active, counters, logged, lost>>
    BY <1>4 DEF Route, RouteOptions, Upstream, Unforwarded, Proxied, Refused, Wait, WaitEnds,
       AttemptFails, NoEndpoint, Cut, Acquired, ClientCloses, CloseAtShutdown, quiet, metricsVars
  <2>2. Unanswered' = Unanswered
    BY <2>1 DEF Unanswered
  <2> QED BY <1>1, <2>1, <2>2, CountSame
<1> QED BY <1>2, <1>3, <1>4

\* So every step keeps the metrics exact.
LEMMA CountStep == AnswerInv /\ RouteInv /\ CountInv /\ [Next]_vars => CountInv'
<1> SUFFICES ASSUME AnswerInv, RouteInv, CountInv, [Next]_vars PROVE CountInv'
  OBVIOUS
<1>1. CASE Shutdown \/ (Tick /\ UNCHANGED <<connVars, metricsVars>>) \/ UNCHANGED vars
  <2>1. UNCHANGED <<pc, proto, open, active, counters, logged, lost>>
    BY <1>1 DEF Shutdown, vars, connVars, metricsVars
  <2>2. Unanswered' = Unanswered
    BY <2>1 DEF Unanswered
  <2>3. Counted(counters', logged', lost', Unanswered')
    BY <2>1, <2>2 DEF CountInv
  <2> QED BY <2>1, <2>3, CountSame
<1>2. ASSUME NEW c \in Conns,
             \/ \E hs \in Handshakes[c] : Accept(c, hs)
             \/ \E k \in RequestKinds[c] : ReadRequest(c, k)
             \/ Step(c) \/ Acquired(c) \/ ParseFails(c) \/ ClientCloses(c) \/ CloseAtShutdown(c)
      PROVE  CountInv'
  BY <1>2, CountConnections, CountRequests, CountOthers DEF Step
<1> QED BY <1>1, <1>2 DEF Next

\* Nothing is counted at first.
LEMMA CountStart == Init => CountInv
<1> SUFFICES ASSUME Init PROVE CountInv
  OBVIOUS
<1> DEFINE ct == [n \in Names |-> 0]
           lg == [n \in Classes |-> 0]
<1>1. /\ counters = ct /\ logged = lg /\ lost = 0 /\ active = 0
      /\ open = [c \in Conns |-> FALSE] /\ pc = [c \in Conns |-> "new"]
  BY DEF Init, MetricsInit
<1>2. Unanswered = {} /\ Handled = {}
  BY <1>1 DEF Unanswered, Handled
<1>3. ct \in [Names -> Nat] /\ lg \in [Classes -> Nat]
  OBVIOUS
<1>4. ct[Responses] = 0 /\ ct[Requests] = 0 /\ \A n \in Classes : ct[Class(n)] = lg[n]
  BY NamesDiffer
<1>5. ClassSum(lg) = 0
  <2>1. PICK it : Sums(it, lg, Classes) /\ ClassSum(lg) = it[Classes]
    BY ClassSumIs
  <2>2. \A y \in Classes : lg[y] = 0
    OBVIOUS
  <2> HIDE DEF lg
  <2> QED BY <2>1, <2>2, ClassesAre, SumZero
<1>6. LabelSum(ct) = 0
  <2>1. PICK it : Sums(it, LabelValues(ct), Pairs) /\ LabelSum(ct) = it[Pairs]
    BY LabelSumIs
  <2>2. \A y \in Pairs : LabelValues(ct)[y] = 0
    <3> SUFFICES ASSUME NEW m \in Methods, NEW t \in Targets
                 PROVE  LabelValues(ct)[<<m, t>>] = 0
      BY DEF Pairs
    <3> QED BY NamesDiffer DEF LabelValues, Pairs
  <2>3. IsFiniteSet(Pairs)
    BY FS_Product, MetricsConstants DEF Pairs
  <2> HIDE DEF ct
  <2> QED BY <2>1, <2>2, <2>3, SumZero
<1> HIDE DEF ct, lg
<1>7. Counted(ct, lg, 0, {})
  BY <1>3, <1>4, <1>5, <1>6, FS_EmptySet DEF Counted
<1> QED BY <1>1, <1>2, <1>7, FS_EmptySet DEF CountInv
-----------------------------------------------------------------------------
(* The charges.                                                            *)

GrantSum(g) == MapThenSumSet(LAMBDA b : Len(g[b]), Buckets)
ServedSum(s) == MapThenSumSet(LAMBDA c : s[c], Conns)

\* There are finitely many buckets where there are finitely many clients.
LEMMA BucketsFinite ==
  ASSUME IsFiniteSet(Clients)
  PROVE  IsFiniteSet(Buckets)
<1> DEFINE P == Limiters \X Clients
           f == [y \in P |-> HostOf[y[1]][y[2]]]
           H == {HostOf[l][x] : l \in Limiters, x \in Clients}
<1>1. IsFiniteSet(Limiters)
  <2>1. IsFiniteSet({"hcm"} \cup {"h2"})
    BY FS_Singleton, FS_AddElement
  <2>2. Limiters = {"hcm"} \cup {"h2"}
    BY ConnectionConstants
  <2> QED BY <2>1, <2>2
<1>2. IsFiniteSet(P)
  BY <1>1, FS_Product
<1>3. f \in Surjection(P, H)
  <2>1. f \in [P -> H]
    OBVIOUS
  <2>2. ASSUME NEW l \in Limiters, NEW x \in Clients PROVE \E y \in P : f[y] = HostOf[l][x]
    <3>1. <<l, x>> \in P /\ f[<<l, x>>] = HostOf[l][x]
      OBVIOUS
    <3> QED BY <3>1
  <2> HIDE DEF f, P
  <2>3. \A h \in H : \E y \in P : f[y] = h
    BY <2>2
  <2> HIDE DEF H
  <2> QED BY <2>1, <2>3 DEF Surjection
<1> HIDE DEF f, P, H
<1>4. IsFiniteSet(H)
  BY <1>2, <1>3, FS_Surjection
<1>5. IsFiniteSet({"global"} \cup H)
  BY <1>4, FS_Singleton, FS_Union
<1>6. Keys = {"global"} \cup H
  BY DEF Keys, H
<1> QED BY <1>1, <1>5, <1>6, FS_Product DEF Buckets

GrantValues(g) == [b \in Buckets |-> Len(g[b])]
GrantLoop(it, g) ==
  it = [s \in SUBSET Buckets |->
          IF s = {} THEN 0
          ELSE Len(g[CHOOSE x \in s : TRUE]) + it[s \ {CHOOSE x \in s : TRUE}]]

\* The sum over the buckets.
LEMMA GrantSumIs ==
  ASSUME IsFiniteSet(Buckets), NEW g
  PROVE  \E it : Sums(it, GrantValues(g), Buckets) /\ GrantSum(g) = it[Buckets]
<1> DEFINE it == CHOOSE it1 : GrantLoop(it1, g)
<1>1. GrantSum(g) = it[Buckets]
  BY Zenon DEF GrantSum, MapThenSumSet, MapThenFoldSet, GrantLoop
<1>2. ASSUME NEW it1 PROVE GrantLoop(it1, g) <=> Sums(it1, GrantValues(g), Buckets)
  <2>1. \A s \in SUBSET Buckets : s # {} =>
          GrantValues(g)[CHOOSE x \in s : TRUE] = Len(g[CHOOSE x \in s : TRUE])
    <3> SUFFICES ASSUME NEW s \in SUBSET Buckets, s # {}
                 PROVE  GrantValues(g)[CHOOSE x \in s : TRUE] = Len(g[CHOOSE x \in s : TRUE])
      OBVIOUS
    <3> DEFINE y == CHOOSE x \in s : TRUE
    <3>1. y \in Buckets
      OBVIOUS
    <3> HIDE DEF y
    <3>2. GrantValues(g)[y] = Len(g[y])
      BY <3>1 DEF GrantValues
    <3> QED BY <3>2 DEF y
  <2>2. [s \in SUBSET Buckets |->
          IF s = {} THEN 0
          ELSE Len(g[CHOOSE x \in s : TRUE]) + it1[s \ {CHOOSE x \in s : TRUE}]]
        = [s \in SUBSET Buckets |->
          IF s = {} THEN 0
          ELSE GrantValues(g)[CHOOSE x \in s : TRUE] + it1[s \ {CHOOSE x \in s : TRUE}]]
    BY <2>1
  <2> QED BY <2>2, Zenon DEF GrantLoop, Sums
<1>3. \E it1 : GrantLoop(it1, g)
  BY <1>2, SumsExist
<1>4. GrantLoop(it, g)
  BY <1>3, Zenon
<1> HIDE DEF it
<1> QED BY <1>1, <1>2, <1>4

\* One more request that bucket b lets pass.
LEMMA GrantSumMoves ==
  ASSUME IsFiniteSet(Buckets), NEW g \in [Buckets -> Seq(Nat)], NEW b \in Buckets, NEW t \in Nat
  PROVE  GrantSum(g) \in Nat /\ GrantSum([g EXCEPT ![b] = Append(@, t)]) = GrantSum(g) + 1
<1> DEFINE up == [g EXCEPT ![b] = Append(@, t)]
<1>1. PICK i1 : Sums(i1, GrantValues(g), Buckets) /\ GrantSum(g) = i1[Buckets]
  BY GrantSumIs
<1>2. PICK i2 : Sums(i2, GrantValues(up), Buckets) /\ GrantSum(up) = i2[Buckets]
  BY GrantSumIs
<1>3. OneUp(GrantValues(g), GrantValues(up), b, Buckets)
  <2> SUFFICES ASSUME NEW y \in Buckets
               PROVE  /\ GrantValues(g)[y] \in Nat
                      /\ GrantValues(up)[y] = IF y = b THEN GrantValues(g)[y] + 1 ELSE GrantValues(g)[y]
    BY DEF OneUp
  <2>1. Len(g[y]) \in Nat /\ Len(Append(g[y], t)) = Len(g[y]) + 1
    BY AppendProperties, LenProperties
  <2>2. GrantValues(g)[y] = Len(g[y]) /\ GrantValues(up)[y] = Len(up[y])
    BY DEF GrantValues
  <2>3. up[y] = IF y = b THEN Append(g[y], t) ELSE g[y]
    OBVIOUS
  <2> HIDE DEF up
  <2> QED BY <2>1, <2>2, <2>3
<1> HIDE DEF up
<1>4. i1[Buckets] \in Nat /\ i2[Buckets] = IF b \in Buckets THEN i1[Buckets] + 1 ELSE i1[Buckets]
  BY <1>1, <1>2, <1>3, SumMove
<1> QED BY <1>1, <1>2, <1>4 DEF up

\* The sum over the connections.
LEMMA ServedSumIs ==
  ASSUME IsFiniteSet(Conns), NEW s
  PROVE  \E it : Sums(it, s, Conns) /\ ServedSum(s) = it[Conns]
<1> DEFINE it == CHOOSE it1 : Sums(it1, s, Conns)
<1>1. ServedSum(s) = it[Conns]
  BY Zenon DEF ServedSum, MapThenSumSet, MapThenFoldSet, Sums
<1>2. \E it1 : Sums(it1, s, Conns)
  BY SumsExist
<1>3. Sums(it, s, Conns)
  BY <1>2, Zenon
<1> HIDE DEF it
<1> QED BY <1>1, <1>3

\* One more request on connection c.
LEMMA ServedSumMoves ==
  ASSUME IsFiniteSet(Conns), NEW s \in [Conns -> Nat], NEW c \in Conns
  PROVE  ServedSum(s) \in Nat /\ ServedSum([s EXCEPT ![c] = @ + 1]) = ServedSum(s) + 1
<1> DEFINE up == [s EXCEPT ![c] = @ + 1]
<1>1. PICK i1 : Sums(i1, s, Conns) /\ ServedSum(s) = i1[Conns]
  BY ServedSumIs
<1>2. PICK i2 : Sums(i2, up, Conns) /\ ServedSum(up) = i2[Conns]
  BY ServedSumIs
<1>3. OneUp(s, up, c, Conns)
  BY DEF OneUp
<1> HIDE DEF up
<1>4. i1[Conns] \in Nat /\ i2[Conns] = IF c \in Conns THEN i1[Conns] + 1 ELSE i1[Conns]
  BY <1>1, <1>2, <1>3, SumMove
<1> QED BY <1>1, <1>2, <1>4 DEF up

\* The connections whose request the limiter has not seen.
Uncharged == {c \in Conns : pc[c] = "chain" /\ todo[c] = FiltersOf(proto[c])}

\* EveryRequestCharged, with the connections it counts finite in number.
ChargeInv ==
  /\ IsFiniteSet(Uncharged)
  /\ GrantSum(grants) + counters[RateLimited] + Cardinality(Uncharged) = ServedSum(served)

\* A step that neither reads a request nor charges one.
LEMMA ChargeSame ==
  ASSUME ChargeInv, UNCHANGED <<grants, served>>, counters'[RateLimited] = counters[RateLimited],
         Uncharged' = Uncharged
  PROVE  ChargeInv'
BY DEF ChargeInv

\* The limiter is the first filter.
LEMMA LimitFirst ==
  ASSUME NEW p, NEW s \in TodoOf(p), s # <<>>
  PROVE  /\ Head(s) = "limit" <=> s = FiltersOf(p)
         /\ Tail(s) # FiltersOf(p)
<1> USE DEF TodoOf, FiltersOf, HcmFilters, H2Filters
<1>1. CASE s = <<"upstream">>
  BY <1>1
<1>2. CASE s = <<"options", "upstream">> /\ p = "h1"
  BY <1>2
<1>3. CASE s = <<"route", "upstream">> /\ p # "h1"
  BY <1>3
<1>4. CASE s = <<"route", "options", "upstream">> /\ p = "h1"
  BY <1>4
<1>5. CASE s = HcmFilters /\ p = "h1"
  BY <1>5
<1>6. CASE s = H2Filters /\ p # "h1"
  BY <1>6
<1> QED BY <1>1, <1>2, <1>3, <1>4, <1>5, <1>6

\* The flags of the connections and how many requests each has had.
ServedInv ==
  /\ gone \in [Conns -> BOOLEAN] /\ stopped \in BOOLEAN
  /\ served \in [Conns -> Nat] /\ \A c \in Conns : served[c] <= MaxRequests[c]

\* A request is read.
LEMMA ChargeRead ==
  ASSUME IsFiniteSet(Conns), AnswerInv, ServedInv, ChargeInv,
         counters \in [Names -> Nat], GrantSum(grants) \in Nat,
         NEW c \in Conns, NEW k \in RequestKinds[c], ReadRequest(c, k)
  PROVE  ChargeInv'
<1>1. DOMAIN pc = Conns /\ DOMAIN todo = Conns /\ served \in [Conns -> Nat]
  BY DEF AnswerInv, ConnTypes, ServedInv
<1>2. /\ pc[c] = "read" /\ pc' = [pc EXCEPT ![c] = "chain"] /\ proto' = proto
      /\ todo' = [todo EXCEPT ![c] = FiltersOf(proto[c])]
      /\ served' = [served EXCEPT ![c] = @ + 1] /\ grants' = grants
      /\ counters' = Added(counters, {Requests}) \/ counters' = counters
  BY DEF ReadRequest, limiterVars, Inc, Added
<1>3. c \notin Uncharged /\ Uncharged' = Uncharged \cup {c}
  BY <1>1, <1>2 DEF Uncharged
<1>4. counters'[RateLimited] = counters[RateLimited] /\ counters[RateLimited] \in Nat
  BY <1>2, NamesDiffer DEF Added
<1>5. ServedSum(served) \in Nat /\ ServedSum(served') = ServedSum(served) + 1
  BY <1>1, <1>2, ServedSumMoves
<1>6. /\ IsFiniteSet(Uncharged \cup {c}) /\ Cardinality(Uncharged) \in Nat
      /\ Cardinality(Uncharged \cup {c}) = Cardinality(Uncharged) + 1
  BY <1>3, FS_AddElement, FS_CardinalityType DEF ChargeInv
<1>7. GrantSum(grants') = GrantSum(grants)
  BY <1>2
<1>8. GrantSum(grants) + counters[RateLimited] + Cardinality(Uncharged) = ServedSum(served)
  BY DEF ChargeInv
<1>9. GrantSum(grants') + counters'[RateLimited] + Cardinality(Uncharged') = ServedSum(served')
  BY <1>3, <1>4, <1>5, <1>6, <1>7, <1>8
<1> QED BY <1>3, <1>6, <1>9 DEF ChargeInv

\* The limiter gives a token or denies the request.
LEMMA ChargeLimit ==
  ASSUME IsFiniteSet(Buckets), AnswerInv, RouteInv, ChargeInv, LimiterInv, ClientsKnown,
         counters \in [Names -> Nat], GrantSum(grants) \in Nat, NEW c \in Conns, Limit(c)
  PROVE  ChargeInv'
<1> DEFINE l == IF proto[c] = "h1" THEN "hcm" ELSE "h2"
           b == BucketOf(l, client[c])
<1>1. b \in Buckets
  <2>1. l \in Limiters /\ client[c] \in Clients
    BY ConnectionConstants DEF ClientsKnown
  <2> HIDE DEF l
  <2> QED BY <2>1, BucketOfType
<1>2. /\ AtFilter(c, "limit") /\ NextFilter(c) /\ UNCHANGED <<pc, proto, served>>
      /\ Allows(b) => grants' = [grants EXCEPT ![b] = Append(@, clock)] /\ counters' = counters
      /\ ~Allows(b) => grants' = grants /\ counters' = Added(counters, {RateLimited})
  BY DEF Limit, Charge, quiet, Inc, Added
<1>3. clock \in Nat /\ grants \in [Buckets -> Seq(Nat)]
  BY DEF LimiterInv, LimiterTypeOK
<1> HIDE DEF b
<1>4. c \in Uncharged /\ Uncharged' = Uncharged \ {c}
  <2>1. DOMAIN todo = Conns
    BY DEF AnswerInv, ConnTypes
  <2>2. /\ pc[c] = "chain" /\ todo[c] # <<>> /\ Head(todo[c]) = "limit"
        /\ todo[c] \in TodoOf(proto[c])
    BY <1>2, FilterRequest
  <2>3. todo[c] = FiltersOf(proto[c]) /\ Tail(todo[c]) # FiltersOf(proto[c])
    BY <2>2, LimitFirst
  <2>4. todo'[c] = Tail(todo[c]) /\ \A d \in Conns : d # c => todo'[d] = todo[d]
    BY <1>2, <2>1 DEF NextFilter
  <2> QED BY <1>2, <2>2, <2>3, <2>4 DEF Uncharged
<1>5. /\ IsFiniteSet(Uncharged \ {c}) /\ Cardinality(Uncharged) \in Nat
      /\ Cardinality(Uncharged \ {c}) = Cardinality(Uncharged) - 1
  BY <1>4, FS_RemoveElement, FS_CardinalityType DEF ChargeInv
<1>6. GrantSum(grants') + counters'[RateLimited] = GrantSum(grants) + counters[RateLimited] + 1
  <2>1. counters[RateLimited] \in Nat /\ Added(counters, {RateLimited})[RateLimited] = counters[RateLimited] + 1
    BY NamesDiffer DEF Added
  <2>2. CASE Allows(b)
    <3>1. GrantSum(grants') = GrantSum(grants) + 1
      <4> DEFINE up == [grants EXCEPT ![b] = Append(@, clock)]
      <4>1. GrantSum(up) = GrantSum(grants) + 1
        BY <1>1, <1>3, GrantSumMoves
      <4>2. grants' = up
        BY <1>2, <2>2
      <4> HIDE DEF up
      <4> QED BY <4>1, <4>2
    <3> QED BY <1>2, <2>1, <2>2, <3>1
  <2>3. CASE ~Allows(b)
    <3>1. GrantSum(grants') = GrantSum(grants)
      BY <1>2, <2>3
    <3> QED BY <1>2, <2>1, <2>3, <3>1
  <2> QED BY <2>2, <2>3
<1>7. ServedSum(served') = ServedSum(served)
  BY <1>2
<1>8. GrantSum(grants) + counters[RateLimited] + Cardinality(Uncharged) = ServedSum(served)
  BY DEF ChargeInv
<1>9. counters[RateLimited] \in Nat
  BY NamesDiffer
<1>10. (GrantSum(grants') + counters'[RateLimited]) + Cardinality(Uncharged') = ServedSum(served')
  BY <1>4, <1>5, <1>6, <1>7, <1>8, <1>9
<1> QED BY <1>4, <1>5, <1>10 DEF ChargeInv

\* The later filters, and the end of a request, find it charged.
LEMMA ChargeFilters ==
  ASSUME AnswerInv, RouteInv, ChargeInv, counters \in [Names -> Nat], NEW c \in Conns,
         \/ Route(c) \/ RouteOptions(c) \/ Upstream(c) \/ Acquired(c)
         \/ Finish(c) \/ WriteFails(c) \/ FinishStream(c) \/ NextTurn(c)
  PROVE  ChargeInv'
<1>1. /\ DOMAIN pc = Conns /\ DOMAIN todo = Conns /\ todo[c] \in TodoOf(proto[c])
      /\ pc[c] = "chain" => Routed(rc[c], todo[c], proto[c])
  BY DEF AnswerInv, ConnTypes, RouteInv, RouteAt
<1>2. CASE Route(c) \/ RouteOptions(c) \/ Upstream(c) \/ Acquired(c)
  <2>1. /\ UNCHANGED <<pc, proto, grants, served, counters>>
        /\ AtFilter(c, "route") \/ AtFilter(c, "options") \/ AtFilter(c, "upstream")
        /\ NextFilter(c) \/ todo' = todo
    BY <1>2 DEF Route, RouteOptions, Upstream, Unforwarded, Proxied, Refused, Wait, WaitEnds,
       AttemptFails, NoEndpoint, Cut, Acquired, AtUpstream, Waiting, quiet, limiterVars, metricsVars
  <2>2. todo[c] # <<>> /\ Head(todo[c]) # "limit"
    BY <2>1 DEF AtFilter
  <2>3. todo[c] # FiltersOf(proto[c]) /\ Tail(todo[c]) # FiltersOf(proto[c])
    BY <1>1, <2>2, LimitFirst
  <2>4. /\ todo'[c] \in {todo[c], Tail(todo[c])}
        /\ \A d \in Conns : d # c => todo'[d] = todo[d]
    BY <1>1, <2>1 DEF NextFilter
  <2>5. Uncharged' = Uncharged
    BY <2>1, <2>3, <2>4 DEF Uncharged
  <2> QED BY <2>1, <2>5, ChargeSame
<1>3. CASE Finish(c) \/ WriteFails(c) \/ FinishStream(c)
  <2>1. /\ UNCHANGED <<proto, grants, served>> /\ pc[c] = "chain"
        /\ todo[c] = <<>> \/ rc[c].err # "none"
        /\ \E to \in {"answered", "net"} : pc' = [pc EXCEPT ![c] = to]
        /\ \A d \in Conns : d # c => todo'[d] = todo[d]
    BY <1>1, <1>3 DEF Finish, WriteFails, FinishStream, FiltersDone, Return, limiterVars
  <2>2. todo[c] \in LastRests
    BY <1>1, <2>1 DEF Routed, LastRests
  <2>3. todo[c] # FiltersOf(proto[c])
    <3>1. CASE todo[c] = <<>>
      BY <3>1 DEF FiltersOf, HcmFilters, H2Filters
    <3>2. CASE todo[c] = <<"upstream">>
      <4>1. todo[c] # <<>> /\ Head(todo[c]) = "upstream"
        BY <3>2
      <4> QED BY <1>1, <4>1, LimitFirst
    <3> QED BY <2>2, <3>1, <3>2 DEF LastRests
  <2>4. Uncharged' = Uncharged
    BY <1>1, <2>1, <2>3 DEF Uncharged
  <2>5. counters'[RateLimited] = counters[RateLimited]
    <3>1. CASE Finish(c)
      BY <3>1, NamesDiffer DEF Finish, Inc, IncDownstreamRequest, IncCode
    <3>2. CASE WriteFails(c) \/ FinishStream(c)
      BY <3>2 DEF WriteFails, FinishStream, metricsVars
    <3> QED BY <1>3, <3>1, <3>2
  <2> QED BY <2>1, <2>4, <2>5, ChargeSame
<1>4. CASE NextTurn(c)
  <2>1. /\ UNCHANGED <<proto, grants, served, counters>> /\ pc[c] = "answered"
        /\ \E to \in {"read", "net"} : pc' = [pc EXCEPT ![c] = to]
        /\ \A d \in Conns : d # c => todo'[d] = todo[d]
    BY <1>1, <1>4 DEF NextTurn, Return, limiterVars, metricsVars
  <2>2. Uncharged' = Uncharged
    BY <1>1, <2>1 DEF Uncharged
  <2> QED BY <2>1, <2>2, ChargeSame
<1> QED BY <1>2, <1>3, <1>4

\* The other steps of a connection have no request.
LEMMA ChargeOthers ==
  ASSUME AnswerInv, ChargeInv, counters \in [Names -> Nat], NEW c \in Conns,
         \/ \E hs \in Handshakes[c] : Accept(c, hs)
         \/ Execute(c) \/ HandleReturns(c) \/ ReadFails(c) \/ ParseFails(c)
         \/ ClientCloses(c) \/ CloseAtShutdown(c)
  PROVE  ChargeInv'
<1>1. DOMAIN pc = Conns /\ DOMAIN proto = Conns
  BY DEF AnswerInv, ConnTypes
<1>2. CASE \E hs \in Handshakes[c] : Accept(c, hs)
  <2>1. PICK hs \in Handshakes[c] : Accept(c, hs)
    BY <1>2
  <2>2. /\ UNCHANGED <<todo, grants, served>> /\ pc[c] = "new" /\ pc'[c] \in {"read", "net"}
        /\ \A d \in Conns : d # c => pc'[d] = pc[d] /\ proto'[d] = proto[d]
        /\ counters' = Added(counters, {Accepted})
    BY <1>1, <2>1 DEF Accept, Inc, Added, limiterVars
  <2>3. Uncharged' = Uncharged
    BY <2>2 DEF Uncharged
  <2>4. counters'[RateLimited] = counters[RateLimited]
    BY <2>2, NamesDiffer DEF Added
  <2> QED BY <2>2, <2>3, <2>4, ChargeSame
<1>3. CASE \/ Execute(c) \/ HandleReturns(c) \/ ReadFails(c) \/ ParseFails(c)
           \/ ClientCloses(c) \/ CloseAtShutdown(c)
  <2>1. /\ UNCHANGED <<proto, todo, grants, served, counters>>
        /\ \/ pc' = pc
           \/ pc[c] # "chain" /\ \E to \in {"read", "net", "closed"} : pc' = [pc EXCEPT ![c] = to]
    BY <1>3 DEF Execute, HandleReturns, ReadFails, ParseFails, Return, ClientCloses, CloseAtShutdown,
       limiterVars, metricsVars
  <2>2. Uncharged' = Uncharged
    BY <1>1, <2>1 DEF Uncharged
  <2> QED BY <2>1, <2>2, ChargeSame
<1> QED BY <1>2, <1>3
-----------------------------------------------------------------------------
(* The types.                                                              *)

\* What ends like t is a suffix of it.
LEMMA EndIsSuffix ==
  ASSUME NEW X, NEW s \in Seq(X), NEW t \in Seq(X), Len(s) <= Len(t),
         \A i \in 1 .. Len(s) : s[i] = t[Len(t) - Len(s) + i]
  PROVE  IsSuffix(s, t)
<1> DEFINE m == Len(s)
           n == Len(t)
           u == [i \in 1 .. m |-> s[(m - i) + 1]]
           v == [i \in 1 .. n |-> t[(n - i) + 1]]
<1>0. m \in Nat /\ n \in Nat /\ m <= n
  BY LenProperties
<1>1. (\A i \in 1 .. m : s[i] \in X) /\ (\A i \in 1 .. n : t[i] \in X)
  BY ElementOfSeq
<1> HIDE DEF m, n
<1>2. u \in [1 .. m -> X] /\ v \in [1 .. n -> X]
  BY <1>0, <1>1
<1>3. u \in Seq(X) /\ v \in Seq(X) /\ Len(u) = m /\ Len(v) = n
  <2>1. u \in Seq(X) /\ v \in Seq(X)
    BY <1>0, <1>2, SeqDef
  <2>2. DOMAIN u = 1 .. m /\ DOMAIN v = 1 .. n
    OBVIOUS
  <2> HIDE DEF u, v
  <2>3. /\ Len(u) \in Nat /\ DOMAIN u = 1 .. Len(u)
        /\ Len(v) \in Nat /\ DOMAIN v = 1 .. Len(v)
    BY <2>1, LenProperties
  <2> QED BY <1>0, <2>1, <2>2, <2>3
<1>4. \A i \in 1 .. m : u[i] = v[i]
  <2> SUFFICES ASSUME NEW i \in 1 .. m PROVE u[i] = v[i]
    OBVIOUS
  <2>1. (m - i) + 1 \in 1 .. m /\ n - m + ((m - i) + 1) = (n - i) + 1 /\ i \in 1 .. n
    BY <1>0
  <2>2. s[(m - i) + 1] = t[n - m + ((m - i) + 1)]
    BY <2>1 DEF m, n
  <2>3. u[i] = s[(m - i) + 1] /\ v[i] = t[(n - i) + 1]
    BY <2>1
  <2> QED BY <2>1, <2>2, <2>3
<1>5. u = Reverse(s) /\ v = Reverse(t)
  BY DEF Reverse, m, n
<1> HIDE DEF u, v
<1>6. /\ SubSeq(u, 1, m) = [i \in 1 .. m |-> u[i]]
      /\ SubSeq(v, 1, m) = [i \in 1 .. m |-> v[i]]
  <2>1. \A w \in Seq(X) : m <= Len(w) => SubSeq(w, 1, m) = [i \in 1 .. m |-> w[i]]
    <3> SUFFICES ASSUME NEW w \in Seq(X), m <= Len(w)
                 PROVE  SubSeq(w, 1, m) = [i \in 1 .. m |-> w[i]]
      OBVIOUS
    <3>1. \A i \in 1 .. m : w[i] \in X
      BY <1>0, ElementOfSeq, LenProperties
    <3>2. SubSeq(w, 1, m) \in Seq(X) /\ Len(SubSeq(w, 1, m)) = m
          /\ \A i \in 1 .. m : SubSeq(w, 1, m)[i] = w[i]
      BY <1>0, <3>1, SubSeqProperties, LenProperties
    <3>3. DOMAIN SubSeq(w, 1, m) = 1 .. m
      BY <3>2, LenProperties
    <3> QED BY <3>2, <3>3, SMT
  <2> QED BY <1>0, <1>3, <2>1
<1>7. SubSeq(u, 1, m) = SubSeq(v, 1, m)
  BY <1>4, <1>6
<1> QED BY <1>0, <1>3, <1>5, <1>7 DEF IsSuffix, IsPrefix

\* The filters that have not run are the last ones of the chain.
LEMMA RestIsSuffix ==
  ASSUME NEW p \in {"h1", "h2"}, NEW s \in TodoOf(p)
  PROVE  IsSuffix(s, FiltersOf(p))
<1> DEFINE X == {"limit", "route", "options", "upstream"}
           t == FiltersOf(p)
<1>1. s \in Seq(X) /\ t \in Seq(X)
  <2>1. /\ <<>> \in Seq(X) /\ <<"upstream">> \in Seq(X)
        /\ <<"options", "upstream">> \in Seq(X) /\ <<"route", "upstream">> \in Seq(X)
        /\ <<"route", "options", "upstream">> \in Seq(X)
    OBVIOUS
  <2>2. HcmFilters \in Seq(X) /\ H2Filters \in Seq(X)
    BY DEF HcmFilters, H2Filters
  <2> QED BY <2>1, <2>2 DEF TodoOf, FiltersOf
<1>2. Len(s) <= Len(t) /\ \A i \in 1 .. Len(s) : s[i] = t[Len(t) - Len(s) + i]
  <2> USE DEF TodoOf, FiltersOf, HcmFilters, H2Filters
  <2>1. CASE s = <<>>
    BY <2>1
  <2>2. CASE s = <<"upstream">>
    BY <2>2
  <2>3. CASE s = <<"options", "upstream">> /\ p = "h1"
    BY <2>3
  <2>4. CASE s = <<"route", "upstream">> /\ p = "h2"
    BY <2>4
  <2>5. CASE s = <<"route", "options", "upstream">> /\ p = "h1"
    BY <2>5
  <2>6. CASE s = t
    <3>1. Len(t) \in Nat
      BY <1>1, LenProperties
    <3> QED BY <2>6, <3>1
  <2> QED BY <2>1, <2>2, <2>3, <2>4, <2>5, <2>6
<1> HIDE DEF X, t
<1>3. IsSuffix(s, t)
  BY <1>1, <1>2, EndIsSuffix
<1> QED BY <1>3 DEF t

\* No more requests are read than the bound allows.
LEMMA ServedStep == ServedInv /\ [Next]_vars => ServedInv'
<1> SUFFICES ASSUME ServedInv, [Next]_vars PROVE ServedInv'
  OBVIOUS
<1>1. CASE UNCHANGED <<gone, stopped, served>>
  BY <1>1 DEF ServedInv
<1>2. ASSUME NEW c \in Conns, NEW hs, Accept(c, hs) PROVE ServedInv'
  BY <1>2 DEF Accept, ServedInv
<1>3. ASSUME NEW c \in Conns, NEW k, ReadRequest(c, k) PROVE ServedInv'
  <2>1. /\ gone' = gone /\ stopped' = stopped /\ served[c] < MaxRequests[c]
        /\ served' = [served EXCEPT ![c] = @ + 1]
    BY <1>3 DEF ReadRequest
  <2>2. MaxRequests[c] \in Nat
    BY ConnectionConstants
  <2> QED BY <2>1, <2>2 DEF ServedInv
<1>4. ASSUME NEW c \in Conns, HandleReturns(c) \/ ClientCloses(c) \/ CloseAtShutdown(c)
      PROVE  ServedInv'
  <2>1. gone' = [gone EXCEPT ![c] = TRUE] /\ stopped' = stopped /\ served' = served
    BY <1>4 DEF HandleReturns, ClientCloses, CloseAtShutdown
  <2> QED BY <2>1 DEF ServedInv
<1>5. CASE Shutdown
  BY <1>5 DEF Shutdown, ServedInv
<1>6. ASSUME NEW c \in Conns, Execute(c) \/ ReadFails(c) \/ ParseFails(c) \/ WriteFails(c) \/ NextTurn(c)
                              \/ Finish(c) \/ FinishStream(c)
      PROVE  UNCHANGED <<gone, stopped, served>>
  BY <1>6 DEF Execute, ReadFails, ParseFails, WriteFails, NextTurn, Finish, FinishStream
<1>7. ASSUME NEW c \in Conns, Limit(c) \/ Route(c) \/ RouteOptions(c) \/ Upstream(c) \/ Acquired(c)
      PROVE  UNCHANGED <<gone, stopped, served>>
  BY <1>7 DEF Limit, Route, RouteOptions, Upstream, Unforwarded, Proxied, Refused, Wait, WaitEnds,
     AttemptFails, NoEndpoint, Cut, Acquired, quiet
<1>8. ASSUME (Tick /\ UNCHANGED <<connVars, metricsVars>>) \/ UNCHANGED vars
      PROVE  UNCHANGED <<gone, stopped, served>>
  BY <1>8 DEF vars, connVars
<1> QED BY <1>1, <1>2, <1>3, <1>4, <1>5, <1>6, <1>7, <1>8 DEF Next, Step

\* The invariants, which hold in every state.
ConnInv == AnswerInv /\ RouteInv /\ CountInv /\ ServedInv /\ ClientsKnown

\* They are inductive together: the answers and the routes bound what is counted.
LEMMA ConnAlways == Spec => []ConnInv
<1>1. Init => ConnInv
  <2>1. Init => ServedInv /\ ClientsKnown
    <3> SUFFICES ASSUME Init PROVE ServedInv /\ ClientsKnown
      OBVIOUS
    <3>1. \A c \in Conns : 0 <= MaxRequests[c]
      BY ConnectionConstants
    <3> QED BY <3>1 DEF Init, ServedInv, ClientsKnown
  <2> QED BY <2>1, AnswerInit, RouteStart, CountStart DEF ConnInv
<1>2. ConnInv /\ [Next]_vars => ConnInv'
  BY AnswerStep, RouteStep, CountStep, ServedStep, StepRefines DEF ConnInv
<1> QED BY <1>1, <1>2, PTL DEF Spec

(* The state that the listener, the connection manager and the filters     *)
(* keep has its types: the limiter's buckets stay between empty and full,  *)
(* the filters run in the order of the chain, and for any retry policies   *)
(* and overrides a request is sent no more often than the largest          *)
(* max_retries of the configuration allows.                                *)
THEOREM ConnectionTypeCorrect == Spec => []TypeOK
<1>1. ConnInv /\ LimiterInv => TypeOK
  <2> SUFFICES ASSUME ConnInv, LimiterInv PROVE TypeOK
    OBVIOUS
  <2>1. /\ LimiterTypeOK
        /\ counters \in [Names -> Nat] /\ active \in Nat /\ logged \in [Classes -> Nat]
        /\ pc \in [Conns -> {"new", "net", "read", "chain", "answered", "closed"}]
        /\ open \in [Conns -> BOOLEAN] /\ gone \in [Conns -> BOOLEAN] /\ stopped \in BOOLEAN
        /\ proto \in [Conns -> {"h1", "h2"}] /\ client \in [Conns -> Clients]
    BY DEF ConnInv, LimiterInv, AnswerInv, ConnTypes, CountInv, Counted, ServedInv, ClientsKnown
  <2>2. ASSUME NEW c \in Conns PROVE served[c] \in 0 .. MaxRequests[c]
    BY ConnectionConstants DEF ConnInv, ServedInv
  <2>3. ASSUME NEW c \in Conns
        PROVE  /\ IsSuffix(todo[c], FiltersOf(proto[c]))
               /\ rc[c].kind \in RequestKinds[c] \cup {NoKind}
               /\ rc[c].cluster \in Clusters \cup {NoCluster}
               /\ rc[c].sent \in 0 .. AttemptBound
               /\ rc[c].wait \in {"no", "slot", "held", "endpoint"}
    <3>1. todo[c] \in TodoOf(proto[c]) /\ RequestFits(c, rc[c]) /\ proto[c] \in {"h1", "h2"}
      BY <2>1 DEF ConnInv, RouteInv, RouteAt
    <3> QED BY <3>1, RestIsSuffix DEF RequestFits, Waits
  <2>4. ASSUME NEW c \in Conns
        PROVE  /\ rc[c].err \in {"none", "error", "timeout"}
               /\ \A i \in DOMAIN rc[c].answers : rc[c].answers[i].status \in Statuses
    <3>1. rc[c].err \in {"none", "error", "timeout"} /\ rc[c].answers \in Seq(Answer)
      BY DEF ConnInv, AnswerInv, ConnTypes, IsRequest
    <3>2. \A i \in DOMAIN rc[c].answers : rc[c].answers[i] \in Answer
      BY <3>1, ElementOfSeq, LenProperties
    <3> QED BY <3>1, <3>2 DEF Answer
  <2> QED BY <2>1, <2>2, <2>3, <2>4 DEF TypeOK
<1>2. LimiterSpec => []LimiterInv
  BY InitInv, NextInv, PTL DEF LimiterSpec
<1> QED BY <1>1, <1>2, ConnAlways, BucketsAsSpecified, PTL

(* However many connections and streams there are and however they end,    *)
(* the metrics of the proxy agree with its access log and with each other: *)
(* no response is counted twice or under no label, and the gauge is the    *)
(* number of connections whose handler has not returned.                   *)
THEOREM CountersAgree == Spec => []CountersExact
<1>1. CountInv => CountersExact
  BY DEF CountInv, Counted, CountersExact, ClassSum, LabelSum, Handled, Unanswered
<1> QED BY <1>1, ConnAlways, PTL DEF ConnInv

(* Whatever the routes, the policies and the failures, a request that some *)
(* rule matches is forwarded to the cluster of the first such rule only,   *)
(* and no more often than that rule's options and the cluster's policy     *)
(* say, on every connection; the options have no effect on HTTP/2.         *)
THEOREM ForwardedAsRouted == Spec => []ForwardedByItsRule
<1>1. ConnInv => ForwardedByItsRule
  <2> SUFFICES ASSUME ConnInv, NEW c \in Conns, rc[c].sent # 0,
                      Matching(Routes, rc[c].kind.path) # {}
               PROVE  LET rule == Routes[Min(Matching(Routes, rc[c].kind.path))]
                      IN  /\ rc[c].cluster = rule.cluster
                          /\ rc[c].sent <= MaxAttempts(rule.cluster,
                               IF proto[c] = "h1" THEN rule.retries ELSE 0, rc[c].kind.method)
    BY DEF ForwardedByItsRule
  <2> DEFINE r == rc[c]
             to == RouteOf(Routes, r.kind.path)
             hits == Matching(Routes, r.kind.path)
             rule == Routes[Min(hits)]
  <2>1. r.kind \in RequestKinds[c] /\ Routed(r, todo[c], proto[c])
    BY DEF ConnInv, RouteInv, RouteAt
  <2>2. r.kind.path \in Seq(Chars)
    BY <2>1, ConnectionConstants
  <2>3. RoutedCorrectly(Routes, r.kind.path)
    BY <2>2, RoutesCorrectly, ConnectionConstants
  <2>4. to.route = Min(hits) /\ to.cluster = rule.cluster
    BY <2>3 DEF RoutedCorrectly
  <2>5. Min(hits) \in DOMAIN Routes
    <3>1. hits \in SUBSET DOMAIN Routes /\ DOMAIN Routes \in SUBSET Nat
      BY ConnectionConstants, LenProperties DEF Matching
    <3> HIDE DEF hits
    <3>2. hits \in SUBSET Nat /\ hits # {}
      BY <3>1 DEF hits, r
    <3> QED BY <3>1, <3>2, MinIs
  <2>6. /\ r.cluster = to.cluster
        /\ r.override = IF proto[c] = "h1" THEN RetryOverride(Routes, to.route) ELSE 0
        /\ r.sent <= Attempts(r)
    BY <2>1 DEF Routed
  <2>7. RetryOverride(Routes, to.route) = rule.retries
    BY <2>4, <2>5 DEF RetryOverride
  <2> QED BY <2>4, <2>6, <2>7 DEF Attempts
<1> QED BY <1>1, ConnAlways, PTL

\* What the invariants say of the charges holds at first, and every step keeps it.
LEMMA ChargeAlways ==
  ASSUME IsFiniteSet(Conns), IsFiniteSet(Clients)
  PROVE  Spec => []ChargeInv
<1>0. IsFiniteSet(Buckets)
  BY BucketsFinite
<1>1. Init => ChargeInv
  <2> SUFFICES ASSUME Init PROVE ChargeInv
    OBVIOUS
  <2> DEFINE g == [b \in Buckets |-> <<>>]
             s == [c \in Conns |-> 0]
  <2>1. grants = g /\ served = s /\ counters = [n \in Names |-> 0] /\ pc = [c \in Conns |-> "new"]
    BY DEF Init, LimiterInit, MetricsInit
  <2>2. Uncharged = {} /\ counters[RateLimited] = 0
    BY <2>1, NamesDiffer DEF Uncharged
  <2>3. GrantSum(g) = 0
    <3>1. PICK it : Sums(it, GrantValues(g), Buckets) /\ GrantSum(g) = it[Buckets]
      BY <1>0, GrantSumIs
    <3>2. \A y \in Buckets : GrantValues(g)[y] = 0
      BY DEF GrantValues
    <3> HIDE DEF g
    <3> QED BY <1>0, <3>1, <3>2, SumZero
  <2>4. ServedSum(s) = 0
    <3>1. PICK it : Sums(it, s, Conns) /\ ServedSum(s) = it[Conns]
      BY ServedSumIs
    <3>2. \A y \in Conns : s[y] = 0
      OBVIOUS
    <3> HIDE DEF s
    <3> QED BY <3>1, <3>2, SumZero
  <2> HIDE DEF g, s
  <2> QED BY <2>1, <2>2, <2>3, <2>4, FS_EmptySet DEF ChargeInv
<1>2. ConnInv /\ LimiterInv /\ ChargeInv /\ [Next]_vars => ChargeInv'
  <2> SUFFICES ASSUME ConnInv, LimiterInv, ChargeInv, [Next]_vars PROVE ChargeInv'
    OBVIOUS
  <2>1. AnswerInv /\ RouteInv /\ ServedInv /\ ClientsKnown /\ counters \in [Names -> Nat]
    BY DEF ConnInv, CountInv, Counted
  <2>2. GrantSum(grants) \in Nat
    <3>1. grants \in [Buckets -> Seq(Nat)]
      BY DEF LimiterInv, LimiterTypeOK
    <3>2. CASE Buckets = {}
      <4>1. PICK it : Sums(it, GrantValues(grants), Buckets) /\ GrantSum(grants) = it[Buckets]
        BY <1>0, GrantSumIs
      <4>2. it[Buckets] = 0
        BY <1>0, <3>2, <4>1, SumZero
      <4> QED BY <4>1, <4>2
    <3>3. ASSUME NEW b \in Buckets PROVE GrantSum(grants) \in Nat
      <4>1. 0 \in Nat
        OBVIOUS
      <4> QED BY <1>0, <3>1, <4>1, GrantSumMoves
    <3> QED BY <3>2, <3>3
  <2>3. CASE Shutdown \/ (Tick /\ UNCHANGED <<connVars, metricsVars>>) \/ UNCHANGED vars
    <3>1. UNCHANGED <<pc, proto, todo, grants, served, counters>>
      BY <2>3 DEF Shutdown, Tick, vars, connVars, metricsVars, limiterVars
    <3>2. Uncharged' = Uncharged
      BY <3>1 DEF Uncharged
    <3> QED BY <3>1, <3>2, ChargeSame
  <2>4. ASSUME NEW c \in Conns,
               \/ \E hs \in Handshakes[c] : Accept(c, hs)
               \/ \E k \in RequestKinds[c] : ReadRequest(c, k)
               \/ Step(c) \/ Acquired(c) \/ ParseFails(c) \/ ClientCloses(c) \/ CloseAtShutdown(c)
        PROVE  ChargeInv'
    BY <1>0, <2>1, <2>2, <2>4, ChargeRead, ChargeLimit, ChargeFilters, ChargeOthers DEF Step
  <2> QED BY <2>3, <2>4 DEF Next
<1>3. LimiterSpec => []LimiterInv
  BY InitInv, NextInv, PTL DEF LimiterSpec
<1> QED BY <1>1, <1>2, <1>3, ConnAlways, BucketsAsSpecified, PTL DEF Spec

(* With finitely many connections and clients, every request that is read, *)
(* on HTTP/1.1 or HTTP/2, is charged to one bucket once: it got a token or *)
(* was counted as denied, and none passes the limiter unseen.              *)
THEOREM RequestsCharged ==
  IsFiniteSet(Conns) /\ IsFiniteSet(Clients) => (Spec => []EveryRequestCharged)
<1> SUFFICES ASSUME IsFiniteSet(Conns), IsFiniteSet(Clients) PROVE Spec => []EveryRequestCharged
  OBVIOUS
<1>1. ChargeInv => EveryRequestCharged
  BY DEF ChargeInv, EveryRequestCharged, GrantSum, ServedSum, Uncharged
<1>2. Spec => []ChargeInv
  BY ChargeAlways
<1> QED BY <1>1, <1>2, PTL
=============================================================================
