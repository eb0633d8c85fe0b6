# A verification of go-proxy

TLA+ models of the concurrent core of go-proxy, the TLC runs that check them on small
instances, and TLAPS proofs of the main safety results for every instance. `PROJECT.json`
maps each definition to the lines it models, and lists the runs, the hazards, the findings
and the theorems.

## 1. The system

| Component | State | Operations | Modelled in |
|---|---|---|---|
| Cluster manager, `internal/cluster` | per cluster: endpoint slice, round-robin cursor, breaker counter `inflight`, per-endpoint `epState` | `TryAcquire`, `Release`, `Pick`, `Inc/DecEndpointInFlight`, `ReportFailure/Success`, probes | `Cluster`, `UpstreamProxy` |
| Upstream filter, `internal/httpcm/upstream.go` | one pending channel per cluster | `OnRequest` (retry loop), `waitForCapacity` | `UpstreamProxy`, `Admission` |
| Discovery and health-check goroutines, `internal/cluster` | `resolvedBySeed`, endpoint slice, `hcCancel` | `resolveOnce`, `applyEndpointSet`, `startHealthCheck`, `stopHealthCheck`, `runHealthCheck` | `Discovery` |
| Supervisor, `internal/runtime/supervisor` | current config, managers, cancel function, `doneCh` | `Start`, `Reload`, `DrainStart` | `Supervisor` |
| Listeners, `internal/listener` | socket, wait group of handlers, filter chains | `Manager.Start`, `StopAccept`, `run`, `handle` | `Supervisor`, `Connection` |
| Admin server and main | none of their own | `/reload`, `/drain_start`, `/quitquitquit`, signals | `Supervisor` |
| HCM and filter chain, h2 handler, `internal/httpcm`, `internal/filter` | per-connection reader and request context | `Handle`, `Chain.Run`, `Chain.Execute`, `ServeHTTP`, `respTranslator.Write` | `Connection` |
| Rate limiter, `internal/httpcm/ratelimit.go` | token buckets, one limiter per protocol | `OnRequest`, `getBucket`, `allow` | `RateLimiter`, `Connection` |
| Router, route options | none | first matching rule, rewriting, overrides | `Routing`, `Connection` |
| Metrics and access log, `internal/obs` | counters, gauges | `Inc`, `AddGauge`, `IncCode`, `IncDownstreamRequest`, `Log` | `Metrics`, `Connection` |
| Configuration, `internal/config` | none | `Validate` | assumptions on the constants |
| Forwarded headers, echo backend | – | formatting, demonstration | not modelled |

**How they interact.** Each accepted connection is a goroutine that runs the filter chain; the
last HTTP filter, the upstream proxy, calls the cluster manager. The manager's state is shared
by all request goroutines, one resolver goroutine per hostname seed and one checker goroutine
per endpoint. The supervisor builds a generation of all this (cluster manager, registry,
listeners) under one context and replaces it at a reload; admin requests run concurrently.

**What is hard.** The breaker is an atomic add with a rollback; the endpoint cap is checked in
`Pick` and taken later; two deadlines exist (the connection's context and the request's);
several exits of `OnRequest` must give back what it took; discovery drops the lock between
computing, applying and acting on an endpoint set; `Reload` drops the lock while it drains.
A request may be answered by the limiter, by the upstream filter or by the connection manager,
each of which decides without knowing the others; the body of an answered request may still be
in the reader; and all connections charge the same buckets.
A component is correct when:

- breaker and queue: the counters equal what they count, the limits hold for admitted and
  waiting requests, nothing is lost, every request is answered;
- `Pick`: it stays within its snapshot whatever discovery does;
- discovery: the slice converges to the static seeds and the records, static seeds never
  leave, no goroutine is lost, all end at shutdown;
- supervisor: `doneCh` means stopped, a reload returns and serves, no generation is orphaned;
- connection: every request that is read is answered, once and by one who knows what became of
  it, goes where its rule says, is charged to a bucket, and appears in the metrics as in the
  access log; every handler returns at shutdown;
- rate limiter: a bucket lets pass no more than `burst` and `rps` allow in any window, and denies
  only when that many have passed;
- router: the first matching rule gives cluster, options and path.

## 2. The modules

**Cluster** owns the shared variables of a cluster and has one operator per method or atomic
access of a method: `AddInflight`/`Admits`/`RollBack` are the three parts of `TryAcquire`,
`ReleaseSlot` keeps the clamp at zero, `markFailure`, `markSuccess` and `updateActiveHealth` are
the critical sections under `mu`. Entries of `state` are never deleted in the code, so `health`
and `epInflight` are total functions. Streak counters saturate at the threshold they are compared
with. `ClusterEnv` is what happens besides requests: probes, discovery, time.

**UpstreamProxy** extends it with one goroutine per request; `pc[r]` is its position and there is
one action per access to shared state. `Pick` is several actions: the snapshot, then one step
for `isAvailable`, one for the load of `least_requests` and one for the cap, per endpoint.
`ctx[r]` says whether `reqCtx` (with `request_timeout_ms`) and `rc.Context` are done: the retry loop
watches the first, the pending queue only the second. `leaked` and `epLeaked` are history
variables that count increments nobody will undo. `Proxies` are the `UpstreamProxy` values:
each has its own pending channel, the breaker is common.

**Admission** is the abstract specification: sets of admitted and waiting clients, a capacity
and room sizes, no counters, no rollback.

**Discovery** has one action per critical section of the resolvers and checkers. The slice is
the set of its addresses (`Pick` is in the other module). Go's random choice in a `select` with
two ready cases is a free choice of action.

**Supervisor** numbers the generations. `cur` stands for `curMgr`, `curCancel` and `doneCh`, which
change together under the lock. `lpc[g][l]` is the position of `Listener.run`, `conns[g][l]` its
wait group, `mpc[g]` the position of `Manager.Start`. The configuration file is read at the
rebuild, which may fail.

**RateLimiter** has the buckets of both limiters (`NewRegistry` and `NewH2Handler` make one each) and
one action, `Charge`, for the critical section of `OnRequest`. Tokens are counted in parts of a
tick's length, so that `rate * dt` is an integer. `HostOf` is the text that a limiter finds for an
address: the connection manager has the IP, the HTTP/2 handler what stands before the first
colon, so that IPv6 clients share a bucket. A bucket is looked up, refilled and charged under one
lock, so that `Charge` is one step.

**Routing** is the router, the route options and the merge of retry policies as operators; paths
are sequences of characters, over any set `Chars`. The index of a rule starts at 1, which stands for the
zero value of `RouteID`. `RoutedCorrectly` is a reference definition of what the loop computes, which the proofs
compare it with for all tables and paths. `Matching` are the rules that a path may take.

**Metrics** has the counters that the listener, the connection manager and the limiter keep, and
the access log as a history variable. A status is a number from 100 to 999, in the class that
`IncCode` puts it in; 600 and more are its "other". What becomes of a status of 0 (`hcm.go:75`) is outside this
range: every filter that answers sets one.

**Connection** extends the three with a goroutine per connection. `nets[c]` are the network filters
and `todo[c]` the HTTP filters that have not returned, `rc[c]` is the `RequestCtx`. Reading, each
filter and the answer are actions; the upstream filter, which `UpstreamProxy` has in detail, is
here the list of what its `OnRequest` may do: answer, refuse, wait for a slot or for an endpoint, fail once
more, fail for good, cut a response in the middle, do nothing. `rc[c].wait` is where it waits: `waitForCapacity`
ends with a slot (`Acquired`) or with the connection's context (`WaitEnds`), and after a wait for an endpoint
the loop's turn is used up. `ParseFails` is a client that sends no request, or the text of a body that
was left in the reader. `answers`, `limited` and `sent` in `rc`, and `lost`, are history. A response is its
status and whether it is whole.

On HTTP/2 `respTranslator` passes on whatever follows a first response as text of the same stream, head
and all, and `ServeHTTP` adds its default answer to a response that was cut. Whether this reaches the client
whole, in part or not at all depends on the length that the first response announced, and `Writes` allows
all three. One stream of an HTTP/2 connection is shown at a time: streams share the limiter and the breaker
and nothing else, as connections do.

The `MC*` modules only give values to constants that a cfg cannot write.

## 3. The runs

| Run | Result | Question |
|---|---|---|
| `breaker` | pass | do the counters stay exact and the limits hold in every interleaving, and does the breaker implement `Admission`? |
| `serving` | pass | is every request answered, and is everything given back, when no known leak is met? |
| `leak` | violated | is every slot released once all requests are answered? |
| `deadline` | violated | does a waiting request leave when its deadline passes? |
| `discovery` | pass | do two resolvers converge, keep the static seeds and lose no goroutine? |
| `checkers` | violated | are in the end exactly the endpoints health-checked? |
| `faults` | pass | does a reload end with the proxy serving, and what does `doneCh` mean, when a listener fails? |
| `connection` | pass | is a request answered once, with the right status and counters, by the right cluster, and charged once to a bucket that keeps its limit, through failures, waits, closing clients and a shutdown? |
| `progress` | pass | is every request answered, and does every handler return after a shutdown? |
| `limited` | violated | is a request that the limiter denied kept from the backend? |
| `longest` | violated | does the longest matching prefix decide? |
| `orphan` | violated | does the supervisor own everything that runs, with two reloads at once? |

The violated properties restate a comment or a sentence of the documentation:

- `leak`: after `ErrNoEndpointCapacity` the slot acquired by `waitForCapacity` is forgotten by the
  `continue` (`upstream.go:183`); the error returns at 185 and 211 forget theirs too.
- `deadline`: the pending queue selects on `rc.Context`, not on `reqCtx` (`upstream.go:358`). In the
  counterexample the slot it waits for was lost by a request that met an unresolved cluster.
- `checkers`: checks are started and stopped outside the lock (`manager.go:624`). The slice heals
  at the next refresh (`DiscoveryConverges`), the checkers do not, because the next
  `applyEndpointSet` finds no difference.
- `orphan`: both reloads take the same snapshot (`supervisor.go:90`); the generation that is
  overwritten can only be stopped by the end of the process. Which of the two has the ports depends on
  who binds first.
- `limited`: the limiter returns nil after its 429 (`ratelimit.go:158`) and `Chain.Run` goes on: the
  request reaches the backend, and its response follows the 429 on the connection.
- `longest`: the loop of the router ends at the first rule that matches (`router.go:23`).

`OneAnswer` names the two cases in which a client gets a second response, on either protocol: after a 429,
and after a response that was cut. `FailureReported` is about HTTP/1.1.
`ForwardedByItsRule` is what the router does hold to: the first rule that matches gives cluster and
options. `EveryRequestCharged` ties the buckets to the requests that were read: a request that reaches the other
filters uncharged, or is charged twice, breaks it. `DeniedOnlyAtLimit` says how far
`TryAcquire` can be trusted: the adds of denied calls count until they are rolled back (`manager.go:711`), so that a
call may be denied while a slot is free, but for no other reason.

The model follows the code also where a text of the repository says otherwise and no run is about it:

- `src/README.md:284` has a request go through while fewer than `max_requests` are in flight; see `DeniedOnlyAtLimit`.
- `h2handler.go:46` says "Default response as in HCM", but `ServeHTTP` drops the error of its filters and answers
  200 with the name of the cluster where the connection manager answers 502 or 504 (`FinishStream`).
- `types.go:33` says "-1 if unset", but `RouteID` starts at 0: a path that no rule matches, such as `*`, goes to the rule for `/`
  with the options of rule 0 (`Unrouted`, `RouteOptions`).
- `supervisor.go:152` says that a drain stops accepting on all listeners, but `StopAccept` finds no socket before `run` has
  bound it (`listener.go:170`), and that listener opens after `DrainStart` has returned.
- `src/README.md:171` gives a name that no chain lists the first chain without `sni_hosts`; the code takes
  the first chain.

**Bounds.** `breaker`: three requests for a limit of two, so that one is admitted, one overshoots
and one waits or rolls back; one retry; two endpoints with a cap of one, one with an unusable
address; a slice not resolved yet and two others; all three policies; one tick of the clock, which is an ejection
from its beginning to its end. `serving`: a limit of one, one request with a deadline, one whose
connection may be cancelled, one retried. `MaxPending` is 1: with two pollers `Terminates` fails, because
each may always run into the other's overshoot; this is listed as a hazard. `discovery`: two
names that move between a static and another address, one change of the records, a checker
more than there are addresses, so that an old and a new one for the same address coexist.
`faults`: two listeners, one of which may fail, one connection each, a reload, a drain, a
shutdown. `connection`: one client, so that both connections charge
one bucket when both speak HTTP/1.1, a burst of two for three requests and a rate that refills one and a
half tokens in the one tick, so that a bucket is empty, is clamped and holds a fraction; many small refills and
refills by denied requests are left to the proofs. The first
connection speaks HTTP/1.1 or HTTP/2, or fails its handshake, and forwards a request with or without a body, with
the retry that the route's options add, so that a consumed body is sent again; the second is given the
chain of its name and sends two requests that no rule matches, whose bodies stay in the reader. The endpoints answer 304 or
999, of the classes 3 and "other"; 4 and 5 come from the proxy itself. `progress`: the same connections with one
request each, a burst of one and no ticks, so that the limiter denies one of them. `limited`, `longest`: one connection with two requests. Symmetry is used over
requests, only in runs of safety properties, with cfgs that treat all requests alike.

**Fairness.** A goroutine that can take a step takes one; a probe or a lookup ends, because both
have timeouts; the drain timer fires; a handler whose connection and context are closed returns.
Clients need not finish: `HandlerEnd` is fair only once the context is cancelled. Strong
fairness is used for the exits from a `select` that may be ready together with a ticker, since
Go chooses at random. `DiscoveryConverges` and `CheckersConverge` assume in their premise that every name is
resolved again and again; nothing is assumed about clients, DNS changes or shutdown. In `Connection` the
steps of a connection's goroutine and of its closing goroutine are fair; clients need neither send
nor close, time need not pass and a shutdown need not come. Capacity need not come either: `Acquired` is
under no fairness, since the wait has no bound (`deadline`) and slots may be lost (`leak`), and
`RequestsAnswered` excepts a request that waits for ever. At a shutdown the context ends the wait. An
attempt at an endpoint returns (`WF` of `Step`): with neither `request_timeout_ms` nor `per_try_timeout_ms` this is an
assumption about the backend.

## 4. The proofs

Every invariant, action property and refinement that a passing run checks is also a theorem for all values of
the constants (`OrphanOnlyAfterError`, `BalancedAtRest` and `EveryRequestCharged` under a hypothesis that
is stated). The assumptions are named and stand in the module that declares the constants: finite
sets, limits that are natural numbers, and what `Validate` refuses (a cluster without a name, a route
without a prefix or to an unknown cluster). Each inductive invariant was checked by TLC on the
instance of the run before it was proved.

**`UpstreamProxyProofs`, `BreakerProofs`**: any finite set of requests, any endpoints, slices, limits,
thresholds and policies.

- `TypeCorrect`, `PickStaysInBounds`: `TypeOK` and `PickInBounds` are inductive only together. `PickInBounds` is
  needed for the types (`Head` and `Tail` of the rest of a scan), and conversely.
- `BreakerCorrect`, `RequestLimitHolds`, `NoNeedlessDenial`, `PendingLimitHolds`: `SlotAccounting`, `ClusterCap` and `PendingAccounting` are
  inductive over `TypeOK`. `ClusterCap` needs `SlotAccounting`: a request is admitted by the value of the
  counter, which bounds the admitted requests only because it is never below their number. `NoNeedlessDenial` is an
  action property that follows from `SlotAccounting` and the comparison in `TryAcquire`. The
  proof does not go through the thirty actions for each conjunct: `StepEffect` shows that each action is one of
  eight effects (quiet, granted, denied, rolled back, given back, lost, entered, left) and the rest
  is about the effects. `CountMove` is the lemma about the cardinality of a set that one
  request enters or leaves.
- `EndpointCountersCorrect`: `EndpointAccounting` is inductive over `TypeOK` and `PickInBounds`, along the same
  lines.
- `NothingLost`: `BalancedAtRest` is violated in general (run `leak`). The theorem names the causes
  in its hypothesis `NoLossCause` and shows that there are no others: an unresolved cluster, an address
  that no request can be made for, an endpoint cap combined with a pending queue. Without
  them no step adds to `leaked` or `epLeaked`; the argument needs that a pass of `Pick` that saw an
  available endpoint ends with one. The run `serving` is an instance with none of them.
- `BreakerImplementsAdmission`: each effect is a step of `Admission` or leaves its variables unchanged.

**`DiscoveryProofs`**: any seeds, addresses and number of checkers.

- `DiscoveryTypeCorrect`, and `SeedsKept`: `StaticSeedsKept` is inductive with: the set that a resolver is about to apply has
  the static seeds in it, however stale it is.
- `NoCheckerLost`: `CheckersOwned` is inductive with `HandedOver`: a cancel function that `stopHealthCheck` took out of
  the map is held by one resolver and is not in the map. The start of a checker and the lookup of its cancel
  function are critical sections of their own, and only this keeps two resolvers from holding the same one.

**`SupervisorProofs`**: any number of reloads, drains, listeners and connections.

- `SupervisorTypeCorrect`, `DoneMeansDone`: inductive with `GenInv`: a generation that is not built has not begun, a listener is open only while
  its `run` accepts, and `Manager.Start` returns for an error or after the context and all listeners.
- `SerialOrphans`, `SerialOwnsLive`: under `SerialReloads` the generation that a reload stops is the current one, and
  has returned when the next one is built (`SerialInv`). Without faults no listener fails either
  (`SoundInv`): an address is free when the next generation binds it. The hypotheses are needed: the runs
  `orphan` and `faults` show what happens without them.

**`RateLimiterProofs`**: any rate, burst, resolution of time, scope and clients.

- `TokensExact` and `LimitKept`: `WindowBound` speaks of pairs of past requests and not of the tokens, so it
  is not inductive. `BucketExact` ties the two: the tokens are what the busiest stretch of requests up to the last
  refill has left of a full bucket. With `Fresh` (a bucket nobody used is full, no refill lies in the
  future) and the types it is inductive: a refill moves every stretch by the same amount or
  clamps, a charge takes a token from every stretch and begins a new one. A new request is within
  the limit because a token was there, which `BucketExact` turns into a bound for each stretch that ends
  with it.

**`RoutingProofs`**: any characters, tables and paths.

- `RoutesCorrectly`: `RouteOf` is a fold over the rules. The provers cannot instantiate an induction
  theorem that takes a predicate; here the predicate is a set of numbers, and the
  least number outside it comes from `WFMin` (`Least`, `SetInduction`). `LoopExists` shows that the function
  the fold is defined by exists, `RouteSteps` turns the fold into turns of the loop, and `RouteAfter`
  is the loop invariant: after `k` rules the first of them that matches was taken, or none matches and the
  cluster is that of the first rule for `/`. `RewrittenIs` is about the slashes of a rewritten path.

**`AnswerProofs`, `ConnectionProofs`**: any set of connections, chains, routes, requests, retry policies and statuses.

- `AnsweredOnce`, `FailuresReported`: inductive as `AnswerInv`. A request in the filters has at most the
  limiter's response until the upstream filter, the last one, has answered or failed (`Ahead`); one that no filter has answered
  has at most a response that was cut (`Progress`); one that was answered and failed was denied
  by the limiter (`InChain`).
- `ConnectionTypeCorrect`: `RouteInv` has the filters that are left as an end of the chain, and a turn of the loop left as long
  as the upstream filter has not returned (`AttemptLeft`), which bounds the attempts by the largest `max_retries`
  (`RetriesBounded`: a maximum over the finite configuration). The cluster of a request is one of the
  configuration by `RouteCluster`.
- `ForwardedAsRouted`: `RouteInv` also has, for every request that the router has seen, the cluster and the
  rule that `RouteOf` gives its path, and for one that the options filter has seen, that rule's override (`Routed`). By
  `RoutesCorrectly` that rule is the first that matches, and `AttemptLeft` bounds the attempts by its options.
- `CountersAgree`: `CountInv` is inductive over `AnswerInv` (the status that is logged is one of the
  known classes) and `RouteInv` (the labels are a method and a cluster). The counters are compared with sums over
  sets; `SumsExist` and `SumMove` are the lemmas about them: the sum is defined for every finite set, and one more of a
  value is one more of the sum. They are proved by induction on the cardinality in the same form as above.
  Any number of connections is allowed; those that are open are finitely many in every state.
- `RequestsCharged`: `ChargeInv` is inductive over `RouteInv`: `Limit` moves a request from those the limiter has not seen to the
  tokens taken or to those denied, `ReadRequest` adds one to the first, and no other filter is at the
  beginning of the chain. The sums are over the buckets and the connections, which the
  theorem takes to be finitely many; `SumMove` and the lemma on the cardinality of a set do the arithmetic.
- `BucketsKeepLimit`: the limiter's theorems for the buckets of the running proxy. A step of a connection is a
  charge of its client's bucket or leaves the buckets alone (`BucketsAsSpecified`). This is about each bucket of each of the
  two limiters, over all connections that charge it. It is not a limit for the proxy: a client
  that speaks both protocols has two buckets, also with scope `global`.

**Only model-checked**: liveness, because fairness and ENABLED are outside the prover's reach: `Terminates`,
`CancelledCheckersStop`, `ShutdownStops`, `DiscoveryConverges`, `ReloadReturns`, `ReloadServes`, `RequestsAnswered`
and `ShutdownReturns`. The violated properties are refuted by TLC on an instance.

## 5. Not modelled, and the plan

- Header and body bytes, the forwarded headers, the text of the metrics (`prom.go`) and of the admin
  pages: formatting that no decision reads. The upstream counters and the histogram are left
  out for the same reason. A snapshot of the metrics is not atomic, and nothing is claimed of it.
- Reading the configuration file, TLS settings and certificates. What `Validate` accepts is an
  assumption on the constants.
- Floating-point rounding in the buckets, the value of a backoff, overflow of the 64-bit counters.
- A torn read of `unhealthyUntil`, which `isAvailable` reads after the unlock, is below the grain of the
  model, as is a torn read of `Listener.ln`. The pseudo-random source of `Manager`, used without a
  lock, is a free choice.
- `Connection` and `UpstreamProxy` are not composed: what a request meets in the breaker depends on
  the other requests in `UpstreamProxy` and is a free choice in `Connection`, which allows more.
- That no attempt begins after the request's deadline is not claimed: the `select` of the backoff may take the
  timer when both are ready. The attempt then fails at once, because its context is done.
- The snapshot of `Pick`, the time it reads and the step of the cursor are one action (`PickStart`); no property
  depends on their order.
- The echo backend is a demonstration.

What is left to prove: that a request forwarded by `Connection` behaves as one of `UpstreamProxy` (the list of what
`OnRequest` may do, as an abstraction of its steps), and the safety part of the liveness arguments, such as
that a state in which a connection's handler has not returned and its context is done always has a
step of that handler to take.
