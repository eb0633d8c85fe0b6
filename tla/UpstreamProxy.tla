--------------------------- MODULE UpstreamProxy ---------------------------
(***************************************************************************)
(* The proxying filter of internal/httpcm/upstream.go, run by one          *)
(* goroutine per request against one shared cluster: OnRequest with its    *)
(* retry loop, waitForCapacity with its bounded pending queue, and the     *)
(* Pick, TryAcquire, Release and in-flight calls of the cluster manager.   *)
(*                                                                         *)
(* A goroutine's position is pc[r]; there is one step per access to shared *)
(* state, so that every interleaving of the accesses is explored.  A       *)
(* request is served once: it arrives, runs OnRequest and is done.         *)
(*                                                                         *)
(* leaked and epLeaked are history variables.  They count the increments   *)
(* of inflight and of epInflight[e] that no goroutine is left to undo.     *)
(***************************************************************************)
EXTENDS Cluster

CONSTANTS
  Requests,        \* the requests routed to the cluster
  Proxies,         \* the UpstreamProxy values: one per HCM chain, one per h2 handler
  ProxyOf,         \* the UpstreamProxy a request runs through
  MaxPending,      \* circuit_breaker.max_pending, 0 = no pending queue
  MaxRetries,      \* retry_policy.max_retries
  NonIdempotent,   \* requests whose method is not retried under idempotent_only
  Timed,           \* requests with a request_timeout_ms
  Cancellable,     \* requests whose connection or stream context may be cancelled
  BadAddrs,        \* endpoints whose address http.NewRequest rejects
  NoEndpoint       \* not an endpoint: nothing picked

ASSUME ProxyAssumption == ProxyOf \in [Requests -> Proxies]
ASSUME BoundsAssumption == MaxPending \in Nat /\ MaxRetries \in Nat
ASSUME RequestsAssumption ==
  /\ IsFiniteSet(Requests)
  /\ NonIdempotent \subseteq Requests
  /\ Timed \subseteq Requests
  /\ Cancellable \subseteq Requests
ASSUME NoEndpointAssumption == NoEndpoint \notin Endpoints

VARIABLES
  pc,        \* where the goroutine of a request is
  attempt,   \* the loop variable of OnRequest
  ctx,       \* what has happened to the contexts of a request
  out,       \* lastErr while the loop runs, the result of OnRequest at the end
  origin,    \* the call of waitForCapacity that is running
  ep,        \* the endpoint Pick returned
  localNow,  \* the time.Now() that Pick or ReportFailure took
  scan,      \* the local variables of Pick
  pending,   \* the number of tokens in the channel u.pending[cluster]
  leaked,    \* history: slots nobody will release
  epLeaked   \* history: endpoint counts nobody will take back

localVars == <<attempt, ctx, out, origin, ep, localNow, scan>>
ghostVars == <<leaked, epLeaked>>
proxyVars == <<pc, localVars, pending, ghostVars>>
vars == <<clusterVars, proxyVars>>

----------------------------------------------------------------------------
(* Positions of a goroutine.                                               *)

\* Admitted by TryAcquire, and Release not called yet.
AdmittedPc == {"dequeue", "pick", "avail", "load", "cap", "choose", "noCapacity",
               "inc", "do", "write", "report", "dec", "release"}
\* Denied by TryAcquire, which has not rolled its increment back yet.
OvershootPc == {"rollback", "pollRollback"}
\* Holding a token of the pending channel.
WaitingPc == {"poll", "pollRollback", "pollWait", "dequeue"}
\* Counted in the in-flight counter of ep[r].
AtEndpointPc == {"do", "write", "report", "dec"}
PcValues == {"idle", "acquire", "enqueue", "backoff", "done"}
              \cup AdmittedPc \cup OvershootPc \cup WaitingPc

Outcomes == {"none", "error", "timeout", "writeError", "proxied",
             "unavailable", "dropped"}
ContextStates == {"live", "expired", "cancelled", "both"}
Origins == {"none", "loop", "pick"}

Scan ==
  [mode: Policies, eps: Seq(Endpoints), left: Seq(Endpoints), healthy: BOOLEAN,
   cand: SUBSET Endpoints, least: Int, cur: Int]

NoScan ==
  [mode |-> "round_robin", eps |-> <<>>, left |-> <<>>, healthy |-> FALSE,
   cand |-> {}, least |-> -1, cur |-> 0]

\* Type correctness.  The attempt counter stays within max_retries: OnRequest makes no more than
\* 1 + max_retries attempts.
TypeOK ==
  /\ ClusterTypeOK
  /\ pc \in [Requests -> PcValues]
  /\ attempt \in [Requests -> 0..MaxRetries]
  /\ ctx \in [Requests -> ContextStates]
  /\ out \in [Requests -> Outcomes]
  /\ origin \in [Requests -> Origins]
  /\ ep \in [Requests -> Endpoints \cup {NoEndpoint}]
  /\ localNow \in [Requests -> Nat]
  /\ scan \in [Requests -> Scan]
  /\ pending \in [Proxies -> Int]
  /\ leaked \in Nat
  /\ epLeaked \in [Endpoints -> Nat]

Init ==
  /\ NewManager
  /\ pc = [r \in Requests |-> "idle"]
  /\ attempt = [r \in Requests |-> 0]
  /\ ctx = [r \in Requests |-> "live"]
  /\ out = [r \in Requests |-> "none"]
  /\ origin = [r \in Requests |-> "none"]
  /\ ep = [r \in Requests |-> NoEndpoint]
  /\ localNow = [r \in Requests |-> 0]
  /\ scan = [r \in Requests |-> NoScan]
  /\ pending = [p \in Proxies |-> 0]
  /\ leaked = 0
  /\ epLeaked = [e \in Endpoints |-> 0]

----------------------------------------------------------------------------
(* Shorthands.                                                             *)

At(r, label) == pc[r] = label
Goto(r, label) == pc' = [pc EXCEPT ![r] = label]

MaxAttempts(r) == IF r \in NonIdempotent THEN 1 ELSE 1 + MaxRetries

\* reqCtx, which carries request_timeout_ms, is done; rc.Context, its parent, is done.
ReqCtxDone(r) == ctx[r] # "live"
ConnCtxDone(r) == ctx[r] \in {"cancelled", "both"}

Finish(r, result) == Goto(r, "done") /\ out' = [out EXCEPT ![r] = result]

\* Mutant: the loop runs once too often.
NextAttemptOnceMore(r, lastErr) ==
  IF attempt[r] < MaxAttempts(r)
    THEN /\ Goto(r, "acquire")
         /\ attempt' = [attempt EXCEPT ![r] = @ + 1]
         /\ out' = [out EXCEPT ![r] = lastErr]
    ELSE Finish(r, lastErr) /\ UNCHANGED attempt

\* The loop's increment and test: go round again or leave with lastErr, which the HCM
\* turns into 504 (timeout) or 502.  A nil lastErr becomes "upstream failed without error".
NextAttempt(r, lastErr) ==
  IF attempt[r] + 1 < MaxAttempts(r)
    THEN /\ Goto(r, "acquire")
         /\ attempt' = [attempt EXCEPT ![r] = @ + 1]
         /\ out' = [out EXCEPT ![r] = lastErr]
    ELSE /\ Finish(r, IF lastErr = "none" THEN "error" ELSE lastErr)
         /\ UNCHANGED attempt

----------------------------------------------------------------------------
(* Entering the loop: the circuit breaker.                                 *)

\* A request whose route names this cluster reaches the filter.
Arrive(r) ==
  /\ At(r, "idle")
  /\ Goto(r, "acquire")
  /\ UNCHANGED <<clusterVars, localVars, pending, ghostVars>>

\* TryAcquire at the top of the loop.
Acquire(r) ==
  /\ At(r, "acquire")
  /\ AddInflight
  /\ IF Admits
       THEN Goto(r, "pick") /\ UNCHANGED origin
       ELSE Goto(r, "rollback") /\ origin' = [origin EXCEPT ![r] = "loop"]
  /\ UNCHANGED <<lbPolicy, endpoints, rr, epInflight, health, now>>
  /\ UNCHANGED <<attempt, ctx, out, ep, localNow, scan, pending, ghostVars>>

\* The denied TryAcquire takes its increment back.
AcquireRollback(r) ==
  /\ At(r, "rollback")
  /\ RollBack
  /\ Goto(r, "enqueue")
  /\ UNCHANGED <<lbPolicy, endpoints, rr, epInflight, health, now>>
  /\ UNCHANGED <<localVars, pending, ghostVars>>

----------------------------------------------------------------------------
(* waitForCapacity.                                                        *)

\* Mutant: the pending channel has room for one more.
EnqueueOneMore(r) ==
  LET p == ProxyOf[r]
  IN  /\ At(r, "enqueue")
      /\ \/ /\ pending[p] <= MaxPending
            /\ pending' = [pending EXCEPT ![p] = @ + 1]
            /\ Goto(r, "poll")
            /\ UNCHANGED out
         \/ /\ pending[p] > MaxPending
            /\ Finish(r, "unavailable")
            /\ UNCHANGED pending
      /\ UNCHANGED <<clusterVars, ghostVars>>
      /\ UNCHANGED <<attempt, ctx, origin, ep, localNow, scan>>

\* The non-blocking send on the pending channel: enter, or answer 503 at once.
Enqueue(r) ==
  LET p == ProxyOf[r]
  IN  /\ At(r, "enqueue")
      /\ \/ /\ pending[p] < MaxPending
            /\ pending' = [pending EXCEPT ![p] = @ + 1]
            /\ Goto(r, "poll")
            /\ UNCHANGED out
         \/ /\ pending[p] >= MaxPending
            /\ Finish(r, "unavailable")
            /\ UNCHANGED pending
      /\ UNCHANGED <<clusterVars, ghostVars>>
      /\ UNCHANGED <<attempt, ctx, origin, ep, localNow, scan>>

\* TryAcquire in the polling loop.
Poll(r) ==
  /\ At(r, "poll")
  /\ AddInflight
  /\ Goto(r, IF Admits THEN "dequeue" ELSE "pollRollback")
  /\ UNCHANGED <<lbPolicy, endpoints, rr, epInflight, health, now>>
  /\ UNCHANGED <<localVars, pending, ghostVars>>

PollRollback(r) ==
  /\ At(r, "pollRollback")
  /\ RollBack
  /\ Goto(r, "pollWait")
  /\ UNCHANGED <<lbPolicy, endpoints, rr, epInflight, health, now>>
  /\ UNCHANGED <<localVars, pending, ghostVars>>

\* The select of the polling loop: the ticker, or rc.Context (not reqCtx) done, in which
\* case the token is returned and 504 is written.
PollTick(r) ==
  /\ At(r, "pollWait")
  /\ Goto(r, "poll")
  /\ UNCHANGED <<clusterVars, localVars, pending, ghostVars>>

PollDrop(r) ==
  /\ At(r, "pollWait")
  /\ ConnCtxDone(r)
  /\ pending' = [pending EXCEPT ![ProxyOf[r]] = @ - 1]
  /\ Finish(r, "dropped")
  /\ UNCHANGED <<clusterVars, ghostVars>>
  /\ UNCHANGED <<attempt, ctx, origin, ep, localNow, scan>>

\* Capacity acquired while waiting: the token is returned.  The call at the top of the loop
\* goes on with the slot it now holds; the call after Pick goes round the loop, where it
\* acquires again, and nobody releases the slot acquired here.
Dequeue(r) ==
  /\ At(r, "dequeue")
  /\ pending' = [pending EXCEPT ![ProxyOf[r]] = @ - 1]
  /\ \/ /\ origin[r] = "loop"
        /\ Goto(r, "pick")
        /\ UNCHANGED <<attempt, out, leaked>>
     \/ /\ origin[r] = "pick"
        /\ NextAttempt(r, out[r])
        /\ leaked' = leaked + 1
  /\ origin' = [origin EXCEPT ![r] = "none"]
  /\ UNCHANGED <<clusterVars, epLeaked>>
  /\ UNCHANGED <<ctx, ep, localNow, scan>>

----------------------------------------------------------------------------
(* Pick: one step per endpoint field read, so that other goroutines may    *)
(* change what was read before Pick returns.                               *)

\* The snapshot read from position start on, wrapping round.
Ring(eps, start) ==
  [i \in 1..Len(eps) |-> eps[((start + i - 1) % Len(eps)) + 1]]

\* The locals of a pass over eps under a policy; round robin takes its place from rr.
StartScan(r, mode, eps) ==
  LET ring == IF mode = "round_robin" THEN Ring(eps, rr % Len(eps)) ELSE eps
  IN  /\ scan' = [scan EXCEPT ![r] =
           [NoScan EXCEPT !.mode = mode, !.eps = ring, !.left = ring]]
      /\ rr' = IF mode = "round_robin" THEN rr + 1 ELSE rr

\* Pick of an empty slice is an error; OnRequest returns it and keeps its slot.
PickEmpty(r) ==
  /\ At(r, "pick")
  /\ endpoints = <<>>
  /\ Finish(r, "error")
  /\ leaked' = leaked + 1
  /\ UNCHANGED <<clusterVars, pending, epLeaked>>
  /\ UNCHANGED <<attempt, ctx, origin, ep, localNow, scan>>

\* The copy of the slice, the clock and the round-robin cursor.
PickStart(r) ==
  /\ At(r, "pick")
  /\ endpoints # <<>>
  /\ StartScan(r, lbPolicy, endpoints)
  /\ localNow' = [localNow EXCEPT ![r] = now]
  /\ Goto(r, "avail")
  /\ UNCHANGED <<lbPolicy, endpoints, inflight, epInflight, health, now>>
  /\ UNCHANGED <<attempt, ctx, out, origin, ep, pending, ghostVars>>

\* Mutant: the loop of Pick goes one endpoint too far.
AfterScanTooFar(r) == IF scan[r].left = <<>> THEN "choose" ELSE "avail"

\* The endpoint the loop of Pick is at, and going on to the next one.
Current(r) == Head(scan[r].left)
Advance(s) == [s EXCEPT !.left = Tail(@)]
AfterScan(r) == IF Len(scan[r].left) = 1 THEN "choose" ELSE "avail"

\* isAvailable for the current endpoint.
PickAvailable(r) ==
  /\ At(r, "avail")
  /\ IF isAvailable(Current(r), localNow[r])
       THEN /\ scan' = [scan EXCEPT ![r].healthy = TRUE]
            /\ Goto(r, IF scan[r].mode = "least_requests" THEN "load" ELSE "cap")
       ELSE /\ scan' = [scan EXCEPT ![r] = Advance(@)]
            /\ Goto(r, AfterScan(r))
  /\ UNCHANGED <<clusterVars, pending, ghostVars>>
  /\ UNCHANGED <<attempt, ctx, out, origin, ep, localNow>>

\* least_requests loads the counter it compares, then underEndpointCap loads it again.
PickLoad(r) ==
  /\ At(r, "load")
  /\ scan' = [scan EXCEPT ![r].cur = epInflight[Current(r)]]
  /\ Goto(r, "cap")
  /\ UNCHANGED <<clusterVars, pending, ghostVars>>
  /\ UNCHANGED <<attempt, ctx, out, origin, ep, localNow>>

\* Pick returns e; its locals are gone.
Picked(r, e) ==
  /\ ep' = [ep EXCEPT ![r] = e]
  /\ scan' = [scan EXCEPT ![r] = NoScan]
  /\ localNow' = [localNow EXCEPT ![r] = 0]
  /\ Goto(r, "inc")

\* The candidates after e was found under its cap: random keeps all of them,
\* least_requests the first one with the lowest count.
Keep(s, e) ==
  IF s.mode = "random"
    THEN [s EXCEPT !.cand = @ \cup {e}]
    ELSE IF s.least = -1 \/ s.cur < s.least
           THEN [s EXCEPT !.cand = {e}, !.least = s.cur]
           ELSE s

\* underEndpointCap for the current endpoint.  Round robin returns the first one under.
PickCap(r) ==
  LET e == Current(r)
  IN  /\ At(r, "cap")
      /\ \/ /\ underEndpointCap(e)
            /\ scan[r].mode = "round_robin"
            /\ Picked(r, e)
         \/ /\ ~(underEndpointCap(e) /\ scan[r].mode = "round_robin")
            /\ scan' = [scan EXCEPT ![r] =
                 Advance(IF underEndpointCap(e) THEN Keep(@, e) ELSE @)]
            /\ Goto(r, AfterScan(r))
            /\ UNCHANGED <<ep, localNow>>
      /\ UNCHANGED <<clusterVars, pending, ghostVars>>
      /\ UNCHANGED <<attempt, ctx, out, origin>>

\* The pass is over.  With a candidate Pick returns one of them; least_requests without one
\* falls through to a round-robin pass over the same snapshot and clock.
PickCandidate(r) ==
  /\ At(r, "choose")
  /\ \E e \in scan[r].cand : Picked(r, e)
  /\ UNCHANGED <<clusterVars, pending, ghostVars>>
  /\ UNCHANGED <<attempt, ctx, out, origin>>

PickFallThrough(r) ==
  /\ At(r, "choose")
  /\ scan[r].mode = "least_requests"
  /\ scan[r].cand = {}
  /\ StartScan(r, "round_robin", scan[r].eps)
  /\ Goto(r, "avail")
  /\ UNCHANGED <<lbPolicy, endpoints, inflight, epInflight, health, now>>
  /\ UNCHANGED <<attempt, ctx, out, origin, ep, localNow, pending, ghostVars>>

\* No endpoint was found available: random picks any, round robin the one it started at.
PickUnhealthy(r) ==
  /\ At(r, "choose")
  /\ scan[r].mode # "least_requests"
  /\ scan[r].cand = {}
  /\ ~scan[r].healthy
  /\ \E i \in 1..Len(scan[r].eps) :
       /\ scan[r].mode = "round_robin" => i = 1
       /\ Picked(r, scan[r].eps[i])
  /\ UNCHANGED <<clusterVars, pending, ghostVars>>
  /\ UNCHANGED <<attempt, ctx, out, origin>>

\* ErrNoEndpointCapacity: some endpoint was available and each of those was at its cap.
PickNoCapacity(r) ==
  /\ At(r, "choose")
  /\ scan[r].mode # "least_requests"
  /\ scan[r].cand = {}
  /\ scan[r].healthy
  /\ scan' = [scan EXCEPT ![r] = NoScan]
  /\ localNow' = [localNow EXCEPT ![r] = 0]
  /\ Goto(r, "noCapacity")
  /\ UNCHANGED <<clusterVars, pending, ghostVars>>
  /\ UNCHANGED <<attempt, ctx, out, origin, ep>>

\* Mutant: the slot is kept while waiting for endpoint capacity.
NoCapacityKeep(r) ==
  /\ At(r, "noCapacity")
  /\ origin' = [origin EXCEPT ![r] = "pick"]
  /\ Goto(r, "enqueue")
  /\ UNCHANGED <<clusterVars, attempt, ctx, out, ep, localNow, scan, pending, ghostVars>>

\* OnRequest on ErrNoEndpointCapacity: release the slot, then wait for capacity.
NoCapacityRelease(r) ==
  /\ At(r, "noCapacity")
  /\ ReleaseSlot
  /\ origin' = [origin EXCEPT ![r] = "pick"]
  /\ Goto(r, "enqueue")
  /\ UNCHANGED <<lbPolicy, endpoints, rr, epInflight, health, now>>
  /\ UNCHANGED <<attempt, ctx, out, ep, localNow, scan, pending, ghostVars>>

----------------------------------------------------------------------------
(* The attempt.                                                            *)

\* IncEndpointInFlight, then http.NewRequest: an address it rejects makes OnRequest return
\* with the slot and the endpoint count still taken.
Inc(r) ==
  /\ At(r, "inc")
  /\ IncEndpointInFlight(ep[r])
  /\ \/ /\ ep[r] \in BadAddrs
        /\ Finish(r, "error")
        /\ ep' = [ep EXCEPT ![r] = NoEndpoint]
        /\ leaked' = leaked + 1
        /\ epLeaked' = [epLeaked EXCEPT ![ep[r]] = @ + 1]
     \/ /\ ep[r] \notin BadAddrs
        /\ Goto(r, "do")
        /\ UNCHANGED <<out, ep, leaked, epLeaked>>
  /\ UNCHANGED <<lbPolicy, endpoints, rr, inflight, health, now>>
  /\ UNCHANGED <<attempt, ctx, origin, localNow, scan, pending>>

\* cli.Do returns a response, which it cannot once reqCtx is done.
DoResponse(r) ==
  /\ At(r, "do")
  /\ ~ReqCtxDone(r)
  /\ Goto(r, "write")
  /\ UNCHANGED <<clusterVars, localVars, pending, ghostVars>>

\* cli.Do fails: refused, reset, timed out, or reqCtx done.  ReportFailure reads the clock.
DoError(r) ==
  /\ At(r, "do")
  /\ \E err \in {"timeout", "error"} : out' = [out EXCEPT ![r] = err]
  /\ localNow' = [localNow EXCEPT ![r] = now]
  /\ Goto(r, "report")
  /\ UNCHANGED <<clusterVars, pending, ghostVars>>
  /\ UNCHANGED <<attempt, ctx, origin, ep, scan>>

\* Mutant: the write-error path forgets DecEndpointInFlight.
WriteWithoutDec(r) ==
  /\ At(r, "write")
  /\ \/ /\ Goto(r, "report")
        /\ out' = [out EXCEPT ![r] = "proxied"]
        /\ UNCHANGED ep
     \/ /\ Goto(r, "release")
        /\ out' = [out EXCEPT ![r] = "writeError"]
        /\ ep' = [ep EXCEPT ![r] = NoEndpoint]
  /\ UNCHANGED <<clusterVars, pending, ghostVars>>
  /\ UNCHANGED <<attempt, ctx, origin, localNow, scan>>

\* dr.Write copies the response to the client.  A write error reports nothing to the cluster.
Write(r) ==
  /\ At(r, "write")
  /\ \/ Goto(r, "report") /\ out' = [out EXCEPT ![r] = "proxied"]
     \/ Goto(r, "dec") /\ out' = [out EXCEPT ![r] = "writeError"]
  /\ UNCHANGED <<clusterVars, pending, ghostVars>>
  /\ UNCHANGED <<attempt, ctx, origin, ep, localNow, scan>>

\* ReportSuccess or ReportFailure.
Report(r) ==
  /\ At(r, "report")
  /\ IF out[r] = "proxied" THEN markSuccess(ep[r]) ELSE markFailure(ep[r], localNow[r])
  /\ localNow' = [localNow EXCEPT ![r] = 0]
  /\ Goto(r, "dec")
  /\ UNCHANGED <<lbPolicy, endpoints, rr, inflight, epInflight, now>>
  /\ UNCHANGED <<attempt, ctx, out, origin, ep, scan, pending, ghostVars>>

Dec(r) ==
  /\ At(r, "dec")
  /\ DecEndpointInFlight(ep[r])
  /\ ep' = [ep EXCEPT ![r] = NoEndpoint]
  /\ Goto(r, "release")
  /\ UNCHANGED <<lbPolicy, endpoints, rr, inflight, health, now>>
  /\ UNCHANGED <<attempt, ctx, out, origin, localNow, scan, pending, ghostVars>>

\* Mutant: only a response releases the slot.
ReleaseOnSuccess(r) ==
  /\ At(r, "release")
  /\ IF out[r] = "proxied" THEN ReleaseSlot ELSE UNCHANGED inflight
  /\ Goto(r, IF out[r] \in {"timeout", "error"} /\ attempt[r] < MaxAttempts(r) - 1
               THEN "backoff" ELSE "done")
  /\ UNCHANGED <<lbPolicy, endpoints, rr, epInflight, health, now>>
  /\ UNCHANGED <<localVars, pending, ghostVars>>

\* release(), and what follows it: return after a response or a write error, back off after
\* a failed attempt that is not the last.
Release(r) ==
  /\ At(r, "release")
  /\ ReleaseSlot
  /\ Goto(r, IF out[r] \in {"timeout", "error"} /\ attempt[r] < MaxAttempts(r) - 1
               THEN "backoff" ELSE "done")
  /\ UNCHANGED <<lbPolicy, endpoints, rr, epInflight, health, now>>
  /\ UNCHANGED <<localVars, pending, ghostVars>>

\* The select of the backoff: its timer, or reqCtx done, which ends the loop.  When both are
\* ready either case is taken.
BackoffTimer(r) ==
  /\ At(r, "backoff")
  /\ NextAttempt(r, out[r])
  /\ UNCHANGED <<clusterVars, pending, ghostVars>>
  /\ UNCHANGED <<ctx, origin, ep, localNow, scan>>

BackoffCut(r) ==
  /\ At(r, "backoff")
  /\ ReqCtxDone(r)
  /\ Finish(r, IF ctx[r] = "cancelled" THEN "error" ELSE "timeout")
  /\ UNCHANGED <<clusterVars, pending, ghostVars>>
  /\ UNCHANGED <<attempt, ctx, origin, ep, localNow, scan>>

----------------------------------------------------------------------------
(* The contexts of a request in progress.                                  *)

InProgress(r) == pc[r] \notin {"idle", "done"}

\* request_timeout_ms passes.
Expire(r) ==
  /\ r \in Timed
  /\ InProgress(r)
  /\ ctx[r] = "live"
  /\ ctx' = [ctx EXCEPT ![r] = "expired"]
  /\ UNCHANGED <<clusterVars, pc, attempt, out, origin, ep, localNow, scan>>
  /\ UNCHANGED <<pending, ghostVars>>

\* The connection's context (the stream's for h2) is cancelled.
Cancel(r) ==
  /\ r \in Cancellable
  /\ InProgress(r)
  /\ ~ConnCtxDone(r)
  /\ ctx' = [ctx EXCEPT ![r] = IF @ = "live" THEN "cancelled" ELSE "both"]
  /\ UNCHANGED <<clusterVars, pc, attempt, out, origin, ep, localNow, scan>>
  /\ UNCHANGED <<pending, ghostVars>>

----------------------------------------------------------------------------
\* The steps of a goroutine inside OnRequest.
Step(r) ==
  \/ Acquire(r) \/ AcquireRollback(r)
  \/ Enqueue(r) \/ Poll(r) \/ PollRollback(r) \/ PollTick(r) \/ PollDrop(r) \/ Dequeue(r)
  \/ PickEmpty(r) \/ PickStart(r) \/ PickAvailable(r) \/ PickLoad(r) \/ PickCap(r)
  \/ PickCandidate(r) \/ PickFallThrough(r) \/ PickUnhealthy(r) \/ PickNoCapacity(r)
  \/ NoCapacityRelease(r)
  \/ Inc(r) \/ DoResponse(r) \/ DoError(r) \/ Write(r) \/ Report(r) \/ Dec(r)
  \/ Release(r) \/ BackoffTimer(r) \/ BackoffCut(r)

RequestNext == \E r \in Requests : Arrive(r) \/ Step(r) \/ Expire(r) \/ Cancel(r)

EnvNext == ClusterEnv /\ UNCHANGED proxyVars

\* All requests are served; the server goes on waiting for more.
AllDone == (\A r \in Requests : pc[r] = "done") /\ UNCHANGED vars

Next == RequestNext \/ EnvNext \/ AllDone

Spec == Init /\ [][Next]_vars

\* Goroutines are scheduled and calls return.
Fairness == \A r \in Requests : WF_vars(Step(r))
FairSpec == Spec /\ Fairness

----------------------------------------------------------------------------
(* Properties.                                                             *)

Admitted == {r \in Requests : pc[r] \in AdmittedPc}
Overshooting == {r \in Requests : pc[r] \in OvershootPc}
Waiting(p) == {r \in Requests : pc[r] \in WaitingPc /\ ProxyOf[r] = p}
InFlightAt(e) == {r \in Requests : pc[r] \in AtEndpointPc /\ ep[r] = e}

\* Pick never reads past the slice it copied, whatever discovery installs meanwhile, and an
\* attempt is made only at an endpoint that Pick returned.
PickInBoundsAt(r) ==
  /\ pc[r] \in {"avail", "load", "cap"} => scan[r].left # <<>>
  /\ pc[r] \in {"avail", "load", "cap", "choose"} => scan[r].eps # <<>>
  /\ pc[r] \in {"inc"} \cup AtEndpointPc => ep[r] \in Endpoints
PickInBounds == \A r \in Requests : PickInBoundsAt(r)

\* The breaker's counter is exactly the admitted requests, plus the denied TryAcquire calls
\* about to roll back, plus the slots lost: no path of OnRequest releases twice, and the
\* clamp in Release never acts.
SlotAccounting ==
  inflight = Cardinality(Admitted) + Cardinality(Overshooting) + leaked

\* max_requests holds for the admitted requests, lost slots included, although TryAcquire
\* adds before it compares.
ClusterCap ==
  CbMaxReqs > 0 => Cardinality(Admitted) + leaked <= CbMaxReqs

\* The tokens in a pending channel are the requests waiting in it, never more than its size.
PendingAccounting ==
  \A p \in Proxies : /\ pending[p] = Cardinality(Waiting(p))
                     /\ pending[p] <= MaxPending

\* The in-flight counter of an endpoint is the attempts in progress there plus the counts
\* lost: the clamp in DecEndpointInFlight never acts, whatever discovery does meanwhile.
EndpointAccounting ==
  \A e \in Endpoints : epInflight[e] = Cardinality(InFlightAt(e)) + epLeaked[e]

\* TryAcquire denies a request only when the slots taken and lost, and the denied calls that
\* have not rolled back, come up to max_requests.  Without the denied calls, which is how the
\* documentation has it, this would not hold.
DeniedAtLimit(r) ==
  pc[r] \notin OvershootPc /\ pc'[r] \in OvershootPc =>
    CbMaxReqs > 0 /\ Cardinality(Admitted) + Cardinality(Overshooting) + leaked >= CbMaxReqs
DeniedOnlyAtLimit == [][\A r \in Requests : DeniedAtLimit(r)]_vars

\* Refinement: without its counters the breaker is the admission control of module Admission.
\* A TryAcquire that is denied, and its rollback, are invisible there.
Abstract == INSTANCE Admission WITH
  Clients <- Requests, Rooms <- Proxies, RoomOf <- ProxyOf, RoomSize <- MaxPending,
  Capacity <- CbMaxReqs, admitted <- Admitted,
  waiting <- {r \in Requests : pc[r] \in WaitingPc}, lost <- leaked

\* The breaker and the pending queue implement Admission: every add, rollback, release, enqueue
\* and dequeue of the code is one of its steps, or no step at all.
ImplementsAdmission == Abstract!Spec

\* Once every request is answered, the counters are back at zero: the comment of OnRequest,
\* "Ensure release after this attempt path exits".
BalancedAtRest ==
  (\A r \in Requests : pc[r] = "done") =>
    /\ inflight = 0
    /\ \A p \in Proxies : pending[p] = 0
    /\ \A e \in Endpoints : epInflight[e] = 0

\* Every request that reaches the filter is answered.
Terminates == \A r \in Requests : pc[r] = "acquire" ~> pc[r] = "done"

\* A request that waits in the pending queue while its request_timeout_ms passes is answered,
\* or goes on with capacity.
ExpiredWaiterLeaves ==
  \A r \in Requests :
    pc[r] \in WaitingPc /\ ReqCtxDone(r) ~> pc[r] \notin WaitingPc
=============================================================================
