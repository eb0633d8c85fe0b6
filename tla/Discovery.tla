----------------------------- MODULE Discovery -----------------------------
(***************************************************************************)
(* Service discovery and the lifecycle of the active health checks of one  *)
(* strict_dns cluster, internal/cluster/manager.go: a resolver goroutine   *)
(* per hostname seed (resolveLoop, resolveOnce, applyEndpointSet) and a    *)
(* checker goroutine per endpoint (startHealthCheck, runHealthCheck,       *)
(* stopHealthCheck).  They share the endpoint slice, resolvedBySeed and    *)
(* the map hcCancel.  Each is accessed under the lock mu, but the lock is  *)
(* dropped between the computation of the effective set, its application,  *)
(* and every start and stop of a checker: there is one action per section  *)
(* under the lock.                                                         *)
(*                                                                         *)
(* The slice is kept as the set of its addresses.  What a probe records    *)
(* about its endpoint is Cluster!Probe, which a checker may take at any    *)
(* time; here only the life of the checker matters.                        *)
(***************************************************************************)
EXTENDS Naturals, FiniteSets

CONSTANTS
  Seeds,        \* the hostname seeds, each with a resolver goroutine
  Addrs,        \* the ip:port addresses
  StaticSeeds,  \* the IP-literal seeds
  Answers,      \* what the name of a seed may resolve to
  Checkers,     \* bound of the model: the health-check goroutines alive at a time
  MaxChanges,   \* bound of the model: how often the DNS records change
  NoChecker     \* not a checker: no entry in hcCancel, nothing to cancel

ASSUME AddrsAssumption ==
  /\ IsFiniteSet(Addrs)
  /\ Addrs # {}
  /\ StaticSeeds \subseteq Addrs
\* LookupIPAddr fails rather than return an empty list.
ASSUME AnswersAssumption == Answers \in [Seeds -> SUBSET (SUBSET Addrs \ {{}})]
\* There are goroutines for the static seeds.
Injections == {f \in [StaticSeeds -> Checkers] : \A a, b \in StaticSeeds : f[a] = f[b] => a = b}
ASSUME CheckersAssumption == Injections # {}
ASSUME NoCheckerAssumption == NoChecker \notin Checkers
ASSUME MaxChangesAssumption == MaxChanges \in Nat

VARIABLES
  dns,             \* the records of every seed's name (the environment's)
  changes,         \* how often they changed
  endpoints,       \* Cluster.Endpoints
  resolvedBySeed,  \* Cluster.resolvedBySeed
  hcCancel,        \* Cluster.hcCancel: the checker whose cancel function is stored
  ctxDone,         \* Cluster.baseCtx is cancelled
  rpc,             \* where the resolver of a seed is
  found,           \* resolved, then effective, of resolveOnce
  toAdd, toRemove, \* the addresses applyEndpointSet has still to go through
  cancelling,      \* the cancel function stopHealthCheck is about to call
  cpc,             \* where a checker is
  target,          \* the address it probes
  cancelled        \* its own context is cancelled

sharedVars == <<endpoints, resolvedBySeed, hcCancel>>
resolverVars == <<rpc, found, toAdd, toRemove, cancelling>>
checkerVars == <<cpc, target, cancelled>>
envVars == <<dns, changes, ctxDone>>
vars == <<sharedVars, resolverVars, checkerVars, envVars>>

ResolverPc == {"off", "lookup", "store", "apply", "start", "stop", "cancel", "wait"}
CheckerPc == {"off", "select", "probe"}

\* Type correctness, and stopHealthCheck calls a cancel function only when it found one.
TypeOK ==
  /\ dns \in [Seeds -> SUBSET Addrs]
  /\ changes \in 0..MaxChanges
  /\ endpoints \in SUBSET Addrs
  /\ resolvedBySeed \in [Seeds -> SUBSET Addrs]
  /\ hcCancel \in [Addrs -> Checkers \cup {NoChecker}]
  /\ ctxDone \in BOOLEAN
  /\ rpc \in [Seeds -> ResolverPc]
  /\ found \in [Seeds -> SUBSET Addrs]
  /\ toAdd \in [Seeds -> SUBSET Addrs]
  /\ toRemove \in [Seeds -> SUBSET Addrs]
  /\ cancelling \in [Seeds -> Checkers \cup {NoChecker}]
  /\ \A s \in Seeds : rpc[s] = "cancel" => cancelling[s] \in Checkers
  /\ cpc \in [Checkers -> CheckerPc]
  /\ target \in [Checkers -> Addrs]
  /\ cancelled \in [Checkers -> BOOLEAN]

----------------------------------------------------------------------------
(* Start.                                                                  *)

FirstCheckers == CHOOSE f \in Injections : TRUE

\* NewManager: the IP-literal seeds are the endpoints until a name is resolved.  Manager.Start
\* has run startHealthCheck for each of them and started the resolvers.
Init ==
  /\ dns \in {d \in [Seeds -> SUBSET Addrs] : \A s \in Seeds : d[s] \in Answers[s]}
  /\ changes = 0
  /\ endpoints = StaticSeeds
  /\ resolvedBySeed = [s \in Seeds |-> {}]
  /\ hcCancel = [a \in Addrs |-> IF a \in StaticSeeds THEN FirstCheckers[a] ELSE NoChecker]
  /\ ctxDone = FALSE
  /\ rpc = [s \in Seeds |-> "lookup"]
  /\ found = [s \in Seeds |-> {}]
  /\ toAdd = [s \in Seeds |-> {}]
  /\ toRemove = [s \in Seeds |-> {}]
  /\ cancelling = [s \in Seeds |-> NoChecker]
  /\ cpc = [k \in Checkers |-> IF \E a \in Addrs : hcCancel[a] = k THEN "select" ELSE "off"]
  /\ target = [k \in Checkers |->
       CHOOSE a \in Addrs : (\E b \in Addrs : hcCancel[b] = k) => hcCancel[a] = k]
  /\ cancelled = [k \in Checkers |-> FALSE]

----------------------------------------------------------------------------
(* A resolver.                                                             *)

At(s, label) == rpc[s] = label
Goto(s, label) == rpc' = [rpc EXCEPT ![s] = label]

\* LookupIPAddr returns the records, or fails (an error, the 2 s timeout, the context).
LookupOk(s) ==
  /\ At(s, "lookup")
  /\ found' = [found EXCEPT ![s] = dns[s]]
  /\ Goto(s, "store")
  /\ UNCHANGED <<sharedVars, toAdd, toRemove, cancelling, checkerVars, envVars>>

LookupFail(s) ==
  /\ At(s, "lookup")
  /\ Goto(s, "wait")
  /\ UNCHANGED <<sharedVars, found, toAdd, toRemove, cancelling, checkerVars, envVars>>

\* What the seeds amount to: the union of the static seeds and of all that was resolved.
Effective(resolved) == StaticSeeds \cup UNION {resolved[s] : s \in Seeds}

\* Mutant: the IP-literal seeds are forgotten.
StoreOnlyResolved(s) ==
  LET resolved == [resolvedBySeed EXCEPT ![s] = found[s]]
  IN  /\ At(s, "store")
      /\ resolvedBySeed' = resolved
      /\ found' = [found EXCEPT ![s] = UNION {resolved[t] : t \in Seeds}]
      /\ Goto(s, "apply")
      /\ UNCHANGED <<endpoints, hcCancel, toAdd, toRemove, cancelling, checkerVars, envVars>>

\* Mutant: a resolver replaces what the other ones found.
StoreForgetsOthers(s) ==
  /\ At(s, "store")
  /\ resolvedBySeed' = [resolvedBySeed EXCEPT ![s] = found[s]]
  /\ found' = [found EXCEPT ![s] = StaticSeeds \cup @]
  /\ Goto(s, "apply")
  /\ UNCHANGED <<endpoints, hcCancel, toAdd, toRemove, cancelling, checkerVars, envVars>>

\* First critical section of resolveOnce: store the answer, compute the effective set.
Store(s) ==
  LET resolved == [resolvedBySeed EXCEPT ![s] = found[s]]
  IN  /\ At(s, "store")
      /\ resolvedBySeed' = resolved
      /\ found' = [found EXCEPT ![s] = Effective(resolved)]
      /\ Goto(s, "apply")
      /\ UNCHANGED <<endpoints, hcCancel, toAdd, toRemove, cancelling, checkerVars, envVars>>

\* What a resolver does when add and remove are left of its difference.
Remaining(s, add, remove) ==
  Goto(s, IF add # {} THEN "start" ELSE IF remove # {} THEN "stop" ELSE "wait")

\* applyEndpointSet under the lock: the difference with the slice, and the swap.
Apply(s) ==
  LET add == found[s] \ endpoints
      remove == endpoints \ found[s]
  IN  /\ At(s, "apply")
      /\ endpoints' = found[s]
      /\ toAdd' = [toAdd EXCEPT ![s] = add]
      /\ toRemove' = [toRemove EXCEPT ![s] = remove]
      /\ found' = [found EXCEPT ![s] = {}]
      /\ Remaining(s, add, remove)
      /\ UNCHANGED <<resolvedBySeed, hcCancel, cancelling, checkerVars, envVars>>

\* A checker that can be started: the goroutine is over and nobody holds its cancel function.
Free(k) ==
  /\ cpc[k] = "off"
  /\ \A a \in Addrs : hcCancel[a] # k
  /\ \A s \in Seeds : cancelling[s] # k

\* A new goroutine that probes a, and its entry in hcCancel.
Register(a) ==
  LET k == CHOOSE free \in Checkers : Free(free)
  IN  /\ \E free \in Checkers : Free(free)
      /\ hcCancel' = [hcCancel EXCEPT ![a] = k]
      /\ cpc' = [cpc EXCEPT ![k] = "select"]
      /\ target' = [target EXCEPT ![k] = a]
      /\ cancelled' = [cancelled EXCEPT ![k] = FALSE]

\* Mutant: the entry of hcCancel is not looked at before the goroutine is started.
startAnyway(a) == Register(a)

\* startHealthCheck under the lock: an address that has an entry is left alone.
startHealthCheck(a) ==
  IF hcCancel[a] # NoChecker THEN UNCHANGED <<hcCancel, checkerVars>> ELSE Register(a)

\* The loop over toAdd, in any order.
StartOne(s) ==
  /\ At(s, "start")
  /\ \E a \in toAdd[s] :
       /\ startHealthCheck(a)
       /\ toAdd' = [toAdd EXCEPT ![s] = @ \ {a}]
       /\ Remaining(s, toAdd[s] \ {a}, toRemove[s])
  /\ UNCHANGED <<endpoints, resolvedBySeed, found, toRemove, cancelling, envVars>>

\* Mutant: the cancel function is called without looking whether there is one.
StopOneUnchecked(s) ==
  /\ At(s, "stop")
  /\ \E a \in toRemove[s] :
       /\ toRemove' = [toRemove EXCEPT ![s] = @ \ {a}]
       /\ cancelling' = [cancelling EXCEPT ![s] = hcCancel[a]]
       /\ hcCancel' = [hcCancel EXCEPT ![a] = NoChecker]
       /\ Goto(s, "cancel")
  /\ UNCHANGED <<endpoints, resolvedBySeed, found, toAdd, checkerVars, envVars>>

\* The loop over toRemove: stopHealthCheck deletes the entry under the lock, ...
StopOne(s) ==
  /\ At(s, "stop")
  /\ \E a \in toRemove[s] :
       /\ toRemove' = [toRemove EXCEPT ![s] = @ \ {a}]
       /\ cancelling' = [cancelling EXCEPT ![s] = hcCancel[a]]
       /\ hcCancel' = [hcCancel EXCEPT ![a] = NoChecker]
       /\ IF hcCancel[a] # NoChecker
            THEN Goto(s, "cancel")
            ELSE Remaining(s, {}, toRemove[s] \ {a})
  /\ UNCHANGED <<endpoints, resolvedBySeed, found, toAdd, checkerVars, envVars>>

\* ... and calls the cancel function it found after the unlock.
CancelOne(s) ==
  /\ At(s, "cancel")
  /\ cancelled' = [cancelled EXCEPT ![cancelling[s]] = TRUE]
  /\ cancelling' = [cancelling EXCEPT ![s] = NoChecker]
  /\ Remaining(s, {}, toRemove[s])
  /\ UNCHANGED <<sharedVars, found, toAdd, toRemove, cpc, target, envVars>>

\* The select of resolveLoop: when both are ready, either case is taken.
Refresh(s) ==
  /\ At(s, "wait")
  /\ Goto(s, "lookup")
  /\ UNCHANGED <<sharedVars, found, toAdd, toRemove, cancelling, checkerVars, envVars>>

ResolverExit(s) ==
  /\ At(s, "wait")
  /\ ctxDone
  /\ Goto(s, "off")
  /\ UNCHANGED <<sharedVars, found, toAdd, toRemove, cancelling, checkerVars, envVars>>

----------------------------------------------------------------------------
(* A checker: the select of runHealthCheck, and a probe that takes time.   *)

Interval(k) ==
  /\ cpc[k] = "select"
  /\ cpc' = [cpc EXCEPT ![k] = "probe"]
  /\ UNCHANGED <<sharedVars, resolverVars, target, cancelled, envVars>>

\* The probe ends and updateActiveHealth records it, cancelled or not.
Record(k) ==
  /\ cpc[k] = "probe"
  /\ cpc' = [cpc EXCEPT ![k] = "select"]
  /\ UNCHANGED <<sharedVars, resolverVars, target, cancelled, envVars>>

\* Mutant: the checker listens to the base context only.
CheckerExitLate(k) ==
  /\ cpc[k] = "select"
  /\ ctxDone
  /\ cpc' = [cpc EXCEPT ![k] = "off"]
  /\ UNCHANGED <<sharedVars, resolverVars, target, cancelled, envVars>>

\* Mutant: the checker's context is not derived from the one of Manager.Start.
CheckerExitDetached(k) ==
  /\ cpc[k] = "select"
  /\ cancelled[k]
  /\ cpc' = [cpc EXCEPT ![k] = "off"]
  /\ UNCHANGED <<sharedVars, resolverVars, target, cancelled, envVars>>

\* Its context is a child of baseCtx.
CheckerExit(k) ==
  /\ cpc[k] = "select"
  /\ cancelled[k] \/ ctxDone
  /\ cpc' = [cpc EXCEPT ![k] = "off"]
  /\ UNCHANGED <<sharedVars, resolverVars, target, cancelled, envVars>>

----------------------------------------------------------------------------
(* The environment.                                                        *)

\* The records of a name change.
DnsChange(s) ==
  /\ changes < MaxChanges
  /\ \E answer \in Answers[s] \ {dns[s]} : dns' = [dns EXCEPT ![s] = answer]
  /\ changes' = changes + 1
  /\ UNCHANGED <<sharedVars, resolverVars, checkerVars, ctxDone>>

\* The supervisor cancels the context it gave to Manager.Start.
Shutdown ==
  /\ ~ctxDone
  /\ ctxDone' = TRUE
  /\ UNCHANGED <<sharedVars, resolverVars, checkerVars, dns, changes>>

Stopped ==
  /\ \A s \in Seeds : rpc[s] = "off"
  /\ \A k \in Checkers : cpc[k] = "off"

Done == Stopped /\ UNCHANGED vars

----------------------------------------------------------------------------
ResolverStep(s) ==
  \/ LookupOk(s) \/ LookupFail(s) \/ Store(s) \/ Apply(s)
  \/ StartOne(s) \/ StopOne(s) \/ CancelOne(s)
  \/ Refresh(s) \/ ResolverExit(s)

CheckerStep(k) == Interval(k) \/ Record(k) \/ CheckerExit(k)

Next ==
  \/ \E s \in Seeds : ResolverStep(s) \/ DnsChange(s)
  \/ \E k \in Checkers : CheckerStep(k)
  \/ Shutdown
  \/ Done

Spec == Init /\ [][Next]_vars

\* Lookups and probes are bounded by timeouts and goroutines are scheduled; a select with two
\* ready cases picks at random, so it does not ignore one of them for ever.
Fairness ==
  /\ \A s \in Seeds : WF_vars(ResolverStep(s)) /\ SF_vars(ResolverExit(s))
  /\ \A k \in Checkers : WF_vars(Record(k)) /\ SF_vars(CheckerExit(k))

FairSpec == Spec /\ Fairness

----------------------------------------------------------------------------
(* Properties.                                                             *)

\* Static IP-literal seeds are kept as they are, whatever the resolvers store, compute from a
\* stale union and apply.
StaticSeedsKept == StaticSeeds \subseteq endpoints

\* No health-check goroutine is lost: one that runs with a live context is the one registered
\* for its address, or a resolver is about to cancel it.  Every entry of hcCancel is a live one.
CheckersOwned ==
  /\ \A k \in Checkers :
       cpc[k] # "off" /\ ~cancelled[k] =>
         \/ hcCancel[target[k]] = k
         \/ \E s \in Seeds : rpc[s] = "cancel" /\ cancelling[s] = k
  /\ \A a \in Addrs :
       LET k == hcCancel[a]
       IN  k # NoChecker => /\ target[k] = a
                            /\ ~cancelled[k]
                            /\ cpc[k] = "off" => ctxDone

\* A checker whose endpoint was removed goes away.
CancelledCheckersStop ==
  \A k \in Checkers : cancelled[k] ~> cpc[k] = "off"

\* Once the supervisor has cancelled the context, all goroutines of the cluster end, also a
\* checker that a resolver starts after that.
ShutdownStops == ctxDone ~> Stopped

\* Every seed is resolved again and again.
DnsAnswers == \A s \in Seeds : []<><<LookupOk(s)>>_vars

\* A union computed before another resolver's answer may be applied after it; as long as the
\* names keep resolving, the slice ends up as the union of the static seeds and of the records.
DiscoveryConverges ==
  DnsAnswers => <>[](endpoints = Effective(dns))

\* Health checks are started for new addresses and stopped for removed ones: in the end the
\* endpoints are those that have a checker.
CheckersConverge ==
  DnsAnswers => <>[]({a \in Addrs : hcCancel[a] # NoChecker} = endpoints)
=============================================================================
