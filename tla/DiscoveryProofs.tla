-------------------------- MODULE DiscoveryProofs --------------------------
(***************************************************************************)
(* Discovery keeps the static seeds and loses no health-check goroutine,   *)
(* for any seeds, addresses and number of goroutines.                      *)
(***************************************************************************)
EXTENDS Discovery, TLAPS

(* A resolver that is about to apply a set has the static seeds in it.     *)
SeedsInv ==
  /\ StaticSeedsKept
  /\ \A s \in Seeds : rpc[s] = "apply" => StaticSeeds \subseteq found[s]

(* A cancel function that stopHealthCheck has taken out of the map is in   *)
(* the hands of one resolver, and not in the map.                          *)
HandedOver ==
  \A s \in Seeds : rpc[s] = "cancel" =>
    /\ \A a \in Addrs : hcCancel[a] # cancelling[s]
    /\ \A t \in Seeds : rpc[t] = "cancel" /\ cancelling[t] = cancelling[s] => t = s

CheckersInv == CheckersOwned /\ HandedOver
-----------------------------------------------------------------------------
(* Types.                                                                  *)

\* The checkers of the static seeds are different ones.
LEMMA FirstCheckersInjective ==
  /\ FirstCheckers \in [StaticSeeds -> Checkers]
  /\ \A a, b \in StaticSeeds : FirstCheckers[a] = FirstCheckers[b] => a = b
<1>1. FirstCheckers \in Injections
  BY CheckersAssumption DEF FirstCheckers
<1> QED BY <1>1 DEF Injections

\* The first checkers probe the addresses that they are registered for.
LEMMA InitTargets ==
  Init => /\ target \in [Checkers -> Addrs]
          /\ \A a \in Addrs : hcCancel[a] # NoChecker => target[hcCancel[a]] = a
<1> SUFFICES ASSUME Init
             PROVE  /\ target \in [Checkers -> Addrs]
                    /\ \A a \in Addrs : hcCancel[a] # NoChecker => target[hcCancel[a]] = a
  OBVIOUS
<1> DEFINE P(k, a) == (\E b \in Addrs : hcCancel[b] = k) => hcCancel[a] = k
<1>1. target = [k \in Checkers |-> CHOOSE a \in Addrs : P(k, a)]
  BY DEF Init
<1>2. \A k \in Checkers : \E a \in Addrs : P(k, a)
  BY AddrsAssumption
<1>3. \A k \in Checkers : (CHOOSE a \in Addrs : P(k, a)) \in Addrs
                       /\ P(k, CHOOSE a \in Addrs : P(k, a))
  BY <1>2
<1>4. target \in [Checkers -> Addrs] /\ \A k \in Checkers : P(k, target[k])
  <2> HIDE DEF P
  <2> QED BY <1>1, <1>3
<1>5. ASSUME NEW a \in Addrs, hcCancel[a] # NoChecker PROVE target[hcCancel[a]] = a
  <2> DEFINE k == hcCancel[a]
             b == target[k]
  <2>1. a \in StaticSeeds /\ k = FirstCheckers[a] /\ k \in Checkers
    BY <1>5, FirstCheckersInjective DEF Init
  <2>2. b \in Addrs /\ hcCancel[b] = k
    BY <1>4, <2>1
  <2>3. b \in StaticSeeds /\ FirstCheckers[b] = k
    BY <1>5, <2>2 DEF Init
  <2> QED BY <2>1, <2>3, FirstCheckersInjective
<1> QED BY <1>4, <1>5

\* The manager starts with values of the right types.
LEMMA InitTypeOK == Init => TypeOK
<1> SUFFICES ASSUME Init PROVE TypeOK
  OBVIOUS
<1>1. hcCancel \in [Addrs -> Checkers \cup {NoChecker}]
  BY FirstCheckersInjective DEF Init
<1>2. target \in [Checkers -> Addrs]
  BY InitTargets
<1>3. endpoints \in SUBSET Addrs /\ changes \in 0 .. MaxChanges
  BY AddrsAssumption, MaxChangesAssumption DEF Init
<1> QED BY <1>1, <1>2, <1>3 DEF Init, TypeOK, ResolverPc, CheckerPc

\* A goroutine that is registered is one that was free.
LEMMA RegisterChooses ==
  ASSUME NEW a \in Addrs, Register(a)
  PROVE  \E k \in Checkers :
           /\ Free(k)
           /\ hcCancel' = [hcCancel EXCEPT ![a] = k]
           /\ cpc' = [cpc EXCEPT ![k] = "select"]
           /\ target' = [target EXCEPT ![k] = a]
           /\ cancelled' = [cancelled EXCEPT ![k] = FALSE]
<1> DEFINE k == CHOOSE free \in Checkers : Free(free)
<1>1. k \in Checkers /\ Free(k)
  BY DEF Register
<1> HIDE DEF k
<1>2. /\ hcCancel' = [hcCancel EXCEPT ![a] = k]
      /\ cpc' = [cpc EXCEPT ![k] = "select"]
      /\ target' = [target EXCEPT ![k] = a]
      /\ cancelled' = [cancelled EXCEPT ![k] = FALSE]
  BY DEF Register, k
<1> QED BY <1>1, <1>2

\* startHealthCheck keeps the types of what it changes.
LEMMA StartType ==
  ASSUME TypeOK, NEW a \in Addrs, startHealthCheck(a)
  PROVE  /\ hcCancel' \in [Addrs -> Checkers \cup {NoChecker}]
         /\ cpc' \in [Checkers -> CheckerPc]
         /\ target' \in [Checkers -> Addrs]
         /\ cancelled' \in [Checkers -> BOOLEAN]
<1>1. CASE Register(a)
  <2>1. PICK k \in Checkers :
           /\ hcCancel' = [hcCancel EXCEPT ![a] = k]
           /\ cpc' = [cpc EXCEPT ![k] = "select"]
           /\ target' = [target EXCEPT ![k] = a]
           /\ cancelled' = [cancelled EXCEPT ![k] = FALSE]
    BY <1>1, RegisterChooses
  <2> QED BY <2>1 DEF TypeOK, CheckerPc
<1>2. CASE UNCHANGED <<hcCancel, checkerVars>>
  BY <1>2 DEF TypeOK, checkerVars
<1> QED BY <1>1, <1>2 DEF startHealthCheck

\* Where a resolver goes next is one of its places, and not "cancel".
LEMMA RemainingType ==
  ASSUME TypeOK, NEW s \in Seeds, NEW add, NEW remove, Remaining(s, add, remove)
  PROVE  /\ rpc' \in [Seeds -> ResolverPc]
         /\ rpc'[s] \in {"start", "stop", "wait"}
         /\ \A t \in Seeds : t # s => rpc'[t] = rpc[t]
BY DEF Remaining, Goto, TypeOK, ResolverPc

\* A step of a resolver keeps the types.
LEMMA ResolverType ==
  ASSUME TypeOK, NEW s \in Seeds, ResolverStep(s)
  PROVE  TypeOK'
<1>1. CASE LookupOk(s)
  BY <1>1 DEF LookupOk, At, Goto, TypeOK, ResolverPc, sharedVars, checkerVars, envVars
<1>2. CASE LookupFail(s)
  BY <1>2 DEF LookupFail, At, Goto, TypeOK, ResolverPc, sharedVars, checkerVars, envVars
<1>3. CASE Store(s)
  <2>1. Effective([resolvedBySeed EXCEPT ![s] = found[s]]) \in SUBSET Addrs
    BY AddrsAssumption DEF Effective, TypeOK
  <2>2. found' \in [Seeds -> SUBSET Addrs] /\ resolvedBySeed' \in [Seeds -> SUBSET Addrs]
    BY <1>3, <2>1 DEF Store, TypeOK
  <2>3. rpc' \in [Seeds -> ResolverPc] /\ rpc'[s] # "cancel"
    BY <1>3 DEF Store, Goto, TypeOK, ResolverPc
  <2> QED BY <1>3, <2>2, <2>3 DEF Store, Goto, TypeOK, checkerVars, envVars
<1>4. CASE Apply(s)
  <2>1. Remaining(s, found[s] \ endpoints, endpoints \ found[s])
    BY <1>4 DEF Apply
  <2>2. /\ endpoints' \in SUBSET Addrs
        /\ toAdd' \in [Seeds -> SUBSET Addrs]
        /\ toRemove' \in [Seeds -> SUBSET Addrs]
        /\ found' \in [Seeds -> SUBSET Addrs]
    BY <1>4 DEF Apply, TypeOK
  <2>3. UNCHANGED <<resolvedBySeed, hcCancel, cancelling, checkerVars, envVars>>
    BY <1>4 DEF Apply
  <2> QED BY <2>1, <2>2, <2>3, RemainingType DEF TypeOK, checkerVars, envVars
<1>5. CASE StartOne(s)
  <2>1. PICK a \in toAdd[s] :
          /\ startHealthCheck(a)
          /\ toAdd' = [toAdd EXCEPT ![s] = @ \ {a}]
          /\ Remaining(s, toAdd[s] \ {a}, toRemove[s])
    BY <1>5 DEF StartOne
  <2>2. a \in Addrs /\ toAdd' \in [Seeds -> SUBSET Addrs]
    BY <2>1 DEF TypeOK
  <2>3. UNCHANGED <<endpoints, resolvedBySeed, found, toRemove, cancelling, envVars>>
    BY <1>5 DEF StartOne
  <2> QED BY <2>1, <2>2, <2>3, StartType, RemainingType DEF TypeOK, envVars
<1>6. CASE StopOne(s)
  <2>1. PICK a \in toRemove[s] :
          /\ toRemove' = [toRemove EXCEPT ![s] = @ \ {a}]
          /\ cancelling' = [cancelling EXCEPT ![s] = hcCancel[a]]
          /\ hcCancel' = [hcCancel EXCEPT ![a] = NoChecker]
          /\ IF hcCancel[a] # NoChecker
               THEN Goto(s, "cancel") ELSE Remaining(s, {}, toRemove[s] \ {a})
    BY <1>6 DEF StopOne
  <2>2. a \in Addrs /\ toRemove' \in [Seeds -> SUBSET Addrs]
    BY <2>1 DEF TypeOK
  <2>3. /\ cancelling' \in [Seeds -> Checkers \cup {NoChecker}]
        /\ hcCancel' \in [Addrs -> Checkers \cup {NoChecker}]
    BY <2>1, <2>2 DEF TypeOK
  <2>4. /\ rpc' \in [Seeds -> ResolverPc]
        /\ \A t \in Seeds : t # s => rpc'[t] = rpc[t]
        /\ rpc'[s] = "cancel" => hcCancel[a] # NoChecker
    <3>1. CASE hcCancel[a] # NoChecker
      BY <2>1, <3>1 DEF Goto, TypeOK, ResolverPc
    <3>2. CASE hcCancel[a] = NoChecker
      BY <2>1, <3>2, RemainingType
    <3> QED BY <3>1, <3>2
  <2>5. \A t \in Seeds : rpc'[t] = "cancel" => cancelling'[t] \in Checkers
    BY <2>1, <2>2, <2>4 DEF TypeOK
  <2>6. UNCHANGED <<endpoints, resolvedBySeed, found, toAdd, checkerVars, envVars>>
    BY <1>6 DEF StopOne
  <2> QED BY <2>2, <2>3, <2>4, <2>5, <2>6 DEF TypeOK, checkerVars, envVars
<1>7. CASE CancelOne(s)
  <2>1. Remaining(s, {}, toRemove[s])
    BY <1>7 DEF CancelOne
  <2>2. /\ cancelled' \in [Checkers -> BOOLEAN]
        /\ cancelling' \in [Seeds -> Checkers \cup {NoChecker}]
        /\ \A t \in Seeds : t # s => cancelling'[t] = cancelling[t]
    BY <1>7 DEF CancelOne, TypeOK
  <2>3. UNCHANGED <<sharedVars, found, toAdd, toRemove, cpc, target, envVars>>
    BY <1>7 DEF CancelOne
  <2> QED BY <2>1, <2>2, <2>3, RemainingType DEF TypeOK, sharedVars, envVars
<1>8. CASE Refresh(s)
  BY <1>8 DEF Refresh, At, Goto, TypeOK, ResolverPc, sharedVars, checkerVars, envVars
<1>9. CASE ResolverExit(s)
  BY <1>9 DEF ResolverExit, At, Goto, TypeOK, ResolverPc, sharedVars, checkerVars, envVars
<1> QED BY <1>1, <1>2, <1>3, <1>4, <1>5, <1>6, <1>7, <1>8, <1>9 DEF ResolverStep

\* A step of a checker changes where it is, and nothing else.
LEMMA CheckerEffect ==
  ASSUME TypeOK, NEW k \in Checkers, CheckerStep(k)
  PROVE  /\ cpc' \in [Checkers -> CheckerPc]
         /\ \A j \in Checkers : j # k => cpc'[j] = cpc[j]
         /\ cpc[k] # "off"
         /\ cpc'[k] = "off" => cancelled[k] \/ ctxDone
         /\ UNCHANGED <<sharedVars, resolverVars, target, cancelled, envVars>>
BY DEF CheckerStep, Interval, Record, CheckerExit, TypeOK, CheckerPc

\* The steps of the environment change nothing that the goroutines own.
LEMMA EnvEffect ==
  ASSUME TypeOK, (\E s \in Seeds : DnsChange(s)) \/ Shutdown \/ Done \/ UNCHANGED vars
  PROVE  /\ dns' \in [Seeds -> SUBSET Addrs]
         /\ changes' \in 0 .. MaxChanges
         /\ ctxDone' \in BOOLEAN
         /\ ctxDone => ctxDone'
         /\ UNCHANGED <<sharedVars, resolverVars, checkerVars>>
<1>1. ASSUME NEW s \in Seeds, DnsChange(s)
      PROVE  dns' \in [Seeds -> SUBSET Addrs] /\ changes' \in 0 .. MaxChanges
  <2>1. PICK answer \in Answers[s] : dns' = [dns EXCEPT ![s] = answer]
    BY <1>1 DEF DnsChange
  <2>2. answer \in SUBSET Addrs
    BY AnswersAssumption
  <2> QED BY <1>1, <2>1, <2>2, MaxChangesAssumption DEF DnsChange, TypeOK
<1> QED BY <1>1 DEF DnsChange, Shutdown, Done, vars, envVars, TypeOK

\* Every step keeps the types.
LEMMA TypeStep == TypeOK /\ [Next]_vars => TypeOK'
<1> SUFFICES ASSUME TypeOK, [Next]_vars PROVE TypeOK'
  OBVIOUS
<1>1. CASE \E s \in Seeds : ResolverStep(s)
  BY <1>1, ResolverType
<1>2. CASE \E k \in Checkers : CheckerStep(k)
  BY <1>2, CheckerEffect DEF TypeOK, sharedVars, resolverVars, envVars
<1>3. CASE (\E s \in Seeds : DnsChange(s)) \/ Shutdown \/ Done \/ UNCHANGED vars
  BY <1>3, EnvEffect DEF TypeOK, sharedVars, resolverVars, checkerVars
<1> QED BY <1>1, <1>2, <1>3 DEF Next

(* Every state of discovery is well typed, and stopHealthCheck calls no    *)
(* cancel function that it has not found, for any seeds and addresses.     *)
THEOREM DiscoveryTypeCorrect == Spec => []TypeOK
BY InitTypeOK, TypeStep, PTL DEF Spec
-----------------------------------------------------------------------------
(* The static seeds.                                                       *)

\* Every step keeps the static seeds.
LEMMA SeedsStep == TypeOK /\ SeedsInv /\ [Next]_vars => SeedsInv'
<1> SUFFICES ASSUME TypeOK, SeedsInv, [Next]_vars PROVE SeedsInv'
  OBVIOUS
<1> USE DEF SeedsInv, StaticSeedsKept
<1>1. ASSUME NEW s \in Seeds, ResolverStep(s) PROVE SeedsInv'
  <2>1. CASE Store(s)
    <3>1. StaticSeeds \subseteq found'[s] /\ UNCHANGED endpoints
      BY <2>1 DEF Store, Effective, TypeOK
    <3>2. \A t \in Seeds : t # s => rpc'[t] = rpc[t] /\ found'[t] = found[t]
      BY <2>1 DEF Store, Goto, TypeOK
    <3> QED BY <3>1, <3>2
  <2>2. CASE Apply(s)
    <3>1. endpoints' = found[s] /\ rpc[s] = "apply"
      BY <2>2 DEF Apply, At
    <3>2. /\ rpc'[s] # "apply"
          /\ \A t \in Seeds : t # s => rpc'[t] = rpc[t] /\ found'[t] = found[t]
      BY <2>2, RemainingType DEF Apply, TypeOK
    <3> QED BY <3>1, <3>2
  <2>3. CASE StartOne(s) \/ CancelOne(s)
    <3>1. PICK add, remove : Remaining(s, add, remove)
      BY <2>3 DEF StartOne, CancelOne
    <3>2. UNCHANGED <<endpoints, found>>
      BY <2>3 DEF StartOne, CancelOne, sharedVars
    <3> QED BY <3>1, <3>2, RemainingType
  <2>4. CASE StopOne(s)
    <3>1. (\E remove : Remaining(s, {}, remove)) \/ Goto(s, "cancel")
      BY <2>4 DEF StopOne
    <3>2. \A t \in Seeds : rpc'[t] = "apply" => rpc[t] = "apply"
      BY <3>1, RemainingType DEF Goto, TypeOK
    <3> QED BY <2>4, <3>2 DEF StopOne
  <2>5. CASE LookupOk(s)
    <3>1. \A t \in Seeds : rpc'[t] = "apply" => rpc[t] = "apply" /\ found'[t] = found[t]
      BY <2>5 DEF LookupOk, Goto, TypeOK
    <3> QED BY <2>5, <3>1 DEF LookupOk, sharedVars
  <2>6. CASE LookupFail(s) \/ Refresh(s) \/ ResolverExit(s)
    BY <2>6 DEF LookupFail, Refresh, ResolverExit, Goto, sharedVars, TypeOK
  <2> QED BY <1>1, <2>1, <2>2, <2>3, <2>4, <2>5, <2>6 DEF ResolverStep
<1>2. CASE \E k \in Checkers : CheckerStep(k)
  BY <1>2, CheckerEffect DEF sharedVars, resolverVars
<1>3. CASE (\E s \in Seeds : DnsChange(s)) \/ Shutdown \/ Done \/ UNCHANGED vars
  BY <1>3, EnvEffect DEF sharedVars, resolverVars
<1> QED BY <1>1, <1>2, <1>3 DEF Next

(* Whatever the resolvers store and apply, in whatever order, the static   *)
(* seeds stay in the slice that Pick chooses from.                         *)
THEOREM SeedsKept == Spec => []StaticSeedsKept
<1>1. Init => SeedsInv
  BY DEF Init, SeedsInv, StaticSeedsKept
<1>2. SeedsInv => StaticSeedsKept
  BY DEF SeedsInv
<1> QED BY <1>1, <1>2, SeedsStep, DiscoveryTypeCorrect, PTL DEF Spec
-----------------------------------------------------------------------------
(* The health-check goroutines.                                            *)

\* At the start the checkers are those of the seeds, each with its own cancel.
LEMMA CheckersInit == Init => CheckersInv
<1> SUFFICES ASSUME Init PROVE CheckersInv
  OBVIOUS
<1>1. hcCancel \in [Addrs -> Checkers \cup {NoChecker}]
  BY InitTypeOK DEF TypeOK
<1>2. \A a \in Addrs : hcCancel[a] # NoChecker => target[hcCancel[a]] = a
  BY InitTargets
<1>3. \A k \in Checkers :
        cpc[k] = (IF \E a \in Addrs : hcCancel[a] = k THEN "select" ELSE "off") /\ ~cancelled[k]
  BY DEF Init
<1>4. ASSUME NEW k \in Checkers, cpc[k] # "off" PROVE hcCancel[target[k]] = k
  <2>1. PICK a \in Addrs : hcCancel[a] = k
    BY <1>3, <1>4
  <2> QED BY <1>2, <2>1, NoCheckerAssumption
<1>5. CheckersOwned
  BY <1>1, <1>2, <1>3, <1>4, NoCheckerAssumption DEF CheckersOwned
<1>6. HandedOver
  BY DEF Init, HandedOver
<1> QED BY <1>5, <1>6 DEF CheckersInv

\* Nothing changes hands when no entry, no taken cancel function and no state
\* of a checker changes, and no resolver arrives at "cancel" or leaves it.
LEMMA CheckersFrame ==
  ASSUME CheckersInv, UNCHANGED <<hcCancel, cancelling, cpc, target, cancelled>>,
         ctxDone => ctxDone',
         \A s \in Seeds : rpc'[s] = "cancel" <=> rpc[s] = "cancel"
  PROVE  CheckersInv'
BY DEF CheckersInv, CheckersOwned, HandedOver

\* A checker is registered for an address that had none.
LEMMA RegisterKeeps ==
  ASSUME TypeOK, CheckersInv, NEW a \in Addrs, hcCancel[a] = NoChecker, Register(a),
         UNCHANGED <<cancelling, ctxDone>>,
         \A s \in Seeds : rpc'[s] = "cancel" <=> rpc[s] = "cancel"
  PROVE  CheckersInv'
<1>1. PICK k \in Checkers :
         /\ Free(k)
         /\ hcCancel' = [hcCancel EXCEPT ![a] = k]
         /\ cpc' = [cpc EXCEPT ![k] = "select"]
         /\ target' = [target EXCEPT ![k] = a]
         /\ cancelled' = [cancelled EXCEPT ![k] = FALSE]
  BY RegisterChooses
<1>2. /\ hcCancel'[a] = k /\ target'[k] = a /\ cpc'[k] = "select" /\ ~cancelled'[k]
      /\ \A b \in Addrs : b # a => hcCancel'[b] = hcCancel[b]
      /\ \A j \in Checkers : j # k =>
           cpc'[j] = cpc[j] /\ target'[j] = target[j] /\ cancelled'[j] = cancelled[j]
  BY <1>1 DEF TypeOK
<1>3. (\A b \in Addrs : hcCancel[b] # k) /\ \A s \in Seeds : cancelling[s] # k
  BY <1>1 DEF Free
<1>4. ASSUME NEW j \in Checkers, cpc'[j] # "off", ~cancelled'[j]
      PROVE  hcCancel'[target'[j]] = j \/ \E s \in Seeds : rpc'[s] = "cancel" /\ cancelling'[s] = j
  <2>1. CASE j = k
    BY <1>2, <2>1
  <2>2. CASE j # k
    <3>1. hcCancel[target[j]] = j \/ \E s \in Seeds : rpc[s] = "cancel" /\ cancelling[s] = j
      BY <1>2, <1>4, <2>2 DEF CheckersInv, CheckersOwned
    <3>2. hcCancel[target[j]] = j => target[j] # a
      BY NoCheckerAssumption
    <3> QED BY <1>2, <2>2, <3>1, <3>2 DEF TypeOK
  <2> QED BY <2>1, <2>2
<1>5. ASSUME NEW b \in Addrs, hcCancel'[b] # NoChecker
      PROVE  /\ target'[hcCancel'[b]] = b /\ ~cancelled'[hcCancel'[b]]
             /\ cpc'[hcCancel'[b]] = "off" => ctxDone'
  <2>1. CASE b = a
    BY <1>2, <2>1
  <2>2. CASE b # a
    <3>1. hcCancel'[b] = hcCancel[b] /\ hcCancel[b] \in Checkers /\ hcCancel[b] # k
      BY <1>2, <1>3, <1>5, <2>2 DEF TypeOK
    <3> QED BY <1>2, <1>5, <3>1 DEF CheckersInv, CheckersOwned
  <2> QED BY <2>1, <2>2
<1>6. HandedOver'
  BY <1>2, <1>3 DEF CheckersInv, HandedOver
<1> QED BY <1>4, <1>5, <1>6 DEF CheckersInv, CheckersOwned

\* stopHealthCheck takes the cancel function out of the map; the checker goes
\* from the map into the hands of the resolver.
LEMMA StopKeeps ==
  ASSUME TypeOK, CheckersInv, NEW s \in Seeds, StopOne(s)
  PROVE  CheckersInv'
<1>1. PICK a \in toRemove[s] :
        /\ cancelling' = [cancelling EXCEPT ![s] = hcCancel[a]]
        /\ hcCancel' = [hcCancel EXCEPT ![a] = NoChecker]
        /\ IF hcCancel[a] # NoChecker
             THEN Goto(s, "cancel") ELSE Remaining(s, {}, toRemove[s] \ {a})
  BY DEF StopOne
<1>2. rpc[s] = "stop" /\ UNCHANGED <<cpc, target, cancelled, ctxDone>> /\ a \in Addrs
  BY <1>1 DEF StopOne, At, checkerVars, envVars, TypeOK
<1>3. /\ hcCancel'[a] = NoChecker /\ cancelling'[s] = hcCancel[a]
      /\ \A b \in Addrs : b # a => hcCancel'[b] = hcCancel[b]
      /\ \A t \in Seeds : t # s => cancelling'[t] = cancelling[t]
  BY <1>1, <1>2 DEF TypeOK
<1>4. /\ rpc'[s] = "cancel" <=> hcCancel[a] # NoChecker
      /\ \A t \in Seeds : t # s => rpc'[t] = rpc[t]
  <2>1. CASE hcCancel[a] # NoChecker
    BY <1>1, <2>1 DEF Goto, TypeOK
  <2>2. CASE hcCancel[a] = NoChecker
    BY <1>1, <2>2, RemainingType
  <2> QED BY <2>1, <2>2
<1>5. \A b \in Addrs : hcCancel[b] = hcCancel[a] /\ hcCancel[a] # NoChecker => b = a
  BY <1>2 DEF CheckersInv, CheckersOwned
<1>6. ASSUME NEW k \in Checkers, cpc[k] # "off", ~cancelled[k]
      PROVE  hcCancel'[target[k]] = k \/ \E t \in Seeds : rpc'[t] = "cancel" /\ cancelling'[t] = k
  <2>1. CASE hcCancel[target[k]] = k /\ target[k] = a
    BY <1>3, <1>4, <2>1, NoCheckerAssumption
  <2>2. CASE hcCancel[target[k]] = k /\ target[k] # a
    BY <1>3, <2>2 DEF TypeOK
  <2>3. CASE \E t \in Seeds : rpc[t] = "cancel" /\ cancelling[t] = k
    BY <1>2, <1>3, <1>4, <2>3
  <2> QED BY <1>6, <2>1, <2>2, <2>3 DEF CheckersInv, CheckersOwned
<1>7. ASSUME NEW b \in Addrs, hcCancel'[b] # NoChecker
      PROVE  /\ target[hcCancel'[b]] = b /\ ~cancelled[hcCancel'[b]]
             /\ cpc[hcCancel'[b]] = "off" => ctxDone
  BY <1>3, <1>7 DEF CheckersInv, CheckersOwned
<1>8. HandedOver'
  <2> SUFFICES ASSUME NEW t \in Seeds, rpc'[t] = "cancel"
               PROVE  /\ \A b \in Addrs : hcCancel'[b] # cancelling'[t]
                      /\ \A u \in Seeds : rpc'[u] = "cancel" /\ cancelling'[u] = cancelling'[t] => u = t
    BY DEF HandedOver
  <2>1. cancelling'[t] \in Checkers
    BY <1>2, <1>3, <1>4 DEF TypeOK
  <2>2. CASE t = s
    BY <1>2, <1>3, <1>4, <1>5, <2>1, <2>2, NoCheckerAssumption DEF CheckersInv, HandedOver
  <2>3. CASE t # s
    BY <1>2, <1>3, <1>4, <2>1, <2>3, NoCheckerAssumption DEF CheckersInv, HandedOver
  <2> QED BY <2>2, <2>3
<1> QED BY <1>2, <1>6, <1>7, <1>8 DEF CheckersInv, CheckersOwned

\* The cancel function is called: the checker is nobody's, and will end.
LEMMA CancelKeeps ==
  ASSUME TypeOK, CheckersInv, NEW s \in Seeds, CancelOne(s)
  PROVE  CheckersInv'
<1> DEFINE k == cancelling[s]
<1>1. rpc[s] = "cancel" /\ k \in Checkers /\ UNCHANGED <<hcCancel, cpc, target, ctxDone>>
  BY DEF CancelOne, At, sharedVars, envVars, TypeOK
<1>2. /\ cancelled'[k] /\ \A j \in Checkers : j # k => cancelled'[j] = cancelled[j]
      /\ \A t \in Seeds : t # s => cancelling'[t] = cancelling[t]
  BY <1>1 DEF CancelOne, TypeOK
<1>3. rpc'[s] # "cancel" /\ \A t \in Seeds : t # s => rpc'[t] = rpc[t]
  BY RemainingType DEF CancelOne
<1>4. \A a \in Addrs : hcCancel[a] # k
  BY <1>1 DEF CheckersInv, HandedOver
<1>5. CheckersOwned'
  BY <1>1, <1>2, <1>3, <1>4 DEF CheckersInv, CheckersOwned, TypeOK
<1>6. HandedOver'
  BY <1>1, <1>2, <1>3 DEF CheckersInv, HandedOver
<1> QED BY <1>5, <1>6 DEF CheckersInv

\* Every step keeps the ownership of the checkers.
LEMMA CheckersStep == TypeOK /\ CheckersInv /\ [Next]_vars => CheckersInv'
<1> SUFFICES ASSUME TypeOK, CheckersInv, [Next]_vars PROVE CheckersInv'
  OBVIOUS
<1>1. ASSUME NEW s \in Seeds, ResolverStep(s) PROVE CheckersInv'
  <2>1. CASE StartOne(s)
    <3>1. PICK a \in toAdd[s] :
            startHealthCheck(a) /\ Remaining(s, toAdd[s] \ {a}, toRemove[s])
      BY <2>1 DEF StartOne
    <3>2. rpc[s] = "start" /\ UNCHANGED <<cancelling, ctxDone>> /\ a \in Addrs
      BY <2>1, <3>1 DEF StartOne, At, envVars, TypeOK
    <3>3. \A t \in Seeds : rpc'[t] = "cancel" <=> rpc[t] = "cancel"
      BY <3>1, <3>2, RemainingType
    <3>4. CASE hcCancel[a] # NoChecker
      BY <3>1, <3>2, <3>3, <3>4, CheckersFrame DEF startHealthCheck, checkerVars
    <3>5. CASE hcCancel[a] = NoChecker
      BY <3>1, <3>2, <3>3, <3>5, RegisterKeeps DEF startHealthCheck
    <3> QED BY <3>4, <3>5
  <2>2. CASE StopOne(s)
    BY <2>2, StopKeeps
  <2>3. CASE CancelOne(s)
    BY <2>3, CancelKeeps
  <2>4. CASE Apply(s)
    <3>1. \A t \in Seeds : rpc'[t] = "cancel" <=> rpc[t] = "cancel"
      BY <2>4, RemainingType DEF Apply, At
    <3> QED BY <2>4, <3>1, CheckersFrame DEF Apply, checkerVars, envVars
  <2>5. CASE LookupOk(s) \/ LookupFail(s) \/ Store(s) \/ Refresh(s) \/ ResolverExit(s)
    <3>1. \A t \in Seeds : rpc'[t] = "cancel" <=> rpc[t] = "cancel"
      BY <2>5 DEF LookupOk, LookupFail, Store, Refresh, ResolverExit, At, Goto, TypeOK
    <3>2. UNCHANGED <<hcCancel, cancelling, cpc, target, cancelled, ctxDone>>
      BY <2>5 DEF LookupOk, LookupFail, Store, Refresh, ResolverExit, sharedVars, checkerVars, envVars
    <3> QED BY <3>1, <3>2, CheckersFrame
  <2> QED BY <1>1, <2>1, <2>2, <2>3, <2>4, <2>5 DEF ResolverStep
<1>2. ASSUME NEW k \in Checkers, CheckerStep(k) PROVE CheckersInv'
  <2>1. /\ cpc[k] # "off" /\ (cpc'[k] = "off" => cancelled[k] \/ ctxDone)
        /\ \A j \in Checkers : j # k => cpc'[j] = cpc[j]
        /\ UNCHANGED <<hcCancel, rpc, cancelling, target, cancelled, ctxDone>>
    BY <1>2, CheckerEffect DEF sharedVars, resolverVars, envVars
  <2>2. \A a \in Addrs : hcCancel[a] # NoChecker => hcCancel[a] \in Checkers
    BY DEF TypeOK
  <2>3. CheckersOwned'
    BY <2>1, <2>2 DEF CheckersInv, CheckersOwned
  <2> QED BY <2>1, <2>3 DEF CheckersInv, HandedOver
<1>3. CASE (\E s \in Seeds : DnsChange(s)) \/ Shutdown \/ Done \/ UNCHANGED vars
  BY <1>3, EnvEffect, CheckersFrame DEF sharedVars, resolverVars, checkerVars
<1> QED BY <1>1, <1>2, <1>3 DEF Next

(* However the starts and stops of the resolvers interleave, no checker    *)
(* goroutine with a live context is lost: it is registered for its address *)
(* or in the hands of one resolver; and every entry of hcCancel is a live  *)
(* checker of that address.                                                *)
THEOREM NoCheckerLost == Spec => []CheckersOwned
<1>1. CheckersInv => CheckersOwned
  BY DEF CheckersInv
<1> QED BY <1>1, CheckersInit, CheckersStep, DiscoveryTypeCorrect, PTL DEF Spec
=============================================================================
