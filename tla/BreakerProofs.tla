--------------------------- MODULE BreakerProofs ---------------------------
(* The circuit breaker of UpstreamProxy: its counter is exact, its limits   *)
(* hold, and it implements Admission.  The thirty actions do one of eight   *)
(* things to the breaker; the proofs go by those eight.                     *)
EXTENDS UpstreamProxyProofs

IsAdmitted(r) == pc[r] \in AdmittedPc
IsOvershooting(r) == pc[r] \in OvershootPc
IsWaiting(r) == pc[r] \in WaitingPc

\* Nothing the breaker can see.
Quiet(r) ==
  /\ IsAdmitted(r)' <=> IsAdmitted(r)
  /\ IsOvershooting(r)' <=> IsOvershooting(r)
  /\ IsWaiting(r)' <=> IsWaiting(r)
  /\ UNCHANGED <<inflight, leaked, pending>>

\* TryAcquire returns true, inside or outside the pending queue.
Granted(r) ==
  /\ ~IsAdmitted(r) /\ ~IsOvershooting(r) /\ IsAdmitted(r)' /\ ~IsOvershooting(r)'
  /\ IsWaiting(r)' <=> IsWaiting(r)
  /\ Admits
  /\ inflight' = inflight + 1
  /\ UNCHANGED <<leaked, pending>>

\* TryAcquire has added and will return false.
Denied(r) ==
  /\ ~IsAdmitted(r) /\ ~IsOvershooting(r) /\ ~IsAdmitted(r)' /\ IsOvershooting(r)'
  /\ IsWaiting(r)' <=> IsWaiting(r)
  /\ ~Admits
  /\ inflight' = inflight + 1
  /\ UNCHANGED <<leaked, pending>>

RolledBack(r) ==
  /\ ~IsAdmitted(r) /\ IsOvershooting(r) /\ ~IsAdmitted(r)' /\ ~IsOvershooting(r)'
  /\ IsWaiting(r)' <=> IsWaiting(r)
  /\ inflight' = inflight - 1
  /\ UNCHANGED <<leaked, pending>>

GaveBack(r) ==
  /\ IsAdmitted(r) /\ ~IsOvershooting(r) /\ ~IsAdmitted(r)' /\ ~IsOvershooting(r)'
  /\ ~IsWaiting(r) /\ ~IsWaiting(r)'
  /\ ReleaseSlot
  /\ UNCHANGED <<leaked, pending>>

\* OnRequest goes on or returns without its slot; from the queue it takes its token along.
Lost(r) ==
  /\ IsAdmitted(r) /\ ~IsOvershooting(r) /\ ~IsAdmitted(r)' /\ ~IsOvershooting(r)'
  /\ ~IsWaiting(r)'
  /\ IF IsWaiting(r) THEN pending' = [pending EXCEPT ![ProxyOf[r]] = @ - 1]
                     ELSE UNCHANGED pending
  /\ leaked' = leaked + 1
  /\ UNCHANGED inflight

Entered(r) ==
  /\ ~IsAdmitted(r) /\ ~IsOvershooting(r) /\ ~IsAdmitted(r)' /\ ~IsOvershooting(r)'
  /\ ~IsWaiting(r) /\ IsWaiting(r)'
  /\ pending[ProxyOf[r]] < MaxPending
  /\ pending' = [pending EXCEPT ![ProxyOf[r]] = @ + 1]
  /\ UNCHANGED <<inflight, leaked>>

Left(r) ==
  /\ IsAdmitted(r)' <=> IsAdmitted(r)
  /\ ~IsOvershooting(r) /\ ~IsOvershooting(r)'
  /\ IsWaiting(r) /\ ~IsWaiting(r)'
  /\ pending' = [pending EXCEPT ![ProxyOf[r]] = @ - 1]
  /\ UNCHANGED <<inflight, leaked>>

Effect(r) ==
  /\ pc' = [pc EXCEPT ![r] = pc'[r]]
  /\ \/ Quiet(r) \/ Granted(r) \/ Denied(r) \/ RolledBack(r)
     \/ GaveBack(r) \/ Lost(r) \/ Entered(r) \/ Left(r)

\* Every step of a goroutine in OnRequest has one of the effects above on the breaker.
LEMMA StepEffect ==
  ASSUME TypeOK, NEW r \in Requests,
         Arrive(r) \/ Step(r) \/ Expire(r) \/ Cancel(r)
  PROVE  Effect(r)
<1> USE DEF At, Goto, TypeOK, localVars, ghostVars, clusterVars, Effect,
            IsAdmitted, IsOvershooting, IsWaiting, AdmittedPc, OvershootPc, WaitingPc
<1>1. CASE Arrive(r)
  BY <1>1 DEF Arrive, Quiet
<1>2. CASE Acquire(r)
  BY <1>2 DEF Acquire, AddInflight, Granted, Denied
<1>3. CASE AcquireRollback(r)
  BY <1>3 DEF AcquireRollback, RollBack, RolledBack
<1>4. CASE Enqueue(r)
  BY <1>4 DEF Enqueue, Finish, Entered, Quiet
<1>5. CASE Poll(r)
  BY <1>5 DEF Poll, AddInflight, Granted, Denied
<1>6. CASE PollRollback(r)
  BY <1>6 DEF PollRollback, RollBack, RolledBack
<1>7. CASE PollTick(r)
  BY <1>7 DEF PollTick, Quiet
<1>8. CASE PollDrop(r)
  BY <1>8 DEF PollDrop, Finish, Left
<1>9. CASE Dequeue(r)
  BY <1>9 DEF Dequeue, NextAttempt, Finish, Left, Lost
<1>10. CASE PickEmpty(r)
  BY <1>10 DEF PickEmpty, Finish, Lost
<1>11. CASE PickStart(r)
  BY <1>11 DEF PickStart, StartScan, Quiet
<1>12. CASE PickAvailable(r)
  BY <1>12 DEF PickAvailable, AfterScan, Quiet
<1>13. CASE PickLoad(r)
  BY <1>13 DEF PickLoad, Quiet
<1>14. CASE PickCap(r)
  BY <1>14 DEF PickCap, Picked, AfterScan, Quiet
<1>15. CASE PickCandidate(r)
  BY <1>15 DEF PickCandidate, Picked, Quiet
<1>16. CASE PickFallThrough(r)
  BY <1>16 DEF PickFallThrough, Quiet
<1>17. CASE PickUnhealthy(r)
  BY <1>17 DEF PickUnhealthy, Picked, Quiet
<1>18. CASE PickNoCapacity(r)
  BY <1>18 DEF PickNoCapacity, Quiet
<1>19. CASE NoCapacityRelease(r)
  BY <1>19 DEF NoCapacityRelease, GaveBack
<1>20. CASE Inc(r)
  BY <1>20 DEF Inc, Finish, Lost, Quiet
<1>21. CASE DoResponse(r)
  BY <1>21 DEF DoResponse, Quiet
<1>22. CASE DoError(r)
  BY <1>22 DEF DoError, Quiet
<1>23. CASE Write(r)
  BY <1>23 DEF Write, Quiet
<1>24. CASE Report(r)
  BY <1>24 DEF Report, Quiet
<1>25. CASE Dec(r)
  BY <1>25 DEF Dec, Quiet
<1>26. CASE Release(r)
  BY <1>26 DEF Release, GaveBack
<1>27. CASE BackoffTimer(r)
  BY <1>27 DEF BackoffTimer, NextAttempt, Finish, Quiet
<1>28. CASE BackoffCut(r)
  BY <1>28 DEF BackoffCut, Finish, Quiet
<1>29. CASE Expire(r)
  BY <1>29 DEF Expire, Quiet
<1>30. CASE Cancel(r)
  BY <1>30 DEF Cancel, Quiet
<1> QED
  BY <1>1, <1>2, <1>3, <1>4, <1>5, <1>6, <1>7, <1>8, <1>9, <1>10, <1>11, <1>12, <1>13, <1>14, <1>15, <1>16, <1>17, <1>18, <1>19, <1>20, <1>21, <1>22, <1>23, <1>24, <1>25, <1>26, <1>27, <1>28, <1>29, <1>30 DEF Step

----------------------------------------------------------------------------
(* Counting.                                                               *)

Bit(b) == IF b THEN 1 ELSE 0

\* What moving one goroutine does to the number of admitted and of overshooting requests.
LEMMA MoveCounts ==
  ASSUME TypeOK, NEW r \in Requests, pc' = [pc EXCEPT ![r] = pc'[r]]
  PROVE  /\ Cardinality(Admitted) \in Nat
         /\ Cardinality(Overshooting) \in Nat
         /\ IsAdmitted(r) => Cardinality(Admitted) >= 1
         /\ IsOvershooting(r) => Cardinality(Overshooting) >= 1
         /\ Cardinality(Admitted') =
              Cardinality(Admitted) + Bit(IsAdmitted(r)') - Bit(IsAdmitted(r))
         /\ Cardinality(Overshooting') =
              Cardinality(Overshooting) + Bit(IsOvershooting(r)') - Bit(IsOvershooting(r))
<1>1. IsFiniteSet(Requests) /\ \A q \in Requests : q # r => pc'[q] = pc[q]
  BY RequestsAssumption DEF TypeOK
<1>2. /\ Admitted \subseteq Requests /\ Admitted' \subseteq Requests
      /\ \A q \in Requests : q # r => (q \in Admitted <=> q \in Admitted')
      /\ r \in Admitted <=> IsAdmitted(r)
      /\ r \in Admitted' <=> IsAdmitted(r)'
  BY <1>1 DEF Admitted, IsAdmitted
<1>3. /\ Overshooting \subseteq Requests /\ Overshooting' \subseteq Requests
      /\ \A q \in Requests : q # r => (q \in Overshooting <=> q \in Overshooting')
      /\ r \in Overshooting <=> IsOvershooting(r)
      /\ r \in Overshooting' <=> IsOvershooting(r)'
  BY <1>1 DEF Overshooting, IsOvershooting
<1>4. /\ Cardinality(Admitted) \in Nat
      /\ IsAdmitted(r) => Cardinality(Admitted) >= 1
      /\ Cardinality(Admitted') =
           Cardinality(Admitted) + Bit(IsAdmitted(r)') - Bit(IsAdmitted(r))
  BY <1>1, <1>2, CountMove DEF Bit
<1>5. /\ Cardinality(Overshooting) \in Nat
      /\ IsOvershooting(r) => Cardinality(Overshooting) >= 1
      /\ Cardinality(Overshooting') =
           Cardinality(Overshooting) + Bit(IsOvershooting(r)') - Bit(IsOvershooting(r))
  BY <1>1, <1>3, CountMove DEF Bit
<1> QED BY <1>4, <1>5

\* The same for the requests waiting in a queue.
LEMMA MoveWaiting ==
  ASSUME TypeOK, NEW r \in Requests, pc' = [pc EXCEPT ![r] = pc'[r]], NEW p \in Proxies
  PROVE  /\ Cardinality(Waiting(p)) \in Nat
         /\ p # ProxyOf[r] => Waiting(p)' = Waiting(p)
         /\ p = ProxyOf[r] =>
              /\ IsWaiting(r) => Cardinality(Waiting(p)) >= 1
              /\ Cardinality(Waiting(p)') =
                   Cardinality(Waiting(p)) + Bit(IsWaiting(r)') - Bit(IsWaiting(r))
<1>1. IsFiniteSet(Requests) /\ \A q \in Requests : q # r => pc'[q] = pc[q]
  BY RequestsAssumption DEF TypeOK
<1>2. /\ Waiting(p) \subseteq Requests /\ Waiting(p)' \subseteq Requests
      /\ \A q \in Requests : q # r => (q \in Waiting(p) <=> q \in Waiting(p)')
      /\ r \in Waiting(p) <=> IsWaiting(r) /\ p = ProxyOf[r]
      /\ r \in Waiting(p)' <=> IsWaiting(r)' /\ p = ProxyOf[r]
  BY <1>1 DEF Waiting, IsWaiting
<1>3. /\ Cardinality(Waiting(p)) \in Nat
      /\ r \in Waiting(p) => Cardinality(Waiting(p)) >= 1
      /\ Cardinality(Waiting(p)') =
           Cardinality(Waiting(p)) + Bit(r \in Waiting(p)') - Bit(r \in Waiting(p))
  BY <1>1, <1>2, CountMove DEF Bit
<1>4. p # ProxyOf[r] => Waiting(p)' = Waiting(p)
  BY <1>2
<1> QED BY <1>2, <1>3, <1>4 DEF Bit

----------------------------------------------------------------------------
(* The invariants of the breaker.                                          *)

BreakerInv == SlotAccounting /\ ClusterCap /\ PendingAccounting

\* NewManager and NewUpstreamProxy leave all counters at zero.
LEMMA BreakerInit == Init => BreakerInv
<1> SUFFICES ASSUME Init PROVE BreakerInv
  OBVIOUS
<1>1. Admitted = {} /\ Overshooting = {} /\ \A p \in Proxies : Waiting(p) = {}
  BY DEF Init, Admitted, Overshooting, Waiting, AdmittedPc, OvershootPc, WaitingPc
<1> QED
  BY <1>1, FS_EmptySet, LimitsAssumption, BoundsAssumption
     DEF Init, NewManager, BreakerInv, SlotAccounting, ClusterCap, PendingAccounting

\* No effect disturbs the accounts of the slots and of the pending channels, or a limit.
LEMMA BreakerStep ==
  ASSUME TypeOK, BreakerInv, NEW r \in Requests, Effect(r)
  PROVE  BreakerInv'
<1>1. pc' = [pc EXCEPT ![r] = pc'[r]]
  BY DEF Effect
<1>2. inflight \in Int /\ leaked \in Nat /\ CbMaxReqs \in Nat
  BY LimitsAssumption DEF TypeOK, ClusterTypeOK
<1>3. SlotAccounting'
  BY <1>1, <1>2, MoveCounts
     DEF Effect, Quiet, Granted, Denied, RolledBack, GaveBack, Lost, Entered, Left,
         Bit, ReleaseSlot, BreakerInv, SlotAccounting
<1>4. ClusterCap'
  BY <1>1, <1>2, MoveCounts
     DEF Effect, Quiet, Granted, Denied, RolledBack, GaveBack, Lost, Entered, Left,
         Bit, Admits, BreakerInv, SlotAccounting, ClusterCap
<1>5. PendingAccounting'
  <2> SUFFICES ASSUME NEW p \in Proxies
               PROVE  pending'[p] = Cardinality(Waiting(p)') /\ pending'[p] <= MaxPending
    BY DEF PendingAccounting
  <2>1. pending[p] = Cardinality(Waiting(p)) /\ pending[p] <= MaxPending
    BY DEF BreakerInv, PendingAccounting
  <2>2. ProxyOf[r] \in Proxies /\ pending \in [Proxies -> Int] /\ MaxPending \in Nat
    BY ProxyAssumption, BoundsAssumption DEF TypeOK
  <2>3. CASE p # ProxyOf[r]
    BY <1>1, <2>1, <2>2, <2>3, MoveWaiting
       DEF Effect, Quiet, Granted, Denied, RolledBack, GaveBack, Lost, Entered, Left
  <2>4. CASE p = ProxyOf[r]
    BY <1>1, <2>1, <2>2, <2>4, MoveWaiting
       DEF Effect, Quiet, Granted, Denied, RolledBack, GaveBack, Lost, Entered, Left, Bit
  <2> QED BY <2>3, <2>4
<1> QED BY <1>3, <1>4, <1>5 DEF BreakerInv

\* The accounts only read the positions of the goroutines and the counters.
LEMMA BreakerFrame ==
  ASSUME BreakerInv, UNCHANGED <<pc, inflight, leaked, pending>>
  PROVE  BreakerInv'
  BY DEF BreakerInv, SlotAccounting, ClusterCap, PendingAccounting,
         Admitted, Overshooting, Waiting

\* The accounts and the limits survive every step of a request, of the environment, and a stutter.
LEMMA BreakerInductive ==
  ASSUME TypeOK, BreakerInv, [Next]_vars
  PROVE  BreakerInv'
<1>1. CASE RequestNext
  BY <1>1, StepEffect, BreakerStep DEF RequestNext
<1>2. CASE EnvNext
  BY <1>2, EnvType, BreakerFrame DEF proxyVars, ghostVars
<1>3. CASE UNCHANGED vars
  BY <1>3, BreakerFrame DEF vars, clusterVars, proxyVars, ghostVars
<1> QED BY <1>1, <1>2, <1>3 DEF Next, AllDone

\* The accounts are inductive together: TryAcquire compares the counter, which is an upper
\* bound of the admitted requests and not their number.
LEMMA BreakerAlways == Spec => [](TypeOK /\ PickInBounds /\ BreakerInv)
<1>1. Init => BreakerInv
  BY BreakerInit
<1>2. TypeOK /\ BreakerInv /\ [Next]_vars => BreakerInv'
  BY BreakerInductive
<1> QED BY <1>1, <1>2, TypeAndPick, PTL DEF Spec

(***************************************************************************)
(* The breaker's counter is exact in every interleaving of any number of   *)
(* requests: no path of OnRequest releases twice, and the clamp in Release *)
(* never acts.                                                             *)
(***************************************************************************)
THEOREM BreakerCorrect == Spec => []SlotAccounting
<1>1. BreakerInv => SlotAccounting
  BY DEF BreakerInv
<1> QED BY <1>1, BreakerAlways, PTL

(***************************************************************************)
(* The admitted requests and the lost slots never exceed max_requests,     *)
(* although TryAcquire adds before it compares.                            *)
(***************************************************************************)
THEOREM RequestLimitHolds == Spec => []ClusterCap
<1>1. BreakerInv => ClusterCap
  BY DEF BreakerInv
<1> QED BY <1>1, BreakerAlways, PTL

(***************************************************************************)
(* TryAcquire gives out every slot: a request is denied only when          *)
(* max_requests is reached by the slots taken and lost and by the adds of  *)
(* other denied calls, which is all that the counter can hold.             *)
(***************************************************************************)
THEOREM NoNeedlessDenial == Spec => DeniedOnlyAtLimit
<1>1. ASSUME TypeOK, BreakerInv, RequestNext, NEW r \in Requests
      PROVE  DeniedAtLimit(r)
  <2>1. PICK q \in Requests : Effect(q)
    BY <1>1, StepEffect DEF RequestNext
  <2>2. CASE q = r
    <3>1. ~IsOvershooting(r) /\ IsOvershooting(r)' => ~Admits
      BY <2>1, <2>2 DEF Effect, Quiet, Granted, Denied, RolledBack, GaveBack, Lost, Entered, Left
    <3>2. inflight \in Int /\ CbMaxReqs \in Nat
      BY <1>1, LimitsAssumption DEF TypeOK, ClusterTypeOK
    <3>3. ~Admits => CbMaxReqs > 0 /\ inflight >= CbMaxReqs
      BY <3>2 DEF Admits
    <3>4. inflight = Cardinality(Admitted) + Cardinality(Overshooting) + leaked
      BY <1>1 DEF BreakerInv, SlotAccounting
    <3> QED BY <3>1, <3>3, <3>4 DEF DeniedAtLimit, IsOvershooting
  <2>3. CASE q # r
    BY <1>1, <2>1, <2>3 DEF Effect, TypeOK, DeniedAtLimit
  <2> QED BY <2>2, <2>3
<1>2. ASSUME [Next]_vars, ~RequestNext, NEW r \in Requests
      PROVE  DeniedAtLimit(r)
  <2>1. UNCHANGED pc
    BY <1>2 DEF Next, EnvNext, AllDone, vars, proxyVars
  <2> QED BY <2>1 DEF DeniedAtLimit
<1>3. TypeOK /\ BreakerInv /\ [Next]_vars => [\A r \in Requests : DeniedAtLimit(r)]_vars
  BY <1>1, <1>2
<1> QED BY <1>3, BreakerAlways, PTL DEF Spec, DeniedOnlyAtLimit

(***************************************************************************)
(* The tokens in a pending channel are the requests waiting in it: every   *)
(* way out of waitForCapacity takes exactly one, and max_pending holds.    *)
(***************************************************************************)
THEOREM PendingLimitHolds == Spec => []PendingAccounting
<1>1. BreakerInv => PendingAccounting
  BY DEF BreakerInv
<1> QED BY <1>1, BreakerAlways, PTL

----------------------------------------------------------------------------
(* The in-flight counters of the endpoints.                                *)

IsAt(r, e) == pc[r] \in AtEndpointPc /\ ep[r] = e

\* A request does one of four things to the counters.
EndpointEffect(r) ==
  /\ \A q \in Requests : q # r => pc'[q] = pc[q] /\ ep'[q] = ep[q]
  /\ \/ /\ \A e \in Endpoints : IsAt(r, e)' <=> IsAt(r, e)
        /\ UNCHANGED <<epInflight, epLeaked>>
     \/ \E e \in Endpoints :
          /\ \A f \in Endpoints : ~IsAt(r, f) /\ (IsAt(r, f)' <=> f = e)
          /\ IncEndpointInFlight(e)
          /\ UNCHANGED epLeaked
     \/ \E e \in Endpoints :
          /\ \A f \in Endpoints : ~IsAt(r, f) /\ ~IsAt(r, f)'
          /\ IncEndpointInFlight(e)
          /\ epLeaked' = [epLeaked EXCEPT ![e] = @ + 1]
     \/ \E e \in Endpoints :
          /\ \A f \in Endpoints : (IsAt(r, f) <=> f = e) /\ ~IsAt(r, f)'
          /\ DecEndpointInFlight(e)
          /\ UNCHANGED epLeaked

\* Every step of a goroutine counts an attempt at an endpoint, takes one back, loses one or
\* leaves the endpoint counters alone.
LEMMA StepEndpointEffect ==
  ASSUME TypeOK, PickInBounds, NEW r \in Requests,
         Arrive(r) \/ Step(r) \/ Expire(r) \/ Cancel(r)
  PROVE  EndpointEffect(r)
<1> USE DEF At, Goto, localVars, ghostVars, clusterVars, IsAt, AtEndpointPc
<1>a. pc \in [Requests -> PcValues] /\ ep \in [Requests -> Endpoints \cup {NoEndpoint}]
  BY DEF TypeOK
<1>b. pc[r] \in {"inc"} \cup AtEndpointPc => ep[r] \in Endpoints
  BY DEF PickInBounds, PickInBoundsAt
<1>1. CASE Arrive(r)
  BY <1>a, <1>1 DEF EndpointEffect, Arrive
<1>2. CASE Acquire(r)
  BY <1>a, <1>2 DEF EndpointEffect, Acquire
<1>3. CASE AcquireRollback(r)
  BY <1>a, <1>3 DEF EndpointEffect, AcquireRollback
<1>4. CASE Enqueue(r)
  BY <1>a, <1>4 DEF EndpointEffect, Enqueue, Finish
<1>5. CASE Poll(r)
  BY <1>a, <1>5 DEF EndpointEffect, Poll
<1>6. CASE PollRollback(r)
  BY <1>a, <1>6 DEF EndpointEffect, PollRollback
<1>7. CASE PollTick(r)
  BY <1>a, <1>7 DEF EndpointEffect, PollTick
<1>8. CASE PollDrop(r)
  BY <1>a, <1>8 DEF EndpointEffect, PollDrop, Finish
<1>9. CASE Dequeue(r)
  BY <1>a, <1>9 DEF EndpointEffect, Dequeue, NextAttempt, Finish
<1>10. CASE PickEmpty(r)
  BY <1>a, <1>10 DEF EndpointEffect, PickEmpty, Finish
<1>11. CASE PickStart(r)
  BY <1>a, <1>11 DEF EndpointEffect, PickStart, StartScan
<1>12. CASE PickAvailable(r)
  BY <1>a, <1>12 DEF EndpointEffect, PickAvailable, AfterScan
<1>13. CASE PickLoad(r)
  BY <1>a, <1>13 DEF EndpointEffect, PickLoad
<1>14. CASE PickCap(r)
  BY <1>a, <1>14 DEF EndpointEffect, PickCap, Picked, AfterScan
<1>15. CASE PickCandidate(r)
  BY <1>a, <1>15 DEF EndpointEffect, PickCandidate, Picked
<1>16. CASE PickFallThrough(r)
  BY <1>a, <1>16 DEF EndpointEffect, PickFallThrough
<1>17. CASE PickUnhealthy(r)
  BY <1>a, <1>17 DEF EndpointEffect, PickUnhealthy, Picked
<1>18. CASE PickNoCapacity(r)
  BY <1>a, <1>18 DEF EndpointEffect, PickNoCapacity
<1>19. CASE NoCapacityRelease(r)
  BY <1>a, <1>19 DEF EndpointEffect, NoCapacityRelease
<1>20. CASE Inc(r)
  <2>1. ep[r] \in Endpoints /\ IncEndpointInFlight(ep[r])
    BY <1>b, <1>20 DEF Inc
  <2>2. CASE ep[r] \in BadAddrs
    BY <1>a, <1>20, <2>1, <2>2 DEF Inc, Finish, EndpointEffect
  <2>3. CASE ep[r] \notin BadAddrs
    BY <1>a, <1>20, <2>1, <2>3 DEF Inc, EndpointEffect
  <2> QED BY <2>2, <2>3
<1>21. CASE DoResponse(r)
  BY <1>a, <1>21 DEF EndpointEffect, DoResponse
<1>22. CASE DoError(r)
  BY <1>a, <1>22 DEF EndpointEffect, DoError
<1>23. CASE Write(r)
  BY <1>a, <1>23 DEF EndpointEffect, Write
<1>24. CASE Report(r)
  BY <1>a, <1>24 DEF EndpointEffect, Report
<1>25. CASE Dec(r)
  <2>1. ep[r] \in Endpoints /\ DecEndpointInFlight(ep[r])
    BY <1>b, <1>25 DEF Dec
  <2> QED BY <1>a, <1>25, <2>1 DEF Dec, EndpointEffect
<1>26. CASE Release(r)
  BY <1>a, <1>26 DEF EndpointEffect, Release
<1>27. CASE BackoffTimer(r)
  BY <1>a, <1>27 DEF EndpointEffect, BackoffTimer, NextAttempt, Finish
<1>28. CASE BackoffCut(r)
  BY <1>a, <1>28 DEF EndpointEffect, BackoffCut, Finish
<1>29. CASE Expire(r)
  BY <1>a, <1>29 DEF EndpointEffect, Expire
<1>30. CASE Cancel(r)
  BY <1>a, <1>30 DEF EndpointEffect, Cancel
<1> QED
  BY <1>1, <1>2, <1>3, <1>4, <1>5, <1>6, <1>7, <1>8, <1>9, <1>10, <1>11, <1>12, <1>13, <1>14, <1>15, <1>16, <1>17, <1>18, <1>19, <1>20, <1>21, <1>22, <1>23, <1>24, <1>25, <1>26, <1>27, <1>28, <1>29, <1>30 DEF Step

\* Such a step keeps the counter of every endpoint exact.
LEMMA EndpointStep ==
  ASSUME TypeOK, EndpointAccounting, NEW r \in Requests, EndpointEffect(r)
  PROVE  EndpointAccounting'
<1> SUFFICES ASSUME NEW f \in Endpoints
             PROVE  epInflight'[f] = Cardinality(InFlightAt(f)') + epLeaked'[f]
  BY DEF EndpointAccounting
<1>1. /\ epInflight[f] = Cardinality(InFlightAt(f)) + epLeaked[f]
      /\ epInflight \in [Endpoints -> Int]
      /\ epLeaked \in [Endpoints -> Nat]
  BY DEF EndpointAccounting, TypeOK, ClusterTypeOK
<1>2. /\ InFlightAt(f) \subseteq Requests /\ InFlightAt(f)' \subseteq Requests
      /\ \A q \in Requests : q # r => (q \in InFlightAt(f) <=> q \in InFlightAt(f)')
      /\ r \in InFlightAt(f) <=> IsAt(r, f)
      /\ r \in InFlightAt(f)' <=> IsAt(r, f)'
  BY DEF InFlightAt, IsAt, EndpointEffect
<1>3. /\ Cardinality(InFlightAt(f)) \in Nat
      /\ IsAt(r, f) => Cardinality(InFlightAt(f)) >= 1
      /\ Cardinality(InFlightAt(f)') =
           Cardinality(InFlightAt(f)) + Bit(IsAt(r, f)') - Bit(IsAt(r, f))
  BY <1>2, CountMove, RequestsAssumption DEF Bit
<1> QED
  BY <1>1, <1>3 DEF EndpointEffect, IncEndpointInFlight, DecEndpointInFlight, Bit

(***************************************************************************)
(* The in-flight counter of every endpoint is exact, however discovery     *)
(* replaces the endpoint slice while attempts are in progress.             *)
(***************************************************************************)
THEOREM EndpointCountersCorrect == Spec => []EndpointAccounting
<1>1. Init => EndpointAccounting
  <2> SUFFICES ASSUME Init PROVE EndpointAccounting
    OBVIOUS
  <2>1. \A e \in Endpoints : InFlightAt(e) = {}
    BY DEF Init, InFlightAt, AtEndpointPc
  <2> QED BY <2>1, FS_EmptySet DEF Init, NewManager, EndpointAccounting
<1>2. TypeOK /\ PickInBounds /\ EndpointAccounting /\ [Next]_vars => EndpointAccounting'
  <2> SUFFICES ASSUME TypeOK, PickInBounds, EndpointAccounting, [Next]_vars
               PROVE  EndpointAccounting'
    OBVIOUS
  <2>1. CASE RequestNext
    BY <2>1, StepEndpointEffect, EndpointStep DEF RequestNext
  <2>2. CASE EnvNext
    BY <2>2, EnvType DEF EndpointAccounting, InFlightAt, proxyVars, localVars, ghostVars
  <2>3. CASE UNCHANGED vars
    BY <2>3 DEF EndpointAccounting, InFlightAt, vars, clusterVars, proxyVars, localVars,
                ghostVars
  <2> QED BY <2>1, <2>2, <2>3 DEF Next, AllDone
<1> QED BY <1>1, <1>2, TypeAndPick, PTL DEF Spec

----------------------------------------------------------------------------
(* Refinement.                                                             *)

\* Each effect on the breaker is a step of Admission or leaves its state as it is.
LEMMA EffectImplements ==
  ASSUME TypeOK, BreakerInv, NEW r \in Requests, Effect(r)
  PROVE  [Abstract!Next]_(Abstract!admissionVars)
<1> DEFINE W == {q \in Requests : pc[q] \in WaitingPc}
<1>1. \A q \in Requests : q # r => pc'[q] = pc[q]
  BY DEF Effect, TypeOK
<1>2. /\ \A q \in Requests : q # r => (q \in Admitted <=> q \in Admitted')
      /\ r \in Admitted <=> IsAdmitted(r)
      /\ r \in Admitted' <=> IsAdmitted(r)'
      /\ Admitted \subseteq Requests /\ Admitted' \subseteq Requests
  BY <1>1 DEF Admitted, IsAdmitted
<1>3. /\ \A q \in Requests : q # r => (q \in W <=> q \in W')
      /\ r \in W <=> IsWaiting(r)
      /\ r \in W' <=> IsWaiting(r)'
      /\ W \subseteq Requests /\ W' \subseteq Requests
  BY <1>1 DEF IsWaiting
<1>4. {d \in W : ProxyOf[d] = ProxyOf[r]} = Waiting(ProxyOf[r])
  BY DEF Waiting
<1> HIDE DEF W
<1>5. CASE Quiet(r) \/ Denied(r) \/ RolledBack(r)
  <2>1. Admitted' = Admitted /\ W' = W /\ leaked' = leaked
    BY <1>2, <1>3, <1>5 DEF Quiet, Denied, RolledBack
  <2> QED BY <2>1 DEF W, Abstract!admissionVars
<1>6. CASE Granted(r)
  <2>1. Admitted' = Admitted \cup {r} /\ r \notin Admitted /\ W' = W /\ leaked' = leaked
    BY <1>2, <1>3, <1>6 DEF Granted
  <2>2. CbMaxReqs = 0 \/ Cardinality(Admitted) + leaked < CbMaxReqs
    <3>1. Cardinality(Admitted) \in Nat /\ Cardinality(Overshooting) \in Nat
      BY MoveCounts DEF Effect
    <3> QED
      BY <1>6, <3>1, LimitsAssumption
         DEF Granted, Admits, BreakerInv, SlotAccounting, TypeOK, ClusterTypeOK
  <2>3. Abstract!HasSlot
    BY <2>2, Zenon DEF Abstract!HasSlot, Cardinality, Abstract!Cardinality
  <2>4. Abstract!Admit(r)
    BY <2>1, <2>3, Zenon DEF W, Abstract!Admit
  <2> QED BY <2>4 DEF Abstract!Next
<1>7. CASE GaveBack(r)
  <2>1. /\ Admitted' = Admitted \ {r} /\ r \in Admitted
        /\ W' = W /\ r \notin W /\ leaked' = leaked
    BY <1>2, <1>3, <1>7 DEF GaveBack
  <2>2. Abstract!GiveBack(r)
    BY <2>1 DEF W, Abstract!GiveBack
  <2> QED BY <2>2 DEF Abstract!Next
<1>8. CASE Lost(r)
  <2>1. /\ Admitted' = Admitted \ {r} /\ r \in Admitted
        /\ W' = W \ {r} /\ leaked' = leaked + 1
    BY <1>2, <1>3, <1>8 DEF Lost
  <2>2. Abstract!Lose(r)
    BY <2>1 DEF W, Abstract!Lose
  <2> QED BY <2>2 DEF Abstract!Next
<1>9. CASE Entered(r)
  <2>1. /\ Admitted' = Admitted /\ r \notin Admitted
        /\ W' = W \cup {r} /\ r \notin W /\ leaked' = leaked
    BY <1>2, <1>3, <1>9 DEF Entered
  <2>2. Cardinality(Waiting(ProxyOf[r])) < MaxPending
    BY <1>9, ProxyAssumption DEF Entered, BreakerInv, PendingAccounting
  <2>3. Cardinality({d \in W : ProxyOf[d] = ProxyOf[r]}) < MaxPending
    BY <1>4, <2>2
  <2>4. r \notin Admitted \cup W
    BY <2>1
  <2>5. Abstract!Enter(r)
    BY <2>1, <2>3, <2>4, Zenon DEF W, Abstract!Enter, Cardinality, Abstract!Cardinality
  <2> QED BY <2>5 DEF Abstract!Next
<1>10. CASE Left(r)
  <2>1. /\ Admitted' = Admitted /\ W' = W \ {r} /\ r \in W /\ leaked' = leaked
    BY <1>2, <1>3, <1>10 DEF Left
  <2>2. Abstract!Leave(r)
    BY <2>1 DEF W, Abstract!Leave
  <2> QED BY <2>2 DEF Abstract!Next
<1> QED BY <1>5, <1>6, <1>7, <1>8, <1>9, <1>10 DEF Effect

(***************************************************************************)
(* The counters, the rollback and the channel of the code implement        *)
(* Admission, for any number of requests and any limits.                   *)
(***************************************************************************)
THEOREM BreakerImplementsAdmission == Spec => ImplementsAdmission
<1>1. Init => Abstract!Init
  BY DEF Init, Abstract!Init, Admitted, AdmittedPc, WaitingPc
<1>2. TypeOK /\ BreakerInv /\ [Next]_vars => [Abstract!Next]_(Abstract!admissionVars)
  <2> SUFFICES ASSUME TypeOK, BreakerInv, [Next]_vars
               PROVE  [Abstract!Next]_(Abstract!admissionVars)
    OBVIOUS
  <2>1. CASE RequestNext
    BY <2>1, StepEffect, EffectImplements DEF RequestNext
  <2>2. CASE UNCHANGED proxyVars
    BY <2>2 DEF Abstract!admissionVars, Admitted, proxyVars, ghostVars
  <2> QED BY <2>1, <2>2 DEF Next, EnvNext, AllDone, vars
<1> QED
  BY <1>1, <1>2, BreakerAlways, PTL DEF Spec, ImplementsAdmission, Abstract!Spec

----------------------------------------------------------------------------
(* No slot is lost where none of the three causes is there.                *)

\* OnRequest returns or goes on without its slot in three places: an endpoint slice that is
\* empty, an address http.NewRequest rejects, and a wait after ErrNoEndpointCapacity, which
\* needs both a limit per endpoint and a pending queue.
NoLossCause ==
  /\ <<>> \notin EndpointLists
  /\ BadAddrs = {}
  /\ EpMaxReqs = 0 \/ MaxPending = 0

\* Without a limit per endpoint a pass of Pick that met an available endpoint has one to
\* return: round robin returns it at once, random keeps it, and least_requests falls through
\* to a pass of round robin.
PassFinds(r) ==
  /\ origin[r] # "pick" /\ pc[r] # "noCapacity"
  /\ pc[r] \in {"avail", "choose"} /\ scan[r].healthy =>
       \/ scan[r].mode = "least_requests"
       \/ scan[r].mode = "random" /\ scan[r].cand # {}

NoLossInv ==
  /\ leaked = 0
  /\ \A e \in Endpoints : epLeaked[e] = 0
  /\ endpoints # <<>>
  /\ EpMaxReqs = 0 => \A r \in Requests : PassFinds(r)

\* Nobody is in a pending queue that has no room.
LEMMA NoRoomNoWaiter ==
  ASSUME TypeOK, BreakerInv, MaxPending = 0, NEW r \in Requests
  PROVE  ~IsWaiting(r)
<1>1. ProxyOf[r] \in Proxies
  BY ProxyAssumption
<1>2. Waiting(ProxyOf[r]) \subseteq Requests /\ IsFiniteSet(Waiting(ProxyOf[r]))
  BY RequestsAssumption, FS_Subset DEF Waiting
<1>3. Cardinality(Waiting(ProxyOf[r])) \in Nat /\ Cardinality(Waiting(ProxyOf[r])) <= 0
  BY <1>1, <1>2, FS_CardinalityType DEF BreakerInv, PendingAccounting
<1>4. Waiting(ProxyOf[r]) = {}
  BY <1>2, <1>3, FS_EmptySet
<1> QED BY <1>4 DEF Waiting, IsWaiting

\* Pick finds an endpoint, so that OnRequest never waits for endpoint capacity.
LEMMA PassStep ==
  ASSUME TypeOK, PickInBounds, EpMaxReqs = 0, \A q \in Requests : PassFinds(q),
         NEW r \in Requests, Arrive(r) \/ Step(r) \/ Expire(r) \/ Cancel(r)
  PROVE  \A q \in Requests : PassFinds(q)'
<1> USE DEF At, Goto, localVars
<1>0. SUFFICES /\ PassFinds(r)'
               /\ \A q \in Requests \ {r} :
                    pc'[q] = pc[q] /\ scan'[q] = scan[q] /\ origin'[q] = origin[q]
  BY DEF PassFinds
<1>a. PassFinds(r)
  OBVIOUS
<1>b. /\ pc \in [Requests -> PcValues] /\ scan \in [Requests -> Scan]
      /\ origin \in [Requests -> Origins]
  BY DEF TypeOK
<1>c. scan[r] \in Scan /\ scan[r].mode \in Policies
  BY <1>b DEF Scan
<1>1. CASE \/ Arrive(r) \/ AcquireRollback(r) \/ Enqueue(r) \/ Poll(r) \/ PollRollback(r)
           \/ PollTick(r) \/ PollDrop(r)
  BY <1>a, <1>b, <1>1
     DEF Arrive, AcquireRollback, Enqueue, Poll, PollRollback, PollTick, PollDrop, Finish,
         PassFinds
<1>2. CASE \/ DoResponse(r) \/ DoError(r) \/ Write(r) \/ Report(r) \/ Dec(r) \/ Release(r)
  BY <1>a, <1>b, <1>2
     DEF DoResponse, DoError, Write, Report, Dec, Release, PassFinds
<1>3. CASE \/ BackoffTimer(r) \/ BackoffCut(r) \/ Expire(r) \/ Cancel(r) \/ PickEmpty(r)
           \/ Inc(r)
  BY <1>a, <1>b, <1>3
     DEF BackoffTimer, BackoffCut, NextAttempt, Finish, Expire, Cancel, PickEmpty, Inc,
         PassFinds
<1>4. CASE Acquire(r) \/ Dequeue(r)
  BY <1>a, <1>b, <1>4 DEF Acquire, Dequeue, NextAttempt, Finish, PassFinds
<1>5. CASE PickStart(r) \/ PickFallThrough(r)
  <2>1. PICK mode, ring : scan' = [scan EXCEPT ![r] =
                            [NoScan EXCEPT !.mode = mode, !.eps = ring, !.left = ring]]
    BY <1>5 DEF PickStart, PickFallThrough, StartScan
  <2>2. scan'[r].healthy = FALSE /\ \A q \in Requests \ {r} : scan'[q] = scan[q]
    BY <1>b, <2>1 DEF NoScan
  <2> QED BY <1>a, <1>b, <1>5, <2>2 DEF PickStart, PickFallThrough, PassFinds
<1>6. CASE PickAvailable(r)
  <2>1. CASE isAvailable(Current(r), localNow[r])
    BY <1>a, <1>b, <1>6, <2>1 DEF PickAvailable, PassFinds
  <2>2. CASE ~isAvailable(Current(r), localNow[r])
    <3>1. scan'[r] = Advance(scan[r]) /\ \A q \in Requests \ {r} : scan'[q] = scan[q]
      BY <1>b, <1>6, <2>2 DEF PickAvailable
    <3>2. /\ scan'[r].healthy = scan[r].healthy /\ scan'[r].mode = scan[r].mode
          /\ scan'[r].cand = scan[r].cand
      BY <1>c, <3>1 DEF Advance, Scan
    <3> QED BY <1>a, <1>b, <1>6, <2>2, <3>1, <3>2 DEF PickAvailable, AfterScan, PassFinds
  <2> QED BY <2>1, <2>2
<1>7. CASE PickLoad(r)
  BY <1>a, <1>b, <1>7 DEF PickLoad, PassFinds
<1>8. CASE PickCap(r)
  <2> DEFINE e == Current(r)
  <2>1. underEndpointCap(e)
    BY DEF underEndpointCap
  <2>2. CASE scan[r].mode = "round_robin"
    BY <1>a, <1>b, <1>8, <2>1, <2>2 DEF PickCap, Picked, PassFinds
  <2>3. CASE scan[r].mode # "round_robin"
    <3>1. /\ scan'[r] = Advance(Keep(scan[r], e))
          /\ \A q \in Requests \ {r} : scan'[q] = scan[q]
      BY <1>b, <1>8, <2>1, <2>3 DEF PickCap
    <3>2. scan'[r].mode = "random" => scan'[r].cand = scan[r].cand \cup {e}
      BY <1>c, <3>1 DEF Advance, Keep, Scan
    <3>3. scan'[r].mode = scan[r].mode
      BY <1>c, <3>1 DEF Advance, Keep, Scan
    <3>4. pc' = [pc EXCEPT ![r] = AfterScan(r)] /\ AfterScan(r) # "noCapacity" /\ UNCHANGED origin
      BY <1>8, <2>1, <2>3 DEF PickCap, AfterScan
    <3>5. scan'[r].mode \in {"random", "least_requests"}
      BY <1>c, <2>3, <3>3 DEF Policies
    <3> QED
      BY <1>a, <1>b, <3>1, <3>2, <3>4, <3>5 DEF PassFinds
  <2> QED BY <2>2, <2>3
<1>9. CASE PickCandidate(r) \/ PickUnhealthy(r)
  <2>1. PICK e : Picked(r, e)
    BY <1>9 DEF PickCandidate, PickUnhealthy
  <2> QED BY <1>a, <1>b, <1>9, <2>1 DEF PickCandidate, PickUnhealthy, Picked, PassFinds
<1>10. CASE PickNoCapacity(r) \/ NoCapacityRelease(r)
  BY <1>a, <1>c, <1>10 DEF PickNoCapacity, NoCapacityRelease, PassFinds, Policies
<1> QED
  BY <1>1, <1>2, <1>3, <1>4, <1>5, <1>6, <1>7, <1>8, <1>9, <1>10 DEF Step

\* No step of a request loses a slot or an endpoint count.
LEMMA LossStep ==
  ASSUME TypeOK, PickInBounds, BreakerInv, NoLossCause, NoLossInv,
         NEW r \in Requests, Arrive(r) \/ Step(r) \/ Expire(r) \/ Cancel(r)
  PROVE  NoLossInv'
<1>1. UNCHANGED endpoints
  BY DEF Step, Arrive, Acquire, AcquireRollback, Enqueue, Poll, PollRollback, PollTick,
         PollDrop, Dequeue, PickEmpty, PickStart, PickAvailable, PickLoad, PickCap,
         PickCandidate, PickFallThrough, PickUnhealthy, PickNoCapacity, NoCapacityRelease,
         Inc, DoResponse, DoError, Write, Report, Dec, Release, BackoffTimer, BackoffCut,
         Expire, Cancel, clusterVars
<1>2. ~PickEmpty(r)
  BY DEF PickEmpty, NoLossInv
<1>3. Dequeue(r) => origin[r] = "loop"
  <2>1. CASE EpMaxReqs = 0
    BY <2>1 DEF NoLossInv, PassFinds, Dequeue
  <2>2. CASE MaxPending = 0
    BY <2>2, NoRoomNoWaiter DEF Dequeue, At, IsWaiting, WaitingPc
  <2> QED BY <2>1, <2>2 DEF NoLossCause
<1>4. Inc(r) => UNCHANGED <<leaked, epLeaked>>
  BY DEF Inc, NoLossCause
<1>5. UNCHANGED <<leaked, epLeaked>>
  BY <1>2, <1>3, <1>4
     DEF Step, Arrive, Acquire, AcquireRollback, Enqueue, Poll, PollRollback, PollTick,
         PollDrop, Dequeue, PickStart, PickAvailable, PickLoad, PickCap,
         PickCandidate, PickFallThrough, PickUnhealthy, PickNoCapacity, NoCapacityRelease,
         DoResponse, DoError, Write, Report, Dec, Release, BackoffTimer, BackoffCut,
         Expire, Cancel, ghostVars
<1> QED BY <1>1, <1>5, PassStep DEF NoLossInv

(***************************************************************************)
(* Without the three causes every path through OnRequest, of any number of *)
(* requests with any retries, timeouts, cancellations and endpoints that   *)
(* come and go, gives back what it took: when all requests are answered    *)
(* the counters of the cluster, the queues and the endpoints are zero.     *)
(***************************************************************************)
THEOREM NothingLost == NoLossCause => (Spec => []BalancedAtRest)
<1> SUFFICES ASSUME NoLossCause PROVE Spec => []BalancedAtRest
  OBVIOUS
<1>1. Init => NoLossInv
  BY DEF NoLossCause, Init, NewManager, NoLossInv, PassFinds
<1>2. TypeOK /\ PickInBounds /\ BreakerInv /\ NoLossInv /\ [Next]_vars => NoLossInv'
  <2> SUFFICES ASSUME TypeOK, PickInBounds, BreakerInv, NoLossInv, [Next]_vars
               PROVE  NoLossInv'
    OBVIOUS
  <2>1. CASE RequestNext
    BY <2>1, LossStep DEF RequestNext
  <2>2. CASE UNCHANGED proxyVars /\ endpoints' # <<>>
    BY <2>2 DEF NoLossInv, PassFinds, proxyVars, localVars, ghostVars
  <2>3. CASE EnvNext
    <3>1. endpoints' # <<>>
      BY <2>3 DEF EnvNext, ClusterEnv, Probe, ApplyEndpointSet, Tick, NoLossInv
    <3> QED BY <2>2, <2>3, <3>1 DEF EnvNext
  <2>4. CASE UNCHANGED vars
    BY <2>2, <2>4 DEF vars, clusterVars, NoLossInv
  <2> QED BY <2>1, <2>3, <2>4 DEF Next, AllDone
<1>3. TypeOK /\ BreakerInv /\ EndpointAccounting /\ NoLossInv => BalancedAtRest
  <2> SUFFICES ASSUME TypeOK, BreakerInv, EndpointAccounting, NoLossInv,
                      \A r \in Requests : pc[r] = "done"
               PROVE  /\ inflight = 0
                      /\ \A p \in Proxies : pending[p] = 0
                      /\ \A e \in Endpoints : epInflight[e] = 0
    BY DEF BalancedAtRest
  <2>1. /\ Admitted = {} /\ Overshooting = {}
        /\ \A p \in Proxies : Waiting(p) = {}
        /\ \A e \in Endpoints : InFlightAt(e) = {}
    BY DEF Admitted, Overshooting, Waiting, InFlightAt, AdmittedPc, OvershootPc, WaitingPc,
           AtEndpointPc
  <2>2. Cardinality({}) = 0
    BY FS_EmptySet
  <2>3. inflight = 0
    BY <2>1, <2>2 DEF BreakerInv, SlotAccounting, NoLossInv
  <2>4. \A p \in Proxies : pending[p] = 0
    BY <2>1, <2>2 DEF BreakerInv, PendingAccounting
  <2>5. \A e \in Endpoints : epInflight[e] = 0
    <3> TAKE e \in Endpoints
    <3>1. epInflight[e] = Cardinality(InFlightAt(e)) + epLeaked[e]
      BY DEF EndpointAccounting
    <3>2. InFlightAt(e) = {} /\ epLeaked[e] = 0
      BY <2>1 DEF NoLossInv
    <3> QED BY <2>2, <3>1, <3>2
  <2> QED BY <2>3, <2>4, <2>5
<1> QED BY <1>1, <1>2, <1>3, BreakerAlways, EndpointCountersCorrect, PTL DEF Spec
=============================================================================
