------------------------ MODULE UpstreamProxyProofs ------------------------
(* Proofs about UpstreamProxy for any number of requests, endpoints,       *)
(* proxies and any limits.                                                 *)
EXTENDS UpstreamProxy, FiniteSetTheorems, SequenceTheorems, TLAPS

(* Two subsets of a finite set that agree on everything but r differ in    *)
(* size by whether r is in them.                                           *)
LEMMA CountMove ==
  ASSUME NEW R, IsFiniteSet(R), NEW A, A \subseteq R, NEW B, B \subseteq R, NEW r \in R,
         \A x \in R : x # r => (x \in A <=> x \in B)
  PROVE  /\ Cardinality(A) \in Nat
         /\ r \in A => Cardinality(A) >= 1
         /\ Cardinality(B) = Cardinality(A) + (IF r \in B THEN 1 ELSE 0)
                                            - (IF r \in A THEN 1 ELSE 0)
<1>1. IsFiniteSet(A) /\ Cardinality(A) \in Nat
  BY FS_Subset, FS_CardinalityType
<1>2. r \in A => Cardinality(A) # 0
  BY <1>1, FS_EmptySet
<1>3. CASE r \in A /\ r \in B
  <2>1. A = B
    BY <1>3
  <2> QED BY <1>1, <1>2, <1>3, <2>1
<1>4. CASE r \in A /\ r \notin B
  <2>1. B = A \ {r}
    BY <1>4
  <2>2. Cardinality(B) = Cardinality(A) - 1
    BY <1>1, <1>4, <2>1, FS_RemoveElement
  <2> QED BY <1>1, <1>2, <1>4, <2>2
<1>5. CASE r \notin A /\ r \in B
  <2>1. B = A \cup {r}
    BY <1>5
  <2>2. Cardinality(B) = Cardinality(A) + 1
    BY <1>1, <1>5, <2>1, FS_AddElement
  <2> QED BY <1>1, <1>5, <2>2
<1>6. CASE r \notin A /\ r \notin B
  <2>1. A = B
    BY <1>6
  <2> QED BY <1>1, <1>6, <2>1
<1> QED BY <1>3, <1>4, <1>5, <1>6

----------------------------------------------------------------------------
(* Type correctness.                                                       *)

\* The ring that round robin scans is a sequence of endpoints, as long as the slice.
LEMMA RingType ==
  ASSUME NEW eps \in Seq(Endpoints), eps # <<>>, NEW start \in Nat
  PROVE  /\ Ring(eps, start) \in Seq(Endpoints)
         /\ Len(Ring(eps, start)) = Len(eps)
         /\ Ring(eps, start) # <<>>
<1> DEFINE n == Len(eps)
<1>1. n \in Nat /\ n > 0
  BY EmptySeq, LenProperties
<1>2. \A i \in 1..n : ((start + i - 1) % n) + 1 \in 1..n
  BY <1>1
<1>3. \A i \in 1..n : eps[((start + i - 1) % n) + 1] \in Endpoints
  BY <1>2, ElementOfSeq
<1>4. Ring(eps, start) = [i \in 1..n |-> eps[((start + i - 1) % n) + 1]]
  BY DEF Ring
<1>5. Ring(eps, start) \in [1..n -> Endpoints]
  BY <1>3, <1>4
<1>6. Ring(eps, start) \in Seq(Endpoints)
  BY <1>1, <1>5, SeqDef
<1>7. Len(Ring(eps, start)) = n
  BY <1>1, <1>5, <1>6, LenProperties
<1> QED BY <1>1, <1>6, <1>7

\* The locals of Pick between two calls.
LEMMA NoScanType == NoScan \in Scan
  BY DEF NoScan, Scan, Policies

\* NewManager and NewUpstreamProxy make a well-typed state.
LEMMA InitTypeOK == Init => TypeOK
<1> SUFFICES ASSUME Init PROVE TypeOK
  OBVIOUS
<1>1. ClusterTypeOK
  BY EndpointListsAssumption, LbPoliciesAssumption
     DEF Init, NewManager, ClusterTypeOK, FreshHealth, Health
<1>2. QED
  BY <1>1, NoScanType, BoundsAssumption
     DEF Init, TypeOK, PcValues, ContextStates, Outcomes, Origins

\* markFailure leaves a well-typed epState.
LEMMA AfterFailureType ==
  ASSUME NEW h \in Health, NEW t \in Nat
  PROVE  AfterFailure(h, t) \in Health
<1>1. CASE h.failures + 1 >= Consecutive
  <2>1. [h EXCEPT !.failures = 0] \in Health
    BY DEF Health
  <2>2. \A g \in Health : [g EXCEPT !.unhealthyUntil = t + EjectFor] \in Health
    BY OutlierAssumption DEF Health
  <2> QED BY <1>1, <2>1, <2>2 DEF AfterFailure
<1>2. CASE ~(h.failures + 1 >= Consecutive)
  <2>1. h.failures + 1 \in Nat
    BY DEF Health
  <2>2. [h EXCEPT !.failures = h.failures + 1] \in Health
    BY <2>1 DEF Health
  <2> QED BY <1>2, <2>2 DEF AfterFailure
<1> QED BY <1>1, <1>2

\* Going on to the next endpoint of a scan that is not over.
LEMMA AdvanceType ==
  ASSUME NEW s \in Scan, s.left # <<>>
  PROVE  /\ Advance(s) \in Scan
         /\ Advance(s).eps = s.eps
         /\ Len(s.left) # 1 => Advance(s).left # <<>>
<1>1. /\ Tail(s.left) \in Seq(Endpoints)
      /\ Len(s.left) \in Nat \ {0}
      /\ Len(Tail(s.left)) = Len(s.left) - 1
  BY HeadTailProperties, EmptySeq DEF Scan
<1>2. Advance(s) \in Scan /\ Advance(s).eps = s.eps /\ Advance(s).left = Tail(s.left)
  BY <1>1 DEF Advance, Scan
<1>3. Len(s.left) # 1 => Tail(s.left) # <<>>
  <2>1. Tail(s.left) = <<>> => Len(Tail(s.left)) = 0
    BY EmptySeq
  <2> QED BY <1>1, <2>1
<1> QED BY <1>2, <1>3

\* The labels that occur in the actions, and the two ways of moving to one.
LEMMA GotoType ==
  ASSUME TypeOK, NEW r \in Requests, NEW l \in PcValues, Goto(r, l)
  PROVE  pc' \in [Requests -> PcValues]
  BY DEF TypeOK, Goto

\* Leaving OnRequest with a result.
LEMMA FinishType ==
  ASSUME TypeOK, NEW r \in Requests, NEW result \in Outcomes, Finish(r, result)
  PROVE  pc' \in [Requests -> PcValues] /\ out' \in [Requests -> Outcomes]
  BY DEF TypeOK, Finish, Goto, PcValues

\* The loop's increment stays below the number of attempts.
LEMMA NextAttemptType ==
  ASSUME TypeOK, NEW r \in Requests, NEW lastErr \in Outcomes, NextAttempt(r, lastErr)
  PROVE  /\ pc' \in [Requests -> PcValues]
         /\ attempt' \in [Requests -> 0..MaxRetries]
         /\ out' \in [Requests -> Outcomes]
<1>1. MaxAttempts(r) \in Nat /\ MaxAttempts(r) <= 1 + MaxRetries
  BY BoundsAssumption DEF MaxAttempts
<1>2. CASE attempt[r] + 1 < MaxAttempts(r)
  <2>1. attempt[r] + 1 \in 0..MaxRetries
    BY <1>1, <1>2, BoundsAssumption DEF TypeOK
  <2> QED BY <1>2, <2>1 DEF NextAttempt, TypeOK, Goto, PcValues
<1>3. CASE ~(attempt[r] + 1 < MaxAttempts(r))
  <2>1. (IF lastErr = "none" THEN "error" ELSE lastErr) \in Outcomes
    BY DEF Outcomes
  <2>2. Finish(r, IF lastErr = "none" THEN "error" ELSE lastErr) /\ UNCHANGED attempt
    BY <1>3 DEF NextAttempt
  <2> QED BY <2>1, <2>2, FinishType DEF TypeOK
<1> QED BY <1>2, <1>3

\* A pass of Pick over a slice that is not empty.
LEMMA StartScanType ==
  ASSUME TypeOK, NEW r \in Requests, NEW mode \in Policies, NEW eps \in Seq(Endpoints),
         eps # <<>>, StartScan(r, mode, eps)
  PROVE  /\ scan' \in [Requests -> Scan]
         /\ rr' \in Nat
         /\ scan'[r].left # <<>>
         /\ scan'[r].eps # <<>>
         /\ \A q \in Requests : q # r => scan'[q] = scan[q]
<1> DEFINE ring == IF mode = "round_robin" THEN Ring(eps, rr % Len(eps)) ELSE eps
           s == [NoScan EXCEPT !.mode = mode, !.eps = ring, !.left = ring]
<1>1. rr % Len(eps) \in Nat
  BY EmptySeq DEF TypeOK, ClusterTypeOK
<1>2. ring \in Seq(Endpoints) /\ ring # <<>>
  BY <1>1, RingType
<1> HIDE DEF ring
<1>3. s \in Scan /\ s.left = ring /\ s.eps = ring
  BY <1>2, NoScanType DEF Scan, NoScan
<1>4. scan' = [scan EXCEPT ![r] = s]
  BY DEF StartScan, ring
<1>5. rr' \in Nat
  BY DEF StartScan, TypeOK, ClusterTypeOK
<1> HIDE DEF s
<1> QED BY <1>2, <1>3, <1>4, <1>5 DEF TypeOK

\* Every step of a request keeps the types.
LEMMA TypeStep ==
  ASSUME TypeOK, PickInBounds, NEW r \in Requests,
         Arrive(r) \/ Step(r) \/ Expire(r) \/ Cancel(r)
  PROVE  TypeOK'
<1>1. CASE Arrive(r)
  <2>1. pc' \in [Requests -> PcValues]
    BY <1>1, GotoType DEF Arrive, PcValues, AdmittedPc, OvershootPc, WaitingPc
  <2> QED
    BY <1>1, <2>1 DEF Arrive, TypeOK, ClusterTypeOK, clusterVars, localVars, ghostVars
<1>2. CASE Acquire(r)
  <2>1. inflight' \in Int
    BY <1>2 DEF Acquire, TypeOK, ClusterTypeOK, AddInflight
  <2>2. pc' \in [Requests -> PcValues]
    BY <1>2, GotoType DEF Acquire, PcValues, AdmittedPc, OvershootPc, WaitingPc
  <2>3. origin' \in [Requests -> Origins]
    BY <1>2 DEF Acquire, TypeOK, Origins
  <2> QED
    BY <1>2, <2>1, <2>2, <2>3 DEF Acquire, TypeOK, ClusterTypeOK, clusterVars, localVars, ghostVars
<1>3. CASE AcquireRollback(r)
  <2>1. inflight' \in Int
    BY <1>3 DEF AcquireRollback, TypeOK, ClusterTypeOK, RollBack
  <2>2. pc' \in [Requests -> PcValues]
    BY <1>3, GotoType DEF AcquireRollback, PcValues, AdmittedPc, OvershootPc, WaitingPc
  <2> QED
    BY <1>3, <2>1, <2>2 DEF AcquireRollback, TypeOK, ClusterTypeOK, clusterVars, localVars, ghostVars
<1>4. CASE Enqueue(r)
  <2>1. pending' \in [Proxies -> Int]
    <3>1. ProxyOf[r] \in Proxies
      BY ProxyAssumption
    <3>2. pending' = [pending EXCEPT ![ProxyOf[r]] = @ + 1] \/ pending' = pending
      BY <1>4 DEF Enqueue
    <3> QED BY <3>1, <3>2 DEF TypeOK
  <2>2. pc' \in [Requests -> PcValues] /\ out' \in [Requests -> Outcomes]
    BY <1>4, GotoType, FinishType DEF Enqueue, PcValues, AdmittedPc, OvershootPc, WaitingPc, Outcomes, TypeOK
  <2> QED
    BY <1>4, <2>1, <2>2 DEF Enqueue, TypeOK, ClusterTypeOK, clusterVars, localVars, ghostVars
<1>5. CASE Poll(r)
  <2>1. inflight' \in Int
    BY <1>5 DEF Poll, TypeOK, ClusterTypeOK, AddInflight
  <2>2. pc' \in [Requests -> PcValues]
    BY <1>5, GotoType DEF Poll, PcValues, AdmittedPc, OvershootPc, WaitingPc
  <2> QED
    BY <1>5, <2>1, <2>2 DEF Poll, TypeOK, ClusterTypeOK, clusterVars, localVars, ghostVars
<1>6. CASE PollRollback(r)
  <2>1. inflight' \in Int
    BY <1>6 DEF PollRollback, TypeOK, ClusterTypeOK, RollBack
  <2>2. pc' \in [Requests -> PcValues]
    BY <1>6, GotoType DEF PollRollback, PcValues, AdmittedPc, OvershootPc, WaitingPc
  <2> QED
    BY <1>6, <2>1, <2>2 DEF PollRollback, TypeOK, ClusterTypeOK, clusterVars, localVars, ghostVars
<1>7. CASE PollTick(r)
  <2>1. pc' \in [Requests -> PcValues]
    BY <1>7, GotoType DEF PollTick, PcValues, AdmittedPc, OvershootPc, WaitingPc
  <2> QED
    BY <1>7, <2>1 DEF PollTick, TypeOK, ClusterTypeOK, clusterVars, localVars, ghostVars
<1>8. CASE PollDrop(r)
  <2>1. pending' \in [Proxies -> Int]
    BY <1>8, ProxyAssumption DEF PollDrop, TypeOK
  <2>2. pc' \in [Requests -> PcValues] /\ out' \in [Requests -> Outcomes]
    BY <1>8, FinishType DEF PollDrop, Outcomes
  <2> QED
    BY <1>8, <2>1, <2>2 DEF PollDrop, TypeOK, ClusterTypeOK, clusterVars, localVars, ghostVars
<1>9. CASE Dequeue(r)
  <2>1. pending' \in [Proxies -> Int]
    <3>1. ProxyOf[r] \in Proxies
      BY ProxyAssumption
    <3>2. pending' = [pending EXCEPT ![ProxyOf[r]] = @ - 1]
      BY <1>9 DEF Dequeue
    <3> QED BY <3>1, <3>2 DEF TypeOK
  <2>2. origin' \in [Requests -> Origins]
    BY <1>9 DEF Dequeue, TypeOK, Origins
  <2>3. /\ pc' \in [Requests -> PcValues]
        /\ attempt' \in [Requests -> 0..MaxRetries]
        /\ out' \in [Requests -> Outcomes]
    BY <1>9, GotoType, NextAttemptType DEF Dequeue, PcValues, AdmittedPc, OvershootPc, WaitingPc, TypeOK
  <2>4. leaked' \in Nat
    BY <1>9 DEF Dequeue, TypeOK
  <2> QED
    BY <1>9, <2>1, <2>2, <2>3, <2>4 DEF Dequeue, TypeOK, ClusterTypeOK, clusterVars, localVars, ghostVars
<1>10. CASE PickEmpty(r)
  <2>1. pc' \in [Requests -> PcValues] /\ out' \in [Requests -> Outcomes]
    BY <1>10, FinishType DEF PickEmpty, Outcomes
  <2>2. leaked' \in Nat
    BY <1>10 DEF PickEmpty, TypeOK
  <2> QED
    BY <1>10, <2>1, <2>2 DEF PickEmpty, TypeOK, ClusterTypeOK, clusterVars, localVars, ghostVars
<1>11. CASE PickStart(r)
  <2>1. scan' \in [Requests -> Scan] /\ rr' \in Nat
    BY <1>11, StartScanType DEF PickStart, TypeOK, ClusterTypeOK
  <2>2. localNow' \in [Requests -> Nat]
    BY <1>11 DEF PickStart, TypeOK, ClusterTypeOK
  <2>3. pc' \in [Requests -> PcValues]
    BY <1>11, GotoType DEF PickStart, PcValues, AdmittedPc, OvershootPc, WaitingPc
  <2> QED
    BY <1>11, <2>1, <2>2, <2>3 DEF PickStart, TypeOK, ClusterTypeOK, clusterVars, localVars, ghostVars
<1>12. CASE PickAvailable(r)
  <2>1. scan[r] \in Scan /\ scan[r].left # <<>>
    BY <1>12 DEF PickAvailable, At, PickInBounds, PickInBoundsAt, TypeOK
  <2>2. [scan[r] EXCEPT !.healthy = TRUE] \in Scan
    BY <2>1 DEF Scan
  <2>3. Advance(scan[r]) \in Scan
    BY <2>1, AdvanceType
  <2>5. scan' \in [Requests -> Scan]
    BY <1>12, <2>2, <2>3 DEF PickAvailable, TypeOK
  <2>6. pc' \in [Requests -> PcValues]
    BY <1>12, GotoType DEF PickAvailable, AfterScan, PcValues, AdmittedPc
  <2> QED
    BY <1>12, <2>5, <2>6 DEF PickAvailable, TypeOK, ClusterTypeOK, clusterVars, ghostVars
<1>13. CASE PickLoad(r)
  <2>1. scan[r] \in Scan /\ scan[r].left # <<>>
    BY <1>13 DEF PickLoad, At, PickInBounds, PickInBoundsAt, TypeOK
  <2>2. Current(r) \in Endpoints
    BY <2>1, HeadTailProperties DEF Current, Scan
  <2>3. [scan[r] EXCEPT !.cur = epInflight[Current(r)]] \in Scan
    BY <2>1, <2>2 DEF Scan, TypeOK, ClusterTypeOK
  <2>4. scan' \in [Requests -> Scan]
    BY <1>13, <2>3 DEF PickLoad, TypeOK
  <2>5. pc' \in [Requests -> PcValues]
    BY <1>13, GotoType DEF PickLoad, PcValues, AdmittedPc
  <2> QED
    BY <1>13, <2>4, <2>5 DEF PickLoad, TypeOK, ClusterTypeOK, clusterVars, ghostVars
<1>14. CASE PickCap(r)
  <2>1. scan[r] \in Scan /\ scan[r].left # <<>>
    BY <1>14 DEF PickCap, At, PickInBounds, PickInBoundsAt, TypeOK
  <2>2. Current(r) \in Endpoints /\ Tail(scan[r].left) \in Seq(Endpoints)
    BY <2>1, HeadTailProperties DEF Current, Scan
  <2>3. CASE Picked(r, Current(r))
    <3>1. pc' \in [Requests -> PcValues]
      BY <2>3, GotoType DEF Picked, PcValues, AdmittedPc
    <3>2. /\ ep' \in [Requests -> Endpoints \cup {NoEndpoint}]
          /\ localNow' \in [Requests -> Nat]
          /\ scan' \in [Requests -> Scan]
      BY <2>2, <2>3, NoScanType DEF Picked, TypeOK
    <3> QED
      BY <1>14, <3>1, <3>2 DEF PickCap, TypeOK, ClusterTypeOK, clusterVars, ghostVars
  <2>4. CASE ~Picked(r, Current(r))
    <3> DEFINE s == IF underEndpointCap(Current(r)) THEN Keep(scan[r], Current(r))
                                                    ELSE scan[r]
    <3>1. s \in Scan /\ s.left = scan[r].left
      BY <2>1, <2>2 DEF Keep, Scan
    <3>2. /\ scan' = [scan EXCEPT ![r] = Advance(s)]
          /\ Goto(r, AfterScan(r))
          /\ UNCHANGED <<ep, localNow>>
      BY <1>14, <2>4 DEF PickCap
    <3> HIDE DEF s
    <3>3. Advance(s) \in Scan
      BY <2>1, <3>1, AdvanceType
    <3>4. scan' \in [Requests -> Scan]
      BY <3>2, <3>3 DEF TypeOK
    <3>5. pc' \in [Requests -> PcValues]
      BY <3>2, GotoType DEF AfterScan, PcValues, AdmittedPc
    <3> QED
      BY <1>14, <3>2, <3>4, <3>5 DEF PickCap, TypeOK, ClusterTypeOK, clusterVars, ghostVars
  <2> QED BY <2>3, <2>4
<1>15. CASE PickCandidate(r)
  <2>1. PICK e \in scan[r].cand : Picked(r, e)
    BY <1>15 DEF PickCandidate
  <2>2. e \in Endpoints
    BY <2>1 DEF TypeOK, Scan
  <2>3. /\ ep' \in [Requests -> Endpoints \cup {NoEndpoint}]
        /\ localNow' \in [Requests -> Nat]
        /\ scan' \in [Requests -> Scan]
    BY <2>1, <2>2, NoScanType DEF Picked, TypeOK
  <2>4. pc' \in [Requests -> PcValues]
    BY <2>1, GotoType DEF Picked, PcValues, AdmittedPc
  <2> QED
    BY <1>15, <2>3, <2>4 DEF PickCandidate, TypeOK, ClusterTypeOK, clusterVars, ghostVars
<1>16. CASE PickFallThrough(r)
  <2>1. scan[r].eps \in Seq(Endpoints) /\ scan[r].eps # <<>>
    BY <1>16 DEF PickFallThrough, At, PickInBounds, PickInBoundsAt, TypeOK, Scan
  <2>2. scan' \in [Requests -> Scan] /\ rr' \in Nat
    BY <1>16, <2>1, StartScanType DEF PickFallThrough, Policies
  <2>3. pc' \in [Requests -> PcValues]
    BY <1>16, GotoType DEF PickFallThrough, PcValues, AdmittedPc
  <2> QED
    BY <1>16, <2>2, <2>3 DEF PickFallThrough, TypeOK, ClusterTypeOK, ghostVars
<1>17. CASE PickUnhealthy(r)
  <2>1. PICK i \in 1..Len(scan[r].eps) : Picked(r, scan[r].eps[i])
    BY <1>17 DEF PickUnhealthy
  <2>2. scan[r].eps[i] \in Endpoints
    BY <2>1, ElementOfSeq DEF TypeOK, Scan
  <2>3. /\ ep' \in [Requests -> Endpoints \cup {NoEndpoint}]
        /\ localNow' \in [Requests -> Nat]
        /\ scan' \in [Requests -> Scan]
    BY <2>1, <2>2, NoScanType DEF Picked, TypeOK
  <2>4. pc' \in [Requests -> PcValues]
    BY <2>1, GotoType DEF Picked, PcValues, AdmittedPc
  <2> QED
    BY <1>17, <2>3, <2>4 DEF PickUnhealthy, TypeOK, ClusterTypeOK, clusterVars, ghostVars
<1>18. CASE PickNoCapacity(r)
  <2>1. scan' \in [Requests -> Scan] /\ localNow' \in [Requests -> Nat]
    BY <1>18, NoScanType DEF PickNoCapacity, TypeOK
  <2>2. pc' \in [Requests -> PcValues]
    BY <1>18, GotoType DEF PickNoCapacity, PcValues, AdmittedPc, OvershootPc, WaitingPc
  <2> QED
    BY <1>18, <2>1, <2>2 DEF PickNoCapacity, TypeOK, ClusterTypeOK, clusterVars, localVars, ghostVars
<1>19. CASE NoCapacityRelease(r)
  <2>1. inflight' \in Int
    BY <1>19 DEF NoCapacityRelease, TypeOK, ClusterTypeOK, ReleaseSlot
  <2>2. origin' \in [Requests -> Origins]
    BY <1>19 DEF NoCapacityRelease, TypeOK, Origins
  <2>3. pc' \in [Requests -> PcValues]
    BY <1>19, GotoType DEF NoCapacityRelease, PcValues, AdmittedPc, OvershootPc, WaitingPc
  <2> QED
    BY <1>19, <2>1, <2>2, <2>3 DEF NoCapacityRelease, TypeOK, ClusterTypeOK, clusterVars, localVars, ghostVars
<1>20. CASE Inc(r)
  <2>1. ep[r] \in Endpoints
    BY <1>20 DEF Inc, At, PickInBounds, PickInBoundsAt
  <2>2. epInflight' \in [Endpoints -> Int]
    BY <1>20, <2>1 DEF Inc, IncEndpointInFlight, TypeOK, ClusterTypeOK
  <2>3. pc' \in [Requests -> PcValues] /\ out' \in [Requests -> Outcomes]
    BY <1>20, GotoType, FinishType DEF Inc, PcValues, AdmittedPc, Outcomes, TypeOK
  <2>4. /\ ep' \in [Requests -> Endpoints \cup {NoEndpoint}]
        /\ leaked' \in Nat
        /\ epLeaked' \in [Endpoints -> Nat]
    BY <1>20, <2>1 DEF Inc, TypeOK
  <2> QED
    BY <1>20, <2>2, <2>3, <2>4 DEF Inc, TypeOK, ClusterTypeOK
<1>21. CASE DoResponse(r)
  <2>1. pc' \in [Requests -> PcValues]
    BY <1>21, GotoType DEF DoResponse, PcValues, AdmittedPc, OvershootPc, WaitingPc
  <2> QED
    BY <1>21, <2>1 DEF DoResponse, TypeOK, ClusterTypeOK, clusterVars, localVars, ghostVars
<1>22. CASE DoError(r)
  <2>1. out' \in [Requests -> Outcomes]
    BY <1>22 DEF DoError, TypeOK, Outcomes
  <2>2. localNow' \in [Requests -> Nat]
    BY <1>22 DEF DoError, TypeOK, ClusterTypeOK
  <2>3. pc' \in [Requests -> PcValues]
    BY <1>22, GotoType DEF DoError, PcValues, AdmittedPc, OvershootPc, WaitingPc
  <2> QED
    BY <1>22, <2>1, <2>2, <2>3 DEF DoError, TypeOK, ClusterTypeOK, clusterVars, localVars, ghostVars
<1>23. CASE Write(r)
  <2>1. out' \in [Requests -> Outcomes]
    BY <1>23 DEF Write, TypeOK, Outcomes
  <2>2. pc' \in [Requests -> PcValues]
    BY <1>23, GotoType DEF Write, PcValues, AdmittedPc, OvershootPc, WaitingPc
  <2> QED
    BY <1>23, <2>1, <2>2 DEF Write, TypeOK, ClusterTypeOK, clusterVars, localVars, ghostVars
<1>24. CASE Report(r)
  <2>1. ep[r] \in Endpoints
    BY <1>24 DEF Report, At, PickInBounds, PickInBoundsAt, AtEndpointPc
  <2>2. health[ep[r]] \in Health /\ localNow[r] \in Nat
    BY <2>1 DEF TypeOK, ClusterTypeOK
  <2>3. /\ [health[ep[r]] EXCEPT !.failures = 0] \in Health
        /\ AfterFailure(health[ep[r]], localNow[r]) \in Health
    BY <2>2, AfterFailureType DEF Health
  <2>4. health' \in [Endpoints -> Health]
    BY <1>24, <2>1, <2>3 DEF Report, markSuccess, markFailure, TypeOK, ClusterTypeOK
  <2>5. localNow' \in [Requests -> Nat]
    BY <1>24 DEF Report, TypeOK
  <2>6. pc' \in [Requests -> PcValues]
    BY <1>24, GotoType DEF Report, PcValues, AdmittedPc
  <2> QED
    BY <1>24, <2>4, <2>5, <2>6 DEF Report, TypeOK, ClusterTypeOK, ghostVars
<1>25. CASE Dec(r)
  <2>1. ep[r] \in Endpoints
    BY <1>25 DEF Dec, At, PickInBounds, PickInBoundsAt, AtEndpointPc
  <2>2. epInflight' \in [Endpoints -> Int]
    BY <1>25, <2>1 DEF Dec, DecEndpointInFlight, TypeOK, ClusterTypeOK
  <2>3. ep' \in [Requests -> Endpoints \cup {NoEndpoint}]
    BY <1>25 DEF Dec, TypeOK
  <2>4. pc' \in [Requests -> PcValues]
    BY <1>25, GotoType DEF Dec, PcValues, AdmittedPc
  <2> QED
    BY <1>25, <2>2, <2>3, <2>4 DEF Dec, TypeOK, ClusterTypeOK, ghostVars
<1>26. CASE Release(r)
  <2>1. inflight' \in Int
    BY <1>26 DEF Release, TypeOK, ClusterTypeOK, ReleaseSlot
  <2>2. pc' \in [Requests -> PcValues]
    BY <1>26, GotoType DEF Release, PcValues, AdmittedPc, OvershootPc, WaitingPc
  <2> QED
    BY <1>26, <2>1, <2>2 DEF Release, TypeOK, ClusterTypeOK, clusterVars, localVars, ghostVars
<1>27. CASE BackoffTimer(r)
  <2>1. /\ pc' \in [Requests -> PcValues]
        /\ attempt' \in [Requests -> 0..MaxRetries]
        /\ out' \in [Requests -> Outcomes]
    BY <1>27, NextAttemptType DEF BackoffTimer, TypeOK
  <2> QED
    BY <1>27, <2>1 DEF BackoffTimer, TypeOK, ClusterTypeOK, clusterVars, localVars, ghostVars
<1>28. CASE BackoffCut(r)
  <2>1. pc' \in [Requests -> PcValues] /\ out' \in [Requests -> Outcomes]
    BY <1>28, FinishType DEF BackoffCut, Outcomes
  <2> QED
    BY <1>28, <2>1 DEF BackoffCut, TypeOK, ClusterTypeOK, clusterVars, localVars, ghostVars
<1>29. CASE Expire(r)
  <2>1. ctx' \in [Requests -> ContextStates]
    BY <1>29 DEF Expire, TypeOK, ContextStates
  <2> QED
    BY <1>29, <2>1 DEF Expire, TypeOK, ClusterTypeOK, clusterVars, localVars, ghostVars
<1>30. CASE Cancel(r)
  <2>1. ctx' \in [Requests -> ContextStates]
    BY <1>30 DEF Cancel, TypeOK, ContextStates
  <2> QED
    BY <1>30, <2>1 DEF Cancel, TypeOK, ClusterTypeOK, clusterVars, localVars, ghostVars
<1> QED
  BY <1>1, <1>2, <1>3, <1>4, <1>5, <1>6, <1>7, <1>8, <1>9, <1>10, <1>11, <1>12, <1>13, <1>14, <1>15, <1>16, <1>17, <1>18, <1>19, <1>20, <1>21, <1>22, <1>23, <1>24, <1>25, <1>26, <1>27, <1>28, <1>29, <1>30 DEF Step

----------------------------------------------------------------------------
(* Pick stays within its snapshot.                                         *)

\* PickInBoundsAt is about one request only.
LEMMA PickFrame ==
  ASSUME PickInBounds, NEW r \in Requests, PickInBoundsAt(r)',
         \A q \in Requests \ {r} : /\ pc'[q] = pc[q]
                                   /\ scan'[q] = scan[q]
                                   /\ ep'[q] = ep[q]
  PROVE  PickInBounds'
  BY DEF PickInBounds, PickInBoundsAt

\* Every step of a request stays within the slice that Pick copied.
LEMMA PickStep ==
  ASSUME TypeOK, PickInBounds, NEW r \in Requests,
         Arrive(r) \/ Step(r) \/ Expire(r) \/ Cancel(r)
  PROVE  PickInBounds'
<1> USE DEF At, Goto, AtEndpointPc, localVars
<1>0. SUFFICES /\ PickInBoundsAt(r)'
               /\ \A q \in Requests \ {r} : /\ pc'[q] = pc[q]
                                            /\ scan'[q] = scan[q]
                                            /\ ep'[q] = ep[q]
  BY PickFrame
<1>a. PickInBoundsAt(r)
  BY DEF PickInBounds
<1>1. CASE Arrive(r)
  BY <1>a, <1>1 DEF PickInBoundsAt, TypeOK, Arrive
<1>2. CASE Acquire(r)
  BY <1>a, <1>2 DEF PickInBoundsAt, TypeOK, Acquire
<1>3. CASE AcquireRollback(r)
  BY <1>a, <1>3 DEF PickInBoundsAt, TypeOK, AcquireRollback
<1>4. CASE Enqueue(r)
  BY <1>a, <1>4 DEF PickInBoundsAt, TypeOK, Enqueue, Finish
<1>5. CASE Poll(r)
  BY <1>a, <1>5 DEF PickInBoundsAt, TypeOK, Poll
<1>6. CASE PollRollback(r)
  BY <1>a, <1>6 DEF PickInBoundsAt, TypeOK, PollRollback
<1>7. CASE PollTick(r)
  BY <1>a, <1>7 DEF PickInBoundsAt, TypeOK, PollTick
<1>8. CASE PollDrop(r)
  BY <1>a, <1>8 DEF PickInBoundsAt, TypeOK, PollDrop, Finish
<1>9. CASE Dequeue(r)
  BY <1>a, <1>9 DEF PickInBoundsAt, TypeOK, Dequeue, NextAttempt, Finish
<1>10. CASE PickEmpty(r)
  BY <1>a, <1>10 DEF PickInBoundsAt, TypeOK, PickEmpty, Finish
<1>11. CASE PickStart(r)
  <2>1. /\ scan'[r].left # <<>>
        /\ scan'[r].eps # <<>>
        /\ \A q \in Requests : q # r => scan'[q] = scan[q]
    BY <1>11, StartScanType DEF PickStart, TypeOK, ClusterTypeOK
  <2> QED BY <1>11, <2>1 DEF PickInBoundsAt, TypeOK, PickStart
<1>12. CASE PickAvailable(r)
  <2>1. scan[r] \in Scan /\ scan[r].left # <<>> /\ scan[r].eps # <<>>
    BY <1>12, <1>a DEF PickAvailable, PickInBoundsAt, TypeOK
  <2>2. CASE isAvailable(Current(r), localNow[r])
    <3>1. scan' = [scan EXCEPT ![r].healthy = TRUE] /\ UNCHANGED ep
      BY <1>12, <2>2 DEF PickAvailable
    <3>2. scan'[r].left # <<>> /\ scan'[r].eps # <<>>
      BY <2>1, <3>1 DEF TypeOK, Scan
    <3>3. pc' = [pc EXCEPT ![r] = IF scan[r].mode = "least_requests" THEN "load" ELSE "cap"]
      BY <1>12, <2>2 DEF PickAvailable
    <3> QED BY <3>1, <3>2, <3>3 DEF PickInBoundsAt, TypeOK
  <2>3. CASE ~isAvailable(Current(r), localNow[r])
    <3>1. scan' = [scan EXCEPT ![r] = Advance(scan[r])] /\ UNCHANGED ep
      BY <1>12, <2>3 DEF PickAvailable
    <3>2. scan'[r] = Advance(scan[r])
      BY <3>1 DEF TypeOK
    <3>3. pc' = [pc EXCEPT ![r] = IF Len(scan[r].left) = 1 THEN "choose" ELSE "avail"]
      BY <1>12, <2>3 DEF PickAvailable, AfterScan
    <3> QED BY <2>1, <3>1, <3>2, <3>3, AdvanceType DEF PickInBoundsAt, TypeOK
  <2> QED BY <2>2, <2>3
<1>13. CASE PickLoad(r)
  BY <1>a, <1>13 DEF PickInBoundsAt, TypeOK, PickLoad
<1>14. CASE PickCap(r)
  <2>1. scan[r] \in Scan /\ scan[r].left # <<>> /\ scan[r].eps # <<>>
    BY <1>14, <1>a DEF PickCap, PickInBoundsAt, TypeOK
  <2>2. Current(r) \in Endpoints
    BY <2>1, HeadTailProperties DEF Current, Scan
  <2>3. CASE Picked(r, Current(r))
    BY <2>2, <2>3 DEF Picked, PickInBoundsAt, TypeOK
  <2>4. CASE ~Picked(r, Current(r))
    <3> DEFINE s == IF underEndpointCap(Current(r)) THEN Keep(scan[r], Current(r))
                                                    ELSE scan[r]
    <3>1. s \in Scan /\ s.left = scan[r].left /\ s.eps = scan[r].eps
      BY <2>1, <2>2 DEF Keep, Scan
    <3>2. /\ scan' = [scan EXCEPT ![r] = Advance(s)]
          /\ pc' = [pc EXCEPT ![r] = IF Len(scan[r].left) = 1 THEN "choose" ELSE "avail"]
          /\ UNCHANGED ep
      BY <1>14, <2>4 DEF PickCap, AfterScan
    <3> HIDE DEF s
    <3>3. scan'[r] = Advance(s)
      BY <3>2 DEF TypeOK
    <3> QED BY <2>1, <3>1, <3>2, <3>3, AdvanceType DEF PickInBoundsAt, TypeOK
  <2> QED BY <2>3, <2>4
<1>15. CASE PickCandidate(r)
  <2>1. PICK e \in scan[r].cand : Picked(r, e)
    BY <1>15 DEF PickCandidate
  <2>2. e \in Endpoints
    BY <2>1 DEF TypeOK, Scan
  <2> QED BY <2>1, <2>2 DEF Picked, PickInBoundsAt, TypeOK
<1>16. CASE PickFallThrough(r)
  <2>1. scan[r].eps \in Seq(Endpoints) /\ scan[r].eps # <<>>
    BY <1>16, <1>a DEF PickFallThrough, PickInBoundsAt, TypeOK, Scan
  <2>2. /\ scan'[r].left # <<>>
        /\ scan'[r].eps # <<>>
        /\ \A q \in Requests : q # r => scan'[q] = scan[q]
    BY <1>16, <2>1, StartScanType DEF PickFallThrough, Policies
  <2> QED BY <1>16, <2>2 DEF PickInBoundsAt, TypeOK, PickFallThrough
<1>17. CASE PickUnhealthy(r)
  <2>1. PICK i \in 1..Len(scan[r].eps) : Picked(r, scan[r].eps[i])
    BY <1>17 DEF PickUnhealthy
  <2>2. scan[r].eps[i] \in Endpoints
    BY <2>1, ElementOfSeq DEF TypeOK, Scan
  <2> QED BY <2>1, <2>2 DEF Picked, PickInBoundsAt, TypeOK
<1>18. CASE PickNoCapacity(r)
  BY <1>a, <1>18 DEF PickInBoundsAt, TypeOK, PickNoCapacity
<1>19. CASE NoCapacityRelease(r)
  BY <1>a, <1>19 DEF PickInBoundsAt, TypeOK, NoCapacityRelease
<1>20. CASE Inc(r)
  BY <1>a, <1>20 DEF PickInBoundsAt, TypeOK, Inc, Finish
<1>21. CASE DoResponse(r)
  BY <1>a, <1>21 DEF PickInBoundsAt, TypeOK, DoResponse
<1>22. CASE DoError(r)
  BY <1>a, <1>22 DEF PickInBoundsAt, TypeOK, DoError
<1>23. CASE Write(r)
  BY <1>a, <1>23 DEF PickInBoundsAt, TypeOK, Write
<1>24. CASE Report(r)
  BY <1>a, <1>24 DEF PickInBoundsAt, TypeOK, Report
<1>25. CASE Dec(r)
  BY <1>a, <1>25 DEF PickInBoundsAt, TypeOK, Dec
<1>26. CASE Release(r)
  BY <1>a, <1>26 DEF PickInBoundsAt, TypeOK, Release
<1>27. CASE BackoffTimer(r)
  BY <1>a, <1>27 DEF PickInBoundsAt, TypeOK, BackoffTimer, NextAttempt, Finish
<1>28. CASE BackoffCut(r)
  BY <1>a, <1>28 DEF PickInBoundsAt, TypeOK, BackoffCut, Finish
<1>29. CASE Expire(r)
  BY <1>a, <1>29 DEF PickInBoundsAt, TypeOK, Expire
<1>30. CASE Cancel(r)
  BY <1>a, <1>30 DEF PickInBoundsAt, TypeOK, Cancel
<1> QED
  BY <1>1, <1>2, <1>3, <1>4, <1>5, <1>6, <1>7, <1>8, <1>9, <1>10, <1>11, <1>12, <1>13, <1>14, <1>15, <1>16, <1>17, <1>18, <1>19, <1>20, <1>21, <1>22, <1>23, <1>24, <1>25, <1>26, <1>27, <1>28, <1>29, <1>30 DEF Step

\* updateActiveHealth leaves a well-typed epState.
LEMMA AfterProbeType ==
  ASSUME NEW h \in Health, NEW healthy \in BOOLEAN
  PROVE  AfterProbe(h, healthy) \in Health
<1> DEFINE succ == IF healthy THEN Bump(h.consecSucc, HealthyThreshold) ELSE 0
           fail == IF healthy THEN 0 ELSE Bump(h.consecFail, UnhealthyThreshold)
           bad == IF h.activeUnhealthy THEN succ < HealthyThreshold
                                       ELSE fail >= UnhealthyThreshold
<1>1. \A n \in Nat, k \in Nat : Bump(n, k) \in Nat
  BY DEF Bump
<1>2. h.consecSucc \in Nat /\ h.consecFail \in Nat
  BY DEF Health
<1>3. succ \in Nat /\ fail \in Nat
  BY <1>1, <1>2, HealthCheckAssumption
<1>4. bad \in BOOLEAN
  <2>1. (succ < HealthyThreshold) \in BOOLEAN /\ (fail >= UnhealthyThreshold) \in BOOLEAN
    <3> HIDE DEF succ, fail
    <3> QED BY <1>3, HealthCheckAssumption
  <2>2. CASE h.activeUnhealthy
    BY <2>1, <2>2
  <2>3. CASE ~h.activeUnhealthy
    BY <2>1, <2>3
  <2> QED BY <2>2, <2>3
<1>5. AfterProbe(h, healthy) =
        [h EXCEPT !.consecSucc = succ, !.consecFail = fail, !.activeUnhealthy = bad]
  BY DEF AfterProbe
<1> HIDE DEF succ, fail, bad
<1>6. \A g \in Health : /\ [g EXCEPT !.consecSucc = succ] \in Health
                        /\ [g EXCEPT !.consecFail = fail] \in Health
                        /\ [g EXCEPT !.activeUnhealthy = bad] \in Health
  BY <1>3, <1>4 DEF Health
<1> QED BY <1>5, <1>6

\* Probes, discovery and the clock keep the types and leave the counters alone.
LEMMA EnvType ==
  ASSUME TypeOK, EnvNext
  PROVE  TypeOK' /\ UNCHANGED proxyVars /\ UNCHANGED <<inflight, epInflight>>
<1>1. UNCHANGED proxyVars
  BY DEF EnvNext
<1>2. CASE \E e \in HealthChecked : Probe(e)
  <2>1. PICK e \in HealthChecked, healthy \in BOOLEAN :
          /\ updateActiveHealth(e, healthy)
          /\ UNCHANGED <<lbPolicy, endpoints, rr, inflight, epInflight, now>>
    BY <1>2 DEF Probe
  <2>2. e \in Endpoints
    BY HealthCheckAssumption
  <2>3. AfterProbe(health[e], healthy) \in Health
    BY <2>2, AfterProbeType DEF TypeOK, ClusterTypeOK
  <2>4. health' \in [Endpoints -> Health]
    BY <2>1, <2>3 DEF updateActiveHealth, TypeOK, ClusterTypeOK
  <2> QED
    BY <1>1, <2>1, <2>4 DEF TypeOK, ClusterTypeOK, proxyVars, localVars, ghostVars
<1>3. CASE \E eps \in EndpointLists : ApplyEndpointSet(eps)
  BY <1>1, <1>3, EndpointListsAssumption
     DEF ApplyEndpointSet, TypeOK, ClusterTypeOK, proxyVars, localVars, ghostVars
<1>4. CASE Tick
  BY <1>1, <1>4 DEF Tick, TypeOK, ClusterTypeOK, proxyVars, localVars, ghostVars
<1> QED BY <1>2, <1>3, <1>4 DEF EnvNext, ClusterEnv

\* The types depend on a part of the state of Pick: reading the head of the endpoints left is
\* only well defined because the loop stops at the last one.
LEMMA TypeAndPick == Spec => [](TypeOK /\ PickInBounds)
<1>1. Init => TypeOK /\ PickInBounds
  BY InitTypeOK DEF Init, PickInBounds, PickInBoundsAt, AtEndpointPc
<1>2. TypeOK /\ PickInBounds /\ [Next]_vars => (TypeOK /\ PickInBounds)'
  <2> SUFFICES ASSUME TypeOK, PickInBounds, [Next]_vars
               PROVE  TypeOK' /\ PickInBounds'
    OBVIOUS
  <2>1. CASE RequestNext
    BY <2>1, TypeStep, PickStep DEF RequestNext
  <2>2. CASE EnvNext
    BY <2>2, EnvType
       DEF PickInBounds, PickInBoundsAt, proxyVars, localVars
  <2>3. CASE UNCHANGED vars
    BY <2>3 DEF vars, clusterVars, proxyVars, localVars, ghostVars,
                TypeOK, ClusterTypeOK, PickInBounds, PickInBoundsAt
  <2> QED BY <2>1, <2>2, <2>3 DEF Next, AllDone
<1> QED BY <1>1, <1>2, PTL DEF Spec

(***************************************************************************)
(* Every reachable state is well typed; in particular OnRequest makes no   *)
(* more than 1 + max_retries attempts.                                     *)
(***************************************************************************)
THEOREM TypeCorrect == Spec => []TypeOK
  BY TypeAndPick, PTL

(***************************************************************************)
(* Pick never reads past the slice that it copied, in none of its three    *)
(* policies and whatever discovery installs while it scans, and no attempt *)
(* is made without an endpoint.                                            *)
(***************************************************************************)
THEOREM PickStaysInBounds == Spec => []PickInBounds
  BY TypeAndPick, PTL

=============================================================================
