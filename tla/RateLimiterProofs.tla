------------------------- MODULE RateLimiterProofs -------------------------
(***************************************************************************)
(* The token buckets keep the limit for any rate, burst, scope and number  *)
(* of limiters and clients.  WindowBound is about pairs of past requests   *)
(* and says nothing of the tokens, so it is not inductive; BucketExact     *)
(* ties the tokens to the past requests and is.                            *)
(***************************************************************************)
EXTENDS RateLimiter, TLAPS

(* A bucket that nobody asked for is full and has let nothing pass; no     *)
(* bucket was refilled in the future.                                      *)
Fresh ==
  \A b \in Buckets :
    /\ b \notin made => tok[b] = Cap /\ grants[b] = <<>>
    /\ last[b] <= clock

LimiterInv == LimiterTypeOK /\ Fresh /\ BucketExact /\ WindowBound

\* The constants of a bucket are integers and a bucket holds a token.
LEMMA BucketConstants ==
  Token \in Nat \ {0} /\ Rate \in Nat \ {0} /\ Cap \in Nat /\ Cap >= Token
<1> DEFINE n == IF Burst <= 0 THEN RequestsPerSecond ELSE Burst
<1>1. n \in Nat /\ n >= 1 /\ Token \in Nat \ {0} /\ Rate \in Nat \ {0}
  BY LimiterConstants DEF Token, Rate
<1>2. \A t, k \in Nat : k >= 1 => t * k \in Nat /\ t * k >= t
  OBVIOUS
<1>3. Cap = Token * n
  BY DEF Cap
<1> QED BY <1>1, <1>2, <1>3

\* Multiplication distributes over the differences that LeftSince is made of.
LEMMA Distribute ==
  /\ \A k, x, y, z \in Int : k * (x - z) = k * (y - z) + k * (x - y)
  /\ \A k, x \in Int : (x + 1) * k = x * k + k
  /\ \A k, x \in Nat : k * x \in Nat
  /\ \A k, x \in Int : k * x \in Int
  /\ \A k \in Int : k * 0 = 0 /\ 1 * k = k
OBVIOUS

\* A charge acts on a bucket of the limiter that asks.
LEMMA BucketOfType ==
  ASSUME NEW l \in Limiters, NEW x \in Clients
  PROVE  BucketOf(l, x) \in Buckets
BY DEF BucketOf, Buckets, Keys

\* The limiter starts in a state of the invariant.
LEMMA InitInv == LimiterInit => LimiterInv
BY BucketConstants
DEF LimiterInit, LimiterInv, LimiterTypeOK, Fresh, BucketExact, WindowBound

\* The passing of time changes none of it.
LEMMA TickInv == LimiterInv /\ Tick => LimiterInv'
<1> SUFFICES ASSUME LimiterInv, Tick PROVE LimiterInv'
  OBVIOUS
<1>1. clock' \in Nat /\ clock' >= clock /\ clock \in Nat
  BY DEF Tick, LimiterInv, LimiterTypeOK
<1>2. UNCHANGED <<made, tok, last, grants>>
  BY DEF Tick
<1>3. LimiterTypeOK' /\ Fresh'
  BY <1>1, <1>2 DEF LimiterInv, LimiterTypeOK, Fresh
<1>4. BucketExact' /\ WindowBound'
  BY <1>2 DEF LimiterInv, BucketExact, WindowBound, LeftSince
<1> QED BY <1>3, <1>4 DEF LimiterInv

\* Refilling a bucket keeps what ties its tokens to the past requests, with
\* the present as the instant of the refill.
LEMMA RefillExact ==
  ASSUME LimiterInv, NEW b \in Buckets
  PROVE  LET n == Len(grants[b])
             Left(i) == Cap + Rate * (clock - grants[b][i]) - (n - i + 1) * Token
         IN  /\ Refilled(b) \in 0 .. Cap
             /\ \A i \in 1 .. n : Refilled(b) <= Left(i)
             /\ Refilled(b) = Cap \/ \E i \in 1 .. n : Refilled(b) = Left(i)
<1> DEFINE n == Len(grants[b])
           Left(i) == Cap + Rate * (clock - grants[b][i]) - (n - i + 1) * Token
<1>1. /\ Token \in Nat /\ Rate \in Nat /\ Cap \in Nat
      /\ clock \in Nat /\ last[b] \in Nat /\ last[b] <= clock
      /\ tok[b] \in 0 .. Cap /\ n \in Nat
      /\ \A i \in 1 .. n : grants[b][i] \in Nat
  BY BucketConstants DEF LimiterInv, LimiterTypeOK, Fresh
<1>2. CASE b \notin made
  <2>1. grants[b] = <<>> /\ Refilled(b) = Cap
    BY <1>1, <1>2 DEF Refilled, TokensOf, LastOf, LimiterInv, Fresh
  <2> QED BY <1>1, <2>1
<1>3. CASE b \in made
  <2> DEFINE gain == Rate * (clock - last[b])
  <2>1. gain \in Nat
    BY <1>1, Distribute
  <2>2. clock = last[b] => gain = 0
    BY <1>1, Distribute
  <2>3. Refilled(b) = IF tok[b] + gain > Cap THEN Cap ELSE tok[b] + gain
    BY <1>1, <1>3, <2>1, <2>2 DEF Refilled, TokensOf, LastOf
  <2>4. \A i \in 1 .. n : /\ Left(i) \in Int /\ LeftSince(b, i) \in Int
                           /\ Left(i) = LeftSince(b, i) + gain
    <3> SUFFICES ASSUME NEW i \in 1 .. n
                 PROVE  /\ Left(i) \in Int /\ LeftSince(b, i) \in Int
                        /\ Left(i) = LeftSince(b, i) + gain
      OBVIOUS
    <3> DEFINE now == Rate * (clock - grants[b][i])
               then == Rate * (last[b] - grants[b][i])
               used == (n - i + 1) * Token
    <3>1. now = then + gain
      BY <1>1, Distribute
    <3>2. now \in Int /\ then \in Int /\ used \in Int
      BY <1>1, Distribute
    <3>3. Left(i) = Cap + now - used /\ LeftSince(b, i) = Cap + then - used
      BY DEF LeftSince
    <3>4. Cap \in Int /\ gain \in Int
      BY <1>1, <2>1
    <3> HIDE DEF gain, now, then, used, Left
    <3> QED BY <3>1, <3>2, <3>3, <3>4
  <2>5. /\ \A i \in 1 .. n : tok[b] <= LeftSince(b, i)
        /\ tok[b] = Cap \/ \E i \in 1 .. n : tok[b] = LeftSince(b, i)
    BY DEF LimiterInv, BucketExact
  <2> HIDE DEF gain, Left, n
  <2>6. Refilled(b) \in 0 .. Cap
    BY <1>1, <2>1, <2>3
  <2>7. \A i \in 1 .. n : Refilled(b) <= Left(i)
    <3> SUFFICES ASSUME NEW i \in 1 .. n PROVE Refilled(b) <= Left(i)
      OBVIOUS
    <3>1. Left(i) \in Int /\ tok[b] + gain <= Left(i)
      BY <1>1, <2>1, <2>4, <2>5
    <3> QED BY <1>1, <2>1, <2>3, <3>1
  <2>8. Refilled(b) = Cap \/ \E i \in 1 .. n : Refilled(b) = Left(i)
    <3>1. CASE tok[b] = Cap
      BY <1>1, <2>1, <2>3, <3>1
    <3>2. CASE \E i \in 1 .. n : tok[b] = LeftSince(b, i)
      <4>1. PICK i \in 1 .. n : tok[b] = LeftSince(b, i)
        BY <3>2
      <4>2. Left(i) = tok[b] + gain
        BY <2>4, <4>1
      <4> QED BY <1>1, <2>1, <2>3, <4>2
    <3> QED BY <2>5, <3>1, <3>2
  <2> QED BY <2>6, <2>7, <2>8 DEF Left, n
<1> QED BY <1>2, <1>3

\* What a charge does to the bucket it is made on, and to the other ones.
LEMMA ChargeEffect ==
  ASSUME LimiterInv, NEW b \in Buckets, Charge(b)
  PROVE  /\ clock' = clock /\ last'[b] = clock
         /\ \A d \in Buckets \ {b} : /\ tok'[d] = tok[d] /\ last'[d] = last[d]
                                    /\ grants'[d] = grants[d]
                                    /\ (d \in made' <=> d \in made)
         /\ b \in made'
         /\ Allows(b) => /\ tok'[b] = Refilled(b) - Token
                         /\ grants'[b] = Append(grants[b], clock)
         /\ ~Allows(b) => tok'[b] = Refilled(b) /\ grants'[b] = grants[b]
BY DEF LimiterInv, LimiterTypeOK, Fresh, Charge, LastOf

\* A charge keeps the types, and a bucket that was charged exists.
LEMMA ChargeType ==
  ASSUME LimiterInv, NEW b \in Buckets, Charge(b)
  PROVE  LimiterTypeOK' /\ Fresh'
<1>1. Refilled(b) \in 0 .. Cap /\ Token \in Nat /\ Cap \in Nat
  BY RefillExact, BucketConstants
<1>2. tok' \in [Buckets -> 0 .. Cap]
  <2>1. (IF Allows(b) THEN Refilled(b) - Token ELSE Refilled(b)) \in 0 .. Cap
    BY <1>1 DEF Allows
  <2> QED BY <2>1 DEF LimiterInv, LimiterTypeOK, Charge
<1>3. clock' \in Nat /\ made' \subseteq Buckets /\ last' \in [Buckets -> Nat]
  BY DEF LimiterInv, LimiterTypeOK, Charge, LastOf
<1>4. grants' \in [Buckets -> Seq(Nat)]
  BY DEF LimiterInv, LimiterTypeOK, Charge
<1>5. Fresh'
  BY ChargeEffect DEF Fresh, LimiterInv, LimiterTypeOK
<1> QED BY <1>2, <1>3, <1>4, <1>5 DEF LimiterTypeOK

\* A charge keeps the tokens tied to the requests that passed.
LEMMA ChargeExact ==
  ASSUME LimiterInv, NEW b \in Buckets, Charge(b)
  PROVE  BucketExact'
<1>0. PICK n \in Nat : n = Len(grants[b])
  BY DEF LimiterInv, LimiterTypeOK
<1> DEFINE Left(i) == Cap + Rate * (clock - grants[b][i]) - (n - i + 1) * Token
<1>1. /\ Refilled(b) \in 0 .. Cap
      /\ \A i \in 1 .. n : Refilled(b) <= Left(i)
      /\ Refilled(b) = Cap \/ \E i \in 1 .. n : Refilled(b) = Left(i)
  BY <1>0, RefillExact
<1>2. /\ Token \in Nat /\ Rate \in Nat /\ Cap \in Nat /\ clock \in Nat
      /\ grants[b] \in Seq(Nat)
      /\ \A i \in 1 .. n : grants[b][i] \in Nat
  BY <1>0, BucketConstants DEF LimiterInv, LimiterTypeOK
<1> SUFFICES ASSUME NEW d \in Buckets
             PROVE  /\ \A i \in 1 .. Len(grants'[d]) : tok'[d] <= LeftSince(d, i)'
                    /\ \/ tok'[d] = Cap
                       \/ \E i \in 1 .. Len(grants'[d]) : tok'[d] = LeftSince(d, i)'
  BY DEF BucketExact
<1>3. CASE d # b
  BY <1>3, ChargeEffect DEF LimiterInv, BucketExact, LeftSince
<1>4. CASE d = b /\ ~Allows(b)
  <2>1. grants'[b] = grants[b] /\ tok'[b] = Refilled(b)
    BY <1>4, ChargeEffect
  <2>2. \A i \in 1 .. n : LeftSince(b, i)' = Left(i)
    BY <1>0, <2>1, ChargeEffect DEF LeftSince
  <2> HIDE DEF Left
  <2> QED BY <1>0, <1>1, <1>4, <2>1, <2>2
<1>5. CASE d = b /\ Allows(b)
  <2>1. /\ tok'[b] = Refilled(b) - Token
        /\ Len(grants'[b]) = n + 1 /\ grants'[b][n + 1] = clock
        /\ \A i \in 1 .. n : grants'[b][i] = grants[b][i]
    <3>1. tok'[b] = Refilled(b) - Token /\ grants'[b] = Append(grants[b], clock)
      BY <1>5, ChargeEffect
    <3> QED BY <1>0, <1>2, <3>1
  <2>2. LeftSince(b, n + 1)' = Cap - Token
    <3>1. LeftSince(b, n + 1)' = Cap + Rate * (clock - clock) - ((n + 1) - (n + 1) + 1) * Token
      BY <2>1, ChargeEffect DEF LeftSince
    <3>2. Rate * (clock - clock) = 0 /\ ((n + 1) - (n + 1) + 1) * Token = Token
      BY <1>2, Distribute
    <3> QED BY <1>2, <3>1, <3>2
  <2>3. \A i \in 1 .. n : Left(i) \in Int /\ LeftSince(b, i)' = Left(i) - Token
    <3> SUFFICES ASSUME NEW i \in 1 .. n
                 PROVE  Left(i) \in Int /\ LeftSince(b, i)' = Left(i) - Token
      OBVIOUS
    <3> DEFINE now == Rate * (clock - grants[b][i])
               used == (n - i + 1) * Token
    <3>1. LeftSince(b, i)' = Cap + now - ((n + 1) - i + 1) * Token
      BY <2>1, ChargeEffect DEF LeftSince
    <3>2. ((n + 1) - i + 1) * Token = used + Token
      <4>1. (n + 1) - i + 1 = (n - i + 1) + 1
        BY <1>2
      <4> QED BY <1>2, <4>1, Distribute
    <3>3. now \in Int /\ used \in Int
      BY <1>2, Distribute
    <3>4. Left(i) = Cap + now - used
      OBVIOUS
    <3> HIDE DEF now, used, Left
    <3> QED BY <1>2, <3>1, <3>2, <3>3, <3>4
  <2> HIDE DEF Left
  <2>4. \A i \in 1 .. n + 1 : tok'[b] <= LeftSince(b, i)'
    <3> SUFFICES ASSUME NEW i \in 1 .. n + 1 PROVE tok'[b] <= LeftSince(b, i)'
      OBVIOUS
    <3>1. CASE i = n + 1
      BY <1>1, <1>2, <2>1, <2>2, <3>1
    <3>2. CASE i \in 1 .. n
      BY <1>1, <1>2, <2>1, <2>3, <3>2
    <3> QED BY <1>2, <3>1, <3>2
  <2>5. \E i \in 1 .. n + 1 : tok'[b] = LeftSince(b, i)'
    <3>1. CASE Refilled(b) = Cap
      <4>1. n + 1 \in 1 .. n + 1 /\ tok'[b] = LeftSince(b, n + 1)'
        BY <1>2, <2>1, <2>2, <3>1
      <4> QED BY <4>1
    <3>2. CASE \E i \in 1 .. n : Refilled(b) = Left(i)
      <4>1. PICK i \in 1 .. n : Refilled(b) = Left(i)
        BY <3>2
      <4>2. i \in 1 .. n + 1 /\ tok'[b] = LeftSince(b, i)'
        BY <1>2, <2>1, <2>3, <4>1
      <4> QED BY <4>2
    <3> QED BY <1>1, <3>1, <3>2
  <2> QED BY <1>5, <2>1, <2>4, <2>5
<1> QED BY <1>3, <1>4, <1>5

\* The request that a charge lets pass respects the limit together with any
\* stretch of requests before it, because the tokens are exact.
LEMMA ChargeWindow ==
  ASSUME LimiterInv, NEW b \in Buckets, Charge(b)
  PROVE  WindowBound'
<1> DEFINE Within(d, i, j) ==
      (j - i + 1) * Token <= Cap + Rate * (grants[d][j] - grants[d][i])
<1>1. \A d \in Buckets : \A j \in 1 .. Len(grants[d]) : \A i \in 1 .. j : Within(d, i, j)
  BY DEF LimiterInv, WindowBound
<1>2. /\ Token \in Nat /\ Rate \in Nat /\ Cap \in Nat /\ clock \in Nat
      /\ Cap >= Token /\ grants[b] \in Seq(Nat) /\ Len(grants[b]) \in Nat
      /\ \A i \in 1 .. Len(grants[b]) : grants[b][i] \in Nat
  BY BucketConstants DEF LimiterInv, LimiterTypeOK
<1> SUFFICES ASSUME NEW d \in Buckets, NEW j \in 1 .. Len(grants'[d]), NEW i \in 1 .. j
             PROVE  (j - i + 1) * Token
                      <= Cap + Rate * (grants'[d][j] - grants'[d][i])
  BY DEF WindowBound
<1>3. CASE grants'[d] = grants[d]
  BY <1>1, <1>3
<1>4. CASE grants'[d] # grants[d]
  <2> DEFINE n == Len(grants[b])
  <2>1. d = b /\ Allows(b) /\ grants'[b] = Append(grants[b], clock)
    BY <1>4, ChargeEffect
  <2>2. /\ Len(grants'[b]) = n + 1 /\ grants'[b][n + 1] = clock
        /\ \A k \in 1 .. n : grants'[b][k] = grants[b][k]
    BY <1>2, <2>1
  <2>3. CASE j # n + 1
    <3>1. j \in 1 .. n /\ i \in 1 .. n
      BY <1>2, <2>1, <2>2, <2>3
    <3>2. Within(b, i, j) /\ grants'[d][j] = grants[b][j] /\ grants'[d][i] = grants[b][i]
      BY <1>1, <2>1, <2>2, <3>1
    <3> QED BY <3>2
  <2>4. CASE j = n + 1 /\ i = n + 1
    <3>1. (j - i + 1) * Token = Token /\ Rate * (grants'[d][j] - grants'[d][i]) = 0
      BY <1>2, <2>1, <2>2, <2>4, Distribute
    <3> QED BY <1>2, <3>1
  <2>5. CASE j = n + 1 /\ i # n + 1
    <3>1. i \in 1 .. n /\ j \in Int
      BY <1>2, <2>1, <2>2, <2>5
    <3> DEFINE now == Rate * (clock - grants[b][i])
               used == (n - i + 1) * Token
    <3>2. Token <= Cap + now - used
      <4>1. Refilled(b) \in 0 .. Cap /\ Refilled(b) <= Cap + now - used
        BY <3>1, RefillExact
      <4>2. now \in Int /\ used \in Int
        BY <1>2, <3>1, Distribute
      <4> HIDE DEF now, used
      <4> QED BY <1>2, <2>1, <4>1, <4>2 DEF Allows
    <3>3. (j - i + 1) * Token = used + Token
      <4>1. j - i + 1 = (n - i + 1) + 1
        BY <1>2, <2>5, <3>1
      <4>2. n - i + 1 \in Int /\ Token \in Int
        BY <1>2, <3>1
      <4>3. ((n - i + 1) + 1) * Token = (n - i + 1) * Token + Token
        BY <4>2, Distribute
      <4> QED BY <4>1, <4>3
    <3>4. Rate * (grants'[d][j] - grants'[d][i]) = now
      BY <2>1, <2>2, <2>5, <3>1
    <3>5. now \in Int /\ used \in Int
      BY <1>2, <3>1, Distribute
    <3> HIDE DEF now, used
    <3> QED BY <1>2, <3>2, <3>3, <3>4, <3>5
  <2> QED BY <2>3, <2>4, <2>5
<1> QED BY <1>3, <1>4

\* Every step of the limiters keeps the invariant.
LEMMA NextInv == LimiterInv /\ [LimiterNext]_limiterVars => LimiterInv'
<1> SUFFICES ASSUME LimiterInv, [LimiterNext]_limiterVars PROVE LimiterInv'
  OBVIOUS
<1>1. CASE Tick
  BY <1>1, TickInv
<1>2. CASE \E l \in Limiters, x \in Clients : Charge(BucketOf(l, x))
  <2>1. PICK b \in Buckets : Charge(b)
    BY <1>2, BucketOfType
  <2> QED BY <2>1, ChargeType, ChargeExact, ChargeWindow DEF LimiterInv
<1>3. CASE UNCHANGED limiterVars
  BY <1>3 DEF limiterVars, LimiterInv, LimiterTypeOK, Fresh, BucketExact,
     WindowBound, LeftSince
<1> QED BY <1>1, <1>2, <1>3 DEF LimiterNext

(* Whatever the rate, the burst, the scope and the order in which clients  *)
(* ask, a bucket's tokens are exactly what its past requests have left.    *)
THEOREM TokensExact == LimiterSpec => []BucketExact
<1>1. LimiterInv => BucketExact
  BY DEF LimiterInv
<1> QED BY <1>1, InitInv, NextInv, PTL DEF LimiterSpec

(* In no stretch of time does a bucket let more requests pass than its     *)
(* capacity and its rate allow.                                            *)
THEOREM LimitKept == LimiterSpec => []WindowBound
<1>1. LimiterInv => WindowBound
  BY DEF LimiterInv
<1> QED BY <1>1, InitInv, NextInv, PTL DEF LimiterSpec
=============================================================================
