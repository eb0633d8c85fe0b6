---------------------------- MODULE RateLimiter ----------------------------
(***************************************************************************)
(* The token buckets of internal/httpcm/ratelimit.go.  NewRegistry makes   *)
(* one limiter for the connection manager and NewH2Handler another one for *)
(* HTTP/2.  A bucket is refilled and charged with the limiter's lock held, *)
(* and the clock is read under that lock, so that OnRequest's decision is  *)
(* one step.                                                               *)
(*                                                                         *)
(* Time advances in ticks and a token is counted in TicksPerSecond parts,  *)
(* of which RequestsPerSecond are refilled in a tick: what the code does   *)
(* in floating point is exact here.                                        *)
(***************************************************************************)
EXTENDS Integers, Sequences

CONSTANTS
  Limiters,           \* the limiter objects
  Clients,            \* the addresses that requests come from
  HostOf,             \* the text a limiter finds for a client's address
  Scope,              \* "ip", any other text means one bucket for all
  RequestsPerSecond,
  Burst,              \* 0 or less: as many as RequestsPerSecond
  TicksPerSecond,
  ClockBound          \* bound: the last instant of the model

\* Without a positive rate NewRateLimiter returns nil and no filter is made.
ASSUME LimiterConstants ==
  /\ RequestsPerSecond \in Nat \ {0}
  /\ Burst \in Int
  /\ TicksPerSecond \in Nat \ {0}
  /\ ClockBound \in Nat

VARIABLES
  clock,   \* the instant that time.Now returns
  made,    \* the buckets that exist
  tok,     \* the parts of tokens in a bucket
  last,    \* when a bucket was refilled last
  grants   \* history: when the requests that a bucket let pass came

limiterVars == <<clock, made, tok, last, grants>>

Keys == {"global"} \cup {HostOf[l][x] : l \in Limiters, x \in Clients}
Buckets == Limiters \X Keys

Token == TicksPerSecond
Rate == RequestsPerSecond

\* A bucket that is full holds defCap tokens.
Cap == Token * (IF Burst <= 0 THEN RequestsPerSecond ELSE Burst)

\* The bucket that a limiter charges for a client.
BucketOf(l, x) == <<l, IF Scope = "ip" THEN HostOf[l][x] ELSE "global">>

\* The bucket of everybody is made with the limiter, the one of an address
\* when the address is first seen.
LimiterInit ==
  /\ clock = 0
  /\ made = {b \in Buckets : Scope # "ip" /\ b[2] = "global"}
  /\ tok = [b \in Buckets |-> Cap]
  /\ last = [b \in Buckets |-> 0]
  /\ grants = [b \in Buckets |-> <<>>]

\* getBucket: a new bucket is full, and last refilled now.
TokensOf(b) == IF b \in made THEN tok[b] ELSE Cap
LastOf(b) == IF b \in made THEN last[b] ELSE clock

\* A bucket that is refilled without the clamp at its capacity.
RefilledUnbounded(b) == TokensOf(b) + Rate * (clock - LastOf(b))

\* The first half of allow.
Refilled(b) ==
  LET sum == TokensOf(b) + Rate * (clock - LastOf(b))
  IN  IF clock > LastOf(b) THEN IF sum > Cap THEN Cap ELSE sum ELSE TokensOf(b)

\* The second half, with the tokens compared to zero instead of one.
AllowsAtZero(b) == Refilled(b) >= 0

\* The second half of allow.
Allows(b) == Refilled(b) >= Token

\* allow: refill the bucket, and take a token if there is one.
Charge(b) ==
  /\ made' = made \cup {b}
  /\ last' = [last EXCEPT ![b] = IF clock > LastOf(b) THEN clock ELSE LastOf(b)]
  /\ tok' = [tok EXCEPT ![b] = IF Allows(b) THEN Refilled(b) - Token ELSE Refilled(b)]
  /\ grants' = IF Allows(b) THEN [grants EXCEPT ![b] = Append(@, clock)] ELSE grants
  /\ UNCHANGED clock

Tick ==
  /\ clock < ClockBound
  /\ clock' = clock + 1
  /\ UNCHANGED <<made, tok, last, grants>>

LimiterNext ==
  \/ Tick
  \/ \E l \in Limiters, x \in Clients : Charge(BucketOf(l, x))

LimiterSpec == LimiterInit /\ [][LimiterNext]_limiterVars
-----------------------------------------------------------------------------
LimiterTypeOK ==
  /\ clock \in Nat
  /\ made \subseteq Buckets
  /\ tok \in [Buckets -> 0 .. Cap]
  /\ last \in [Buckets -> Nat]
  /\ grants \in [Buckets -> Seq(Nat)]

\* What the requests since the i-th have left of a full bucket.
LeftSince(b, i) ==
  Cap + Rate * (last[b] - grants[b][i]) - (Len(grants[b]) - i + 1) * Token

(* The tokens in a bucket are what the busiest stretch of requests up to   *)
(* now has left of a full bucket: refilling in many small steps, clamping  *)
(* and the refills of denied requests neither lose nor invent a token, so  *)
(* a request is denied only when such a stretch has used the tokens up.    *)
BucketExact ==
  \A b \in Buckets :
    /\ \A i \in 1 .. Len(grants[b]) : tok[b] <= LeftSince(b, i)
    /\ tok[b] = Cap \/ \E i \in 1 .. Len(grants[b]) : tok[b] = LeftSince(b, i)

(* Between any two requests that a bucket lets pass, these included, no    *)
(* more pass than the capacity and the rate allow for the time between     *)
(* them: what rps and burst promise.                                       *)
WindowBound ==
  \A b \in Buckets : \A j \in 1 .. Len(grants[b]) : \A i \in 1 .. j :
    (j - i + 1) * Token <= Cap + Rate * (grants[b][j] - grants[b][i])
=============================================================================
