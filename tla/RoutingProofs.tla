--------------------------- MODULE RoutingProofs ---------------------------
(***************************************************************************)
(* The router for every route table and every path.  Its loop is a fold    *)
(* over the numbers of the rules; what a fold computes is shown by         *)
(* induction, in the form that a set of naturals has a least element.      *)
(***************************************************************************)
EXTENDS Routing, SequenceTheorems, WellFoundedInduction, TLAPS

-----------------------------------------------------------------------------
(* Induction.                                                              *)

\* A set of naturals has a least element.
LEMMA Least ==
  ASSUME NEW T \in SUBSET Nat, T # {}
  PROVE  \E x \in T : \A y \in T : x <= y
<1> DEFINE R == OpToRel(<, Nat)
<1>1. IsWellFoundedOn(R, Nat)
  BY NatLessThanWellFounded
<1>2. \A x, y \in Nat : ~ (<<y, x>> \in R) => x <= y
  BY DEF OpToRel
<1> HIDE DEF R
<1>3. \E x \in T : \A y \in T : ~ (<<y, x>> \in R)
  BY <1>1, WFMin
<1> QED BY <1>2, <1>3

\* A set with 0 that has the successors of its naturals has all naturals.
LEMMA SetInduction ==
  ASSUME NEW S, 0 \in S, \A n \in Nat : n \in S => n + 1 \in S
  PROVE  Nat \subseteq S
<1> DEFINE T == Nat \ S
<1> SUFFICES ASSUME T # {} PROVE FALSE
  OBVIOUS
<1>1. PICK x \in T : \A y \in T : x <= y
  BY Least
<1>2. x # 0 /\ x - 1 \in Nat
  BY <1>1
<1>3. x - 1 \in S
  BY <1>1, <1>2
<1> QED BY <1>2, <1>3

\* Min finds the least element of a set of naturals.
LEMMA MinIs ==
  ASSUME NEW T \in SUBSET Nat, T # {}
  PROVE  Min(T) \in T /\ \A y \in T : Min(T) <= y
<1>1. \E x \in T : \A y \in T : x =< y
  BY Least
<1> QED BY <1>1 DEF Min

\* Max finds the largest element of a bounded one.
LEMMA MaxIs ==
  ASSUME NEW T \in SUBSET Nat, T # {}, NEW n \in Nat, \A y \in T : y <= n
  PROVE  Max(T) \in T /\ \A y \in T : Max(T) >= y
<1> DEFINE B == {b \in Nat : \A y \in T : y <= b}
<1>1. B \in SUBSET Nat /\ B # {}
  OBVIOUS
<1>2. PICK b \in B : \A y \in B : b <= y
  BY <1>1, Least
<1>3. b \in T
  <2> SUFFICES ASSUME b \notin T PROVE FALSE
    OBVIOUS
  <2>1. \A y \in T : y <= b - 1 /\ y \in Nat
    BY <1>2
  <2>2. b - 1 \in Nat
    <3>1. PICK y \in T : TRUE
      OBVIOUS
    <3> QED BY <1>2, <2>1, <3>1
  <2>3. b - 1 \in B
    BY <2>1, <2>2
  <2> QED BY <1>2, <2>2, <2>3
<1>4. \E x \in T : \A y \in T : x >= y
  BY <1>2, <1>3
<1> QED BY <1>4 DEF Max
-----------------------------------------------------------------------------
(* The router's loop.                                                      *)

\* g is what the fold over the numbers in D computes for every part of D.
Ident(D) == [i \in D |-> i]
Loop(g, rules, path, D) ==
  g = [s \in SUBSET D |->
         IF s = {} THEN Unrouted
         ELSE TryRule(rules, path, g[s \ {Max(s)}], Ident(DOMAIN rules)[Max(s)])]

\* Such a function exists.
LEMMA LoopExists ==
  ASSUME NEW rules, NEW path, NEW n \in Nat
  PROVE  \E g : Loop(g, rules, path, 1 .. n)
<1> DEFINE Turn(g, s) ==
             IF s = {} THEN Unrouted
             ELSE TryRule(rules, path, g[s \ {Max(s)}], Ident(DOMAIN rules)[Max(s)])
           K == {k \in Nat : \E g : g = [s \in SUBSET (1 .. k) |-> Turn(g, s)]}
<1>1. 0 \in K
  <2> DEFINE g == [s \in SUBSET (1 .. 0) |-> Unrouted]
  <2>1. g = [s \in SUBSET (1 .. 0) |-> Turn(g, s)]
    <3>1. \A s \in SUBSET (1 .. 0) : s = {}
      OBVIOUS
    <3> QED BY <3>1
  <2> QED BY <2>1
<1>2. ASSUME NEW k \in Nat, k \in K PROVE k + 1 \in K
  <2>1. PICK g : g = [s \in SUBSET (1 .. k) |-> Turn(g, s)]
    BY <1>2
  <2> HIDE DEF Turn
  <2> DEFINE h == [s \in SUBSET (1 .. k + 1) |-> Turn(g, s)]
  <2>2. \A t \in SUBSET (1 .. k) : h[t] = g[t]
    <3> SUFFICES ASSUME NEW t \in SUBSET (1 .. k) PROVE h[t] = g[t]
      OBVIOUS
    <3>1. t \in SUBSET (1 .. k + 1)
      OBVIOUS
    <3>2. h[t] = Turn(g, t)
      BY <3>1
    <3>3. g[t] = Turn(g, t)
      BY <2>1
    <3> QED BY <3>2, <3>3
  <2>3. ASSUME NEW s \in SUBSET (1 .. k + 1) PROVE Turn(g, s) = Turn(h, s)
    <3>1. CASE s = {}
      BY <3>1 DEF Turn
    <3>2. CASE s # {}
      <4>1. Max(s) \in s /\ \A y \in s : Max(s) >= y
        <5>1. s \in SUBSET Nat /\ k + 1 \in Nat /\ \A y \in s : y <= k + 1
          OBVIOUS
        <5> QED BY <3>2, <5>1, MaxIs
      <4>2. s \ {Max(s)} \in SUBSET (1 .. k)
        <5> SUFFICES ASSUME NEW y \in s, y # Max(s) PROVE y \in 1 .. k
          OBVIOUS
        <5>1. y \in 1 .. k + 1 /\ Max(s) \in 1 .. k + 1 /\ Max(s) >= y
          BY <4>1
        <5> QED BY <5>1
      <4>3. h[s \ {Max(s)}] = g[s \ {Max(s)}]
        BY <2>2, <4>2
      <4> HIDE DEF h
      <4> QED BY <4>3 DEF Turn
    <3> QED BY <3>1, <3>2
  <2>4. h = [s \in SUBSET (1 .. k + 1) |-> Turn(h, s)]
    BY <2>3
  <2> HIDE DEF h
  <2> QED BY <2>4
<1>3. n \in K
  <2> HIDE DEF K
  <2> QED BY <1>1, <1>2, SetInduction
<1> QED BY <1>3 DEF Loop

\* v[k] is what the router knows of a request after the first k rules.
Turns(v, rules, path, n) ==
  /\ v[0] = Unrouted
  /\ \A k \in 0 .. n - 1 : v[k + 1] = TryRule(rules, path, v[k], k + 1)
  /\ RouteOf(rules, path) = v[n]

\* Router.OnRequest goes through the rules in order.
LEMMA RouteSteps ==
  ASSUME NEW rules, NEW path, NEW n \in Nat, DOMAIN rules = 1 .. n
  PROVE  \E v : Turns(v, rules, path, n)
<1> DEFINE g == CHOOSE g1 : Loop(g1, rules, path, DOMAIN Ident(DOMAIN rules))
           v == [k \in 0 .. n |-> g[1 .. k]]
<1>1. RouteOf(rules, path) = g[DOMAIN Ident(DOMAIN rules)]
  BY Zenon DEF RouteOf, FoldLeft, MapThenFoldSet, Loop, Ident
<1>2. DOMAIN Ident(DOMAIN rules) = 1 .. n /\ \A i \in 1 .. n : Ident(DOMAIN rules)[i] = i
  BY DEF Ident
<1>3. \E g1 : Loop(g1, rules, path, DOMAIN Ident(DOMAIN rules))
  BY <1>2, LoopExists
<1>4. Loop(g, rules, path, DOMAIN Ident(DOMAIN rules))
  BY <1>3, Zenon
<1> HIDE DEF g
<1>5. Loop(g, rules, path, 1 .. n)
  BY <1>2, <1>4
<1>6. v[0] = Unrouted
  <2>1. g[{}] = Unrouted
    BY <1>5 DEF Loop
  <2>2. 1 .. 0 = {}
    OBVIOUS
  <2> QED BY <2>1, <2>2
<1>7. ASSUME NEW k \in 0 .. n - 1
      PROVE  v[k + 1] = TryRule(rules, path, v[k], k + 1)
  <2> DEFINE s == 1 .. k + 1
  <2>1. s \in SUBSET (1 .. n) /\ s # {} /\ k + 1 \in s /\ k + 1 \in 1 .. n
    <3>1. k \in Nat /\ k + 1 <= n
      OBVIOUS
    <3>2. k + 1 \in s /\ k + 1 \in 1 .. n
      BY <3>1
    <3>3. \A y \in s : y \in 1 .. n
      BY <3>1
    <3> HIDE DEF s
    <3> QED BY <3>2, <3>3
  <2>2. Max(s) = k + 1
    <3>1. s \in SUBSET Nat /\ k + 1 \in Nat /\ \A y \in s : y <= k + 1
      OBVIOUS
    <3>2. Max(s) \in s /\ \A y \in s : Max(s) >= y
      BY <2>1, <3>1, MaxIs
    <3> QED BY <2>1, <3>1, <3>2
  <2>3. s \ {k + 1} = 1 .. k
    OBVIOUS
  <2>4. v[k + 1] = g[s] /\ v[k] = g[1 .. k]
    OBVIOUS
  <2> HIDE DEF s, v
  <2>5. g[s] = TryRule(rules, path, g[s \ {Max(s)}], Ident(DOMAIN rules)[Max(s)])
    BY <1>5, <2>1 DEF Loop
  <2> QED BY <1>2, <2>1, <2>2, <2>3, <2>4, <2>5
<1>8. RouteOf(rules, path) = v[n]
  BY <1>1, <1>2
<1> HIDE DEF v
<1> QED BY <1>6, <1>7, <1>8 DEF Turns

\* The rules among the first k that match the path, and those for "/".
Hits(rules, path, k) == {i \in 1 .. k : IsPrefix(rules[i].prefix, path)}
Catching(rules, k) == {i \in 1 .. k : rules[i].prefix = Slash}

FirstOf(i, S) == i \in S /\ \A j \in S : i <= j

\* What the router made of a request that rule i matches, and of one that no rule matches.
Taken(rules, path, r, i) ==
  r = [cluster |-> rules[i].cluster, route |-> i, path |-> RewritePath(rules[i], path), found |-> TRUE]
Missed(r, cluster) ==
  r = [cluster |-> cluster, route |-> 1, path |-> <<>>, found |-> FALSE]

\* What it knows after the first k rules.
After(rules, path, r, k) ==
  /\ Hits(rules, path, k) # {} =>
       \E i : FirstOf(i, Hits(rules, path, k)) /\ Taken(rules, path, r, i)
  /\ Hits(rules, path, k) = {} =>
       \/ Catching(rules, k) = {} /\ Missed(r, NoCluster)
       \/ \E i : FirstOf(i, Catching(rules, k)) /\ Missed(r, rules[i].cluster)

\* One turn of the loop.
LEMMA TurnAfter ==
  ASSUME NEW rules, NEW path, NEW k \in Nat, NEW r, After(rules, path, r, k),
         \A i \in 1 .. k + 1 : rules[i].cluster # NoCluster
  PROVE  After(rules, path, TryRule(rules, path, r, k + 1), k + 1)
<1> DEFINE q == TryRule(rules, path, r, k + 1)
           hit == IsPrefix(rules[k + 1].prefix, path)
           catch == rules[k + 1].prefix = Slash
<1> SUFFICES After(rules, path, q, k + 1)
  OBVIOUS
<1>1. Hits(rules, path, k + 1) = Hits(rules, path, k) \cup (IF hit THEN {k + 1} ELSE {})
  BY DEF Hits
<1>2. Catching(rules, k + 1) = Catching(rules, k) \cup (IF catch THEN {k + 1} ELSE {})
  BY DEF Catching
<1>3. /\ Hits(rules, path, k) \subseteq 1 .. k
      /\ Catching(rules, k) \subseteq 1 .. k
  BY DEF Hits, Catching
<1>4. CASE Hits(rules, path, k) # {}
  <2>1. PICK i : FirstOf(i, Hits(rules, path, k)) /\ Taken(rules, path, r, i)
    BY <1>4 DEF After
  <2>2. r.found = TRUE
    BY <2>1 DEF Taken
  <2>3. q = r
    BY <2>2 DEF TryRule
  <2>4. FirstOf(i, Hits(rules, path, k + 1))
    BY <1>1, <1>3, <2>1 DEF FirstOf
  <2>5. Hits(rules, path, k + 1) # {}
    BY <1>1, <1>4
  <2> QED BY <2>1, <2>3, <2>4, <2>5 DEF After
<1>5. CASE Hits(rules, path, k) = {} /\ hit
  <2>1. r.found = FALSE
    BY <1>5 DEF After, Missed
  <2>2. Taken(rules, path, q, k + 1)
    BY <1>5, <2>1 DEF TryRule, Taken
  <2>3. FirstOf(k + 1, Hits(rules, path, k + 1)) /\ Hits(rules, path, k + 1) # {}
    BY <1>1, <1>5 DEF FirstOf
  <2> HIDE DEF q
  <2> QED BY <2>2, <2>3 DEF After
<1>6. CASE Hits(rules, path, k) = {} /\ ~hit
  <2>1. Hits(rules, path, k + 1) = {}
    BY <1>1, <1>6
  <2>2. CASE Catching(rules, k) # {}
    <3>1. PICK i : FirstOf(i, Catching(rules, k)) /\ Missed(r, rules[i].cluster)
      BY <1>6, <2>2 DEF After
    <3>2. i \in 1 .. k /\ rules[i].cluster # NoCluster
      BY <1>3, <3>1 DEF FirstOf
    <3>3. r.found = FALSE /\ r.cluster # NoCluster
      BY <3>1, <3>2 DEF Missed
    <3>4. q = r
      BY <1>6, <3>3 DEF TryRule
    <3>5. FirstOf(i, Catching(rules, k + 1))
      BY <1>2, <1>3, <3>1 DEF FirstOf
    <3> QED BY <2>1, <3>1, <3>4, <3>5 DEF After
  <2>3. CASE Catching(rules, k) = {} /\ catch
    <3>1. Missed(r, NoCluster)
      BY <1>6, <2>3 DEF After, FirstOf
    <3>2. q = [r EXCEPT !.cluster = rules[k + 1].cluster]
      BY <1>6, <2>3, <3>1 DEF TryRule, Missed
    <3>3. Missed(q, rules[k + 1].cluster)
      BY <3>1, <3>2 DEF Missed
    <3>4. FirstOf(k + 1, Catching(rules, k + 1))
      BY <1>2, <2>3 DEF FirstOf
    <3> HIDE DEF q
    <3> QED BY <2>1, <3>3, <3>4 DEF After
  <2>4. CASE Catching(rules, k) = {} /\ ~catch
    <3>1. Missed(r, NoCluster)
      BY <1>6, <2>4 DEF After, FirstOf
    <3>2. q = r
      BY <1>6, <2>4, <3>1 DEF TryRule, Missed
    <3>3. Catching(rules, k + 1) = {}
      BY <1>2, <2>4
    <3> QED BY <2>1, <3>1, <3>2, <3>3 DEF After
  <2> QED BY <2>2, <2>3, <2>4
<1> QED BY <1>4, <1>5, <1>6

\* The whole loop.
LEMMA RouteAfter ==
  ASSUME NEW rules, NEW path, NEW n \in Nat, DOMAIN rules = 1 .. n,
         \A i \in 1 .. n : rules[i].cluster # NoCluster
  PROVE  After(rules, path, RouteOf(rules, path), n)
<1>1. PICK v : Turns(v, rules, path, n)
  BY RouteSteps
<1> USE DEF Turns
<1> DEFINE K == {k \in Nat : k <= n => After(rules, path, v[k], k)}
<1>2. 0 \in K
  <2>1. Hits(rules, path, 0) = {} /\ Catching(rules, 0) = {}
    BY DEF Hits, Catching
  <2>2. Missed(Unrouted, NoCluster)
    BY DEF Missed, Unrouted
  <2> QED BY <1>1, <2>1, <2>2 DEF After
<1>3. ASSUME NEW k \in Nat, k \in K PROVE k + 1 \in K
  <2> SUFFICES ASSUME k + 1 <= n PROVE After(rules, path, v[k + 1], k + 1)
    OBVIOUS
  <2>1. k <= n /\ k \in 0 .. n - 1
    OBVIOUS
  <2>2. After(rules, path, v[k], k)
    BY <1>3, <2>1
  <2>3. \A i \in 1 .. k + 1 : rules[i].cluster # NoCluster
    OBVIOUS
  <2>4. After(rules, path, TryRule(rules, path, v[k], k + 1), k + 1)
    BY <2>2, <2>3, TurnAfter
  <2> QED BY <1>1, <2>1, <2>4
<1>4. n \in K
  <2> HIDE DEF K
  <2> QED BY <1>2, <1>3, SetInduction
<1> QED BY <1>1, <1>4
-----------------------------------------------------------------------------
(* Paths.                                                                  *)

\* A path starts with a slash.
Starts(s) == Len(s) >= 1 /\ s[1] = "/"
Ends(s) == Len(s) >= 1 /\ s[Len(s)] = "/"

\* The path that is a slash.
LEMMA SlashIs == Slash \in Seq(Chars) /\ Len(Slash) = 1 /\ Slash[1] = "/" /\ "/" \in Chars
<1>1. "/" \in Chars
  BY RoutingConstants
<1> QED BY <1>1 DEF Slash

\* What strings.HasPrefix finds of a slash.
LEMMA SlashPrefix ==
  ASSUME NEW s \in Seq(Chars)
  PROVE  IsPrefix(Slash, s) <=> Starts(s)
<1>1. SubSeq(Slash, 1, 1) = Slash
  BY SlashIs, SubSeqFull
<1>2. ASSUME Len(s) >= 1 PROVE SubSeq(s, 1, 1) = Slash <=> s[1] = "/"
  <2>1. s[1] \in Chars
    BY <1>2, LenProperties, ElementOfSeq
  <2>2. \A i \in 1 .. 1 : s[i] \in Chars
    BY <2>1
  <2>3. /\ SubSeq(s, 1, 1) \in Seq(Chars) /\ Len(SubSeq(s, 1, 1)) = 1
        /\ SubSeq(s, 1, 1)[1] = s[1]
    BY <2>2, SubSeqProperties
  <2>4. ASSUME s[1] = "/" PROVE SubSeq(s, 1, 1) = Slash
    <3>1. \A i \in 1 .. Len(SubSeq(s, 1, 1)) : SubSeq(s, 1, 1)[i] = Slash[i]
      BY <2>3, <2>4, SlashIs
    <3> QED BY <2>3, <3>1, SlashIs, SeqEqual
  <2> QED BY <2>3, <2>4, SlashIs
<1>3. Len(s) \in Nat
  BY LenProperties
<1> QED BY <1>1, <1>2, <1>3, SlashIs DEF IsPrefix, Starts

\* A slash is put in front of what does not start with one.
LEMMA RootedIs ==
  ASSUME NEW s \in Seq(Chars), NEW r, r = IF IsPrefix(Slash, s) THEN s ELSE Slash \o s
  PROVE  r \in Seq(Chars) /\ Starts(r) /\ (DoubleSlash(r) => DoubleSlash(s))
<1>1. CASE IsPrefix(Slash, s)
  BY <1>1, SlashPrefix
<1>2. CASE ~IsPrefix(Slash, s)
  <2>1. ~Starts(s) /\ Len(s) \in Nat
    BY <1>2, SlashPrefix, LenProperties
  <2>2. /\ r \in Seq(Chars) /\ Len(r) = 1 + Len(s)
        /\ \A i \in 1 .. 1 + Len(s) : r[i] = IF i <= 1 THEN Slash[i] ELSE s[i - 1]
    <3>1. r = Slash \o s
      BY <1>2
    <3>2. /\ Slash \o s \in Seq(Chars) /\ Len(Slash \o s) = Len(Slash) + Len(s)
          /\ \A i \in 1 .. Len(Slash) + Len(s) :
               (Slash \o s)[i] = IF i <= Len(Slash) THEN Slash[i] ELSE s[i - Len(Slash)]
      <4>1. Slash \in Seq(Chars)
        BY SlashIs
      <4> QED BY <4>1, ConcatProperties
    <3> QED BY <3>1, <3>2, SlashIs
  <2>3. /\ r \in Seq(Chars) /\ Len(r) = Len(s) + 1 /\ r[1] = "/"
        /\ \A i \in 2 .. Len(r) : r[i] = s[i - 1]
    BY <2>1, <2>2, SlashIs
  <2>4. ASSUME NEW i \in 2 .. Len(r), r[i - 1] = "/", r[i] = "/" PROVE DoubleSlash(s)
    <3>1. i \in Nat /\ i - 1 >= 1 /\ i - 1 <= Len(s) /\ r[i] = s[i - 1]
      BY <2>1, <2>3
    <3>2. i # 2
      BY <2>1, <2>3, <2>4, <3>1 DEF Starts
    <3>3. i - 1 \in 2 .. Len(s) /\ i - 1 \in 2 .. Len(r)
      BY <2>1, <2>3, <3>1, <3>2
    <3>4. s[(i - 1) - 1] = "/" /\ s[i - 1] = "/"
      BY <2>3, <2>4, <3>1, <3>3
    <3> QED BY <3>3, <3>4 DEF DoubleSlash
  <2> QED BY <2>1, <2>3, <2>4 DEF Starts, DoubleSlash
<1> QED BY <1>1, <1>2

\* What follows the matched prefix.
LEMMA RemainderIs ==
  ASSUME NEW rule \in RouteRule, NEW path \in Seq(Chars), IsPrefix(rule.prefix, path)
  PROVE  /\ Remainder(rule, path) \in Seq(Chars) /\ Starts(Remainder(rule, path))
         /\ DoubleSlash(Remainder(rule, path)) => DoubleSlash(path)
<1> DEFINE m == Len(rule.prefix)
           t == SubSeq(path, m + 1, Len(path))
<1>1. rule.prefix \in Seq(Chars) /\ m \in Nat /\ Len(path) \in Nat /\ m <= Len(path)
  BY LenProperties DEF RouteRule, IsPrefix
<1>2. /\ t \in Seq(Chars) /\ Len(t) = Len(path) - m
      /\ \A i \in 1 .. Len(t) : t[i] = path[m + i]
  <2> HIDE DEF m
  <2>1. \A i \in m + 1 .. Len(path) : path[i] \in Chars
    BY <1>1
  <2> QED BY <1>1, <2>1
<1>3. ASSUME DoubleSlash(t) PROVE DoubleSlash(path)
  <2>1. PICK i \in 2 .. Len(t) : t[i - 1] = "/" /\ t[i] = "/"
    BY <1>3 DEF DoubleSlash
  <2> HIDE DEF m, t
  <2>2. /\ m + i \in 2 .. Len(path) /\ path[m + i] = "/"
        /\ path[(m + i) - 1] = "/"
    <3>1. i \in 1 .. Len(t) /\ i - 1 \in 1 .. Len(t) /\ m + (i - 1) = (m + i) - 1
      BY <1>1, <1>2, <2>1
    <3>2. path[m + i] = "/" /\ path[m + (i - 1)] = "/"
      BY <1>2, <2>1, <3>1
    <3>3. m + i \in 2 .. Len(path)
      BY <1>1, <1>2, <2>1
    <3> QED BY <3>1, <3>2, <3>3
  <2> QED BY <2>2 DEF DoubleSlash
<1>4. Remainder(rule, path) = IF IsPrefix(Slash, t) THEN t ELSE Slash \o t
  BY DEF Remainder
<1> HIDE DEF t
<1> QED BY <1>2, <1>3, <1>4, RootedIs

\* strings.TrimSuffix of a slash.
LEMMA TrimmedIs ==
  ASSUME NEW s \in Seq(Chars), Starts(s), NEW r, r = IF IsSuffix(Slash, s) THEN Front(s) ELSE s
  PROVE  /\ r \in Seq(Chars) /\ (r = <<>> \/ Starts(r))
         /\ DoubleSlash(r) \/ Ends(r) => DoubleSlash(s)
<1> DEFINE n == Len(s)
<1>1. n \in Nat /\ n >= 1 /\ s[1] = "/"
  BY LenProperties DEF Starts
<1>2. IsSuffix(Slash, s) <=> s[n] = "/"
  <2>1. Reverse(s) \in Seq(Chars) /\ Len(Reverse(s)) = n /\ Reverse(s)[1] = s[n]
    <3>1. Reverse(s) = [i \in 1 .. n |-> s[(n - i) + 1]]
      BY DEF Reverse
    <3>2. \A i \in 1 .. n : s[(n - i) + 1] \in Chars
      <4> SUFFICES ASSUME NEW i \in 1 .. n PROVE s[(n - i) + 1] \in Chars
        OBVIOUS
      <4>1. (n - i) + 1 \in 1 .. n
        BY <1>1
      <4> QED BY <4>1, ElementOfSeq
    <3>3. (n - 1) + 1 = n
      BY <1>1
    <3> HIDE DEF n
    <3> QED BY <1>1, <3>1, <3>2, <3>3
  <2>2. Reverse(Slash) = Slash
    <3>1. Reverse(Slash) = [i \in 1 .. 1 |-> <<"/">>[(1 - i) + 1]]
      BY DEF Reverse, Slash
    <3> QED BY <3>1 DEF Slash
  <2>3. IsSuffix(Slash, s) <=> Starts(Reverse(s))
    BY <2>1, <2>2, SlashPrefix DEF IsSuffix
  <2> QED BY <1>1, <2>1, <2>3 DEF Starts
<1>3. CASE ~IsSuffix(Slash, s)
  BY <1>2, <1>3 DEF Ends
<1>4. CASE IsSuffix(Slash, s)
  <2>1. /\ r \in Seq(Chars) /\ Len(r) = n - 1
        /\ \A i \in 1 .. Len(r) : r[i] = s[i]
    <3>1. r = SubSeq(s, 1, n - 1)
      BY <1>4 DEF Front
    <3>2. \A i \in 1 .. n - 1 : s[i] \in Chars
      BY <1>1, ElementOfSeq
    <3> HIDE DEF n
    <3> QED BY <1>1, <3>1, <3>2
  <2> HIDE DEF n
  <2>2. r = <<>> \/ Starts(r)
    <3>1. CASE n = 1
      BY <2>1, <3>1, EmptySeq
    <3>2. CASE n # 1
      <4>1. 1 \in 1 .. Len(r) /\ Len(r) >= 1
        BY <1>1, <2>1, <3>2
      <4> QED BY <1>1, <2>1, <4>1 DEF Starts
    <3> QED BY <3>1, <3>2
  <2>3. ASSUME DoubleSlash(r) PROVE DoubleSlash(s)
    <3>1. PICK i \in 2 .. Len(r) : r[i - 1] = "/" /\ r[i] = "/"
      BY <2>3 DEF DoubleSlash
    <3>2. i \in 2 .. n /\ s[i - 1] = "/" /\ s[i] = "/"
      BY <1>1, <2>1, <3>1
    <3> QED BY <3>2 DEF DoubleSlash, n
  <2>4. ASSUME Ends(r) PROVE DoubleSlash(s)
    <3>1. n \in 2 .. n /\ s[n - 1] = "/" /\ s[n] = "/"
      BY <1>1, <1>2, <1>4, <2>1, <2>4 DEF Ends
    <3> QED BY <3>1 DEF DoubleSlash, n
  <2> QED BY <2>1, <2>2, <2>3, <2>4
<1> QED BY <1>3, <1>4

\* Two paths are joined.
LEMMA JoinedIs ==
  ASSUME NEW s \in Seq(Chars), NEW t \in Seq(Chars), s = <<>> \/ Starts(s), Starts(t),
         DoubleSlash(s \o t)
  PROVE  DoubleSlash(s) \/ Ends(s) \/ DoubleSlash(t)
<1> DEFINE m == Len(s)
           r == s \o t
<1>1. m \in Nat /\ Len(t) \in Nat
  BY LenProperties
<1>2. /\ Len(r) = m + Len(t)
      /\ \A i \in 1 .. Len(r) : r[i] = IF i <= m THEN s[i] ELSE t[i - m]
  BY ConcatProperties
<1>3. PICK i \in 2 .. Len(r) : r[i - 1] = "/" /\ r[i] = "/"
  BY DEF DoubleSlash
<1> HIDE DEF m, r
<1>4. i \in 1 .. Len(r) /\ i - 1 \in 1 .. Len(r) /\ i \in Nat
  BY <1>1, <1>2, <1>3
<1>5. CASE i <= m
  <2>1. i \in 2 .. m /\ s[i - 1] = "/" /\ s[i] = "/"
    BY <1>1, <1>2, <1>3, <1>4, <1>5
  <2> QED BY <2>1 DEF DoubleSlash, m
<1>6. CASE i = m + 1
  <2>1. m >= 1 /\ s[m] = "/"
    BY <1>1, <1>2, <1>3, <1>4, <1>6
  <2> QED BY <2>1 DEF Ends, m
<1>7. CASE i > m + 1
  <2>1. /\ i - m \in 2 .. Len(t) /\ t[i - m] = "/" /\ t[(i - 1) - m] = "/"
        /\ (i - 1) - m = (i - m) - 1
    BY <1>1, <1>2, <1>3, <1>4, <1>7
  <2> QED BY <2>1 DEF DoubleSlash
<1> QED BY <1>1, <1>4, <1>5, <1>6, <1>7

\* The path that a rule that matches sends to the endpoint, when it rewrites it.
LEMMA RewrittenIs ==
  ASSUME NEW rule \in RouteRule, NEW path \in Seq(Chars), IsPrefix(rule.prefix, path),
         RewritePath(rule, path) # <<>>
  PROVE  /\ RewritePath(rule, path) \in Seq(Chars) /\ Starts(RewritePath(rule, path))
         /\ DoubleSlash(RewritePath(rule, path)) => DoubleSlash(path) \/ DoubleSlash(rule.rewrite)
<1> DEFINE rest == Remainder(rule, path)
           base == IF IsPrefix(Slash, rule.rewrite) THEN rule.rewrite ELSE Slash \o rule.rewrite
           trimmed == IF IsSuffix(Slash, base) THEN Front(base) ELSE base
<1>1. rest \in Seq(Chars) /\ Starts(rest) /\ (DoubleSlash(rest) => DoubleSlash(path))
  BY RemainderIs
<1>2. rule.rewrite \in Seq(Chars) /\ rule.strip \in BOOLEAN
  BY DEF RouteRule
<1>3. RewritePath(rule, path) =
        IF rule.rewrite # <<>> THEN trimmed \o rest ELSE IF rule.strip THEN rest ELSE <<>>
  BY DEF RewritePath
<1>4. CASE rule.rewrite # <<>>
  <2>1. base \in Seq(Chars) /\ Starts(base) /\ (DoubleSlash(base) => DoubleSlash(rule.rewrite))
    <3> HIDE DEF base
    <3>1. base = IF IsPrefix(Slash, rule.rewrite) THEN rule.rewrite ELSE Slash \o rule.rewrite
      BY DEF base
    <3> QED BY <1>2, <3>1, RootedIs
  <2> HIDE DEF base
  <2>2. /\ trimmed \in Seq(Chars) /\ (trimmed = <<>> \/ Starts(trimmed))
        /\ DoubleSlash(trimmed) \/ Ends(trimmed) => DoubleSlash(base)
    <3> HIDE DEF trimmed
    <3>1. trimmed = IF IsSuffix(Slash, base) THEN Front(base) ELSE base
      BY DEF trimmed
    <3> QED BY <2>1, <3>1, TrimmedIs
  <2> HIDE DEF trimmed, rest
  <2> DEFINE r == trimmed \o rest
  <2>3. r \in Seq(Chars)
    BY <1>1, <2>2, ConcatProperties
  <2>4. Starts(r)
    <3>1. Len(trimmed) \in Nat /\ Len(rest) \in Nat /\ Len(r) = Len(trimmed) + Len(rest)
      BY <1>1, <2>2, LenProperties, ConcatProperties
    <3>2. \A i \in 1 .. Len(trimmed) + Len(rest) :
            r[i] = IF i <= Len(trimmed) THEN trimmed[i] ELSE rest[i - Len(trimmed)]
      BY <1>1, <2>2, ConcatProperties
    <3>3. Len(r) >= 1 /\ 1 \in 1 .. Len(trimmed) + Len(rest)
      BY <1>1, <3>1 DEF Starts
    <3>4. CASE trimmed = <<>>
      <4>1. Len(trimmed) = 0
        BY <3>4
      <4>2. r[1] = rest[1]
        BY <3>2, <3>3, <4>1
      <4> QED BY <1>1, <3>3, <4>2 DEF Starts
    <3>5. CASE Starts(trimmed)
      <4>1. r[1] = trimmed[1]
        BY <3>2, <3>3, <3>5 DEF Starts
      <4> QED BY <3>3, <3>5, <4>1 DEF Starts
    <3> QED BY <2>2, <3>4, <3>5
  <2>5. DoubleSlash(r) => DoubleSlash(path) \/ DoubleSlash(rule.rewrite)
    BY <1>1, <2>1, <2>2, JoinedIs
  <2>6. RewritePath(rule, path) = r
    BY <1>3, <1>4
  <2> QED BY <2>3, <2>4, <2>5, <2>6
<1>5. CASE rule.rewrite = <<>>
  <2>1. RewritePath(rule, path) = rest
    BY <1>2, <1>3, <1>5
  <2> HIDE DEF rest
  <2> QED BY <1>1, <2>1
<1> QED BY <1>4, <1>5

\* Min finds the first one.
LEMMA FirstIsMin ==
  ASSUME NEW n \in Nat, NEW S \in SUBSET (1 .. n), NEW i, FirstOf(i, S)
  PROVE  Min(S) = i /\ S # {}
<1>1. S \in SUBSET Nat /\ S # {}
  BY DEF FirstOf
<1>2. Min(S) \in S /\ \A y \in S : Min(S) <= y
  BY <1>1, MinIs
<1>3. Min(S) \in Nat /\ i \in Nat /\ Min(S) <= i /\ i <= Min(S)
  BY <1>1, <1>2 DEF FirstOf
<1> QED BY <1>1, <1>3

\* The router and one table, one path.
LEMMA RouteIs ==
  ASSUME NEW rules \in Seq(RouteRule), NEW path \in Seq(Chars), ValidRoutes(rules)
  PROVE  LET r == RouteOf(rules, path)
             hits == {i \in DOMAIN rules : IsPrefix(rules[i].prefix, path)}
             catching == {i \in DOMAIN rules : rules[i].prefix = Slash}
         IN  \/ \E i \in hits : Min(hits) = i /\ Taken(rules, path, r, i)
             \/ hits = {} /\ catching = {} /\ Missed(r, NoCluster)
             \/ \E i \in catching : hits = {} /\ Min(catching) = i /\ Missed(r, rules[i].cluster)
<1> DEFINE n == Len(rules)
           r == RouteOf(rules, path)
           hits == {i \in DOMAIN rules : IsPrefix(rules[i].prefix, path)}
           catching == {i \in DOMAIN rules : rules[i].prefix = Slash}
<1>1. n \in Nat /\ DOMAIN rules = 1 .. n
  BY LenProperties
<1>2. hits = Hits(rules, path, n) /\ catching = Catching(rules, n)
  BY <1>1 DEF Hits, Catching
<1>3. \A i \in 1 .. n : rules[i].cluster # NoCluster
  BY <1>1, RoutingConstants DEF ValidRoutes
<1>4. hits \in SUBSET (1 .. n) /\ catching \in SUBSET (1 .. n)
  BY <1>1
<1> HIDE DEF hits, catching, r, n
<1>5. After(rules, path, r, n)
  BY <1>1, <1>3, RouteAfter DEF r
<1>6. CASE hits # {}
  <2>1. PICK i : FirstOf(i, hits) /\ Taken(rules, path, r, i)
    BY <1>2, <1>5, <1>6 DEF After
  <2>2. i \in hits /\ Min(hits) = i
    BY <1>1, <1>4, <2>1, FirstIsMin DEF FirstOf
  <2> QED BY <2>1, <2>2 DEF hits, r
<1>7. CASE hits = {} /\ catching = {}
  <2>1. Missed(r, NoCluster)
    BY <1>2, <1>5, <1>7 DEF After, FirstOf
  <2> QED BY <1>7, <2>1 DEF hits, catching, r
<1>8. CASE hits = {} /\ catching # {}
  <2>1. PICK i : FirstOf(i, catching) /\ Missed(r, rules[i].cluster)
    BY <1>2, <1>5, <1>8 DEF After
  <2>2. i \in catching /\ Min(catching) = i
    BY <1>1, <1>4, <2>1, FirstIsMin DEF FirstOf
  <2> QED BY <1>8, <2>1, <2>2 DEF hits, catching, r
<1> QED BY <1>6, <1>7, <1>8

\* So a request is routed to a cluster of the configuration or to none.
LEMMA RouteCluster ==
  ASSUME NEW rules \in Seq(RouteRule), NEW path \in Seq(Chars), ValidRoutes(rules)
  PROVE  RouteOf(rules, path).cluster \in Clusters \cup {NoCluster}
<1> DEFINE r == RouteOf(rules, path)
<1>1. \/ \E i \in DOMAIN rules : Taken(rules, path, r, i) \/ Missed(r, rules[i].cluster)
      \/ Missed(r, NoCluster)
  BY RouteIs
<1> HIDE DEF r
<1>2. (\E i \in DOMAIN rules : r.cluster = rules[i].cluster) \/ r.cluster = NoCluster
  BY <1>1 DEF Taken, Missed
<1> QED BY <1>2 DEF ValidRoutes, r

(* Router.OnRequest for every table that Validate accepts and every path:  *)
(* the rule that matches first gives the cluster, the options and the      *)
(* forwarded path.                                                         *)
THEOREM RoutesCorrectly ==
  \A rules \in Seq(RouteRule), path \in Seq(Chars) :
    ValidRoutes(rules) => RoutedCorrectly(rules, path)
<1> SUFFICES ASSUME NEW rules \in Seq(RouteRule), NEW path \in Seq(Chars), ValidRoutes(rules)
             PROVE  RoutedCorrectly(rules, path)
  OBVIOUS
<1> DEFINE r == RouteOf(rules, path)
           hits == Matching(rules, path)
           catching == {i \in DOMAIN rules : rules[i].prefix = Slash}
           sent == ForwardedPath(rules, path)
           rooted == IsPrefix(Slash, path)
<1>2. r.cluster \in Clusters \cup {NoCluster}
  BY RouteCluster
<1>3. \/ \E i \in hits : Min(hits) = i /\ Taken(rules, path, r, i)
      \/ hits = {} /\ catching = {} /\ Missed(r, NoCluster)
      \/ \E i \in catching : hits = {} /\ Min(catching) = i /\ Missed(r, rules[i].cluster)
  BY RouteIs DEF Matching
<1>4. sent = IF r.path # <<>> THEN r.path ELSE path
  BY DEF ForwardedPath
<1>5. rooted /\ catching # {} => hits # {}
  BY DEF Matching
<1>6. \A i \in hits : rules[i] \in RouteRule /\ IsPrefix(rules[i].prefix, path)
  BY LenProperties, ElementOfSeq DEF Matching
<1> HIDE DEF hits, catching, r, sent, rooted
<1>7. /\ hits # {} => r.route = Min(hits) /\ r.cluster = rules[Min(hits)].cluster
      /\ hits = {} => r.cluster = IF catching = {} THEN NoCluster ELSE rules[Min(catching)].cluster
      /\ rooted /\ r.cluster # NoCluster => r.cluster = rules[r.route].cluster
  BY <1>3, <1>5 DEF Taken, Missed
<1>8. /\ rooted => IsPrefix(Slash, sent)
      /\ DoubleSlash(sent) => DoubleSlash(path) \/ \E i \in hits : DoubleSlash(rules[i].rewrite)
  <2>1. CASE r.path = <<>>
    BY <1>4, <2>1 DEF rooted
  <2>2. CASE r.path # <<>>
    <3>1. PICK i \in hits : Taken(rules, path, r, i)
      BY <1>3, <2>2 DEF Missed
    <3>2. r.path = RewritePath(rules[i], path) /\ sent = r.path
      BY <1>4, <2>2, <3>1 DEF Taken
    <3>3. /\ sent \in Seq(Chars) /\ Starts(sent)
          /\ DoubleSlash(sent) => DoubleSlash(path) \/ DoubleSlash(rules[i].rewrite)
      BY <1>6, <2>2, <3>1, <3>2, RewrittenIs
    <3> QED BY <3>1, <3>3, SlashPrefix
  <2> QED BY <2>1, <2>2
<1> QED BY <1>2, <1>7, <1>8 DEF RoutedCorrectly, hits, catching, r, sent, rooted
=============================================================================
