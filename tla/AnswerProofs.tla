---------------------------- MODULE AnswerProofs ----------------------------
(***************************************************************************)
(* How often and with what a request is answered, for any number of        *)
(* connections, any routes, any requests and any behaviour of the          *)
(* endpoints.                                                              *)
(***************************************************************************)
EXTENDS Connection, SequenceTheorems, TLAPS

(* What is left of the HTTP filters.                                       *)
Rests ==
  {<<>>, <<"upstream">>, <<"options", "upstream">>, <<"route", "upstream">>,
   <<"route", "options", "upstream">>, HcmFilters, H2Filters}

Fields ==
  {"kind", "cluster", "route", "override", "turn", "wait", "responded", "status", "err",
   "unread", "answers", "limited", "sent", "logged"}
Answer == [status: Statuses, whole: BOOLEAN]

IsRequest(r) ==
  /\ DOMAIN r = Fields
  /\ r.responded \in BOOLEAN /\ r.limited \in BOOLEAN
  /\ r.err \in {"none", "error", "timeout"}
  /\ r.answers \in Seq(Answer)

(* A request that no filter has answered had at most a response of the     *)
(* endpoint that ended in the middle.  One that a filter has answered has  *)
(* that answer, and a second one only on top of a 429.                     *)
Progress(r, p) ==
  /\ ~r.responded =>
       ~r.limited /\ (r.answers = <<>> \/ (Len(r.answers) = 1 /\ ~r.answers[1].whole))
  /\ r.responded =>
       /\ r.status \in Statuses
       /\ Len(r.answers) \in {1, 2}
       /\ Len(r.answers) = 2 => r.limited
       /\ p = "h1" => \E i \in DOMAIN r.answers : r.answers[i].status = r.status

(* Before the upstream filter has answered or failed, the only answer is   *)
(* that of the limiter, and before the limiter has run there is none.      *)
Ahead(r, rest) ==
  /\ r.responded <=> r.limited
  /\ r.limited => Len(r.answers) = 1
  /\ ~r.limited => r.answers = <<>>
  /\ rest \in {HcmFilters, H2Filters} => ~r.responded

(* A request that the limiter let pass either was answered by a filter or  *)
(* failed.                                                                 *)
InChain(r, rest, p) ==
  /\ r.logged = 0
  /\ Progress(r, p)
  /\ rest # <<>> /\ r.err = "none" => Ahead(r, rest)
  /\ r.responded /\ r.err # "none" => r.limited

(* A request that is answered: what OneAnswer and FailureReported say.     *)
Ended(r, p) ==
  /\ Len(r.answers) \in {1, 2}
  /\ Len(r.answers) = 2 => r.limited \/ ~r.answers[1].whole
  /\ r.logged # 0 => \E i \in DOMAIN r.answers : r.answers[i].status = r.logged
  /\ p = "h1" /\ r.logged # 0 /\ ~r.limited /\ r.err # "none" =>
       /\ r.logged = IF r.err = "timeout" THEN 504 ELSE 502
       /\ Last(r.answers) = [status |-> r.logged, whole |-> TRUE]

ConnTypes ==
  /\ pc \in [Conns -> {"new", "net", "read", "chain", "answered", "closed"}]
  /\ proto \in [Conns -> {"h1", "h2"}]
  /\ todo \in [Conns -> Rests]
  /\ DOMAIN rc = Conns
  /\ \A c \in Conns : IsRequest(rc[c])

AnswersAt(c) ==
  /\ pc[c] = "chain" => InChain(rc[c], todo[c], proto[c])
  /\ pc[c] = "answered" => Ended(rc[c], proto[c])
  /\ pc[c] \notin {"chain", "answered"} => rc[c].answers = <<>> /\ rc[c].logged = 0

AnswerInv == ConnTypes /\ \A c \in Conns : AnswersAt(c)
-----------------------------------------------------------------------------
(* The operators on requests.                                              *)

\* Chain.Run goes through the filters in order; the limiter is the first and the upstream
\* proxy the last one.
LEMMA RestTail ==
  ASSUME NEW s \in Rests, s # <<>>
  PROVE  /\ Tail(s) \in Rests \ {HcmFilters, H2Filters}
         /\ Head(s) = "upstream" => Tail(s) = <<>>
         /\ Head(s) = "limit" => s \in {HcmFilters, H2Filters}
<1> USE DEF Rests, HcmFilters, H2Filters
<1>1. CASE s = <<"upstream">>
  BY <1>1
<1>2. CASE s = <<"options", "upstream">>
  BY <1>2
<1>6. CASE s = <<"route", "upstream">>
  BY <1>6
<1>3. CASE s = <<"route", "options", "upstream">>
  BY <1>3
<1>4. CASE s = HcmFilters
  BY <1>4
<1>5. CASE s = H2Filters
  BY <1>5
<1> QED BY <1>1, <1>2, <1>3, <1>4, <1>5, <1>6

\* A request that was just read, and the place of one, have no answers.
LEMMA NoRequestIs ==
  /\ IsRequest(NoRequest) /\ NoRequest.answers = <<>> /\ NoRequest.logged = 0
  /\ \A k, h1 : /\ IsRequest(NewRequest(k, h1))
                /\ NewRequest(k, h1).answers = <<>> /\ NewRequest(k, h1).logged = 0
                /\ NewRequest(k, h1).responded = FALSE /\ NewRequest(k, h1).limited = FALSE
<1>1. <<>> \in Seq(Answer)
  OBVIOUS
<1> QED BY <1>1 DEF NoRequest, NewRequest, IsRequest, Fields

\* One more response a; where it is a second one of an HTTP/2 stream it may be cut or lost.
Extends(s, t, a, p) ==
  /\ Len(s) \in Nat
  /\ \/ p = "h2" /\ s # <<>> /\ t = s
     \/ /\ Len(t) = Len(s) + 1
        /\ t[Len(s) + 1] = a \/ (p = "h2" /\ s # <<>>)
        /\ \A i \in 1 .. Len(s) : t[i] = s[i]

WriteEffect(r, w, a, p) ==
  /\ IsRequest(w) /\ Extends(r.answers, w.answers, a, p)
  /\ \A f \in Fields : f # "answers" => w[f] = r[f]

AnswerEffect(r, w, status, p) ==
  /\ IsRequest(w) /\ Extends(r.answers, w.answers, [status |-> status, whole |-> TRUE], p)
  /\ w.responded = TRUE /\ w.status = status
  /\ \A f \in Fields : f \notin {"answers", "responded", "status"} => w[f] = r[f]

\* A response that is written is appended to those of the request.
LEMMA WrittenIs ==
  ASSUME NEW r, IsRequest(r), NEW status \in Statuses, NEW whole \in BOOLEAN, NEW p
  PROVE  WriteEffect(r, Written(r, status, whole), [status |-> status, whole |-> whole], p)
<1> DEFINE a == [status |-> status, whole |-> whole]
           s == Append(r.answers, a)
<1>1. a \in Answer /\ r.answers \in Seq(Answer)
  BY DEF Answer, IsRequest
<1>2. /\ s \in Seq(Answer) /\ Len(s) = Len(r.answers) + 1
      /\ Len(r.answers) \in Nat
      /\ s[Len(r.answers) + 1] = a
      /\ \A i \in 1 .. Len(r.answers) : s[i] = r.answers[i]
  BY <1>1, AppendProperties, LenProperties
<1>3. Written(r, status, whole) = [r EXCEPT !.answers = s]
  BY DEF Written
<1> HIDE DEF s
<1> QED BY <1>2, <1>3 DEF WriteEffect, Extends, IsRequest, Fields

\* What becomes of a response, on either protocol.
LEMMA WritesAre ==
  ASSUME NEW c, NEW r, IsRequest(r), NEW status \in Statuses, NEW whole \in BOOLEAN,
         NEW w \in Writes(c, r, status, whole)
  PROVE  WriteEffect(r, w, [status |-> status, whole |-> whole], proto[c])
<1> DEFINE a == [status |-> status, whole |-> whole]
<1>1. CASE w = Written(r, status, whole)
  BY <1>1, WrittenIs
<1>2. CASE w = Written(r, status, FALSE) /\ proto[c] = "h2" /\ r.answers # <<>>
  <2>1. WriteEffect(r, w, [status |-> status, whole |-> FALSE], proto[c])
    BY <1>2, WrittenIs
  <2> QED BY <1>2, <2>1 DEF WriteEffect, Extends
<1>3. CASE w = r /\ proto[c] = "h2" /\ r.answers # <<>>
  <2>1. Len(r.answers) \in Nat
    BY LenProperties DEF IsRequest
  <2> QED BY <1>3, <2>1 DEF WriteEffect, Extends
<1> QED BY <1>1, <1>2, <1>3 DEF Writes

\* A filter's own answer is a response, and is remembered in the request.
LEMMA AnsweredIs ==
  ASSUME NEW c, NEW r, IsRequest(r), NEW status \in Statuses,
         NEW w \in Writes(c, r, status, TRUE)
  PROVE  AnswerEffect(r, Answered(w, status), status, proto[c])
<1>1. WriteEffect(r, w, [status |-> status, whole |-> TRUE], proto[c])
  BY WritesAre
<1> QED BY <1>1 DEF Answered, AnswerEffect, WriteEffect, IsRequest, Fields

\* The attempts to forward a request, the waits between them and its body have no part in
\* the answers to it.
Forwarding == {"sent", "unread", "wait", "turn"}
SameAnswers(q, w) == \A f \in Fields : f \notin Forwarding => q[f] = w[f]

\* An attempt writes no response.
LEMMA AttemptedIs ==
  ASSUME NEW r, IsRequest(r), NEW early \in BOOLEAN
  PROVE  /\ IsRequest(Attempted(r, early))
         /\ SameAnswers(Attempted(r, early), r)
  BY DEF SameAnswers, Forwarding, Attempted, IsRequest, Fields

\* The positions of the responses of a request.
LEMMA Positions ==
  ASSUME NEW r, IsRequest(r)
  PROVE  /\ Len(r.answers) \in Nat /\ DOMAIN r.answers = 1 .. Len(r.answers)
         /\ r.answers = <<>> <=> Len(r.answers) = 0
  BY EmptySeq, LenProperties DEF IsRequest
-----------------------------------------------------------------------------
(* The filters.                                                            *)

\* What is known of the other connections is not touched by the step of one.
LEMMA OneMoves ==
  ASSUME AnswerInv, NEW c \in Conns,
         pc' \in [Conns -> {"new", "net", "read", "chain", "answered", "closed"}],
         proto' \in [Conns -> {"h1", "h2"}], todo' \in [Conns -> Rests],
         DOMAIN rc' = Conns, IsRequest(rc'[c]),
         \A d \in Conns : d # c =>
           pc'[d] = pc[d] /\ proto'[d] = proto[d] /\ todo'[d] = todo[d] /\ rc'[d] = rc[d],
         AnswersAt(c)'
  PROVE  AnswerInv'
<1>1. \A d \in Conns : IsRequest(rc'[d])
  BY DEF AnswerInv, ConnTypes
<1>2. \A d \in Conns : AnswersAt(d)'
  BY DEF AnswerInv, AnswersAt
<1> QED BY <1>1, <1>2 DEF AnswerInv, ConnTypes

\* A filter that returns nil hands the request q to the next one.
LEMMA FilterReturns ==
  ASSUME AnswerInv, NEW c \in Conns, NEW f, AtFilter(c, f), NextFilter(c),
         UNCHANGED <<pc, proto>>, NEW q, rc' = [rc EXCEPT ![c] = q] \/ (rc' = rc /\ rc[c] = q),
         IsRequest(q), InChain(q, Tail(todo[c]), proto[c])
  PROVE  AnswerInv'
<1>1. pc[c] = "chain" /\ todo[c] # <<>> /\ todo[c] \in Rests
  BY DEF AtFilter, AnswerInv, ConnTypes
<1>2. Tail(todo[c]) \in Rests
  BY <1>1, RestTail
<1>3. todo' \in [Conns -> Rests] /\ todo'[c] = Tail(todo[c])
      /\ \A d \in Conns : d # c => todo'[d] = todo[d]
  BY <1>2 DEF NextFilter, AnswerInv, ConnTypes
<1>4. DOMAIN rc' = Conns /\ rc'[c] = q /\ \A d \in Conns : d # c => rc'[d] = rc[d]
  BY DEF AnswerInv, ConnTypes
<1>5. AnswersAt(c)'
  BY <1>1, <1>3, <1>4 DEF AnswersAt
<1>6. /\ pc' \in [Conns -> {"new", "net", "read", "chain", "answered", "closed"}]
      /\ proto' \in [Conns -> {"h1", "h2"}]
  BY DEF AnswerInv, ConnTypes
<1> QED BY <1>3, <1>4, <1>5, <1>6, OneMoves

\* A filter that fails, or tries again, keeps the request.
LEMMA FilterKeeps ==
  ASSUME AnswerInv, NEW c \in Conns, NEW f, AtFilter(c, f),
         UNCHANGED <<pc, proto, todo>>, NEW q, rc' = [rc EXCEPT ![c] = q],
         IsRequest(q), InChain(q, todo[c], proto[c])
  PROVE  AnswerInv'
<1>1. pc[c] = "chain"
  BY DEF AtFilter
<1>2. DOMAIN rc' = Conns /\ rc'[c] = q /\ \A d \in Conns : d # c => rc'[d] = rc[d]
  BY DEF AnswerInv, ConnTypes
<1>3. AnswersAt(c)'
  BY <1>1, <1>2 DEF AnswersAt
<1>4. /\ pc' \in [Conns -> {"new", "net", "read", "chain", "answered", "closed"}]
      /\ proto' \in [Conns -> {"h1", "h2"}] /\ todo' \in [Conns -> Rests]
  BY DEF AnswerInv, ConnTypes
<1> QED BY <1>2, <1>3, <1>4, OneMoves

\* What a filter finds.
LEMMA FilterFinds ==
  ASSUME AnswerInv, NEW c \in Conns, NEW f, AtFilter(c, f)
  PROVE  /\ IsRequest(rc[c]) /\ rc[c].logged = 0 /\ rc[c].err = "none"
         /\ Progress(rc[c], proto[c]) /\ Ahead(rc[c], todo[c])
         /\ Tail(todo[c]) \notin {HcmFilters, H2Filters}
         /\ f = "upstream" => Tail(todo[c]) = <<>>
         /\ f = "limit" => ~rc[c].responded
         /\ proto[c] \in {"h1", "h2"}
<1>1. /\ pc[c] = "chain" /\ todo[c] # <<>> /\ Head(todo[c]) = f /\ rc[c].err = "none"
      /\ todo[c] \in Rests /\ IsRequest(rc[c]) /\ proto[c] \in {"h1", "h2"}
      /\ InChain(rc[c], todo[c], proto[c])
  BY DEF AtFilter, AnswerInv, ConnTypes, AnswersAt
<1>2. Ahead(rc[c], todo[c]) /\ rc[c].logged = 0 /\ Progress(rc[c], proto[c])
  BY <1>1 DEF InChain
<1>3. f = "limit" => todo[c] \in {HcmFilters, H2Filters}
  BY <1>1, RestTail
<1> QED BY <1>1, <1>2, <1>3, RestTail DEF Ahead

\* A request that a filter has answered and that has one response, or two after a 429.
LEMMA OnceAnswered ==
  ASSUME NEW q, NEW p, q.responded = TRUE, q.status \in Statuses,
         Len(q.answers) = 1 \/ (Len(q.answers) = 2 /\ q.limited = TRUE),
         p = "h1" => \E i \in DOMAIN q.answers : q.answers[i].status = q.status
  PROVE  Progress(q, p)
<1>1. Len(q.answers) \in {1, 2}
  OBVIOUS
<1>2. Len(q.answers) = 2 => q.limited
  OBVIOUS
<1> QED BY <1>1, <1>2 DEF Progress

\* The rate limiter lets a request pass or answers it with 429.
LEMMA LimitKeeps ==
  ASSUME AnswerInv, NEW c \in Conns, Limit(c)
  PROVE  AnswerInv'
<1> DEFINE r == rc[c]
           b == BucketOf(IF proto[c] = "h1" THEN "hcm" ELSE "h2", client[c])
           w == Answered(Written(r, 429, TRUE), 429)
           q == [w EXCEPT !.limited = TRUE]
<1>1. /\ AtFilter(c, "limit") /\ NextFilter(c) /\ UNCHANGED <<pc, proto>>
      /\ rc' = rc \/ rc' = [rc EXCEPT ![c] = q]
  BY DEF Limit, quiet
<1>2. /\ IsRequest(r) /\ r.logged = 0 /\ r.err = "none" /\ Progress(r, proto[c])
      /\ Ahead(r, todo[c]) /\ ~r.responded
      /\ Tail(todo[c]) \notin {HcmFilters, H2Filters}
  BY <1>1, FilterFinds
<1>3. ~r.limited /\ r.answers = <<>> /\ Len(r.answers) = 0
  BY <1>2, Positions DEF Ahead
<1>4. CASE rc' = rc
  <2>1. InChain(r, Tail(todo[c]), proto[c])
    BY <1>2, <1>3 DEF InChain, Ahead
  <2> QED BY <1>1, <1>2, <1>4, <2>1, FilterReturns
<1>5. CASE rc' = [rc EXCEPT ![c] = q]
  <2>1. AnswerEffect(r, w, 429, proto[c])
    <3> DEFINE v == Written(r, 429, TRUE)
    <3>1. v \in Writes(c, r, 429, TRUE)
      BY DEF Writes
    <3>2. 429 \in Statuses
      BY DEF Statuses
    <3>3. IsRequest(r)
      BY <1>2
    <3> HIDE DEF v, r
    <3>4. \A x \in Writes(c, r, 429, TRUE) : AnswerEffect(r, Answered(x, 429), 429, proto[c])
      BY <3>2, <3>3, AnsweredIs
    <3> QED BY <3>1, <3>4 DEF v
  <2> HIDE DEF w
  <2>2. /\ IsRequest(q) /\ q.logged = 0 /\ q.err = "none" /\ q.responded = TRUE
        /\ q.limited = TRUE /\ q.status = 429 /\ q.answers = w.answers
    BY <1>2, <2>1 DEF AnswerEffect, IsRequest, Fields
  <2>3. Len(q.answers) = 1 /\ q.answers[1].status = 429 /\ 1 \in DOMAIN q.answers
    BY <1>3, <2>1, <2>2, Positions DEF AnswerEffect, Extends
  <2> HIDE DEF q
  <2>6. \E i \in DOMAIN q.answers : q.answers[i].status = q.status
    BY <2>2, <2>3
  <2>7. q.status \in Statuses
    BY <2>2 DEF Statuses
  <2>8. Progress(q, proto[c])
    BY <2>2, <2>3, <2>6, <2>7, OnceAnswered
  <2>9. Ahead(q, Tail(todo[c]))
    BY <1>2, <2>2, <2>3 DEF Ahead
  <2>4. Progress(q, proto[c]) /\ Ahead(q, Tail(todo[c]))
    BY <2>8, <2>9
  <2>5. InChain(q, Tail(todo[c]), proto[c])
    BY <2>2, <2>4 DEF InChain
  <2> QED BY <1>1, <1>5, <2>2, <2>5, FilterReturns
<1> QED BY <1>1, <1>4, <1>5

\* The router and the route options write no response.
LEMMA RoutingKeeps ==
  ASSUME AnswerInv, NEW c \in Conns, Route(c) \/ RouteOptions(c)
  PROVE  AnswerInv'
<1> DEFINE r == rc[c]
<1>1. PICK f, q :
        /\ AtFilter(c, f) /\ NextFilter(c) /\ UNCHANGED <<pc, proto>>
        /\ rc' = [rc EXCEPT ![c] = q]
        /\ \/ q = [r EXCEPT !.override = RetryOverride(Routes, r.route)]
           \/ q = [r EXCEPT !.cluster = RouteOf(Routes, r.kind.path).cluster,
                            !.route = RouteOf(Routes, r.kind.path).route]
  BY DEF Route, RouteOptions, quiet
<1>2. /\ IsRequest(r) /\ r.logged = 0 /\ r.err = "none" /\ Progress(r, proto[c])
      /\ Ahead(r, todo[c]) /\ Tail(todo[c]) \notin {HcmFilters, H2Filters}
  BY <1>1, FilterFinds
<1>3. /\ IsRequest(q)
      /\ \A f1 \in Fields : f1 \notin {"override", "cluster", "route"} => q[f1] = r[f1]
  BY <1>1, <1>2 DEF IsRequest, Fields
<1>4. /\ q.logged = 0 /\ q.err = "none" /\ q.responded = r.responded
      /\ q.limited = r.limited /\ q.status = r.status /\ q.answers = r.answers
  BY <1>2, <1>3 DEF Fields
<1>5. InChain(q, Tail(todo[c]), proto[c])
  BY <1>2, <1>4 DEF InChain, Progress, Ahead
<1> QED BY <1>1, <1>3, <1>5, FilterReturns

\* The responses of w: a, on top of at most the limiter's answer to r.
OnTop(r, w, a, p) ==
  /\ Len(w.answers) = 1 \/ (Len(w.answers) = 2 /\ r.limited = TRUE)
  /\ p = "h1" => Len(w.answers) \in DOMAIN w.answers /\ w.answers[Len(w.answers)] = a
  /\ r.limited = FALSE => Len(w.answers) = 1 /\ 1 \in DOMAIN w.answers /\ w.answers[1] = a
  /\ r.limited = TRUE => 1 \in DOMAIN w.answers /\ w.answers[1] = r.answers[1]

\* Before the upstream proxy the only response is the limiter's.
LEMMA OneMore ==
  ASSUME NEW r, IsRequest(r), NEW w, IsRequest(w), NEW p, NEW rest, NEW a,
         p \in {"h1", "h2"}, Ahead(r, rest), Extends(r.answers, w.answers, a, p)
  PROVE  OnTop(r, w, a, p)
<1> USE DEF OnTop
<1>1. /\ r.limited \in BOOLEAN
      /\ Len(r.answers) \in Nat /\ (r.answers = <<>> <=> Len(r.answers) = 0)
      /\ Len(w.answers) \in Nat /\ DOMAIN w.answers = 1 .. Len(w.answers)
      /\ DOMAIN r.answers = 1 .. Len(r.answers)
  BY Positions DEF IsRequest
<1>2. CASE r.limited = TRUE
  <2>1. Len(r.answers) = 1
    BY <1>2, Zenon DEF Ahead
  <2>2. r.answers # <<>>
    BY <1>1, <2>1
  <2> QED BY <1>1, <1>2, <2>1, <2>2 DEF Extends
<1>3. CASE r.limited = FALSE
  <2>1. r.answers = <<>> /\ Len(r.answers) = 0
    BY <1>1, <1>3 DEF Ahead
  <2> QED BY <1>1, <1>3, <2>1 DEF Extends
<1> QED BY <1>1, <1>2, <1>3

\* A filter that finds the request as the chain has left it and answers it is the upstream
\* proxy, the last one.
LEMMA UpstreamAnswers ==
  ASSUME AnswerInv, NEW c \in Conns, AtFilter(c, "upstream"), NextFilter(c),
         UNCHANGED <<pc, proto>>, NEW status \in Statuses, NEW q, IsRequest(q),
         rc' = [rc EXCEPT ![c] = q],
         NEW v \in Writes(c, rc[c], status, TRUE), SameAnswers(q, Answered(v, status))
  PROVE  AnswerInv'
<1> DEFINE r == rc[c]
           p == proto[c]
           w == Answered(v, status)
           a == [status |-> status, whole |-> TRUE]
<1>1. /\ IsRequest(r) /\ r.logged = 0 /\ r.err = "none" /\ Ahead(r, todo[c])
      /\ Tail(todo[c]) = <<>> /\ p \in {"h1", "h2"}
  BY FilterFinds
<1>2. AnswerEffect(r, w, status, p)
  BY <1>1, AnsweredIs
<1> HIDE DEF w, r, p
<1>3. /\ q.logged = 0 /\ q.err = "none" /\ q.responded = TRUE /\ q.status = status
      /\ q.limited = r.limited /\ q.answers = w.answers
  BY <1>1, <1>2 DEF AnswerEffect, SameAnswers, Forwarding, Fields, w, r
<1>4. Extends(r.answers, q.answers, a, p)
  BY <1>2, <1>3 DEF AnswerEffect
<1>5. /\ Len(q.answers) = 1 \/ (Len(q.answers) = 2 /\ q.limited = TRUE)
      /\ p = "h1" => Len(q.answers) \in DOMAIN q.answers /\ q.answers[Len(q.answers)] = a
  <2>1. OnTop(r, q, a, p)
    <3> HIDE DEF a
    <3> QED BY <1>1, <1>4, OneMore
  <2> QED BY <1>3, <2>1 DEF OnTop
<1>6. p = "h1" => \E i \in DOMAIN q.answers : q.answers[i].status = q.status
  BY <1>3, <1>5
<1>7. Progress(q, p)
  BY <1>3, <1>5, <1>6, OnceAnswered
<1>8. InChain(q, Tail(todo[c]), p)
  BY <1>1, <1>3, <1>7 DEF InChain
<1> QED BY <1>8, FilterReturns DEF p

\* The upstream proxy answers, with the endpoint's response or its own, or does nothing.
LEMMA ForwardKeeps ==
  ASSUME AnswerInv, NEW c \in Conns, Unforwarded(c) \/ Proxied(c) \/ Refused(c) \/ WaitEnds(c)
  PROVE  AnswerInv'
<1>1. CASE Unforwarded(c)
  <2>1. AtFilter(c, "upstream") /\ NextFilter(c) /\ UNCHANGED <<pc, proto>> /\ rc' = rc
    BY <1>1 DEF Unforwarded, quiet
  <2>2. /\ IsRequest(rc[c]) /\ rc[c].logged = 0 /\ rc[c].err = "none"
        /\ Progress(rc[c], proto[c]) /\ Tail(todo[c]) = <<>>
    BY <2>1, FilterFinds
  <2>3. InChain(rc[c], Tail(todo[c]), proto[c])
    BY <2>2 DEF InChain
  <2> QED BY <2>1, <2>2, <2>3, FilterReturns
<1>2. CASE Proxied(c)
  <2>1. PICK status \in UpstreamStatuses, early \in BOOLEAN :
          \E w \in Writes(c, rc[c], status, TRUE) :
            rc' = [rc EXCEPT ![c] = Attempted(Answered(w, status), early)]
    BY <1>2 DEF Proxied
  <2>2. PICK w \in Writes(c, rc[c], status, TRUE) :
          rc' = [rc EXCEPT ![c] = Attempted(Answered(w, status), early)]
    BY <2>1
  <2>3. AtFilter(c, "upstream") /\ NextFilter(c) /\ UNCHANGED <<pc, proto>>
    BY <1>2 DEF Proxied, AtUpstream, quiet
  <2>4. status \in Statuses
    BY ConnectionConstants
  <2>5. IsRequest(Answered(w, status))
    BY <2>3, <2>4, FilterFinds, AnsweredIs DEF AnswerEffect
  <2> DEFINE q == Attempted(Answered(w, status), early)
  <2>6. IsRequest(q) /\ SameAnswers(q, Answered(w, status)) /\ rc' = [rc EXCEPT ![c] = q]
    BY <2>2, <2>5, AttemptedIs
  <2> HIDE DEF q
  <2> QED BY <2>3, <2>4, <2>6, UpstreamAnswers
<1>3. CASE Refused(c) \/ WaitEnds(c)
  <2>0. 503 \in Statuses /\ 504 \in Statuses
    BY DEF Statuses
  <2>1. PICK status \in Statuses :
          \E w \in Writes(c, rc[c], status, TRUE) :
            rc' = [rc EXCEPT ![c] = [Answered(w, status) EXCEPT !.wait = "no"]]
    <3>1. CASE Refused(c)
      BY <2>0, <3>1, Zenon DEF Refused
    <3>2. CASE WaitEnds(c)
      BY <2>0, <3>2, Zenon DEF WaitEnds
    <3> QED BY <1>3, <3>1, <3>2
  <2>2. PICK w \in Writes(c, rc[c], status, TRUE) :
          rc' = [rc EXCEPT ![c] = [Answered(w, status) EXCEPT !.wait = "no"]]
    BY <2>1
  <2>3. AtFilter(c, "upstream") /\ NextFilter(c) /\ UNCHANGED <<pc, proto>>
    BY <1>3 DEF Refused, WaitEnds, AtUpstream, Waiting, quiet
  <2> DEFINE v == Answered(w, status)
             q == [v EXCEPT !.wait = "no"]
  <2>5. IsRequest(v)
    BY <2>3, FilterFinds, AnsweredIs DEF AnswerEffect
  <2>6. rc' = [rc EXCEPT ![c] = q]
    BY <2>2
  <2> HIDE DEF v
  <2>7. IsRequest(q) /\ SameAnswers(q, v)
    BY <2>5 DEF IsRequest, SameAnswers, Forwarding, Fields
  <2>8. SameAnswers(q, Answered(w, status))
    BY <2>7 DEF v
  <2> HIDE DEF q
  <2> QED BY <2>3, <2>6, <2>7, <2>8, UpstreamAnswers
<1> QED BY <1>1, <1>2, <1>3

\* A wait writes nothing, nor does an attempt that fails: the next one finds the request as
\* this one did.
LEMMA FailKeeps ==
  ASSUME AnswerInv, NEW c \in Conns, AttemptFails(c) \/ NoEndpoint(c) \/ Wait(c) \/ Acquired(c)
  PROVE  AnswerInv'
<1> DEFINE r == rc[c]
           p == proto[c]
           Same(q) == \A f \in Fields : f \notin Forwarding \cup {"err"} => q[f] = r[f]
<1>1. AtFilter(c, "upstream") /\ UNCHANGED <<pc, proto, todo>>
  BY DEF AttemptFails, NoEndpoint, Wait, Acquired, Waiting, AtUpstream, quiet
<1>2. /\ IsRequest(r) /\ r.logged = 0 /\ r.err = "none"
      /\ Progress(r, p) /\ Ahead(r, todo[c])
  BY <1>1, FilterFinds
<1>3. PICK q : rc' = [rc EXCEPT ![c] = q] /\ IsRequest(q) /\ Same(q)
  <2>1. CASE AttemptFails(c)
    <3>1. PICK err \in {"none", "error", "timeout"}, early \in BOOLEAN :
            /\ err = "none" => r.turn + 1 < Attempts(r)
            /\ rc' = [rc EXCEPT ![c] = Failed(r, early, err)]
      BY <2>1, Zenon DEF AttemptFails
    <3> DEFINE v == Attempted(r, early)
               q == [v EXCEPT !.err = err, !.turn = @ + 1, !.wait = "no"]
    <3>2. IsRequest(v) /\ SameAnswers(v, r)
      BY <1>2, AttemptedIs
    <3>3. rc' = [rc EXCEPT ![c] = q]
      BY <3>1 DEF Failed
    <3> HIDE DEF v
    <3>4. IsRequest(q) /\ Same(q)
      BY <3>2 DEF IsRequest, SameAnswers, Forwarding, Fields
    <3> QED BY <3>3, <3>4
  <2>2. CASE NoEndpoint(c)
    <3> DEFINE q == [r EXCEPT !.err = "error"]
    <3>1. rc' = [rc EXCEPT ![c] = q]
      BY <2>2 DEF NoEndpoint
    <3>2. IsRequest(q) /\ Same(q)
      BY <1>2 DEF IsRequest, Fields
    <3> QED BY <3>1, <3>2
  <2>3. CASE Wait(c)
    <3>1. PICK place : rc' = [rc EXCEPT ![c] = [r EXCEPT !.wait = place]]
      BY <2>3 DEF Wait
    <3> DEFINE q == [r EXCEPT !.wait = place]
    <3>2. IsRequest(q) /\ Same(q)
      BY <1>2 DEF IsRequest, Fields, Forwarding
    <3> QED BY <3>1, <3>2
  <2>4. CASE Acquired(c)
    <3>1. CASE rc' = [rc EXCEPT ![c].wait = "held"]
      <4> DEFINE q == [r EXCEPT !.wait = "held"]
      <4>1. rc' = [rc EXCEPT ![c] = q]
        BY <3>1
      <4>2. IsRequest(q) /\ Same(q)
        BY <1>2 DEF IsRequest, Fields, Forwarding
      <4> QED BY <4>1, <4>2
    <3>2. CASE rc' = [rc EXCEPT ![c].wait = "no", ![c].turn = @ + 1]
      <4> DEFINE q == [r EXCEPT !.wait = "no", !.turn = @ + 1]
      <4>1. rc' = [rc EXCEPT ![c] = q]
        BY <3>2 DEF AnswerInv, ConnTypes
      <4>2. IsRequest(q) /\ Same(q)
        BY <1>2 DEF IsRequest, Fields, Forwarding
      <4> QED BY <4>1, <4>2
    <3>3. ASSUME NEW err \in {"error", "timeout"}, rc' = [rc EXCEPT ![c].wait = "no", ![c].err = err]
          PROVE  \E q : rc' = [rc EXCEPT ![c] = q] /\ IsRequest(q) /\ Same(q)
      <4> DEFINE q == [r EXCEPT !.wait = "no", !.err = err]
      <4>1. rc' = [rc EXCEPT ![c] = q]
        BY <3>3 DEF AnswerInv, ConnTypes
      <4>2. IsRequest(q) /\ Same(q)
        BY <1>2 DEF IsRequest, Fields, Forwarding
      <4> QED BY <4>1, <4>2
    <3> QED BY <2>4, <3>1, <3>2, <3>3 DEF Acquired
  <2> QED BY <2>1, <2>2, <2>3, <2>4
<1>4. /\ q.logged = 0 /\ q.responded = r.responded
      /\ q.limited = r.limited /\ q.status = r.status /\ q.answers = r.answers
  BY <1>2, <1>3 DEF Fields, Forwarding
<1>5. Progress(q, p) /\ Ahead(q, todo[c])
  BY <1>2, <1>4 DEF Progress, Ahead
<1>6. q.responded => q.limited
  BY <1>5 DEF Ahead
<1>7. InChain(q, todo[c], p)
  BY <1>4, <1>5, <1>6 DEF InChain
<1> QED BY <1>1, <1>3, <1>7, FilterKeeps

\* A response that ends in the middle leaves the request unanswered, or answered with 429.
LEMMA CutProgress ==
  ASSUME NEW r, IsRequest(r), NEW q, IsRequest(q), NEW p, NEW rest, NEW a,
         Progress(r, p), Ahead(r, rest), OnTop(r, q, a, p), a.whole = FALSE,
         q.responded = r.responded, q.limited = r.limited, q.status = r.status
  PROVE  Progress(q, p)
<1>1. CASE r.limited = TRUE
  <2>1. r.responded = TRUE /\ Len(r.answers) = 1
    BY <1>1, Zenon DEF Ahead, IsRequest
  <2>2. r.status \in Statuses /\ (p = "h1" => \E i \in DOMAIN r.answers : r.answers[i].status = r.status)
    BY <2>1, Zenon DEF Progress
  <2>3. DOMAIN r.answers = {1}
    BY <2>1, Positions
  <2>4. p = "h1" => r.answers[1].status = r.status
    BY <2>2, <2>3
  <2>5. /\ Len(q.answers) = 1 \/ (Len(q.answers) = 2 /\ q.limited = TRUE)
        /\ 1 \in DOMAIN q.answers /\ q.answers[1] = r.answers[1]
    BY <1>1 DEF OnTop
  <2>6. p = "h1" => \E i \in DOMAIN q.answers : q.answers[i].status = q.status
    BY <2>4, <2>5
  <2>7. q.responded = TRUE /\ q.status \in Statuses
    BY <2>1, <2>2
  <2> QED BY <2>5, <2>6, <2>7, OnceAnswered
<1>2. CASE r.limited = FALSE
  <2>1. q.responded = FALSE /\ q.limited = FALSE
    BY <1>2, Zenon DEF Ahead, IsRequest
  <2>2. Len(q.answers) = 1 /\ q.answers[1] = a
    BY <1>2 DEF OnTop
  <2> QED BY <2>1, <2>2 DEF Progress
<1> QED BY <1>1, <1>2 DEF IsRequest

\* The endpoint's response ends in the middle.
LEMMA CutKeeps ==
  ASSUME AnswerInv, NEW c \in Conns, Cut(c)
  PROVE  AnswerInv'
<1> DEFINE r == rc[c]
           p == proto[c]
<1>1. AtFilter(c, "upstream") /\ UNCHANGED <<pc, proto, todo>>
  BY DEF Cut, AtUpstream, quiet
<1>2. /\ IsRequest(r) /\ r.logged = 0 /\ r.err = "none"
      /\ Progress(r, p) /\ Ahead(r, todo[c]) /\ p \in {"h1", "h2"}
  BY <1>1, FilterFinds
<1>3. PICK status \in UpstreamStatuses, err \in {"error", "timeout"}, early \in BOOLEAN :
        \E v \in Writes(c, r, status, FALSE) :
          rc' = [rc EXCEPT ![c] = [Attempted(v, early) EXCEPT !.err = err]]
  BY DEF Cut
<1>0. PICK w \in Writes(c, r, status, FALSE) :
        rc' = [rc EXCEPT ![c] = [Attempted(w, early) EXCEPT !.err = err]]
  BY <1>3
<1> DEFINE a == [status |-> status, whole |-> FALSE]
           q == [Attempted(w, early) EXCEPT !.err = err]
<1>4. WriteEffect(r, w, a, p)
  BY <1>2, WritesAre, ConnectionConstants
<1>5. IsRequest(Attempted(w, early)) /\ SameAnswers(Attempted(w, early), w)
  BY <1>4, AttemptedIs DEF WriteEffect
<1>6. /\ IsRequest(q) /\ q.err # "none"
      /\ \A f \in Fields : f \notin Forwarding \cup {"err"} => q[f] = w[f]
  BY <1>5 DEF IsRequest, SameAnswers, Forwarding, Fields
<1>7. rc' = [rc EXCEPT ![c] = q]
  BY <1>0
<1> HIDE DEF q
<1>8. /\ q.logged = 0 /\ q.responded = r.responded
      /\ q.limited = r.limited /\ q.status = r.status /\ q.answers = w.answers
  BY <1>2, <1>4, <1>6 DEF WriteEffect, Forwarding, Fields
<1>9. Extends(r.answers, q.answers, a, p) /\ a.whole = FALSE
  BY <1>4, <1>8 DEF WriteEffect
<1> HIDE DEF a
<1>10. OnTop(r, q, a, p)
  BY <1>2, <1>6, <1>9, OneMore
<1>11. Progress(q, p)
  BY <1>2, <1>6, <1>8, <1>9, <1>10, CutProgress
<1>12. q.responded => q.limited
  BY <1>2, <1>8 DEF Ahead
<1>13. InChain(q, todo[c], p)
  BY <1>6, <1>8, <1>11, <1>12 DEF InChain
<1> QED BY <1>1, <1>6, <1>7, <1>13, FilterKeeps
-----------------------------------------------------------------------------
(* The end of a request.                                                   *)

\* The request that is answered now was the last one in the chain.
LEMMA AnswerKeeps ==
  ASSUME AnswerInv, NEW c \in Conns, pc' = [pc EXCEPT ![c] = "answered"],
         UNCHANGED <<proto, todo>>, NEW q, rc' = [rc EXCEPT ![c] = q],
         IsRequest(q), Ended(q, proto[c])
  PROVE  AnswerInv'
<1>1. DOMAIN rc' = Conns /\ rc'[c] = q /\ \A d \in Conns : d # c => rc'[d] = rc[d]
  BY DEF AnswerInv, ConnTypes
<1>2. /\ pc' \in [Conns -> {"new", "net", "read", "chain", "answered", "closed"}]
      /\ proto' \in [Conns -> {"h1", "h2"}] /\ todo' \in [Conns -> Rests]
      /\ pc'[c] = "answered" /\ \A d \in Conns : d # c => pc'[d] = pc[d]
  BY DEF AnswerInv, ConnTypes
<1>3. AnswersAt(c)'
  BY <1>1, <1>2 DEF AnswersAt
<1> QED BY <1>1, <1>2, <1>3, OneMoves

\* The answer of the connection manager on top of at most a response that ended in the middle.
LEMMA FallbackEnds ==
  ASSUME NEW r, IsRequest(r), NEW q, IsRequest(q), NEW status \in Statuses,
         Extends(r.answers, q.answers, [status |-> status, whole |-> TRUE], "h1"),
         r.answers = <<>> \/ (Len(r.answers) = 1 /\ ~r.answers[1].whole),
         q.logged = status, status = FallbackStatus(r), q.err = r.err
  PROVE  Ended(q, "h1")
<1> DEFINE a == [status |-> status, whole |-> TRUE]
           n == Len(r.answers)
<1>1. /\ n \in {0, 1} /\ Len(q.answers) = n + 1 /\ q.answers[n + 1] = a
      /\ \A i \in 1 .. n : q.answers[i] = r.answers[i]
      /\ DOMAIN q.answers = 1 .. Len(q.answers)
  BY Positions DEF Extends
<1>2. Len(q.answers) \in {1, 2}
  BY <1>1
<1>3. Len(q.answers) = 2 => ~q.answers[1].whole
  <2> SUFFICES ASSUME Len(q.answers) = 2 PROVE ~q.answers[1].whole
    OBVIOUS
  <2>1. n = 1
    <3> HIDE DEF n
    <3> QED BY <1>1
  <2>2. q.answers[1] = r.answers[1] /\ r.answers # <<>>
    BY <1>1, <2>1, Positions
  <2> QED BY <2>2
<1>4. \E i \in DOMAIN q.answers : q.answers[i].status = q.logged
  <2>1. n + 1 \in DOMAIN q.answers /\ q.answers[n + 1].status = q.logged
    BY <1>1
  <2> QED BY <2>1
<1>5. q.err # "none" => q.logged = IF q.err = "timeout" THEN 504 ELSE 502
  BY DEF FallbackStatus, IsRequest
<1>6. Last(q.answers) = [status |-> q.logged, whole |-> TRUE]
  BY <1>1 DEF Last
<1> QED BY <1>2, <1>3, <1>4, <1>5, <1>6 DEF Ended

\* HCM.Handle answers what no filter has answered, and logs the answer.
LEMMA FinishKeeps ==
  ASSUME AnswerInv, NEW c \in Conns, Finish(c)
  PROVE  AnswerInv'
<1> DEFINE r == rc[c]
           q == Completed(r)
<1>1. /\ pc[c] = "chain" /\ proto[c] = "h1" /\ pc' = [pc EXCEPT ![c] = "answered"]
      /\ UNCHANGED <<proto, todo>> /\ rc' = [rc EXCEPT ![c] = q]
  BY DEF Finish, FiltersDone
<1>2. IsRequest(r) /\ InChain(r, todo[c], "h1")
  BY <1>1 DEF AnswerInv, ConnTypes, AnswersAt
<1>3. Progress(r, "h1") /\ (r.responded /\ r.err # "none" => r.limited)
  BY <1>2 DEF InChain
<1>4. IsRequest(q) /\ Ended(q, "h1")
  <2>1. CASE r.responded = TRUE
    <3>1. q = [r EXCEPT !.logged = r.status]
      BY <2>1 DEF Completed, FinalStatus
    <3>2. /\ IsRequest(q) /\ q.answers = r.answers /\ q.limited = r.limited /\ q.err = r.err
          /\ q.logged = r.status
      BY <1>2, <3>1 DEF IsRequest, Fields
    <3>3. /\ Len(r.answers) \in {1, 2} /\ (Len(r.answers) = 2 => r.limited)
          /\ \E i \in DOMAIN r.answers : r.answers[i].status = r.status
      BY <1>3, <2>1, Zenon DEF Progress
    <3>4. r.err # "none" => r.limited
      BY <1>3, <2>1, Zenon
    <3> HIDE DEF q, r
    <3> QED BY <3>2, <3>3, <3>4 DEF Ended
  <2>2. CASE r.responded = FALSE
    <3> DEFINE s == FallbackStatus(r)
               w == Written(r, s, TRUE)
               a == [status |-> s, whole |-> TRUE]
    <3>1. s \in Statuses
      BY DEF FallbackStatus, DefaultStatus, Statuses
    <3>2. WriteEffect(r, w, a, "h1")
      BY <1>1, <1>2, <3>1, WrittenIs
    <3>3. q = [w EXCEPT !.logged = s]
      BY <2>2 DEF Completed, FinalStatus
    <3> HIDE DEF w, s
    <3>4. /\ IsRequest(q) /\ q.answers = w.answers /\ q.logged = s /\ q.err = r.err
      BY <1>2, <3>2, <3>3 DEF WriteEffect, IsRequest, Fields
    <3>5. r.answers = <<>> \/ (Len(r.answers) = 1 /\ ~r.answers[1].whole)
      BY <1>3, <2>2, Zenon DEF Progress
    <3>6. Extends(r.answers, q.answers, a, "h1")
      BY <3>2, <3>4 DEF WriteEffect
    <3>7. s = FallbackStatus(r)
      BY DEF s
    <3> HIDE DEF q, r
    <3> QED BY <1>2, <3>1, <3>4, <3>5, <3>6, <3>7, FallbackEnds
  <2> QED BY <1>2, <2>1, <2>2 DEF IsRequest
<1> QED BY <1>1, <1>4, AnswerKeeps

\* h2Handler.ServeHTTP answers what no filter has answered, and logs nothing.
LEMMA FinishStreamKeeps ==
  ASSUME AnswerInv, NEW c \in Conns, FinishStream(c)
  PROVE  AnswerInv'
<1> DEFINE r == rc[c]
           s == DefaultStatus(r)
<1>1. /\ pc[c] = "chain" /\ proto[c] = "h2" /\ pc' = [pc EXCEPT ![c] = "answered"]
      /\ UNCHANGED <<proto, todo>>
  BY DEF FinishStream, FiltersDone
<1>0. PICK q \in IF r.responded THEN {r} ELSE Writes(c, r, s, TRUE) : rc' = [rc EXCEPT ![c] = q]
  BY DEF FinishStream
<1>2. IsRequest(r) /\ InChain(r, todo[c], "h2")
  BY <1>1 DEF AnswerInv, ConnTypes, AnswersAt
<1>3. Progress(r, "h2") /\ r.logged = 0
  BY <1>2 DEF InChain
<1>4. /\ IsRequest(q) /\ q.logged = 0 /\ Len(q.answers) \in {1, 2}
      /\ Len(q.answers) = 2 => q.limited \/ ~q.answers[1].whole
  <2>1. CASE r.responded = TRUE
    <3>1. Len(r.answers) \in {1, 2} /\ (Len(r.answers) = 2 => r.limited)
      BY <1>3, <2>1, Zenon DEF Progress
    <3>2. q = r
      BY <1>0, <2>1
    <3> QED BY <1>2, <1>3, <3>1, <3>2, Zenon
  <2>2. CASE r.responded = FALSE
    <3> DEFINE a == [status |-> s, whole |-> TRUE]
    <3>1. s \in Statuses
      BY DEF DefaultStatus, Statuses
    <3>2. q \in Writes(c, r, s, TRUE)
      BY <1>0, <2>2
    <3> HIDE DEF s, r
    <3>3. WriteEffect(r, q, a, "h2")
      BY <1>1, <1>2, <3>1, <3>2, WritesAre
    <3>4. IsRequest(q) /\ q.logged = 0 /\ Extends(r.answers, q.answers, a, "h2")
      BY <1>3, <3>3 DEF WriteEffect, Fields
    <3>5. r.answers = <<>> \/ (Len(r.answers) = 1 /\ ~r.answers[1].whole)
      BY <1>3, <2>2, Zenon DEF Progress
    <3>6. CASE r.answers = <<>>
      <4>1. Len(r.answers) = 0
        BY <1>2, <3>6, Positions
      <4>2. Len(q.answers) = 1
        BY <3>4, <3>6, <4>1 DEF Extends
      <4> QED BY <3>4, <4>2
    <3>7. CASE r.answers # <<>>
      <4>1. Len(r.answers) = 1 /\ ~r.answers[1].whole
        BY <3>5, <3>7
      <4>2. Len(q.answers) \in {1, 2} /\ q.answers[1] = r.answers[1]
        BY <3>4, <4>1 DEF Extends
      <4> QED BY <3>4, <4>1, <4>2
    <3> QED BY <3>6, <3>7
  <2> QED BY <1>2, <2>1, <2>2 DEF IsRequest
<1>5. Ended(q, "h2")
  BY <1>4 DEF Ended
<1> QED BY <1>0, <1>1, <1>4, <1>5, AnswerKeeps
-----------------------------------------------------------------------------
(* The connection before and after a request.                              *)

\* A connection that is not at work on a request keeps no answer.
LEMMA IdleKeeps ==
  ASSUME AnswerInv, NEW c \in Conns, NEW at \in {"net", "read", "closed"},
         pc' = [pc EXCEPT ![c] = at], proto' \in [Conns -> {"h1", "h2"}],
         \A d \in Conns : d # c => proto'[d] = proto[d],
         todo' = todo \/ todo' = [todo EXCEPT ![c] = <<>>],
         NEW q, rc' = [rc EXCEPT ![c] = q] \/ (rc' = rc /\ rc[c] = q),
         IsRequest(q), q.answers = <<>>, q.logged = 0
  PROVE  AnswerInv'
<1>1. DOMAIN rc' = Conns /\ rc'[c] = q /\ \A d \in Conns : d # c => rc'[d] = rc[d]
  BY DEF AnswerInv, ConnTypes
<1>2. /\ pc' \in [Conns -> {"new", "net", "read", "chain", "answered", "closed"}]
      /\ pc'[c] = at /\ \A d \in Conns : d # c => pc'[d] = pc[d]
  BY DEF AnswerInv, ConnTypes
<1>3. todo' \in [Conns -> Rests] /\ \A d \in Conns : d # c => todo'[d] = todo[d]
  BY DEF AnswerInv, ConnTypes, Rests
<1>4. AnswersAt(c)'
  BY <1>1, <1>2 DEF AnswersAt
<1> QED BY <1>1, <1>2, <1>3, <1>4, OneMoves

\* What a step finds of a connection that is not at work on a request.
LEMMA IdleFinds ==
  ASSUME AnswerInv, NEW c \in Conns, pc[c] \notin {"chain", "answered"}
  PROVE  IsRequest(rc[c]) /\ rc[c].answers = <<>> /\ rc[c].logged = 0
BY DEF AnswerInv, ConnTypes, AnswersAt

\* Listener.handle and the network filters.
LEMMA HandleKeeps ==
  ASSUME AnswerInv, NEW c \in Conns,
         \/ \E hs \in Handshakes[c] : Accept(c, hs)
         \/ Execute(c) \/ HandleReturns(c) \/ ReadFails(c) \/ ParseFails(c)
  PROVE  AnswerInv'
<1>0. /\ pc \in [Conns -> {"new", "net", "read", "chain", "answered", "closed"}]
      /\ proto \in [Conns -> {"h1", "h2"}]
  BY DEF AnswerInv, ConnTypes
<1>1. CASE /\ UNCHANGED <<todo, rc>> /\ pc[c] \notin {"chain", "answered"}
           /\ \E at \in {"net", "read", "closed"} : pc' = [pc EXCEPT ![c] = at]
           /\ proto' \in [Conns -> {"h1", "h2"}]
           /\ \A d \in Conns : d # c => proto'[d] = proto[d]
  BY <1>1, IdleFinds, IdleKeeps
<1>2. CASE UNCHANGED <<pc, proto, todo, rc>>
  BY <1>2 DEF AnswerInv, ConnTypes, AnswersAt
<1>3. ASSUME NEW hs \in Handshakes[c], Accept(c, hs) PROVE AnswerInv'
  <2>1. UNCHANGED <<todo, rc>> /\ pc[c] \notin {"chain", "answered"}
    BY <1>3 DEF Accept
  <2>2. \E at \in {"net", "read", "closed"} : pc' = [pc EXCEPT ![c] = at]
    BY <1>3 DEF Accept
  <2>3. proto' \in [Conns -> {"h1", "h2"}] /\ \A d \in Conns : d # c => proto'[d] = proto[d]
    BY <1>0, <1>3 DEF Accept
  <2> QED BY <1>1, <2>1, <2>2, <2>3
<1>4. CASE Execute(c)
  <2>1. UNCHANGED <<proto, todo, rc>> /\ pc[c] \notin {"chain", "answered"}
    BY <1>4 DEF Execute
  <2>2. pc' = pc \/ \E at \in {"net", "read", "closed"} : pc' = [pc EXCEPT ![c] = at]
    BY <1>4 DEF Execute
  <2> QED BY <1>0, <1>1, <1>2, <2>1, <2>2
<1>5. CASE HandleReturns(c)
  <2>1. UNCHANGED <<proto, todo, rc>>
    BY <1>5 DEF HandleReturns
  <2>2. pc' = pc \/ (pc[c] \notin {"chain", "answered"} /\ pc' = [pc EXCEPT ![c] = "closed"])
    BY <1>5 DEF HandleReturns
  <2> QED BY <1>0, <1>1, <1>2, <2>1, <2>2
<1>6. CASE ReadFails(c) \/ ParseFails(c)
  <2>1. /\ UNCHANGED <<proto, todo, rc>> /\ pc[c] \notin {"chain", "answered"}
        /\ pc' = [pc EXCEPT ![c] = "net"]
    BY <1>6 DEF ReadFails, ParseFails, Return
  <2> QED BY <1>0, <1>1, <2>1
<1> QED BY <1>3, <1>4, <1>5, <1>6

\* A request is read: no filter has run and nothing was written.
LEMMA ReadKeeps ==
  ASSUME AnswerInv, NEW c \in Conns, NEW k, ReadRequest(c, k)
  PROVE  AnswerInv'
<1> DEFINE q == NewRequest(k, proto[c] = "h1")
<1>1. /\ IsRequest(q) /\ q.answers = <<>> /\ q.logged = 0
      /\ q.responded = FALSE /\ q.limited = FALSE
  BY NoRequestIs
<1> HIDE DEF q
<1>2. /\ UNCHANGED proto /\ rc' = [rc EXCEPT ![c] = q]
      /\ todo' = [todo EXCEPT ![c] = FiltersOf(proto[c])]
      /\ pc' = [pc EXCEPT ![c] = "chain"]
  BY DEF ReadRequest, q
<1>3. DOMAIN rc' = Conns /\ rc'[c] = q /\ \A d \in Conns : d # c => rc'[d] = rc[d]
  BY <1>2 DEF AnswerInv, ConnTypes
<1>4. /\ pc' \in [Conns -> {"new", "net", "read", "chain", "answered", "closed"}]
      /\ pc'[c] = "chain" /\ \A d \in Conns : d # c => pc'[d] = pc[d]
      /\ proto' \in [Conns -> {"h1", "h2"}]
  BY <1>2 DEF AnswerInv, ConnTypes
<1>5. todo' \in [Conns -> Rests] /\ \A d \in Conns : d # c => todo'[d] = todo[d]
  BY <1>2 DEF AnswerInv, ConnTypes, Rests, FiltersOf
<1>6. Progress(q, proto'[c]) /\ Ahead(q, todo'[c]) /\ ~q.responded
  BY <1>1 DEF Progress, Ahead
<1>7. AnswersAt(c)'
  BY <1>1, <1>3, <1>4, <1>6 DEF AnswersAt, InChain
<1> QED BY <1>2, <1>3, <1>4, <1>5, <1>1, <1>7, OneMoves

\* HCM.Handle returns or reads on: the request is forgotten.
LEMMA TurnKeeps ==
  ASSUME AnswerInv, NEW c \in Conns, WriteFails(c) \/ NextTurn(c)
  PROVE  AnswerInv'
<1>1. UNCHANGED proto /\ todo' = [todo EXCEPT ![c] = <<>>] /\ proto \in [Conns -> {"h1", "h2"}]
  BY DEF WriteFails, NextTurn, AnswerInv, ConnTypes
<1>2. \E at \in {"net", "read", "closed"} : pc' = [pc EXCEPT ![c] = at]
  BY DEF WriteFails, NextTurn, Return
<1>3. \E q : /\ rc' = [rc EXCEPT ![c] = q]
             /\ IsRequest(q) /\ q.answers = <<>> /\ q.logged = 0
  <2>1. CASE WriteFails(c)
    BY <2>1, NoRequestIs DEF WriteFails
  <2>2. CASE NextTurn(c)
    <3> DEFINE q == [NoRequest EXCEPT !.unread = rc[c].unread]
    <3>1. rc' = [rc EXCEPT ![c] = q]
      BY <2>2 DEF NextTurn
    <3>2. IsRequest(q) /\ q.answers = <<>> /\ q.logged = 0
      BY NoRequestIs DEF IsRequest, Fields
    <3> QED BY <3>1, <3>2
  <2> QED BY <2>1, <2>2
<1> QED BY <1>1, <1>2, <1>3, IdleKeeps
-----------------------------------------------------------------------------
\* No connection has read a request.
LEMMA AnswerInit == Init => AnswerInv
<1> SUFFICES ASSUME Init PROVE AnswerInv
  OBVIOUS
<1>1. ConnTypes
  BY NoRequestIs DEF Init, ConnTypes, Rests
<1>2. \A c \in Conns : AnswersAt(c)
  BY NoRequestIs DEF Init, AnswersAt
<1> QED BY <1>1, <1>2 DEF AnswerInv

\* Every step keeps what is known of the answers.
LEMMA AnswerStep == AnswerInv /\ [Next]_vars => AnswerInv'
<1> SUFFICES ASSUME AnswerInv, [Next]_vars PROVE AnswerInv'
  OBVIOUS
<1>1. CASE UNCHANGED <<pc, proto, todo, rc>>
  BY <1>1 DEF AnswerInv, ConnTypes, AnswersAt
<1>2. CASE Shutdown \/ (Tick /\ UNCHANGED <<connVars, metricsVars>>) \/ UNCHANGED vars
  BY <1>1, <1>2 DEF Shutdown, vars, connVars
<1>3. ASSUME NEW c \in Conns,
             \/ \E hs \in Handshakes[c] : Accept(c, hs)
             \/ \E k \in RequestKinds[c] : ReadRequest(c, k)
             \/ Step(c) \/ Acquired(c) \/ ParseFails(c) \/ ClientCloses(c) \/ CloseAtShutdown(c)
      PROVE  AnswerInv'
  <2>1. CASE (\E hs \in Handshakes[c] : Accept(c, hs)) \/ ParseFails(c)
    BY <2>1, HandleKeeps
  <2>2. CASE \E k \in RequestKinds[c] : ReadRequest(c, k)
    BY <2>2, ReadKeeps
  <2>3. CASE ClientCloses(c) \/ CloseAtShutdown(c)
    BY <1>1, <2>3 DEF ClientCloses, CloseAtShutdown
  <2>4. CASE Step(c)
    <3>1. CASE Execute(c) \/ HandleReturns(c) \/ ReadFails(c)
      BY <3>1, HandleKeeps
    <3>2. CASE Limit(c)
      BY <3>2, LimitKeeps
    <3>3. CASE Route(c) \/ RouteOptions(c)
      BY <3>3, RoutingKeeps
    <3>4. CASE Upstream(c)
      BY <3>4, ForwardKeeps, FailKeeps, CutKeeps DEF Upstream
    <3>5. CASE Finish(c)
      BY <3>5, FinishKeeps
    <3>6. CASE FinishStream(c)
      BY <3>6, FinishStreamKeeps
    <3>7. CASE WriteFails(c) \/ NextTurn(c)
      BY <3>7, TurnKeeps
    <3> QED BY <2>4, <3>1, <3>2, <3>3, <3>4, <3>5, <3>6, <3>7 DEF Step
  <2>5. CASE Acquired(c)
    BY <2>5, FailKeeps
  <2> QED BY <1>3, <2>1, <2>2, <2>3, <2>4, <2>5
<1> QED BY <1>2, <1>3 DEF Next

\* So the invariant holds in every state.
LEMMA AnswersAlways == Spec => []AnswerInv
BY AnswerInit, AnswerStep, PTL DEF Spec

\* What is known of a request in each phase.
LEMMA RequestAt ==
  ASSUME AnswerInv, NEW c \in Conns
  PROVE  /\ IsRequest(rc[c])
         /\ \/ Ended(rc[c], proto[c])
            \/ pc[c] = "chain" /\ rc[c].logged = 0 /\ Progress(rc[c], proto[c])
            \/ pc[c] \notin {"chain", "answered"} /\ rc[c].logged = 0 /\ rc[c].answers = <<>>
BY DEF AnswerInv, ConnTypes, AnswersAt, InChain

(* HCM.Handle and h2Handler answer a request before they read the next     *)
(* one, and once: whatever the limiter, the router, the breaker and the    *)
(* endpoint do, a second response follows only a 429 or a response that    *)
(* ended in the middle, and the access log shows one that was written.     *)
THEOREM AnsweredOnce == Spec => []OneAnswer
<1>1. AnswerInv => OneAnswer
  <2> SUFFICES ASSUME AnswerInv, NEW c \in Conns
               PROVE  LET answers == rc[c].answers
                      IN  /\ pc[c] = "answered" => answers # <<>>
                          /\ Len(answers) <= 2
                          /\ Len(answers) = 2 => rc[c].limited \/ ~answers[1].whole
                          /\ rc[c].logged # 0 => \E i \in DOMAIN answers : answers[i].status = rc[c].logged
    BY DEF OneAnswer
  <2> DEFINE r == rc[c]
  <2>1. IsRequest(r) /\ (r.answers = <<>> <=> Len(r.answers) = 0)
    BY RequestAt, Positions
  <2>2. /\ Len(r.answers) \in {0, 1, 2}
        /\ pc[c] = "answered" => Len(r.answers) # 0
        /\ Len(r.answers) = 2 => r.limited \/ ~r.answers[1].whole
    <3>1. CASE Ended(r, proto[c])
      <4>1. /\ Len(r.answers) \in {1, 2}
            /\ Len(r.answers) = 2 => r.limited \/ ~r.answers[1].whole
        BY <3>1, Zenon DEF Ended
      <4> HIDE DEF r
      <4> QED BY <4>1
    <3>2. CASE pc[c] = "chain" /\ Progress(r, proto[c]) /\ r.responded = TRUE
      <4>1. Len(r.answers) \in {1, 2} /\ (Len(r.answers) = 2 => r.limited)
        BY <3>2, Zenon DEF Progress
      <4> HIDE DEF r
      <4> QED BY <3>2, <4>1
    <3>3. CASE pc[c] = "chain" /\ Progress(r, proto[c]) /\ r.responded = FALSE
      <4>1. r.answers = <<>> \/ Len(r.answers) = 1
        BY <3>3, Zenon DEF Progress
      <4> HIDE DEF r
      <4> QED BY <2>1, <3>3, <4>1
    <3>4. CASE pc[c] \notin {"chain", "answered"} /\ r.answers = <<>>
      BY <2>1, <3>4
    <3>5. r.responded \in BOOLEAN
      BY <2>1 DEF IsRequest
    <3> QED BY <3>1, <3>2, <3>3, <3>4, <3>5, RequestAt
  <2>3. r.logged # 0 => \E i \in DOMAIN r.answers : r.answers[i].status = r.logged
    BY RequestAt, Zenon DEF Ended
  <2>4. pc[c] = "answered" => r.answers # <<>>
    BY <2>1, <2>2, Zenon
  <2>5. Len(r.answers) <= 2
    <3> DEFINE n == Len(r.answers)
    <3>1. n \in {0, 1, 2}
      BY <2>2, Zenon
    <3> HIDE DEF n
    <3>2. n <= 2
      BY <3>1
    <3> QED BY <3>2 DEF n
  <2> QED BY <2>2, <2>3, <2>4, <2>5, Zenon
<1> QED BY <1>1, AnswersAlways, PTL

(* HCM.Handle answers a request that the upstream proxy failed to forward  *)
(* with 502 or 504, for any number of attempts and retries before, and     *)
(* logs that status.                                                       *)
THEOREM FailuresReported == Spec => []FailureReported
<1>1. AnswerInv => FailureReported
  <2> SUFFICES ASSUME AnswerInv, NEW c \in Conns, proto[c] = "h1", rc[c].logged # 0,
                      ~rc[c].limited, rc[c].err # "none"
               PROVE  /\ rc[c].logged = IF rc[c].err = "timeout" THEN 504 ELSE 502
                      /\ Last(rc[c].answers) = [status |-> rc[c].logged, whole |-> TRUE]
    BY DEF FailureReported
  <2>1. Ended(rc[c], "h1")
    BY RequestAt
  <2> QED BY <2>1 DEF Ended
<1> QED BY <1>1, AnswersAlways, PTL
=============================================================================
