------------------------------ MODULE Routing ------------------------------
(***************************************************************************)
(* How a request finds its cluster, its forwarded path and its retries:    *)
(* Router.OnRequest, RouteOptionsFilter and the merge of policies at the   *)
(* top of UpstreamProxy.OnRequest.  Nothing here keeps state.              *)
(*                                                                         *)
(* A path is a sequence of characters.  Rules are numbered from 1: rule 1  *)
(* is the one that Go's zero value of RouteID names.                       *)
(***************************************************************************)
EXTENDS Integers, SequencesExt

CONSTANTS
  Clusters,     \* the clusters of the configuration
  NoCluster,    \* the empty name
  RetryPolicy,  \* retry_policy of a cluster, with the defaults filled in
  Chars         \* the characters of paths

Slash == <<"/">>

\* A route of the configuration, with its retry options.
RouteRule ==
  [prefix : Seq(Chars), cluster : STRING, strip : BOOLEAN, rewrite : Seq(Chars), retries : Nat]

\* Validate refuses a cluster without a name; a number of retries that is not
\* positive is taken for none.
ASSUME RoutingConstants ==
  /\ IsFiniteSet(Clusters) /\ NoCluster \notin Clusters
  /\ \A cl \in Clusters : RetryPolicy[cl].retries \in Nat
  /\ "/" \in Chars

\* What Validate asks of the routes.
ValidRoutes(rules) ==
  \A i \in DOMAIN rules : rules[i].prefix # <<>> /\ rules[i].cluster \in Clusters

\* The part of a path after the matched prefix, with a slash in front.
Remainder(rule, path) ==
  LET rest == SubSeq(path, Len(rule.prefix) + 1, Len(path))
  IN  IF IsPrefix(Slash, rest) THEN rest ELSE Slash \o rest

\* RewritePath, empty for a rule that rewrites nothing.
RewritePath(rule, path) ==
  LET rest == Remainder(rule, path)
      base == IF IsPrefix(Slash, rule.rewrite) THEN rule.rewrite ELSE Slash \o rule.rewrite
  IN  IF rule.rewrite # <<>> THEN (IF IsSuffix(Slash, base) THEN Front(base) ELSE base) \o rest
      ELSE IF rule.strip THEN rest ELSE <<>>

\* What the router knows of a request before its first rule.
Unrouted == [cluster |-> NoCluster, route |-> 1, path |-> <<>>, found |-> FALSE]

\* The loop without its break: the last rule that matches wins.
TryEveryRule(rules, path, r, i) ==
  IF IsPrefix(rules[i].prefix, path)
  THEN [cluster |-> rules[i].cluster, route |-> i, path |-> RewritePath(rules[i], path), found |-> TRUE]
  ELSE r

\* One turn of the router's loop, which a rule that matches ends.
TryRule(rules, path, r, i) ==
  LET rule == rules[i]
  IN  IF r.found THEN r
      ELSE IF IsPrefix(rule.prefix, path)
      THEN [cluster |-> rule.cluster, route |-> i, path |-> RewritePath(rule, path), found |-> TRUE]
      ELSE IF rule.prefix = Slash /\ r.cluster = NoCluster THEN [r EXCEPT !.cluster = rule.cluster]
      ELSE r

\* Router.OnRequest.
RouteOf(rules, path) ==
  FoldLeft(LAMBDA r, i : TryRule(rules, path, r, i), Unrouted, [i \in DOMAIN rules |-> i])

\* The path of the upstream URL.
ForwardedPath(rules, path) ==
  IF RouteOf(rules, path).path # <<>> THEN RouteOf(rules, path).path ELSE path

\* The rules whose prefix a path has.
Matching(rules, path) == {i \in DOMAIN rules : IsPrefix(rules[i].prefix, path)}

\* RouteOptionsFilter: max_retries of the rule that RouteID names.  It stands
\* for all the options of a rule; 0 is no override.
RetryOverride(rules, route) ==
  IF route \in DOMAIN rules THEN rules[route].retries ELSE 0

\* The cluster's policy with the positive values of the override, and how
\* many attempts it gives a request.
MaxAttempts(cluster, override, method) ==
  LET policy == RetryPolicy[cluster]
  IN  IF policy.idempotentOnly /\ method \notin {"GET", "HEAD", "OPTIONS"} THEN 1
      ELSE 1 + (IF override > 0 THEN override ELSE policy.retries)
-----------------------------------------------------------------------------
DoubleSlash(path) == \E i \in 2 .. Len(path) : path[i - 1] = "/" /\ path[i] = "/"

(* With rules that Validate accepts the router takes the first one that    *)
(* matches; a path that matches none, such as "*", goes to the first rule  *)
(* for "/"; the options applied to a path that starts with a slash are     *)
(* those of the rule that gave the cluster; and the forwarded path starts  *)
(* with a slash where the request's does and has no double slash that was  *)
(* not in the request or the rule.                                         *)
RoutedCorrectly(rules, path) ==
  LET r == RouteOf(rules, path)
      hits == Matching(rules, path)
      catching == {i \in DOMAIN rules : rules[i].prefix = Slash}
      sent == ForwardedPath(rules, path)
      rooted == IsPrefix(Slash, path)
  IN  /\ r.cluster \in Clusters \cup {NoCluster}
      /\ hits # {} => r.route = Min(hits) /\ r.cluster = rules[Min(hits)].cluster
      /\ hits = {} => r.cluster = IF catching = {} THEN NoCluster ELSE rules[Min(catching)].cluster
      /\ rooted /\ r.cluster # NoCluster => r.cluster = rules[r.route].cluster
      /\ rooted => IsPrefix(Slash, sent)
      /\ DoubleSlash(sent) =>
           DoubleSlash(path) \/ \E i \in hits : DoubleSlash(rules[i].rewrite)
=============================================================================
