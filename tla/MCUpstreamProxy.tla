-------------------------- MODULE MCUpstreamProxy --------------------------
(* UpstreamProxy on small instances.  The slices of endpoints and the      *)
(* functions that a cfg cannot write are defined here.                     *)
EXTENDS UpstreamProxy, TLC

CONSTANTS r1, r2, r3, e1, e2, h1

\* A static cluster.
OneEndpoint == {<<e1>>}
BothEndpoints == {<<e1, e2>>}
\* Discovery has not resolved yet, or adds and removes an endpoint.
ChangingEndpoints == {<<>>, <<e1, e2>>, <<e2>>}
\* A strict_dns cluster before and after its first resolution.
UnresolvedEndpoints == {<<>>, <<e1>>}

OneProxy == [r \in Requests |-> h1]

RequestSymmetry == Permutations(Requests)
=============================================================================
