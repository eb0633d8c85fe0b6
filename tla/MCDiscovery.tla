---------------------------- MODULE MCDiscovery ----------------------------
(* Discovery on small instances: two names whose records overlap.          *)
EXTENDS Discovery, TLC

CONSTANTS s1, s2, a1, a2

\* Each name moves between the static address and the other one.
OverlappingAnswers == [s \in Seeds |-> {{a1}, {a2}}]
=============================================================================
