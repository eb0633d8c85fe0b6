--------------------------- MODULE MCSupervisor ----------------------------
(* Supervisor on small instances.                                          *)
EXTENDS Supervisor

CONSTANTS l1, l2, c1, c2, d1
=============================================================================
