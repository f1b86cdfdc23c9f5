--------------------------- MODULE MCRouteCounter ---------------------------
(***************************************************************************)
(* RouteCounter for TLC: two replicas and blocks of two numbers, so that   *)
(* tasks meet exhausted blocks and concurrent refills.                     *)
(***************************************************************************)
EXTENDS RouteCounter, TLC

CONSTANTS t1, t2, t3, t4, p1, p2

MCHome == [t \in Tasks |-> IF t \in {t1, t2, t3} THEN p1 ELSE p2]
=============================================================================
