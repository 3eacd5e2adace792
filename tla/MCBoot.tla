------------------------------- MODULE MCBoot -------------------------------
(* Instance of Boot for TLC: the API and one or two workers, one loop each. *)
EXTENDS Boot

CONSTANTS api, u1, u2, l1, l2, t1, t2

OneLoopEach == [l \in Loops |-> IF l = l1 THEN u1 ELSE u2]
=============================================================================
