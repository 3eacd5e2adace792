--------------------------- MODULE MCLiveUpdates ---------------------------
(***************************************************************************)
(* Instances of LiveUpdates for TLC: one submission and one or two pages   *)
(* that show it, with a socket, with polling, or with both.                *)
(***************************************************************************)
EXTENDS LiveUpdates

CONSTANTS s1, p1, p2

AllWatch == [p \in Pages |-> s1]
=============================================================================
