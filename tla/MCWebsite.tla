----------------------------- MODULE MCWebsite -----------------------------
(* Instance of Website for TLC: two browsers, one of them with two tabs,   *)
(* and two addresses, one of them spelled in two ways.                     *)
EXTENDS Website

CONSTANTS a1, a2, A1, b1, b2, t3

Lower == [s \in Spellings |-> IF s = A1 THEN a1 ELSE s]

LastAlone == [t \in Tabs |-> IF t = t3 THEN b2 ELSE b1]
=============================================================================
