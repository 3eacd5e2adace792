----------------------------- MODULE MCGateway -----------------------------
(* Instance of Gateway for TLC: two keys of one account, one may be active. *)
EXTENDS Gateway

CONSTANTS k1, k2, r1, r2, r3, acct

OneOwner == [k \in Keys |-> acct]

\* Two programs use the first key, one the second.
Carried == [r \in Requests |-> IF r = r3 THEN k2 ELSE k1]
=============================================================================
