---------------------------- MODULE MCExecutions ----------------------------
(***************************************************************************)
(* Instance of Executions for TLC: two executions of one account and two   *)
(* consumers.                                                              *)
(***************************************************************************)
EXTENDS Executions

CONSTANTS e1, e2, w1, w2, acct

\* One account owns everything.
OneOwner == [e \in Execs |-> acct]

\* Consumers of one process: pool.ts numbers them, so the names differ.
OwnNames == [w \in Workers |-> w]

\* Consumer 0 of two processes: the same name (README.md says how to check it).
SameName == [w \in Workers |-> w1]

AllFaults == FaultClasses
=============================================================================
