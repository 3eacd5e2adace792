----------------------------- MODULE MCGrading -----------------------------
(***************************************************************************)
(* Instances of Grading for TLC: up to three submissions (the second with  *)
(* an unsupported language, the third in demo mode) and two consumers with *)
(* names of their own.                                                     *)
(***************************************************************************)
EXTENDS Grading

CONSTANTS s1, s2, s3, w1, w2

\* Consumers of one process: pool.ts numbers them, so the names differ.
OwnNames == [w \in Workers |-> w]

\* With distinct names every further grading takes a fault.
FewVerdicts == {NotRun, InternalError} \cup 1..(MaxFaults + 1)
=============================================================================
