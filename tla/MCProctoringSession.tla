------------------------ MODULE MCProctoringSession ------------------------
(***************************************************************************)
(* ProctoringSession for TLC: the constants that are the same in every run.*)
(***************************************************************************)
EXTENDS ProctoringSession, TLC

(* Violation types behave alike.                                           *)
Symmetry == Permutations(Types)
=============================================================================
