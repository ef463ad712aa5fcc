---------------------------- MODULE MCCaseExecution ----------------------------
(***************************************************************************)
(* Small instances of CaseExecution: ids are model values.                 *)
(***************************************************************************)
EXTENDS CaseExecution, TLC

\* Rows and handlers are interchangeable.
Symmetry == Permutations(Rows) \cup Permutations(Handlers)
=============================================================================
