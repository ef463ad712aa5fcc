----------------------------- MODULE MCSalesDesk -----------------------------
(***************************************************************************)
(* A small instance of SalesDesk.                                          *)
(***************************************************************************)
EXTENDS SalesDesk, TLC

MCSymmetry == Permutations(Handlers) \cup Permutations(Data)
=============================================================================
