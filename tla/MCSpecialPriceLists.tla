------------------------ MODULE MCSpecialPriceLists ------------------------
(***************************************************************************)
(* Small instances of SpecialPriceLists.                                   *)
(***************************************************************************)
EXTENDS SpecialPriceLists, TLC

Symmetry == Permutations(Lists) \cup Permutations(Combos) \cup Permutations(Handlers)
=============================================================================
