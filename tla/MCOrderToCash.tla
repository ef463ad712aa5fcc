--------------------------- MODULE MCOrderToCash ---------------------------
(***************************************************************************)
(* Small instances of OrderToCash: ids are model values.                   *)
(***************************************************************************)
EXTENDS OrderToCash, TLC

\* Rows and handlers are interchangeable.
Symmetry ==
    Permutations(Orders) \cup Permutations(Items) \cup Permutations(Invoices)
        \cup Permutations(Bills) \cup Permutations(Handlers)
=============================================================================
