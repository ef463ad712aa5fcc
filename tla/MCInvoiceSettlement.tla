------------------------ MODULE MCInvoiceSettlement ------------------------
(***************************************************************************)
(* Small instances of InvoiceSettlement: ids are model values.             *)
(***************************************************************************)
EXTENDS InvoiceSettlement, TLC

\* Rows and handlers are interchangeable.
Symmetry == Permutations(Payments) \cup Permutations(Returns) \cup Permutations(Handlers)
=============================================================================
