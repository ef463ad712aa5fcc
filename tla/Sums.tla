-------------------------------- MODULE Sums --------------------------------
(***************************************************************************)
(* Sums of money over a finite set of rows, the `reduce(... sum.plus ...)` *)
(* and `_sum` aggregates of the services.  A sum is the number of unit     *)
(* coins of all the rows together: this form, unlike a fold, is within     *)
(* reach of the cardinality theorems of the proof library, and TLC counts  *)
(* it directly on the small amounts of the runs.                           *)
(***************************************************************************)
EXTENDS Naturals, FiniteSets

\* The coins of the amounts f: f[x] coins marked with each row x.
Coins(f) == UNION {{x} \X (1 .. f[x]) : x \in DOMAIN f}

\* The sum of f[x] over the rows x of f.
Total(f) == Cardinality(Coins(f))
=============================================================================
