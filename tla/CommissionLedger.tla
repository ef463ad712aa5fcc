-------------------------- MODULE CommissionLedger --------------------------
(***************************************************************************)
(* What the commission ledger promises a seller, row by row, whatever the  *)
(* payments, credit notes and liquidations around it do: a commission is   *)
(* caused once, its net amount only goes down, never below zero, and it is *)
(* paid at most once and only while there is a net amount to pay.          *)
(***************************************************************************)
EXTENDS Integers

CONSTANT Rows       \* ids of the commissions

VARIABLES
    caused,         \* the commissions that exist
    net,            \* amount - reversedAmount of each of them
    payouts         \* how many times each was paid to its seller

ledger == <<caused, net, payouts>>

Init ==
    /\ caused = {}
    /\ net = [r \in Rows |-> 0]
    /\ payouts = [r \in Rows |-> 0]

\* A payment causes a commission of any amount.
Cause(r) ==
    /\ r \notin caused
    /\ caused' = caused \cup {r}
    /\ net'[r] \in Nat
    /\ net' = [net EXCEPT ![r] = net'[r]]
    /\ UNCHANGED payouts

\* A credit note takes some of the net of any commissions.
Reverse ==
    /\ net' \in [Rows -> Nat]
    /\ \A r \in Rows : net'[r] <= net[r]
    /\ UNCHANGED <<caused, payouts>>

Liquidate(r) ==
    /\ r \in caused
    /\ payouts[r] = 0
    /\ net[r] > 0
    /\ payouts' = [payouts EXCEPT ![r] = 1]
    /\ UNCHANGED <<caused, net>>

Next ==
    \/ Reverse
    \/ \E r \in Rows : Cause(r) \/ Liquidate(r)

Spec == Init /\ [][Next]_ledger
=============================================================================
