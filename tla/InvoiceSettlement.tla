-------------------------- MODULE InvoiceSettlement --------------------------
(***************************************************************************)
(* One invoice while it is collected: its payments, the returns (credit    *)
(* notes) against it, the status a control role gives it, and the          *)
(* commissions its payments cause, its returns reverse and the direction   *)
(* liquidates.  Amounts are cents and percentages hundredths of one per    *)
(* cent, as the columns keep them; the cents that cause one cent of        *)
(* commission need not be whole (at 7,5% they are 13 1/3), so those sums   *)
(* count pieces of a cent, Scale to each, and nothing is rounded but what  *)
(* the code rounds.                                                        *)
(*                                                                         *)
(* A payment and a return read the invoice before their transaction and    *)
(* write totals computed from what they read.  The invoice row stays       *)
(* locked from its update to the commit; the commissions stay locked from  *)
(* SELECT ... FOR UPDATE to the commit.                                    *)
(***************************************************************************)
EXTENDS Integers, FiniteSets, Sums

CONSTANTS
    Payments,       \* ids of payments; a commission has the id of its payment
    Returns,        \* ids of returns
    Handlers,       \* requests in flight at the same time
    None,
    InvoiceTotal,   \* totalAmount of the invoice
    Sums2Pay,       \* amounts of payments and returns
    Percents,       \* percentages in force; 0: no seller, no rule or a rule of 0
    Scale,          \* pieces of a cent in which a cent's base is whole
    Ops,            \* operations that arrive in this instance
    MaxRequests     \* requests served in a behaviour: a bound of the model

\* 100,00%
Whole == 10000

\* Some Scale serves any finite set of percentages: their product does.
ASSUME SettlementAssumption ==
    /\ IsFiniteSet(Payments) /\ IsFiniteSet(Returns) /\ None \notin Payments \cup Returns
    /\ InvoiceTotal \in Nat /\ Sums2Pay \subseteq Nat \ {0}
    /\ Percents \subseteq 0 .. Whole /\ Scale \in Nat \ {0}
    /\ \A percent \in Percents \ {0} : (Whole * Scale) % percent = 0

VARIABLES
    invoice,        \* the columns of the invoice row that change
    payment,        \* amount of each payment row, 0 when there is none
    credit,         \* amount of each return row, 0 when there is none
    commission,     \* commission rows by payment
    req,            \* the request each handler is serving
    served,         \* requests accepted so far
    payouts         \* history: how often markPaid said yes to each commission

vars == <<invoice, payment, credit, commission, req, served, payouts>>
-----------------------------------------------------------------------------
InvoiceStatuses == {"emitida", "enviada", "parcialmente_pagada", "vencida",
                    "pagada", "anulada"}

InvoiceTransitions ==
    [emitida |-> {"enviada", "anulada"},
     enviada |-> {"parcialmente_pagada", "pagada", "vencida", "anulada"},
     parcialmente_pagada |-> {"pagada", "vencida"},
     vencida |-> {"pagada", "parcialmente_pagada"},
     pagada |-> {}, anulada |-> {}]

InvoiceRow == [totalPaid : Nat, creditNoteTotal : Nat, status : InvoiceStatuses]

\* `order` is the place of the row by createdAt.
CommissionRow ==
    [status : {"absent", "causada", "reversada"}, base : Nat, percent : 0 .. Whole,
     amount : Nat, reversedAmount : Nat, paidAt : BOOLEAN, order : Nat]

NoCommission ==
    [status |-> "absent", base |-> 0, percent |-> 0, amount |-> 0,
     reversedAmount |-> 0, paidAt |-> FALSE, order |-> 0]

Request ==
    [op : {"none", "pay", "return", "status", "liquidate"}, pc : {"idle", "read", "held"},
     row : Payments \cup Returns \cup {None}, amount : Nat,
     to : InvoiceStatuses \cup {"none"}, seen : InvoiceRow, net : Int]

FirstRow == [totalPaid |-> 0, creditNoteTotal |-> 0, status |-> "emitida"]

Idle == [op |-> "none", pc |-> "idle", row |-> None, amount |-> 0, to |-> "none",
         seen |-> FirstRow, net |-> 0]

\* What is left to collect.
Balance(row) == InvoiceTotal - row.totalPaid - row.creditNoteTotal

\* Mutant: any money closes the invoice.
StatusOf_AnyMoney(row) ==
    IF row.status = "anulada" THEN "anulada"
    ELSE IF row.totalPaid + row.creditNoteTotal > 0 THEN "pagada"
    ELSE row.status

\* computeInvoiceStatus
StatusOf(row) ==
    IF row.status = "anulada" THEN "anulada"
    ELSE IF Balance(row) <= 0 THEN "pagada"
    ELSE IF row.totalPaid + row.creditNoteTotal > 0 THEN "parcialmente_pagada"
    ELSE row.status

-----------------------------------------------------------------------------
(***************************************************************************)
(* Commission arithmetic                                                   *)
(***************************************************************************)
Smaller(a, b) == IF a <= b THEN a ELSE b

\* toDecimalPlaces(2) of n / d cents: half a cent rounds up.
Rounded(n, d) == (2 * n + d) \div (2 * d)

Accrual(base, percent) == Rounded(base * percent, Whole)

Net(p) == commission[p].amount - commission[p].reversedAmount

Caused == {p \in Payments : commission[p].status = "causada"}

Accrued == Total([p \in Caused |-> Net(p)])

\* Mutant: the base already credited is counted again.
BaseLeft_Forgets(p) == Scale * commission[p].base

\* What a cent of commission is caused by, in pieces of a cent.
BaseOfOne(percent) == (Whole * Scale) \div percent

\* The part of a payment whose commission is not reversed yet.
BaseLeft(p) ==
    Scale * commission[p].base
      - commission[p].reversedAmount * BaseOfOne(commission[p].percent)

PaidBase == Total([p \in Caused |-> BaseLeft(p)])

\* What a credit note reverses of all the commissions of the invoice.
ToReverse(amount) ==
    IF Accrued = 0 \/ PaidBase <= 0 THEN 0
    ELSE Smaller(Rounded((Scale * amount) * Accrued, PaidBase), Accrued)

\* Mutant: what the older rows gave is subtracted and never stops at zero.
Piece_Unclamped(p, amount) ==
    LET older == {q \in Caused : commission[q].order < commission[p].order}
    IN  Smaller(Net(p), ToReverse(amount) - Total([q \in older |-> Net(q)]))

\* ... and of one of them: the oldest rows go first.
Piece(p, amount) ==
    LET older == {q \in Caused : commission[q].order < commission[p].order}
        left == ToReverse(amount) - Total([q \in older |-> Net(q)])
    IN  IF left <= 0 THEN 0 ELSE Smaller(Net(p), left)

Reversed(row, piece) ==
    LET reversed == row.reversedAmount + piece IN
    IF piece = 0 THEN row
    ELSE [row EXCEPT !.reversedAmount = reversed,
                     !.status = IF reversed = row.amount THEN "reversada" ELSE "causada"]
-----------------------------------------------------------------------------
Begin(h, r) ==
    /\ req[h].pc = "idle"
    /\ r.op \in Ops
    /\ served < MaxRequests
    /\ req' = [req EXCEPT ![h] = r]
    /\ served' = served + 1
    /\ UNCHANGED <<invoice, payment, credit, commission, payouts>>

Finish(h) ==
    /\ req' = [req EXCEPT ![h] = Idle]
    /\ UNCHANGED served

InFlight(op, row) == \E g \in Handlers : req[g].op = op /\ req[g].row = row

\* The transaction of a return holds the invoice row after its first update.
InvoiceFree == \A g \in Handlers : ~(req[g].op = "return" /\ req[g].pc = "held")

\* Mutant: markPaid reads its commission without FOR UPDATE.
CommissionFree_NoLock(p) == TRUE

\* markPaid holds the row of its commission.
CommissionFree(p) ==
    \A g \in Handlers : ~(req[g].op = "liquidate" /\ req[g].pc = "held" /\ req[g].row = p)

Rollback(h) ==
    /\ req[h].pc # "idle"
    /\ Finish(h)
    /\ UNCHANGED <<invoice, payment, credit, commission, payouts>>
-----------------------------------------------------------------------------
(***************************************************************************)
(* Payments                                                                *)
(***************************************************************************)

\* createPayment reads the invoice; it refuses no status and no amount.
BeginPayment(h, p, amount) ==
    /\ payment[p] = 0 /\ ~InFlight("pay", p)
    /\ Begin(h, [Idle EXCEPT !.op = "pay", !.pc = "read", !.row = p,
                             !.amount = amount, !.seen = invoice])

\* accrueFromPayment: no seller, no rule or a rule of 0 causes nothing.
Accrue(p, amount, percent) ==
    IF percent = 0 THEN commission
    ELSE [commission EXCEPT ![p] =
            [status |-> "causada", base |-> amount, percent |-> percent,
             amount |-> Accrual(amount, percent), reversedAmount |-> 0, paidAt |-> FALSE,
             order |-> Cardinality({q \in Payments : commission[q].status # "absent"})]]

\* Mutant: the payment row is lost and the invoice keeps its money.
CommitPayment_NoRow(h, percent) ==
    LET r == req[h] IN
    /\ r.op = "pay" /\ r.pc = "read"
    /\ InvoiceFree
    /\ invoice' = [invoice EXCEPT
                     !.totalPaid = r.seen.totalPaid + r.amount,
                     !.status = StatusOf([r.seen EXCEPT !.totalPaid = @ + r.amount])]
    /\ commission' = Accrue(r.row, r.amount, percent)
    /\ Finish(h)
    /\ UNCHANGED <<payment, credit, payouts>>

\* The update sets totalPaid and status; the other columns stay.
CommitPayment(h, percent) ==
    LET r == req[h]
        paid == r.seen.totalPaid + r.amount
    IN
    /\ r.op = "pay" /\ r.pc = "read"
    /\ InvoiceFree
    /\ payment' = [payment EXCEPT ![r.row] = r.amount]
    /\ invoice' = [invoice EXCEPT
                     !.totalPaid = paid,
                     !.status = StatusOf([r.seen EXCEPT !.totalPaid = paid])]
    /\ commission' = Accrue(r.row, r.amount, percent)
    /\ Finish(h)
    /\ UNCHANGED <<credit, payouts>>
-----------------------------------------------------------------------------
(***************************************************************************)
(* Returns                                                                 *)
(***************************************************************************)

\* returns.create: a credit note is at most the balance it reads.
BeginReturn(h, c, amount) ==
    /\ credit[c] = 0 /\ ~InFlight("return", c)
    /\ amount <= Balance(invoice)
    /\ Begin(h, [Idle EXCEPT !.op = "return", !.pc = "read", !.row = c,
                             !.amount = amount, !.seen = invoice])

\* The update of the invoice: from here to the commit its row is locked.
HoldInvoice(h) ==
    /\ req[h].op = "return" /\ req[h].pc = "read"
    /\ InvoiceFree
    /\ req' = [req EXCEPT ![h].pc = "held"]
    /\ UNCHANGED <<invoice, payment, credit, commission, served, payouts>>

Credited(r) == r.seen.creditNoteTotal + r.amount

\* reverseForInvoice waits for the rows of the commissions, and reads them then.
CommitReturn(h) ==
    LET r == req[h] IN
    /\ r.op = "return" /\ r.pc = "held"
    /\ \A p \in Payments : commission[p].status # "absent" => CommissionFree(p)
    /\ credit' = [credit EXCEPT ![r.row] = r.amount]
    /\ invoice' = [invoice EXCEPT
                     !.creditNoteTotal = Credited(r),
                     !.status = StatusOf([r.seen EXCEPT !.creditNoteTotal = Credited(r)])]
    /\ commission' = [p \in Payments |->
                        IF p \in Caused THEN Reversed(commission[p], Piece(p, r.amount))
                                        ELSE commission[p]]
    /\ Finish(h)
    /\ UNCHANGED <<payment, payouts>>
-----------------------------------------------------------------------------
(***************************************************************************)
(* Status by hand, and liquidation                                         *)
(***************************************************************************)
BeginStatus(h, to) ==
    /\ to \in InvoiceTransitions[invoice.status]
    /\ Begin(h, [Idle EXCEPT !.op = "status", !.pc = "read", !.to = to])

CommitStatus(h) ==
    /\ req[h].op = "status" /\ req[h].pc = "read"
    /\ InvoiceFree
    /\ invoice' = [invoice EXCEPT !.status = req[h].to]
    /\ Finish(h)
    /\ UNCHANGED <<payment, credit, commission, payouts>>

BeginLiquidate(h, p) ==
    /\ commission[p].status # "absent"
    /\ Begin(h, [Idle EXCEPT !.op = "liquidate", !.pc = "read", !.row = p])

\* A return that is past its own lock of the rows commits in one step, so a row
\* is free for markPaid unless another markPaid holds it.
HoldCommission(h) ==
    LET r == req[h] IN
    /\ r.op = "liquidate" /\ r.pc = "read"
    /\ CommissionFree(r.row)
    /\ req' = [req EXCEPT ![h].pc = "held", ![h].net = Net(r.row)]
    /\ UNCHANGED <<invoice, payment, credit, commission, served, payouts>>

\* updateMany ... WHERE paidAt IS NULL, once the net was seen to be positive.
CommitLiquidate(h) ==
    LET r == req[h] IN
    /\ r.op = "liquidate" /\ r.pc = "held"
    /\ r.net > 0 /\ ~commission[r.row].paidAt
    /\ commission' = [commission EXCEPT ![r.row].paidAt = TRUE]
    /\ payouts' = [payouts EXCEPT ![r.row] = @ + 1]
    /\ Finish(h)
    /\ UNCHANGED <<invoice, payment, credit>>

\* Paid already, or nothing left to pay.
RefuseLiquidate(h) ==
    LET r == req[h] IN
    /\ r.op = "liquidate" /\ r.pc = "held"
    /\ r.net <= 0 \/ commission[r.row].paidAt
    /\ Finish(h)
    /\ UNCHANGED <<invoice, payment, credit, commission, payouts>>
-----------------------------------------------------------------------------
Init ==
    /\ invoice = FirstRow
    /\ payment = [p \in Payments |-> 0]
    /\ credit = [c \in Returns |-> 0]
    /\ commission = [p \in Payments |-> NoCommission]
    /\ req = [h \in Handlers |-> Idle]
    /\ served = 0
    /\ payouts = [p \in Payments |-> 0]

Arrive(h) ==
    \/ \E p \in Payments : BeginLiquidate(h, p)
    \/ \E p \in Payments, amount \in Sums2Pay : BeginPayment(h, p, amount)
    \/ \E c \in Returns, amount \in Sums2Pay : BeginReturn(h, c, amount)
    \/ \E to \in InvoiceStatuses : BeginStatus(h, to)

Serve(h) ==
    \/ \E percent \in Percents : CommitPayment(h, percent)
    \/ HoldInvoice(h) \/ CommitReturn(h)
    \/ CommitStatus(h)
    \/ HoldCommission(h) \/ CommitLiquidate(h) \/ RefuseLiquidate(h)

\* Every request was answered and no client sends another.
Quiet ==
    /\ \A h \in Handlers : req[h] = Idle
    /\ UNCHANGED vars

Next ==
    \/ \E h \in Handlers : Arrive(h) \/ Serve(h) \/ Rollback(h)
    \/ Quiet

Spec == Init /\ [][Next]_vars
-----------------------------------------------------------------------------
(***************************************************************************)
(* Properties                                                              *)
(***************************************************************************)

\* The rows and the requests keep their shape.
TypeOK ==
    /\ invoice \in InvoiceRow
    /\ payment \in [Payments -> Nat]
    /\ credit \in [Returns -> Nat]
    /\ commission \in [Payments -> CommissionRow]
    /\ req \in [Handlers -> Request]
    /\ served \in Nat
    /\ payouts \in [Payments -> Nat]

\* Requests that write totals they computed from a stale invoice may lose
\* money, but the columns never show money that no payment and no return
\* brought: createPayment and returns.create insert the row they add.
NoPhantomMoney ==
    /\ invoice.totalPaid <= Total(payment)
    /\ invoice.creditNoteTotal <= Total(credit)

\* A payment or a credit note closes the invoice as pagada only when the rows
\* recorded cover it, whatever was read stale (computeInvoiceStatus).
ClosedMeansCovered ==
    [][(\E h \in Handlers : req[h].op \in {"pay", "return"} /\ req'[h] # req[h])
          /\ invoice.status # "pagada" /\ invoice'.status = "pagada" =>
       Total(payment)' + Total(credit)' >= InvoiceTotal]_vars

\* The ledger of the commissions, as sellers see it (CommissionLedger).
Ledger == INSTANCE CommissionLedger WITH
    Rows <- Payments,
    caused <- {p \in Payments : commission[p].status # "absent"},
    net <- [p \in Payments |-> Net(p)]

\* Payments, returns and liquidations of an invoice, interleaved at their
\* locks, keep what the ledger promises: reverseForInvoice takes no more than
\* was caused and markPaid pays once, and only a net amount.
KeepsLedger == Ledger!Spec

ReversedSoFar == Total([p \in Payments |-> commission[p].reversedAmount])

\* With one percentage, a credit note reverses what the same money would have
\* caused, down to nothing left (reverseForInvoice: "misma matematica de %"):
\* the split over the rows and what earlier credit notes took do not matter,
\* but for half a cent that each row was rounded by when it was caused.
ReversalMatchesAccrual ==
    [][\A h \in Handlers, percent \in Percents \ {0} :
         Percents \ {0} = {percent} /\ req[h].op = "return" /\ req'[h] # req[h]
           /\ credit' # credit =>
         LET due == Smaller(Accrual(req[h].amount, percent), Accrued)
             off == 2 * (ReversedSoFar' - ReversedSoFar - due)
         IN  off \in -(Cardinality(Caused) + 1) .. Cardinality(Caused) + 1]_vars

(***************************************************************************)
(* What the comments say and concurrent requests do not keep               *)
(***************************************************************************)

\* "Outstanding cartera balance: total minus payments and credit notes".
BalanceIsExact ==
    Balance(invoice) = InvoiceTotal - Total(payment) - Total(credit)
=============================================================================
