---------------------------- MODULE OrderToCash ----------------------------
(***************************************************************************)
(* Orders, invoices, billing requests and the credit limit of one          *)
(* customer, as the API of apps/api serves them.  Every endpoint is one    *)
(* request of a handler, cut where Postgres under READ COMMITTED lets      *)
(* another request in: the rows it reads first, the row lock of the        *)
(* customer and the credit check made under it, and the commit that makes  *)
(* its writes visible.  What a handler read before the lock may be stale   *)
(* when it commits: the updates are by id, without a condition.            *)
(*                                                                         *)
(* A credit limit, its lock and its exposure belong to one customer, so    *)
(* one customer is enough.  Amounts are whole units of money.              *)
(***************************************************************************)
EXTENDS Naturals, FiniteSets, Sums

CONSTANTS
    Orders,         \* ids of the orders of the customer
    Items,          \* the lines of an order
    Invoices,       \* ids of the invoices of the customer
    Bills,          \* ids of the billing requests
    Handlers,       \* requests that can be in flight at the same time
    None,           \* no order, no lock holder
    Prices,         \* totals a line can be priced at
    Limit,          \* creditLimit of the customer, 0 when there is none
    Ops,            \* operations that arrive in this instance
    StartStatuses,  \* statuses the orders may have at the start
    MaxRequests     \* requests served in a behaviour: a bound of the model

ASSUME RowsAssumption ==
    /\ IsFiniteSet(Orders) /\ IsFiniteSet(Items) /\ IsFiniteSet(Invoices)
    /\ None \notin Orders \cup Handlers

ASSUME MoneyAssumption == Prices \subseteq Nat /\ Limit \in Nat

VARIABLES
    order,     \* order table: id -> row, lines included
    invoice,   \* invoice table: id -> row
    billing,   \* billing request table: id -> row
    lock,      \* handler holding SELECT ... FOR UPDATE on the customer row
    req,       \* the request each handler is serving
    served,    \* requests accepted so far
    drifted    \* history: an unchecked write has raised the exposure

vars == <<order, invoice, billing, lock, req, served, drifted>>
-----------------------------------------------------------------------------
Statuses == {"recibido", "orden_facturacion", "facturado", "despachado",
             "en_transito", "entregado"}

\* The only transitions of updateStatus: a straight line.
NextStatus ==
    [recibido |-> "orden_facturacion", orden_facturacion |-> "facturado",
     facturado |-> "despachado", despachado |-> "en_transito",
     en_transito |-> "entregado"]

Rank ==
    [absent |-> 0, recibido |-> 0, orden_facturacion |-> 1, facturado |-> 2,
     despachado |-> 3, en_transito |-> 4, entregado |-> 5]

\* Statuses in which an order without invoice counts against the limit.
ExposureStatuses == Statuses \ {"recibido"}

\* Statuses an invoice can be made from; en_transito is not one of them.
InvoiceableStatuses == {"orden_facturacion", "facturado", "despachado", "entregado"}

InvoiceStatuses == {"emitida", "enviada", "parcialmente_pagada", "vencida",
                    "pagada", "anulada"}

\* Invoices that no longer count against the limit.
Closed == {"pagada", "anulada"}

InvoiceTransitions ==
    [emitida |-> {"enviada", "anulada"},
     enviada |-> {"parcialmente_pagada", "pagada", "vencida", "anulada"},
     parcialmente_pagada |-> {"pagada", "vencida"},
     vencida |-> {"pagada", "parcialmente_pagada"},
     pagada |-> {}, anulada |-> {}]

Approvals == {"none", "en_revision", "aprobado", "rechazado"}

OrderRow ==
    [status : Statuses \cup {"absent"}, approval : Approvals,
     lines : [Items -> Nat], pending : SUBSET Items, total : Nat,
     tracking : BOOLEAN]

InvoiceRow ==
    [status : InvoiceStatuses \cup {"absent"}, order : Orders \cup {None},
     amount : Nat]

BillRow ==
    [status : {"absent", "pendiente", "procesada", "rechazada"}, order : Orders \cup {None}]

NoOrder ==
    [status |-> "absent", approval |-> "none", lines |-> [k \in Items |-> 0],
     pending |-> {}, total |-> 0, tracking |-> FALSE]

NoInvoice == [status |-> "absent", order |-> None, amount |-> 0]

NoBill == [status |-> "absent", order |-> None]

OpNames == {"none", "create", "approve", "reject", "advance", "resolve",
            "invoice_order", "invoice_create", "invoice_status", "settle",
            "billing_open", "billing_set"}

\* A request in flight: what it does, on which rows, how far it is, and what
\* it read (`seen`, `amount`).
Request ==
    [op : OpNames, pc : {"idle", "read", "held", "marked"},
     order : Orders \cup {None}, invoice : Invoices \cup {None},
     bill : Bills \cup {None}, line : Items \cup {None},
     to : Statuses \cup InvoiceStatuses \cup {"procesada", "rechazada", "none"},
     seen : OrderRow, amount : Nat]

Idle == [op |-> "none", pc |-> "idle", order |-> None, invoice |-> None,
         bill |-> None, line |-> None, to |-> "none", seen |-> NoOrder, amount |-> 0]
-----------------------------------------------------------------------------
(***************************************************************************)
(* Credit exposure: open invoices, and orders past `recibido` that no      *)
(* active invoice stands for.                                              *)
(***************************************************************************)
ActiveInvoices(o) ==
    {i \in Invoices : invoice[i].order = o /\ invoice[i].status \notin {"absent", "anulada"}}

OpenInvoices == {i \in Invoices : invoice[i].status \notin Closed \cup {"absent"}}

PendingOrders ==
    {o \in Orders : order[o].status \in ExposureStatuses /\ ActiveInvoices(o) = {}}

OpenAmounts == [i \in OpenInvoices |-> invoice[i].amount]

PendingAmounts(except) == [o \in PendingOrders \ except |-> order[o].total]

Exposure(except) == Total(OpenAmounts) + Total(PendingAmounts(except))

WithinLimit(amount, except) == Limit = 0 \/ Exposure(except) + amount <= Limit
-----------------------------------------------------------------------------
(***************************************************************************)
(* The life of a request.                                                  *)
(***************************************************************************)
Begin(h, r) ==
    /\ req[h].pc = "idle"
    /\ r.op \in Ops
    /\ served < MaxRequests
    /\ req' = [req EXCEPT ![h] = r]
    /\ served' = served + 1
    /\ UNCHANGED <<order, invoice, billing, lock, drifted>>

OnOrder(op, o) ==
    [Idle EXCEPT !.op = op, !.pc = "read", !.order = o, !.seen = order[o]]

Finish(h) ==
    /\ req' = [req EXCEPT ![h] = Idle]
    /\ lock' = IF lock = h THEN None ELSE lock
    /\ UNCHANGED served

\* Requests that pass assertCreditLimit inside their transaction.
NeedsCredit(r) ==
    \/ r.op \in {"approve", "resolve", "invoice_order", "invoice_create"}
    \/ r.op = "advance" /\ r.to = "orden_facturacion"

\* The order a credit check leaves out of the exposure: its own.
Own(r) == {r.order} \cap Orders

\* Mutant: the exposure is read without the lock of the customer.
TakeLock_NoLock(h) ==
    /\ req[h].pc = "read"
    /\ NeedsCredit(req[h])
    /\ WithinLimit(req[h].amount, Own(req[h]))
    /\ lock' = h
    /\ req' = [req EXCEPT ![h].pc = "held"]
    /\ UNCHANGED <<order, invoice, billing, served, drifted>>

\* assertCreditLimit: lock the customer row, then read limit and exposure.
TakeLock(h) ==
    /\ req[h].pc = "read"
    /\ NeedsCredit(req[h])
    /\ lock = None
    /\ WithinLimit(req[h].amount, Own(req[h]))
    /\ lock' = h
    /\ req' = [req EXCEPT ![h].pc = "held"]
    /\ UNCHANGED <<order, invoice, billing, served, drifted>>

\* Mutant: the refused transaction is left open, with its lock.
RefuseCredit_LeavesLock(h) ==
    /\ req[h].pc = "read"
    /\ NeedsCredit(req[h])
    /\ lock = None
    /\ ~WithinLimit(req[h].amount, Own(req[h]))
    /\ req' = [req EXCEPT ![h] = Idle]
    /\ lock' = h
    /\ UNCHANGED <<order, invoice, billing, served, drifted>>

RefuseCredit(h) ==
    /\ req[h].pc = "read"
    /\ NeedsCredit(req[h])
    /\ lock = None
    /\ ~WithinLimit(req[h].amount, Own(req[h]))
    /\ Finish(h)
    /\ UNCHANGED <<order, invoice, billing, drifted>>

\* The transaction fails before its commit: a lost connection, the time limit
\* of an interactive transaction, a failed audit insert.  Nothing is written.
Rollback(h) ==
    /\ req[h].pc # "idle"
    /\ Finish(h)
    /\ UNCHANGED <<order, invoice, billing, drifted>>

Ready(h, op) ==
    /\ req[h].op = op
    /\ req[h].pc = IF NeedsCredit(req[h]) THEN "held" ELSE "read"

\* A row that refers to the customer takes a key-share lock on its row, which
\* waits for a FOR UPDATE lock.
CustomerKeyFree(h) == lock \in {None, h}

\* The total of order o was raised after the handler of r had read it.
Repriced(r) == order[r.order].total > r.amount
-----------------------------------------------------------------------------
(***************************************************************************)
(* Orders                                                                  *)
(***************************************************************************)

\* The check of create is outside its transaction: nothing is locked.  The
\* approval is whatever the form says.
BeginCreate(h, o, lines, pending, approval) ==
    LET new == [status |-> "recibido", approval |-> approval, lines |-> lines,
                pending |-> pending, total |-> Total(lines), tracking |-> FALSE]
    IN  /\ order[o] = NoOrder
        /\ \A g \in Handlers : req[g].op = "create" => req[g].order # o
        /\ WithinLimit(new.total, {})
        /\ Begin(h, [OnOrder("create", o) EXCEPT !.seen = new])

CommitCreate(h) ==
    /\ Ready(h, "create")
    /\ CustomerKeyFree(h)
    /\ order' = [order EXCEPT ![req[h].order] = req[h].seen]
    /\ Finish(h)
    /\ UNCHANGED <<invoice, billing, drifted>>

BeginApprove(h, o) ==
    /\ order[o].status # "absent"
    /\ order[o].approval = "en_revision"
    /\ order[o].pending = {}
    /\ Begin(h, [OnOrder("approve", o) EXCEPT !.amount = order[o].total])

\* The order advances only if it was still `recibido` when it was read.
CommitApprove(h) ==
    LET r == req[h] IN
    /\ Ready(h, "approve")
    /\ order' = [order EXCEPT
                   ![r.order].approval = "aprobado",
                   ![r.order].status = IF r.seen.status = "recibido"
                                       THEN "orden_facturacion" ELSE @]
    /\ drifted' = (drifted \/ Repriced(r))
    /\ Finish(h)
    /\ UNCHANGED <<invoice, billing>>

BeginReject(h, o) ==
    /\ order[o].status # "absent"
    /\ order[o].approval = "en_revision"
    /\ Begin(h, OnOrder("reject", o))

CommitReject(h) ==
    /\ Ready(h, "reject")
    /\ order' = [order EXCEPT ![req[h].order].approval = "rechazado"]
    /\ Finish(h)
    /\ UNCHANGED <<invoice, billing, drifted>>

\* updateStatus: the next status of the line; en_transito asks for a guide.
BeginAdvance(h, o) ==
    /\ order[o].status \in DOMAIN NextStatus
    /\ NextStatus[order[o].status] = "en_transito" => order[o].tracking
    /\ Begin(h, [OnOrder("advance", o) EXCEPT !.to = NextStatus[order[o].status],
                                              !.amount = order[o].total])

CommitAdvance(h) ==
    LET r == req[h] IN
    /\ Ready(h, "advance")
    /\ order' = [order EXCEPT ![r.order].status = r.to]
    /\ drifted' = (drifted \/ (NeedsCredit(r) /\ Repriced(r)))
    /\ Finish(h)
    /\ UNCHANGED <<invoice, billing>>

\* updateLogistics overwrites the guide with what the form sends, empty or not.
UpdateLogistics(o, tracking) ==
    /\ "logistics" \in Ops
    /\ served < MaxRequests
    /\ order[o].status # "absent"
    /\ order' = [order EXCEPT ![o].tracking = tracking]
    /\ served' = served + 1
    /\ UNCHANGED <<invoice, billing, lock, req, drifted>>

\* resolveOrderItem prices line k, keeps its row locked, and sums the lines
\* it can see: not the uncommitted prices of the other lines.
BeginResolve(h, o, k, price) ==
    LET lines == [order[o].lines EXCEPT ![k] = price] IN
    /\ order[o].status # "absent"
    /\ \A g \in Handlers : req[g].op = "resolve" => <<req[g].order, req[g].line>> # <<o, k>>
    /\ Begin(h, [OnOrder("resolve", o) EXCEPT !.line = k, !.seen.lines = lines,
                                              !.amount = Total(lines)])

CommitResolve(h) ==
    LET r == req[h] IN
    /\ Ready(h, "resolve")
    /\ order' = [order EXCEPT ![r.order].lines[r.line] = r.seen.lines[r.line],
                              ![r.order].pending = @ \ {r.line},
                              ![r.order].total = r.amount]
    /\ Finish(h)
    /\ UNCHANGED <<invoice, billing, drifted>>
-----------------------------------------------------------------------------
(***************************************************************************)
(* Invoices                                                                *)
(***************************************************************************)
FreshInvoices ==
    {i \in Invoices : invoice[i] = NoInvoice /\ \A g \in Handlers : req[g].invoice # i}

\* The lines decide the amount, unless they add up to nothing.
InvoiceAmount(row) == IF Total(row.lines) = 0 THEN row.total ELSE Total(row.lines)

BeginInvoiceOrder(h, o, i) ==
    /\ order[o].status \in InvoiceableStatuses
    /\ ActiveInvoices(o) = {}
    /\ i \in FreshInvoices
    /\ Begin(h, [OnOrder("invoice_order", o) EXCEPT !.invoice = i,
                                                    !.amount = InvoiceAmount(order[o])])

\* An invoice typed by hand, for any amount, loose or tied to an order in any status.
BeginInvoiceCreate(h, o, i, amount) ==
    /\ o # None => order[o].status # "absent"
    /\ i \in FreshInvoices
    /\ Begin(h, [Idle EXCEPT !.op = "invoice_create", !.pc = "read", !.order = o,
                             !.invoice = i, !.amount = amount])

\* Mutant: no unique index behind the check of the service.
IndexAllows_NoIndex(i, o) == TRUE

\* The partial unique index of the invoice table: one active invoice per order.
IndexAllows(i, o) == o # None => ActiveInvoices(o) \subseteq {i}

Insert(r) == [invoice EXCEPT ![r.invoice] =
                [status |-> "emitida", order |-> r.order, amount |-> r.amount]]

\* Mutant: invoicing an order writes `facturado` whatever its status was.
CommitInvoiceOrder_Always(h) ==
    LET r == req[h] IN
    /\ Ready(h, "invoice_order")
    /\ IndexAllows(r.invoice, r.order)
    /\ invoice' = Insert(r)
    /\ order' = [order EXCEPT ![r.order].status = "facturado"]
    /\ Finish(h)
    /\ UNCHANGED <<billing, drifted>>

CommitInvoiceOrder(h) ==
    LET r == req[h] IN
    /\ Ready(h, "invoice_order")
    /\ IndexAllows(r.invoice, r.order)
    /\ invoice' = Insert(r)
    /\ order' = IF Rank[r.seen.status] < Rank["facturado"]
                THEN [order EXCEPT ![r.order].status = "facturado"]
                ELSE order
    /\ Finish(h)
    /\ UNCHANGED <<billing, drifted>>

CommitInvoiceCreate(h) ==
    LET r == req[h] IN
    /\ Ready(h, "invoice_create")
    /\ IndexAllows(r.invoice, r.order)
    /\ invoice' = Insert(r)
    /\ Finish(h)
    /\ UNCHANGED <<order, billing, drifted>>

\* invoices.updateStatus, called by a control role.
BeginInvoiceStatus(h, i, to) ==
    /\ invoice[i].status # "absent"
    /\ to \in InvoiceTransitions[invoice[i].status]
    /\ Begin(h, [Idle EXCEPT !.op = "invoice_status", !.pc = "read", !.invoice = i, !.to = to])

\* A payment or a credit note: the status is computed from the invoice as read,
\* where an annulled invoice stays annulled.
BeginSettle(h, i, to) ==
    /\ invoice[i].status # "absent"
    /\ to \in IF invoice[i].status = "anulada" THEN {"anulada"}
                                               ELSE {"parcialmente_pagada", "pagada"}
    /\ Begin(h, [Idle EXCEPT !.op = "settle", !.pc = "read", !.invoice = i, !.to = to])

\* What the status write of an invoice adds to the exposure without a check: it
\* reopens a closed invoice, or gives its order back for more than it held.
RaisesExposure(i, to) ==
    LET o == invoice[i].order
        held == IF invoice[i].status \in Closed THEN 0 ELSE invoice[i].amount
    IN  \/ invoice[i].status \in Closed /\ to \notin Closed
        \/ /\ to = "anulada" /\ invoice[i].status # "anulada"
           /\ o # None
           /\ order[o].status \in ExposureStatuses
           /\ order[o].total > held

CommitInvoiceWrite(h, op) ==
    LET r == req[h] IN
    /\ Ready(h, op)
    /\ r.to = "anulada" \/ IndexAllows(r.invoice, invoice[r.invoice].order)
    /\ invoice' = [invoice EXCEPT ![r.invoice].status = r.to]
    /\ drifted' = (drifted \/ RaisesExposure(r.invoice, r.to))
    /\ Finish(h)
    /\ UNCHANGED <<order, billing>>

CommitInvoiceStatus(h) == CommitInvoiceWrite(h, "invoice_status")

CommitSettle(h) == CommitInvoiceWrite(h, "settle")

\* P2002 on Invoice_orderId_active_key: the transaction is rolled back.
RefuseDuplicate(h) ==
    LET r == req[h]
        o == IF r.op \in {"invoice_order", "invoice_create"} THEN r.order
             ELSE invoice[r.invoice].order
    IN  /\ \E op \in {"invoice_order", "invoice_create", "invoice_status", "settle"} :
              Ready(h, op)
        /\ r.to # "anulada"
        /\ ~IndexAllows(r.invoice, o)
        /\ Finish(h)
        /\ UNCHANGED <<order, invoice, billing, drifted>>
-----------------------------------------------------------------------------
(***************************************************************************)
(* Billing requests                                                        *)
(***************************************************************************)

\* From an order (createBillingRequest) or directly, without a status check.
BeginBilling(h, o, b, direct) ==
    /\ order[o].status # "absent"
    /\ direct \/ order[o].status = "orden_facturacion"
    /\ billing[b] = NoBill
    /\ \A g \in Handlers : req[g].bill # b
    /\ Begin(h, [OnOrder("billing_open", o) EXCEPT !.bill = b])

CommitBilling(h) ==
    LET r == req[h] IN
    /\ Ready(h, "billing_open")
    /\ CustomerKeyFree(h)
    /\ billing' = [billing EXCEPT ![r.bill] = [status |-> "pendiente", order |-> r.order]]
    /\ Finish(h)
    /\ UNCHANGED <<order, invoice, drifted>>

BeginBillingSet(h, b, to) ==
    /\ billing[b].status = "pendiente"
    /\ to \in {"procesada", "rechazada"}
    /\ Begin(h, [Idle EXCEPT !.op = "billing_set", !.pc = "read", !.bill = b, !.to = to])

\* The update of the billing request holds its row until the commit; the order
\* is read after it.
MarkBilling(h) ==
    LET r == req[h]
        o == billing[r.bill].order
    IN  /\ Ready(h, "billing_set")
        /\ \A g \in Handlers : req[g].pc = "marked" => req[g].bill # r.bill
        /\ req' = [req EXCEPT ![h].pc = "marked", ![h].order = o, ![h].seen = order[o]]
        /\ UNCHANGED <<order, invoice, billing, lock, served, drifted>>

CommitBillingSet(h) ==
    LET r == req[h] IN
    /\ r.pc = "marked"
    /\ billing' = [billing EXCEPT ![r.bill].status = r.to]
    /\ order' = IF r.to = "procesada" /\ r.seen.status = "orden_facturacion"
                THEN [order EXCEPT ![r.order].status = "facturado"]
                ELSE order
    /\ Finish(h)
    /\ UNCHANGED <<invoice, drifted>>
-----------------------------------------------------------------------------
\* An order as a finished, undisturbed history leaves it.
StartRow(status, approval, lines, pending) ==
    [status |-> status, approval |-> approval, lines |-> lines, pending |-> pending,
     total |-> Total(lines), tracking |-> Rank[status] >= Rank["en_transito"]]

StartRows ==
    {NoOrder : s \in StartStatuses \cap {"absent"}} \cup
    {r \in {StartRow(s, a, l, p) : s \in StartStatuses \cap Statuses, a \in Approvals,
                                   l \in [Items -> Prices], p \in SUBSET Items} :
        /\ r.status = "recibido" => r.approval \in {"none", "en_revision"}
        /\ r.status # "recibido" => r.approval \in {"none", "aprobado"} /\ r.pending = {}}

Init ==
    /\ order \in [Orders -> StartRows]
    /\ invoice = [i \in Invoices |-> NoInvoice]
    /\ billing = [b \in Bills |-> NoBill]
    /\ lock = None
    /\ req = [h \in Handlers |-> Idle]
    /\ served = 0
    /\ drifted = FALSE
    /\ WithinLimit(0, {})

Arrive(h) ==
    \/ \E o \in Orders :
          \/ \E lines \in [Items -> Prices], pending \in SUBSET Items,
                approval \in Approvals :
                BeginCreate(h, o, lines, pending, approval)
          \/ BeginApprove(h, o)
          \/ BeginReject(h, o)
          \/ BeginAdvance(h, o)
          \/ \E k \in Items, price \in Prices : BeginResolve(h, o, k, price)
          \/ \E i \in Invoices : BeginInvoiceOrder(h, o, i)
          \/ \E b \in Bills, direct \in BOOLEAN : BeginBilling(h, o, b, direct)
    \/ \E i \in Invoices :
          \/ \E o \in Orders \cup {None}, amount \in Prices : BeginInvoiceCreate(h, o, i, amount)
          \/ \E to \in InvoiceStatuses : BeginInvoiceStatus(h, i, to) \/ BeginSettle(h, i, to)
    \/ \E b \in Bills, to \in {"procesada", "rechazada"} : BeginBillingSet(h, b, to)

\* The steps a handler takes by itself once it has a request.
Serve(h) ==
    \/ TakeLock(h) \/ RefuseCredit(h)
    \/ CommitCreate(h) \/ CommitApprove(h) \/ CommitReject(h)
    \/ CommitAdvance(h) \/ CommitResolve(h)
    \/ CommitInvoiceOrder(h) \/ CommitInvoiceCreate(h)
    \/ CommitInvoiceStatus(h) \/ CommitSettle(h) \/ RefuseDuplicate(h)
    \/ CommitBilling(h) \/ MarkBilling(h) \/ CommitBillingSet(h)

\* Every request was answered and no client sends another.
Quiet ==
    /\ \A h \in Handlers : req[h] = Idle
    /\ UNCHANGED vars

Next ==
    \/ \E h \in Handlers : Arrive(h) \/ Serve(h) \/ Rollback(h)
    \/ \E o \in Orders, tracking \in BOOLEAN : UpdateLogistics(o, tracking)
    \/ Quiet

Spec == Init /\ [][Next]_vars

\* Node runs every handler to its end, and Postgres grants row locks in the
\* order of their queue: a handler waiting for one is not passed over for ever.
Diligent(h) == SF_vars(Serve(h))

Fairness == \A h \in Handlers : Diligent(h)

FairSpec == Spec /\ Fairness
-----------------------------------------------------------------------------
(***************************************************************************)
(* Properties                                                              *)
(***************************************************************************)

\* The rows and the requests keep their shape.
TypeOK ==
    /\ order \in [Orders -> OrderRow]
    /\ invoice \in [Invoices -> InvoiceRow]
    /\ billing \in [Bills -> BillRow]
    /\ lock \in Handlers \cup {None}
    /\ req \in [Handlers -> Request]
    /\ served \in Nat
    /\ drifted \in BOOLEAN

\* The credit promise (credit.service, lockCustomerForUpdate): however approvals,
\* manual advances, re-pricings and invoices of a customer interleave, their
\* exposure stays within the limit, until one of the writes nobody checks
\* raised it: an invoice reopened by a stale status, an annulled invoice that
\* gives back a dearer order, an order committed at a price it was not read at.
CreditWithinLimit == Limit > 0 /\ ~drifted => Exposure({}) <= Limit

\* An order never has two active invoices, though invoices are issued from the
\* order or by hand and a stale write may revive an annulled one.
OneActiveInvoice ==
    \A i, j \in Invoices :
        /\ invoice[i].order = invoice[j].order /\ invoice[i].order # None
        /\ {invoice[i].status, invoice[j].status} \cap {"absent", "anulada"} = {}
        => i = j

\* The status of an order does not go back (the pedido-a-factura design): however
\* creations, approvals, advances, invoices and billings interleave, a request
\* leaves the order at least where the request had read it.  Only one that answers
\* for a status the order has left can take it back, as a late invoice does.
OnlyStaleWritesGoBack ==
    [][\A h \in Handlers : LET r == req[h] IN
          r.order # None /\ req'[h] = Idle =>
            \/ order'[r.order].status = order[r.order].status
            \/ Rank[order'[r.order].status] >= Rank[r.seen.status]]_vars

\* A row lock that another request has: the customer row under a credit check or a
\* foreign key, the billing request under its update.
Blocked(h) ==
    /\ req[h].pc = "read"
    /\ \/ NeedsCredit(req[h]) /\ lock # None
       \/ req[h].op \in {"create", "billing_open"} /\ ~CustomerKeyFree(h)
       \/ /\ req[h].op = "billing_set"
          /\ \E g \in Handlers : req[g].pc = "marked" /\ req[g].bill = req[h].bill

CanGoOn(h) == ENABLED <<Serve(h)>>_vars

\* A request that waits for no row lock has a step of its own, to a commit or to a
\* refusal.  The guards of the actions give it: what EveryRequestAnswered is proved from.
WaitsOnlyForRows == \A h \in Handlers : req[h].pc # "idle" /\ ~Blocked(h) => CanGoOn(h)

\* Every request is answered: nobody waits for ever for a row lock.
EveryRequestAnswered ==
    \A h \in Handlers : req[h].pc # "idle" ~> req[h].pc = "idle"
=============================================================================
