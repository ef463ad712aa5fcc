------------------------- MODULE OrderToCash_proofs -------------------------
(***************************************************************************)
(* What holds of OrderToCash for every number of orders, invoices and      *)
(* requests, every price and every limit: the rows keep their shape, an    *)
(* order has one active invoice, credit that was committed stays           *)
(* committed, and the exposure stays within the limit.                     *)
(***************************************************************************)
EXTENDS OrderToCash, Integers, FiniteSetTheorems, TLAPS

-----------------------------------------------------------------------------
(***************************************************************************)
(* Sums of money                                                           *)
(***************************************************************************)

\* The rows f are finitely many and each holds a natural amount.
Amounts(f) == IsFiniteSet(DOMAIN f) /\ \A x \in DOMAIN f : f[x] \in Nat

\* One row holds as many coins as its amount says.
LEMMA RowCoins ==
    ASSUME NEW x, NEW n \in Nat
    PROVE  IsFiniteSet({x} \X (1 .. n)) /\ Cardinality({x} \X (1 .. n)) = n
<1>1. IsFiniteSet(1 .. n) /\ Cardinality(1 .. n) = n
  BY FS_Interval
<1>2. IsFiniteSet({x}) /\ Cardinality({x}) = 1
  BY FS_Singleton
<1>3. /\ IsFiniteSet({x} \X (1 .. n))
      /\ Cardinality({x} \X (1 .. n)) = Cardinality({x}) * Cardinality(1 .. n)
  BY <1>1, <1>2, FS_Product
<1> QED  BY <1>1, <1>2, <1>3

\* A sum of finitely many natural amounts is a natural.
LEMMA TotalType ==
    ASSUME NEW f, Amounts(f)
    PROVE  IsFiniteSet(Coins(f)) /\ Total(f) \in Nat
<1> DEFINE rows == {{x} \X (1 .. f[x]) : x \in DOMAIN f}
           row  == [x \in DOMAIN f |-> {x} \X (1 .. f[x])]
<1>1. IsFiniteSet(rows)
  <2>1. row \in Surjection(DOMAIN f, rows)
    BY DEF Surjection
  <2> QED  BY <2>1, FS_Surjection DEF Amounts
<1>2. \A s \in rows : IsFiniteSet(s)
  BY RowCoins DEF Amounts
<1>3. IsFiniteSet(UNION rows)
  BY <1>1, <1>2, FS_UNION
<1> QED  BY <1>3, FS_CardinalityType DEF Coins, Total

\* Fewer rows and smaller amounts do not add up to more.
LEMMA TotalMonotone ==
    ASSUME NEW f, NEW g, Amounts(f), Amounts(g),
           DOMAIN g \subseteq DOMAIN f,
           \A x \in DOMAIN g : g[x] <= f[x]
    PROVE  Total(g) <= Total(f)
<1>1. Coins(g) \subseteq Coins(f)
  BY DEF Coins, Amounts
<1> QED  BY <1>1, TotalType, FS_Subset DEF Total

\* One row more, or one row dearer, adds at most its amount.
LEMMA TotalPlusRow ==
    ASSUME NEW f, NEW g, NEW x, NEW n \in Nat, Amounts(f), Amounts(g),
           DOMAIN g \subseteq DOMAIN f \cup {x},
           \A y \in DOMAIN g \ {x} : g[y] <= f[y],
           x \in DOMAIN g => g[x] <= n
    PROVE  Total(g) <= Total(f) + n
<1> DEFINE row == {x} \X (1 .. n)
<1>1. Coins(g) \subseteq Coins(f) \cup row
  BY DEF Coins, Amounts
<1>2. /\ IsFiniteSet(Coins(f)) /\ Total(f) \in Nat
      /\ IsFiniteSet(Coins(g)) /\ Total(g) \in Nat
  BY TotalType
<1>3. IsFiniteSet(row) /\ Cardinality(row) = n
  BY RowCoins
<1>4. IsFiniteSet(Coins(f) \cap row) /\ Cardinality(Coins(f) \cap row) \in Nat
  BY <1>2, FS_Intersection, FS_CardinalityType
<1>5. /\ IsFiniteSet(Coins(f) \cup row)
      /\ Cardinality(Coins(f) \cup row) = Total(f) + n - Cardinality(Coins(f) \cap row)
  BY <1>2, <1>3, FS_Union DEF Total
<1>6. Cardinality(Coins(g)) <= Cardinality(Coins(f) \cup row)
  BY <1>1, <1>5, FS_Subset
<1> QED  BY <1>2, <1>4, <1>5, <1>6 DEF Total

\* Without row x, a sum is less by at least the amount of x.
LEMMA TotalMinusRow ==
    ASSUME NEW f, NEW g, NEW x \in DOMAIN f, Amounts(f), Amounts(g),
           DOMAIN g \subseteq DOMAIN f \ {x},
           \A y \in DOMAIN g : g[y] <= f[y]
    PROVE  Total(g) + f[x] <= Total(f)
<1> DEFINE row == {x} \X (1 .. f[x])
<1>1. Coins(g) \cup row \subseteq Coins(f) /\ Coins(g) \cap row = {}
  BY DEF Coins, Amounts
<1>2. /\ IsFiniteSet(Coins(f)) /\ Total(f) \in Nat
      /\ IsFiniteSet(Coins(g)) /\ Total(g) \in Nat
  BY TotalType
<1>3. f[x] \in Nat /\ IsFiniteSet(row) /\ Cardinality(row) = f[x]
  BY RowCoins DEF Amounts
<1>4. Cardinality(Coins(g) \cup row) = Total(g) + f[x]
  <2> HIDE DEF row
  <2>1. Cardinality(Coins(g) \cup row)
          = Cardinality(Coins(g)) + Cardinality(row) - Cardinality(Coins(g) \cap row)
    BY <1>2, <1>3, FS_Union
  <2>2. Cardinality(Coins(g) \cap row) = 0
    BY <1>1, FS_EmptySet
  <2> QED  BY <2>1, <2>2, <1>2, <1>3 DEF Total
<1>5. Cardinality(Coins(g) \cup row) <= Total(f)
  BY <1>1, <1>2, FS_Subset DEF Total
<1> QED  BY <1>4, <1>5


-----------------------------------------------------------------------------
(***************************************************************************)
(* The inductive invariant.                                                *)
(***************************************************************************)

\* Requests that work on an order from the start.
OrderOps == {"create", "approve", "reject", "advance", "resolve",
             "invoice_order", "billing_open"}

InvoiceMakers == {"invoice_order", "invoice_create"}

\* A request in flight names rows of its kind, and the rows it is to insert
\* are still free.
RequestInv(r) ==
    /\ r.op \in OrderOps => r.order \in Orders
    /\ r.op \in OrderOps \ {"create"} => order[r.order].status # "absent"
    /\ r.op = "create" => r.seen.status = "recibido" /\ order[r.order].status = "absent"
    /\ r.op = "advance" => r.to \in ExposureStatuses
    /\ r.op = "advance" => r.seen.status \in DOMAIN NextStatus /\ r.to = NextStatus[r.seen.status]
    /\ r.op = "resolve" => r.line \in Items
    /\ r.op \in InvoiceMakers => r.invoice \in Invoices /\ invoice[r.invoice] = NoInvoice
    /\ r.op \in {"invoice_status", "settle"} =>
         r.invoice \in Invoices /\ invoice[r.invoice].status # "absent" /\ r.to \in InvoiceStatuses
    /\ r.op = "billing_open" => r.bill \in Bills
    /\ r.op = "billing_set" =>
         /\ r.bill \in Bills /\ billing[r.bill].order \in Orders
         /\ r.to \in {"procesada", "rechazada"}
    /\ r.pc = "marked" => r.op = "billing_set" /\ r.order \in Orders
    /\ r.pc = "held" => NeedsCredit(r)

\* A request that moves an order on without asking for credit saw it after it
\* had committed credit, and it still has.
CommittedInv(r) ==
    \/ r.op = "invoice_order"
    \/ r.op = "advance" /\ r.to # "orden_facturacion"
    \/ r.pc = "marked" /\ r.seen.status = "orden_facturacion"
    => order[r.order].status \in ExposureStatuses

\* Two requests never insert the same row.
FreshInv ==
    \A g, h \in Handlers :
        /\ req[g].op = "create" /\ req[h].op = "create" /\ req[g].order = req[h].order => g = h
        /\ req[g].op \in InvoiceMakers /\ req[h].op \in InvoiceMakers
             /\ req[g].invoice = req[h].invoice => g = h

BillInv == \A b \in Bills : billing[b].status # "absent" => billing[b].order \in Orders

\* The holder of the customer row is the one request past its credit check.
LockInv == \A h \in Handlers : req[h].pc = "held" <=> lock = h

\* What was checked under the lock still holds when the holder commits.
CoveredInv ==
    \A h \in Handlers :
        req[h].pc = "held" /\ Limit > 0 /\ ~drifted =>
            Exposure(Own(req[h])) + req[h].amount <= Limit

IInv ==
    /\ TypeOK
    /\ \A h \in Handlers : RequestInv(req[h]) /\ CommittedInv(req[h])
    /\ FreshInv
    /\ BillInv
    /\ LockInv
    /\ CoveredInv
    /\ OneActiveInvoice
    /\ CreditWithinLimit
-----------------------------------------------------------------------------
(***************************************************************************)
(* Exposure.                                                               *)
(***************************************************************************)

\* The amounts of a well-formed table can be added up.
Summable ==
    /\ Amounts(OpenAmounts) /\ Total(OpenAmounts) \in Nat
    /\ \A X : /\ Amounts(PendingAmounts(X)) /\ Total(PendingAmounts(X)) \in Nat
               /\ Exposure(X) = Total(OpenAmounts) + Total(PendingAmounts(X))

LEMMA ExposureType == TypeOK => Summable
<1> SUFFICES ASSUME TypeOK PROVE Summable
  OBVIOUS
<1>1. Amounts(OpenAmounts)
  <2>1. IsFiniteSet(OpenInvoices)
    BY RowsAssumption, FS_Subset DEF OpenInvoices
  <2>2. \A i \in OpenInvoices : invoice[i].amount \in Nat
    BY DEF TypeOK, InvoiceRow, OpenInvoices
  <2> QED  BY <2>1, <2>2 DEF Amounts, OpenAmounts
<1>2. ASSUME NEW X PROVE Amounts(PendingAmounts(X))
  <2>1. IsFiniteSet(PendingOrders \ X)
    BY RowsAssumption, FS_Subset DEF PendingOrders
  <2>2. \A o \in PendingOrders : order[o].total \in Nat
    BY DEF TypeOK, OrderRow, PendingOrders
  <2> QED  BY <2>1, <2>2 DEF Amounts, PendingAmounts
<1> QED  BY <1>1, <1>2, TotalType DEF Exposure, Summable

LEMMA ExposureTypeNext == TypeOK' => Summable'
BY ExposureType, PTL

\* A write of orders that adds no exposed order and no price lowers the
\* exposure or leaves it.
LEMMA OrderWrite ==
    ASSUME TypeOK, TypeOK', NEW X, invoice' = invoice,
           \A o \in Orders : order'[o].status \in ExposureStatuses =>
               order[o].status \in ExposureStatuses /\ order'[o].total <= order[o].total
    PROVE  Exposure(X)' <= Exposure(X)
<1>1. OpenAmounts' = OpenAmounts
  BY DEF OpenAmounts, OpenInvoices
<1>2. PendingOrders' \subseteq PendingOrders
  BY DEF PendingOrders, ActiveInvoices
<1>3. \A o \in PendingOrders' : order'[o].total <= order[o].total
  BY DEF PendingOrders
<1>4. Total(PendingAmounts(X))' <= Total(PendingAmounts(X))
  <2>1. Amounts(PendingAmounts(X)) /\ Amounts(PendingAmounts(X)')
    BY ExposureType, ExposureTypeNext DEF Summable
  <2>2. /\ DOMAIN (PendingAmounts(X)') \subseteq DOMAIN PendingAmounts(X)
        /\ \A o \in DOMAIN (PendingAmounts(X)') : PendingAmounts(X)'[o] <= PendingAmounts(X)[o]
    BY <1>2, <1>3 DEF PendingAmounts
  <2> QED  BY <2>1, <2>2, TotalMonotone
<1> QED  BY <1>1, <1>4, ExposureType, ExposureTypeNext DEF Summable
\* A write of one order after a credit check of n without that order.
LEMMA CheckedOrderWrite ==
    ASSUME TypeOK, TypeOK', NEW o \in Orders, NEW n \in Nat, invoice' = invoice,
           \A p \in Orders \ {o} : order'[p] = order[p],
           order'[o].total <= n
    PROVE  Exposure({})' <= Exposure({o}) + n
<1> DEFINE f == PendingAmounts({o})
           g == PendingAmounts({})'
<1>1. OpenAmounts' = OpenAmounts
  BY DEF OpenAmounts, OpenInvoices
<1>2. PendingOrders' \subseteq PendingOrders \cup {o}
  BY DEF PendingOrders, ActiveInvoices
<1>3. Total(g) <= Total(f) + n
  <2>1. Amounts(f) /\ Amounts(g)
    BY ExposureType, ExposureTypeNext DEF Summable
  <2>2. DOMAIN g \subseteq DOMAIN f \cup {o}
    BY <1>2 DEF PendingAmounts
  <2>3. \A p \in DOMAIN g \ {o} : g[p] <= f[p]
    <3> SUFFICES ASSUME NEW p \in DOMAIN g \ {o} PROVE g[p] <= f[p]
      OBVIOUS
    <3>1. p \in Orders /\ p \in DOMAIN f
      BY <2>2 DEF PendingAmounts, PendingOrders
    <3>2. g[p] = f[p]
      BY <3>1 DEF PendingAmounts
    <3> QED  BY <3>1, <3>2, <2>1 DEF Amounts
  <2>4. o \in DOMAIN g => g[o] <= n
    BY DEF PendingAmounts
  <2> HIDE DEF f, g
  <2> QED  BY <2>1, <2>2, <2>3, <2>4, TotalPlusRow
<1> QED  BY <1>1, <1>3, ExposureType, ExposureTypeNext DEF Summable

\* A new invoice of amount n after a credit check of n without its order.
LEMMA CheckedInvoiceWrite ==
    ASSUME TypeOK, TypeOK', NEW X \in SUBSET Orders, NEW i \in Invoices, NEW n \in Nat,
           NEW o \in Orders \cup {None}, X = {o} \cap Orders,
           invoice[i] = NoInvoice,
           invoice' = [invoice EXCEPT ![i] =
                         [status |-> "emitida", order |-> o, amount |-> n]],
           \A p \in Orders \ X : order'[p] = order[p]
    PROVE  Exposure({})' <= Exposure(X) + n
<1> DEFINE f == OpenAmounts
           g == OpenAmounts'
           pf == PendingAmounts(X)
           pg == PendingAmounts({})'
<1> USE DEF NoInvoice
<1>0. invoice \in [Invoices -> InvoiceRow]
  BY DEF TypeOK
<1>1. Total(g) <= Total(f) + n
  <2>1. Amounts(f) /\ Amounts(g)
    BY ExposureType, ExposureTypeNext DEF Summable
  <2>2. DOMAIN g \subseteq DOMAIN f \cup {i}
    BY <1>0 DEF OpenAmounts, OpenInvoices
  <2>3. \A j \in DOMAIN g \ {i} : g[j] <= f[j]
    <3> SUFFICES ASSUME NEW j \in DOMAIN g \ {i} PROVE g[j] <= f[j]
      OBVIOUS
    <3>1. j \in Invoices /\ j \in DOMAIN f
      BY <2>2 DEF OpenAmounts, OpenInvoices
    <3>2. g[j] = f[j]
      BY <3>1, <1>0 DEF OpenAmounts
    <3> QED  BY <3>1, <3>2, <2>1 DEF Amounts
  <2>4. i \in DOMAIN g => g[i] <= n
    BY <1>0 DEF OpenAmounts
  <2> HIDE DEF f, g
  <2> QED  BY <2>1, <2>2, <2>3, <2>4, TotalPlusRow
<1>2. Total(pg) <= Total(pf)
  <2>1. Amounts(pf) /\ Amounts(pg)
    BY ExposureType, ExposureTypeNext DEF Summable
  <2>2. o \notin PendingOrders'
    <3>1. o \in Orders => i \in ActiveInvoices(o)'
      BY <1>0 DEF ActiveInvoices
    <3> QED  BY <3>1, RowsAssumption DEF PendingOrders
  <2>3. \A p \in Orders \ X : ActiveInvoices(p)' = ActiveInvoices(p)
    BY <1>0, RowsAssumption DEF ActiveInvoices
  <2>4. DOMAIN pg \subseteq DOMAIN pf
    BY <2>2, <2>3 DEF PendingAmounts, PendingOrders
  <2>5. \A p \in DOMAIN pg : pg[p] <= pf[p]
    <3> SUFFICES ASSUME NEW p \in DOMAIN pg PROVE pg[p] <= pf[p]
      OBVIOUS
    <3>1. p \in Orders \ X /\ p \in DOMAIN pf
      BY <2>4 DEF PendingAmounts, PendingOrders
    <3>2. pg[p] = pf[p]
      BY <3>1 DEF PendingAmounts
    <3> QED  BY <3>1, <3>2, <2>1 DEF Amounts
  <2> HIDE DEF pf, pg
  <2> QED  BY <2>1, <2>4, <2>5, TotalMonotone
<1> QED  BY <1>1, <1>2, ExposureType, ExposureTypeNext DEF Summable

\* A status write of an invoice that does not raise the exposure.
LEMMA InvoiceStatusWrite ==
    ASSUME TypeOK, TypeOK', NEW X, NEW i \in Invoices, NEW to \in InvoiceStatuses,
           invoice[i].status # "absent", order' = order,
           invoice' = [invoice EXCEPT ![i].status = to],
           ~RaisesExposure(i, to)
    PROVE  Exposure(X)' <= Exposure(X)
<1> DEFINE f == OpenAmounts
           g == OpenAmounts'
           pf == PendingAmounts(X)
           pg == PendingAmounts(X)'
           o == invoice[i].order
           n == order[o].total
<1>0. /\ invoice \in [Invoices -> InvoiceRow]
      /\ \A j \in Invoices : /\ invoice'[j].order = invoice[j].order
                             /\ invoice'[j].amount = invoice[j].amount
                             /\ j # i => invoice'[j].status = invoice[j].status
      /\ invoice'[i].status = to
      /\ o \in Orders \cup {None} /\ (o \in Orders => n \in Nat)
  BY DEF TypeOK, InvoiceRow, OrderRow
<1>1. Amounts(f) /\ Amounts(g) /\ Amounts(pf) /\ Amounts(pg)
  BY ExposureType, ExposureTypeNext DEF Summable
<1>2. /\ DOMAIN g \subseteq DOMAIN f
      /\ to \in Closed => DOMAIN g \subseteq DOMAIN f \ {i}
      /\ \A j \in DOMAIN g : g[j] = f[j]
  BY <1>0 DEF OpenAmounts, OpenInvoices, RaisesExposure
<1>3. \A j \in DOMAIN g : g[j] <= f[j]
  BY <1>1, <1>2 DEF Amounts
<1>4. Total(g) <= Total(f)
  <2> HIDE DEF f, g
  <2> QED  BY <1>1, <1>2, <1>3, TotalMonotone
<1>5. \A p \in Orders \ {o} : ActiveInvoices(p)' = ActiveInvoices(p)
  BY <1>0 DEF ActiveInvoices
<1>6. CASE to # "anulada" \/ invoice[i].status = "anulada" \/ o = None
           \/ order[o].status \notin ExposureStatuses
  <2>1. PendingOrders' \subseteq PendingOrders
    <3>1. CASE to # "anulada" \/ invoice[i].status = "anulada"
      <4>1. ActiveInvoices(o) \subseteq ActiveInvoices(o)'
        BY <1>0, <3>1 DEF ActiveInvoices, InvoiceStatuses
      <4> QED  BY <4>1, <1>5 DEF PendingOrders
    <3>2. CASE o \notin Orders \/ order[o].status \notin ExposureStatuses
      BY <1>5, <3>2 DEF PendingOrders
    <3> QED  BY <1>6, <3>1, <3>2, RowsAssumption
  <2>2. DOMAIN pg \subseteq DOMAIN pf /\ \A p \in DOMAIN pg : pg[p] = pf[p]
    BY <2>1 DEF PendingAmounts
  <2>3. \A p \in DOMAIN pg : pg[p] <= pf[p]
    BY <1>1, <2>2 DEF Amounts
  <2>4. Total(pg) <= Total(pf)
    <3> HIDE DEF pf, pg
    <3> QED  BY <1>1, <2>2, <2>3, TotalMonotone
  <2> QED  BY <1>4, <2>4, ExposureType, ExposureTypeNext DEF Summable
<1>7. CASE /\ to = "anulada" /\ invoice[i].status # "anulada" /\ o \in Orders
           /\ order[o].status \in ExposureStatuses
  <2>1. DOMAIN pg \subseteq DOMAIN pf \cup {o}
    BY <1>0, <1>5 DEF PendingOrders, PendingAmounts
  <2>2. \A p \in DOMAIN pg \ {o} : pg[p] <= pf[p]
    <3>1. \A p \in DOMAIN pg \ {o} : p \in DOMAIN pf /\ pg[p] = pf[p]
      BY <2>1 DEF PendingAmounts
    <3> QED  BY <3>1, <1>1 DEF Amounts
  <2>3. o \in DOMAIN pg => pg[o] <= n
    BY <1>0, <1>7 DEF PendingAmounts
  <2>4. n \in Nat
    BY <1>0, <1>7
  <2>5. Total(pg) <= Total(pf) + n
    <3> HIDE DEF pf, pg, n
    <3> QED  BY <1>1, <2>1, <2>2, <2>3, <2>4, TotalPlusRow
  <2>6. CASE invoice[i].status \in Closed
    <3>1. n = 0
      BY <1>0, <1>7, <2>4, <2>6, RowsAssumption DEF RaisesExposure
    <3> HIDE DEF n
    <3> QED  BY <1>4, <2>5, <3>1, ExposureType, ExposureTypeNext DEF Summable
  <2>7. CASE invoice[i].status \notin Closed
    <3>1. i \in DOMAIN f /\ f[i] = invoice[i].amount
      BY <2>7 DEF OpenAmounts, OpenInvoices
    <3>2. n <= f[i] /\ f[i] \in Nat
      BY <1>0, <1>1, <1>7, <2>4, <2>7, <3>1, RowsAssumption DEF RaisesExposure, Amounts
    <3>3. DOMAIN g \subseteq DOMAIN f \ {i}
      BY <1>2, <1>7 DEF Closed
    <3>4. Total(g) + f[i] <= Total(f)
      <4> HIDE DEF f, g
      <4> QED  BY <1>1, <1>3, <3>1, <3>3, TotalMinusRow
    <3> HIDE DEF n
    <3> QED  BY <2>4, <2>5, <3>2, <3>4, ExposureType, ExposureTypeNext DEF Summable
  <2> QED  BY <2>6, <2>7
<1> QED  BY <1>0, <1>6, <1>7
-----------------------------------------------------------------------------
(***************************************************************************)
(* A request that ends.                                                    *)
(***************************************************************************)

\* What the end of the request of h leaves of the tables for the others.
Frame(h) ==
    /\ \A o \in Orders :
         /\ order[o].status \in ExposureStatuses => order'[o].status \in ExposureStatuses
         /\ order[o].status # "absent" => order'[o].status # "absent"
         /\ order[o].status = "absent" =>
              order'[o].status = "absent" \/ (req[h].op = "create" /\ req[h].order = o)
    /\ \A i \in Invoices :
         /\ invoice[i].status # "absent" => invoice'[i].status # "absent"
         /\ invoice[i] = NoInvoice =>
              invoice'[i] = NoInvoice \/ (req[h].op \in InvoiceMakers /\ req[h].invoice = i)
    /\ \A b \in Bills :
         /\ billing[b].order \in Orders => billing'[b].order \in Orders
         /\ billing'[b].status # "absent" => billing'[b].order \in Orders

\* What it does to the exposure: a request that held the customer row stays
\* within the limit, the others do not raise it without being noticed.
Credit(h) ==
    /\ drifted => drifted'
    /\ Limit > 0 /\ ~drifted' =>
         \/ req[h].pc = "held" /\ Exposure({})' <= Limit
         \/ \A X : Exposure(X)' <= Exposure(X)

LEMMA NoneIsNobody == ASSUME NEW h \in Handlers PROVE h # None
BY RowsAssumption

LEMMA FinishStep ==
    ASSUME IInv, NEW h \in Handlers, Finish(h), TypeOK', OneActiveInvoice',
           Frame(h), Credit(h)
    PROVE  IInv'
<1>0. /\ req' = [req EXCEPT ![h] = Idle] /\ req \in [Handlers -> Request]
      /\ lock' = IF lock = h THEN None ELSE lock
      /\ req'[h] = Idle /\ \A g \in Handlers \ {h} : req'[g] = req[g]
  BY DEF Finish, IInv, TypeOK
<1>1. ASSUME NEW g \in Handlers PROVE RequestInv(req[g])' /\ CommittedInv(req[g])'
  <2>1. CASE g = h
    BY <1>0, <2>1 DEF RequestInv, CommittedInv, Idle, OrderOps, InvoiceMakers
  <2>2. CASE g # h
    <3>1. req'[g] = req[g] /\ RequestInv(req[g]) /\ CommittedInv(req[g])
      BY <1>0, <2>2 DEF IInv
    <3>2. NeedsCredit(req[g])' <=> NeedsCredit(req[g])
      BY <3>1 DEF NeedsCredit
    <3>3. req[g].op = "create" => order'[req[g].order].status = "absent"
      BY <3>1, <2>2 DEF RequestInv, Frame, IInv, FreshInv, OrderOps
    <3>4. req[g].op \in InvoiceMakers => invoice'[req[g].invoice] = NoInvoice
      BY <3>1, <2>2 DEF RequestInv, Frame, IInv, FreshInv
    <3>5. RequestInv(req[g])'
      BY <3>1, <3>2, <3>3, <3>4 DEF RequestInv, Frame
    <3>6. CommittedInv(req[g])'
      BY <3>1 DEF CommittedInv, RequestInv, Frame, OrderOps
    <3> QED  BY <3>5, <3>6
  <2> QED  BY <2>1, <2>2
<1>2. FreshInv'
  BY <1>0 DEF FreshInv, IInv, Idle, InvoiceMakers
<1>3. BillInv'
  BY DEF BillInv, Frame
<1>4. LockInv'
  BY <1>0, NoneIsNobody DEF LockInv, IInv, Idle
<1>5. CoveredInv' /\ CreditWithinLimit'
  <2> SUFFICES ASSUME Limit > 0, ~drifted'
               PROVE  /\ \A g \in Handlers : req'[g].pc = "held" =>
                             Exposure(Own(req[g]))' + req'[g].amount <= Limit
                      /\ Exposure({})' <= Limit
    BY DEF CoveredInv, CreditWithinLimit
  <2>0. ~drifted
    BY DEF Credit
  <2>1. CASE req[h].pc = "held" /\ Exposure({})' <= Limit
    <3>1. \A g \in Handlers : req'[g].pc # "held"
      BY <1>0, <1>4, <2>1, NoneIsNobody DEF LockInv, IInv
    <3> QED  BY <2>1, <3>1
  <2>2. CASE \A X : Exposure(X)' <= Exposure(X)
    <3>1. Exposure({}) <= Limit
      BY <2>0 DEF IInv, CreditWithinLimit
    <3>2. Exposure({})' <= Limit
      BY <2>2, <3>1, ExposureType, ExposureTypeNext, MoneyAssumption DEF Summable, IInv
    <3>3. ASSUME NEW g \in Handlers, req'[g].pc = "held"
          PROVE  Exposure(Own(req[g]))' + req'[g].amount <= Limit
      <4>1. req'[g] = req[g]
        BY <1>0, <3>3 DEF Idle
      <4>2. PICK X : X = Own(req[g])
        OBVIOUS
      <4>3. Own(req[g])' = X
        BY <4>1, <4>2 DEF Own
      <4>4. Exposure(X) + req[g].amount <= Limit
        BY <2>0, <3>3, <4>1, <4>2 DEF IInv, CoveredInv
      <4>5. Exposure(X)' <= Exposure(X) /\ Exposure(X) \in Nat /\ Exposure(X)' \in Nat
        BY <2>2, ExposureType, ExposureTypeNext DEF Summable, IInv
      <4>6. req[g].amount \in Nat
        BY DEF IInv, TypeOK, Request
      <4> QED  BY <4>1, <4>3, <4>4, <4>5, <4>6, MoneyAssumption DEF Exposure, PendingAmounts
    <3> QED  BY <3>2, <3>3
  <2> QED  BY <2>0, <2>1, <2>2 DEF Credit
<1> QED  BY <1>1, <1>2, <1>3, <1>4, <1>5 DEF IInv
-----------------------------------------------------------------------------
(***************************************************************************)
(* Commits, one lemma each.                                                *)
(***************************************************************************)

\* The fields of the request of h, when the tables are well-formed.
LEMMA RequestType ==
    ASSUME IInv, NEW h \in Handlers
    PROVE  /\ req[h].seen \in OrderRow /\ req[h].amount \in Nat
           /\ req[h].order \in Orders \cup {None}
           /\ RequestInv(req[h]) /\ CommittedInv(req[h])
BY DEF IInv, TypeOK, Request

LEMMA IdleType == ASSUME TypeOK, NEW h \in Handlers, Finish(h)
                  PROVE  /\ req' \in [Handlers -> Request] /\ lock' \in Handlers \cup {None}
                         /\ served' \in Nat
<1>1. Idle \in Request
  <2>1. Total([k \in Items |-> 0]) \in Nat
    BY RowsAssumption, TotalType DEF Amounts
  <2>2. NoOrder \in OrderRow
    BY DEF NoOrder, OrderRow, Approvals
  <2> QED  BY <2>2 DEF Idle, Request, OpNames
<1> QED  BY <1>1 DEF TypeOK, Finish

LEMMA RollbackStep ==
    ASSUME IInv, NEW h \in Handlers, Finish(h), UNCHANGED <<order, invoice, billing, drifted>>
    PROVE  IInv'
<1>1. TypeOK'
  BY IdleType DEF IInv, TypeOK
<1>2. OneActiveInvoice'
  BY DEF IInv, OneActiveInvoice
<1>3. Frame(h)
  BY DEF Frame, IInv, BillInv
<1>4. Credit(h)
  BY <1>1, OrderWrite, ExposureType DEF Credit, IInv, Summable, TypeOK, OrderRow
<1> QED  BY <1>1, <1>2, <1>3, <1>4, FinishStep

LEMMA CreateStep ==
    ASSUME IInv, NEW h \in Handlers, CommitCreate(h)
    PROVE  IInv'
<1> DEFINE o == req[h].order
<1>1. /\ req[h].op = "create" /\ o \in Orders /\ req[h].seen \in OrderRow
      /\ req[h].seen.status = "recibido" /\ order[o].status = "absent"
      /\ order' = [order EXCEPT ![o] = req[h].seen] /\ Finish(h)
      /\ UNCHANGED <<invoice, billing, drifted>>
  BY RequestType DEF CommitCreate, Ready, RequestInv, OrderOps
<1>2. TypeOK'
  BY <1>1, IdleType DEF IInv, TypeOK
<1>3. OneActiveInvoice'
  BY <1>1 DEF IInv, OneActiveInvoice
<1>4. Frame(h)
  BY <1>1 DEF Frame, IInv, BillInv, TypeOK, ExposureStatuses, Statuses
<1>5. Credit(h)
  <2>1. \A p \in Orders : order'[p].status \in ExposureStatuses =>
            order[p].status \in ExposureStatuses /\ order'[p].total <= order[p].total
    BY <1>1 DEF IInv, TypeOK, OrderRow, ExposureStatuses
  <2> QED  BY <1>1, <1>2, <2>1, OrderWrite DEF Credit, IInv
<1> QED  BY <1>1, <1>2, <1>3, <1>4, <1>5, FinishStep

\* A write of one order under the lock of the customer.
LEMMA CheckedOrderStep ==
    ASSUME IInv, NEW h \in Handlers, req[h].op \in OrderOps \ {"create"},
           req[h].pc = "held",
           NEW row \in OrderRow, row.status # "absent",
           order[req[h].order].status \in ExposureStatuses => row.status \in ExposureStatuses,
           order' = [order EXCEPT ![req[h].order] = row], Finish(h),
           UNCHANGED <<invoice, billing>>,
           drifted' \in BOOLEAN, drifted => drifted',
           ~drifted' => row.total <= req[h].amount
    PROVE  IInv'
<1> DEFINE o == req[h].order
<1>0. o \in Orders /\ Own(req[h]) = {o} /\ order[o].status # "absent"
  BY RequestType DEF RequestInv, Own
<1>1. TypeOK'
  BY <1>0, IdleType DEF IInv, TypeOK
<1>2. OneActiveInvoice'
  BY DEF IInv, OneActiveInvoice
<1>3. Frame(h)
  BY <1>0 DEF Frame, IInv, BillInv, TypeOK
<1>4. Credit(h)
  <2> SUFFICES ASSUME Limit > 0, ~drifted' PROVE Exposure({})' <= Limit
    BY DEF Credit
  <2>1. Exposure({o}) + req[h].amount <= Limit
    BY <1>0 DEF IInv, CoveredInv
  <2>2. \A p \in Orders \ {o} : order'[p] = order[p]
    BY DEF IInv, TypeOK
  <2>3. order'[o].total <= req[h].amount
    BY <1>0 DEF IInv, TypeOK
  <2>4. Exposure({})' <= Exposure({o}) + req[h].amount
    BY <1>0, <1>1, <2>2, <2>3, CheckedOrderWrite, RequestType DEF IInv
  <2> QED  BY <1>1, <2>1, <2>4, ExposureType, ExposureTypeNext, RequestType, MoneyAssumption
           DEF Summable, IInv
<1> QED  BY <1>1, <1>2, <1>3, <1>4, FinishStep
LEMMA ApproveStep ==
    ASSUME IInv, NEW h \in Handlers, CommitApprove(h)
    PROVE  IInv'
<1> DEFINE o == req[h].order
           row == [order[o] EXCEPT !.approval = "aprobado",
                                   !.status = IF req[h].seen.status = "recibido"
                                              THEN "orden_facturacion" ELSE @]
<1>1. /\ req[h].op = "approve" /\ req[h].pc = "held" /\ o \in Orders
      /\ order[o] \in OrderRow /\ order[o].status # "absent"
  BY RequestType DEF CommitApprove, Ready, NeedsCredit, RequestInv, OrderOps, IInv, TypeOK
<1>2. row \in OrderRow /\ row.status # "absent" /\ row.total = order[o].total
  BY <1>1 DEF OrderRow, Statuses, Approvals
<1>3. order[o].status \in ExposureStatuses => row.status \in ExposureStatuses
  BY <1>1 DEF OrderRow, ExposureStatuses, Statuses
<1>4. /\ order' = [order EXCEPT ![o] = row] /\ Finish(h) /\ UNCHANGED <<invoice, billing>>
      /\ drifted' = (drifted \/ Repriced(req[h]))
  BY <1>1 DEF CommitApprove
<1>5. drifted' \in BOOLEAN /\ (drifted => drifted') /\ (~drifted' => ~Repriced(req[h]))
  BY <1>4 DEF IInv, TypeOK
<1>6. ~Repriced(req[h]) => row.total <= req[h].amount
  BY <1>1, <1>2, RequestType DEF Repriced, OrderRow
<1>7. ~drifted' => row.total <= req[h].amount
  BY <1>5, <1>6
<1> HIDE DEF row
<1> QED  BY <1>1, <1>2, <1>3, <1>4, <1>5, <1>7, CheckedOrderStep DEF OrderOps
\* A write of one order that commits no credit: it keeps the total and does
\* not bring the order into the exposure.
LEMMA UncheckedOrderStep ==
    ASSUME IInv, NEW h \in Handlers, NEW o \in Orders, NEW row \in OrderRow,
           order[o].status # "absent", row.status # "absent", row.total = order[o].total,
           order[o].status \in ExposureStatuses <=> row.status \in ExposureStatuses,
           order' = [order EXCEPT ![o] = row], Finish(h),
           UNCHANGED <<invoice, drifted>>, billing' \in [Bills -> BillRow],
           \A b \in Bills :
               /\ billing[b].order \in Orders => billing'[b].order \in Orders
               /\ billing'[b].status # "absent" => billing'[b].order \in Orders
    PROVE  IInv'
<1>1. TypeOK'
  BY IdleType DEF IInv, TypeOK
<1>2. OneActiveInvoice'
  BY DEF IInv, OneActiveInvoice
<1>3. Frame(h)
  BY DEF Frame, IInv, TypeOK
<1>4. Credit(h)
  <2>1. \A p \in Orders : order'[p].status \in ExposureStatuses =>
            order[p].status \in ExposureStatuses /\ order'[p].total <= order[p].total
    BY DEF IInv, TypeOK, OrderRow
  <2> QED  BY <1>1, <2>1, OrderWrite DEF Credit, IInv
<1> QED  BY <1>1, <1>2, <1>3, <1>4, FinishStep

LEMMA BillsUntouched ==
    ASSUME IInv, billing' = billing
    PROVE  /\ billing' \in [Bills -> BillRow]
           /\ \A b \in Bills :
               /\ billing[b].order \in Orders => billing'[b].order \in Orders
               /\ billing'[b].status # "absent" => billing'[b].order \in Orders
BY DEF IInv, TypeOK, BillInv

LEMMA RejectStep ==
    ASSUME IInv, NEW h \in Handlers, CommitReject(h)
    PROVE  IInv'
<1> DEFINE o == req[h].order
           row == [order[o] EXCEPT !.approval = "rechazado"]
<1>1. o \in Orders /\ order[o] \in OrderRow /\ order[o].status # "absent"
  BY RequestType DEF CommitReject, Ready, RequestInv, OrderOps, IInv, TypeOK
<1>2. row \in OrderRow /\ row.status = order[o].status /\ row.total = order[o].total
  BY <1>1 DEF OrderRow, Approvals
<1>3. /\ order' = [order EXCEPT ![o] = row] /\ Finish(h)
      /\ UNCHANGED <<invoice, drifted>> /\ billing' = billing
  BY <1>1 DEF CommitReject
<1> HIDE DEF row
<1> QED  BY <1>1, <1>2, <1>3, UncheckedOrderStep, BillsUntouched

LEMMA AdvanceStep ==
    ASSUME IInv, NEW h \in Handlers, CommitAdvance(h)
    PROVE  IInv'
<1> DEFINE o == req[h].order
           row == [order[o] EXCEPT !.status = req[h].to]
<1>1. /\ req[h].op = "advance" /\ o \in Orders /\ order[o] \in OrderRow
      /\ order[o].status # "absent" /\ req[h].to \in ExposureStatuses
  BY RequestType DEF CommitAdvance, Ready, RequestInv, OrderOps, IInv, TypeOK
<1>2. /\ row \in OrderRow /\ row.status \in ExposureStatuses /\ row.status # "absent"
      /\ row.total = order[o].total
  BY <1>1 DEF OrderRow, Statuses, ExposureStatuses
<1>3. /\ order' = [order EXCEPT ![o] = row] /\ Finish(h) /\ UNCHANGED <<invoice, billing>>
      /\ drifted' = (drifted \/ (NeedsCredit(req[h]) /\ Repriced(req[h])))
  BY <1>1 DEF CommitAdvance
<1>4. CASE req[h].to = "orden_facturacion"
  <2>1. NeedsCredit(req[h]) /\ req[h].pc = "held"
    BY <1>1, <1>4 DEF CommitAdvance, Ready, NeedsCredit
  <2>2. drifted' \in BOOLEAN /\ (drifted => drifted') /\ (~drifted' => ~Repriced(req[h]))
    BY <1>3, <2>1 DEF IInv, TypeOK
  <2>3. ~Repriced(req[h]) => row.total <= req[h].amount
    BY <1>1, <1>2, RequestType DEF Repriced, OrderRow
  <2>4. ~drifted' => row.total <= req[h].amount
    BY <2>2, <2>3
  <2> HIDE DEF row
  <2> QED  BY <1>1, <1>2, <1>3, <2>1, <2>2, <2>4, CheckedOrderStep DEF OrderOps
<1>5. CASE req[h].to # "orden_facturacion"
  <2>1. ~NeedsCredit(req[h])
    BY <1>1, <1>5 DEF NeedsCredit
  <2>2. drifted' = drifted
    BY <1>3, <2>1 DEF IInv, TypeOK
  <2>3. order[o].status \in ExposureStatuses
    BY <1>1, <1>5, RequestType DEF CommittedInv
  <2> HIDE DEF row
  <2> QED  BY <1>1, <1>2, <1>3, <2>2, <2>3, UncheckedOrderStep, BillsUntouched
<1> QED  BY <1>4, <1>5

LEMMA ResolveStep ==
    ASSUME IInv, NEW h \in Handlers, CommitResolve(h)
    PROVE  IInv'
<1> DEFINE o == req[h].order
           k == req[h].line
           row == [order[o] EXCEPT !.lines[k] = req[h].seen.lines[k],
                                   !.pending = @ \ {k},
                                   !.total = req[h].amount]
<1>1. /\ req[h].op = "resolve" /\ req[h].pc = "held" /\ o \in Orders
      /\ order[o] \in OrderRow /\ order[o].status # "absent" /\ k \in Items
      /\ req[h].seen \in OrderRow /\ req[h].amount \in Nat
  BY RequestType DEF CommitResolve, Ready, NeedsCredit, RequestInv, OrderOps, IInv, TypeOK
<1>2. /\ row \in OrderRow /\ row.status = order[o].status /\ row.total = req[h].amount
  BY <1>1 DEF OrderRow
<1>3. /\ order' = [order EXCEPT ![o] = row] /\ Finish(h)
      /\ UNCHANGED <<invoice, billing>> /\ drifted' = drifted
  BY <1>1 DEF CommitResolve
<1>4. drifted' \in BOOLEAN /\ (drifted => drifted')
  BY <1>3 DEF IInv, TypeOK
<1> HIDE DEF row
<1>5. row.status # "absent" /\ row.total <= req[h].amount
  BY <1>1, <1>2
<1>6. order[o].status \in ExposureStatuses => row.status \in ExposureStatuses
  BY <1>2
<1> QED  BY <1>1, <1>2, <1>3, <1>4, <1>5, <1>6, CheckedOrderStep DEF OrderOps
\* The insert of an invoice, with or without the advance of its order, under
\* the lock of the customer.
LEMMA InsertStep ==
    ASSUME IInv, NEW h \in Handlers, req[h].op \in InvoiceMakers, req[h].pc = "held",
           IndexAllows(req[h].invoice, req[h].order), invoice' = Insert(req[h]), Finish(h),
           order' \in [Orders -> OrderRow],
           \A p \in Orders \ Own(req[h]) : order'[p] = order[p],
           \A p \in Own(req[h]) :
               /\ order'[p].status = "absent" <=> order[p].status = "absent"
               /\ order[p].status \in ExposureStatuses => order'[p].status \in ExposureStatuses,
           UNCHANGED <<billing, drifted>>
    PROVE  IInv'
<1> DEFINE i == req[h].invoice
           o == req[h].order
           n == req[h].amount
           row == [status |-> "emitida", order |-> o, amount |-> n]
<1>1. /\ i \in Invoices /\ invoice[i] = NoInvoice /\ o \in Orders \cup {None} /\ n \in Nat
      /\ invoice \in [Invoices -> InvoiceRow] /\ invoice' = [invoice EXCEPT ![i] = row]
  BY RequestType DEF RequestInv, IInv, TypeOK, Insert
<1>2. row \in InvoiceRow
  BY <1>1 DEF InvoiceRow, InvoiceStatuses
<1>3. TypeOK'
  BY <1>1, <1>2, IdleType DEF IInv, TypeOK
<1>4. OneActiveInvoice'
  <2> SUFFICES ASSUME NEW a \in Invoices, NEW b \in Invoices, a # b,
                      invoice'[a].order = invoice'[b].order, invoice'[a].order # None,
                      invoice'[a].status \notin {"absent", "anulada"},
                      invoice'[b].status \notin {"absent", "anulada"}
               PROVE  FALSE
    BY DEF OneActiveInvoice
  <2>1. CASE a # i /\ b # i
    BY <1>1, <2>1 DEF IInv, OneActiveInvoice
  <2>2. CASE a = i \/ b = i
    BY <1>1, <2>2 DEF IndexAllows, ActiveInvoices
  <2> QED  BY <2>1, <2>2
<1>5. Frame(h)
  BY <1>1 DEF Frame, IInv, BillInv, Own, NoInvoice
<1>6. Credit(h)
  <2> SUFFICES ASSUME Limit > 0, ~drifted PROVE Exposure({})' <= Limit
    BY DEF Credit
  <2>1. PICK X : X = Own(req[h])
    OBVIOUS
  <2>2. Exposure(X) + n <= Limit
    BY <2>1 DEF IInv, CoveredInv
  <2>3. Exposure({})' <= Exposure(X) + n
    BY <1>1, <1>3, <2>1, CheckedInvoiceWrite DEF Own, IInv
  <2> QED  BY <1>1, <1>3, <2>2, <2>3, ExposureType, ExposureTypeNext, MoneyAssumption
           DEF Summable, IInv
<1> QED  BY <1>3, <1>4, <1>5, <1>6, FinishStep

LEMMA InvoiceOrderStep ==
    ASSUME IInv, NEW h \in Handlers, CommitInvoiceOrder(h)
    PROVE  IInv'
<1> DEFINE o == req[h].order
<1>1. /\ req[h].op = "invoice_order" /\ req[h].pc = "held" /\ o \in Orders
      /\ order \in [Orders -> OrderRow] /\ order[o].status \in ExposureStatuses
  BY RequestType DEF CommitInvoiceOrder, Ready, NeedsCredit, RequestInv, CommittedInv, OrderOps, IInv, TypeOK
<1>2. Own(req[h]) = {o}
  BY <1>1 DEF Own
<1>3. order' = order \/ order' = [order EXCEPT ![o].status = "facturado"]
  BY DEF CommitInvoiceOrder
<1>4. /\ order' \in [Orders -> OrderRow]
      /\ \A p \in Orders \ {o} : order'[p] = order[p]
      /\ order'[o].status \in ExposureStatuses
  <2>1. CASE order' = order
    BY <1>1, <2>1
  <2>2. CASE order' = [order EXCEPT ![o].status = "facturado"]
    <3> DEFINE row == [order[o] EXCEPT !.status = "facturado"]
    <3>1. order[o] \in OrderRow
      BY <1>1
    <3>2. row \in OrderRow /\ row.status \in ExposureStatuses
      BY <3>1 DEF OrderRow, Statuses, ExposureStatuses
    <3>3. order' = [order EXCEPT ![o] = row]
      BY <1>1, <2>2
    <3> HIDE DEF row
    <3> QED  BY <1>1, <3>2, <3>3
  <2> QED  BY <1>3, <2>1, <2>2
<1> QED  BY <1>1, <1>2, <1>4, InsertStep DEF CommitInvoiceOrder, InvoiceMakers, ExposureStatuses, Statuses

LEMMA InvoiceCreateStep ==
    ASSUME IInv, NEW h \in Handlers, CommitInvoiceCreate(h)
    PROVE  IInv'
<1>1. req[h].op = "invoice_create" /\ req[h].pc = "held"
  BY DEF CommitInvoiceCreate, Ready, NeedsCredit
<1> QED  BY <1>1, InsertStep DEF CommitInvoiceCreate, InvoiceMakers, IInv, TypeOK

LEMMA InvoiceWriteStep ==
    ASSUME IInv, NEW h \in Handlers, NEW op \in {"invoice_status", "settle"},
           CommitInvoiceWrite(h, op)
    PROVE  IInv'
<1> DEFINE i == req[h].invoice
           to == req[h].to
<1>1. /\ i \in Invoices /\ invoice[i].status # "absent" /\ to \in InvoiceStatuses
      /\ invoice \in [Invoices -> InvoiceRow] /\ Finish(h)
      /\ invoice' = [invoice EXCEPT ![i].status = to] /\ UNCHANGED <<order, billing>>
      /\ to = "anulada" \/ IndexAllows(i, invoice[i].order)
      /\ drifted' = (drifted \/ RaisesExposure(i, to))
  BY RequestType DEF CommitInvoiceWrite, Ready, RequestInv, IInv, TypeOK
<1>2. /\ invoice' \in [Invoices -> InvoiceRow]
      /\ \A j \in Invoices : /\ invoice'[j].order = invoice[j].order
                             /\ j # i => invoice'[j].status = invoice[j].status
      /\ invoice'[i].status = to
      /\ to # "absent"
  BY <1>1 DEF InvoiceRow, InvoiceStatuses
<1>3. drifted' \in BOOLEAN /\ (drifted => drifted') /\ (~drifted' => ~RaisesExposure(i, to))
  BY <1>1 DEF IInv, TypeOK
<1>4. TypeOK'
  BY <1>1, <1>2, <1>3, IdleType DEF IInv, TypeOK
<1>5. OneActiveInvoice'
  <2> SUFFICES ASSUME NEW a \in Invoices, NEW b \in Invoices, a # b,
                      invoice'[a].order = invoice'[b].order, invoice'[a].order # None,
                      invoice'[a].status \notin {"absent", "anulada"},
                      invoice'[b].status \notin {"absent", "anulada"}
               PROVE  FALSE
    BY DEF OneActiveInvoice
  <2>1. CASE a # i /\ b # i
    <3>1. /\ invoice[a].order = invoice[b].order /\ invoice[a].order # None
          /\ invoice[a].status \notin {"absent", "anulada"}
          /\ invoice[b].status \notin {"absent", "anulada"}
      BY <1>2, <2>1
    <3> QED  BY <3>1 DEF IInv, OneActiveInvoice
  <2>2. CASE a = i \/ b = i
    BY <1>1, <1>2, <2>2 DEF IndexAllows, ActiveInvoices
  <2> QED  BY <2>1, <2>2
<1>6. Frame(h)
  <2>1. \A j \in Invoices : j # i => invoice'[j] = invoice[j]
    BY <1>1
  <2> QED  BY <1>1, <1>2, <2>1 DEF Frame, IInv, BillInv, NoInvoice
<1>7. Credit(h)
  <2>1. ASSUME ~drifted', NEW X PROVE Exposure(X)' <= Exposure(X)
    BY <1>1, <1>3, <1>4, <2>1, InvoiceStatusWrite DEF IInv
  <2> QED  BY <1>3, <2>1 DEF Credit
<1> QED  BY <1>1, <1>4, <1>5, <1>6, <1>7, FinishStep
LEMMA BillingStep ==
    ASSUME IInv, NEW h \in Handlers, CommitBilling(h)
    PROVE  IInv'
<1> DEFINE b == req[h].bill
           row == [status |-> "pendiente", order |-> req[h].order]
<1>1. /\ b \in Bills /\ req[h].order \in Orders /\ billing \in [Bills -> BillRow]
      /\ billing' = [billing EXCEPT ![b] = row] /\ Finish(h)
      /\ UNCHANGED <<order, invoice, drifted>>
  BY RequestType DEF CommitBilling, Ready, RequestInv, OrderOps, IInv, TypeOK
<1>2. row \in BillRow
  BY <1>1 DEF BillRow
<1>3. TypeOK'
  BY <1>1, <1>2, IdleType DEF IInv, TypeOK
<1>4. OneActiveInvoice'
  BY <1>1 DEF IInv, OneActiveInvoice
<1>5. Frame(h)
  BY <1>1 DEF Frame, IInv, BillInv
<1>6. Credit(h)
  BY <1>1, <1>3, OrderWrite DEF Credit, IInv, TypeOK, OrderRow
<1> QED  BY <1>1, <1>3, <1>4, <1>5, <1>6, FinishStep

LEMMA BillingSetStep ==
    ASSUME IInv, NEW h \in Handlers, CommitBillingSet(h)
    PROVE  IInv'
<1> DEFINE o == req[h].order
           b == req[h].bill
           moves == req[h].to = "procesada" /\ req[h].seen.status = "orden_facturacion"
           row == IF moves THEN [order[o] EXCEPT !.status = "facturado"] ELSE order[o]
<1>1. /\ req[h].pc = "marked" /\ o \in Orders /\ b \in Bills
      /\ billing[b].order \in Orders /\ req[h].to \in {"procesada", "rechazada"}
      /\ order \in [Orders -> OrderRow] /\ billing \in [Bills -> BillRow]
      /\ moves => order[o].status \in ExposureStatuses
  BY RequestType DEF CommitBillingSet, RequestInv, CommittedInv, IInv, TypeOK
<1>2. /\ billing' = [billing EXCEPT ![b].status = req[h].to]
      /\ order' = IF moves THEN [order EXCEPT ![o].status = "facturado"] ELSE order
      /\ Finish(h) /\ UNCHANGED <<invoice, drifted>>
  BY DEF CommitBillingSet
<1>3. order[o] \in OrderRow
  BY <1>1
<1>4. /\ billing' \in [Bills -> BillRow]
      /\ \A c \in Bills :
            /\ billing[c].order \in Orders => billing'[c].order \in Orders
            /\ billing'[c].status # "absent" => billing'[c].order \in Orders
  BY <1>1, <1>2 DEF BillRow, IInv, BillInv
<1>5. CASE moves
  <2>1. /\ row \in OrderRow /\ row.status = "facturado" /\ row.total = order[o].total
    BY <1>3, <1>5 DEF OrderRow, Statuses
  <2>2. order' = [order EXCEPT ![o] = row]
    BY <1>1, <1>2, <1>5
  <2>3. order[o].status \in ExposureStatuses /\ row.status \in ExposureStatuses
    BY <1>1, <1>5, <2>1 DEF ExposureStatuses, Statuses
  <2>4. order[o].status # "absent"
    BY <2>3 DEF ExposureStatuses, Statuses
  <2> HIDE DEF row
  <2> QED  BY <1>1, <1>2, <1>4, <2>1, <2>2, <2>3, <2>4, UncheckedOrderStep
<1>6. CASE ~moves
  <2>1. order' = order
    BY <1>2, <1>6
  <2>2. TypeOK'
    BY <1>2, <1>4, <2>1, IdleType DEF IInv, TypeOK
  <2>3. OneActiveInvoice'
    BY <1>2 DEF IInv, OneActiveInvoice
  <2>4. Frame(h)
    BY <1>2, <1>4, <2>1 DEF Frame
  <2>5. Credit(h)
    BY <1>2, <2>1, <2>2, OrderWrite DEF Credit, IInv, TypeOK, OrderRow
  <2> QED  BY <1>2, <2>2, <2>3, <2>4, <2>5, FinishStep
<1> QED  BY <1>5, <1>6
-----------------------------------------------------------------------------
(***************************************************************************)
(* Requests that begin, take the lock, or go on without touching a table.  *)
(***************************************************************************)

\* The rows that request r is to insert are nobody else's.
Unclaimed(h, r) ==
    \A g \in Handlers \ {h} :
        /\ r.op = "create" /\ req[g].op = "create" => req[g].order # r.order
        /\ r.op \in InvoiceMakers /\ req[g].op \in InvoiceMakers => req[g].invoice # r.invoice

LEMMA RequestStep ==
    ASSUME IInv, NEW h \in Handlers, NEW r \in Request, RequestInv(r), CommittedInv(r),
           Unclaimed(h, r), r.pc # "held", req[h].pc # "held",
           req' = [req EXCEPT ![h] = r], served' \in Nat,
           UNCHANGED <<order, invoice, billing, lock, drifted>>
    PROVE  IInv'
<1>0. /\ req \in [Handlers -> Request] /\ req'[h] = r
      /\ \A g \in Handlers \ {h} : req'[g] = req[g]
  BY DEF IInv, TypeOK
<1>1. TypeOK'
  BY DEF IInv, TypeOK
<1>2. ASSUME NEW g \in Handlers PROVE RequestInv(req[g])' /\ CommittedInv(req[g])'
  <2>1. PICK q : q = req'[g] /\ RequestInv(q) /\ CommittedInv(q)
    BY <1>0 DEF IInv
  <2> QED  BY <2>1 DEF RequestInv, CommittedInv, NeedsCredit
<1>3. FreshInv'
  BY <1>0 DEF FreshInv, IInv, Unclaimed
<1>4. BillInv' /\ OneActiveInvoice'
  BY DEF BillInv, OneActiveInvoice, IInv
<1>5. LockInv'
  BY <1>0 DEF LockInv, IInv
<1>6. \A X : Exposure(X)' = Exposure(X)
  BY DEF Exposure, OpenAmounts, OpenInvoices, PendingAmounts, PendingOrders, ActiveInvoices
<1>7. CreditWithinLimit'
  BY <1>6 DEF CreditWithinLimit, IInv
<1>8. CoveredInv'
  <2> SUFFICES ASSUME NEW g \in Handlers, req'[g].pc = "held", Limit > 0, ~drifted
               PROVE  Exposure(Own(req[g]))' + req'[g].amount <= Limit
    BY DEF CoveredInv
  <2>1. g # h /\ req'[g] = req[g]
    BY <1>0
  <2>2. PICK X : X = Own(req[g])
    OBVIOUS
  <2>3. Own(req[g])' = X
    BY <2>1, <2>2 DEF Own
  <2>4. Exposure(X) + req[g].amount <= Limit
    BY <2>1, <2>2 DEF IInv, CoveredInv
  <2> QED  BY <1>6, <2>1, <2>3, <2>4 DEF Exposure, PendingAmounts
<1> QED  BY <1>1, <1>2, <1>3, <1>4, <1>5, <1>7, <1>8 DEF IInv

LEMMA TakeLockStep ==
    ASSUME IInv, NEW h \in Handlers, TakeLock(h)
    PROVE  IInv'
<1> DEFINE r == [req[h] EXCEPT !.pc = "held"]
<1>0. /\ req \in [Handlers -> Request] /\ req[h] \in Request /\ req[h].pc = "read"
      /\ req' = [req EXCEPT ![h] = r] /\ lock = None /\ lock' = h /\ NeedsCredit(req[h])
      /\ WithinLimit(req[h].amount, Own(req[h]))
      /\ UNCHANGED <<order, invoice, billing, served, drifted>>
  BY DEF TakeLock, IInv, TypeOK
<1>1. /\ r \in Request /\ r.pc = "held" /\ r.op = req[h].op /\ r.order = req[h].order
      /\ r.invoice = req[h].invoice /\ r.bill = req[h].bill /\ r.line = req[h].line
      /\ r.to = req[h].to /\ r.seen = req[h].seen /\ r.amount = req[h].amount
  BY <1>0 DEF Request
<1> HIDE DEF r
<1>2. req'[h] = r /\ \A g \in Handlers \ {h} : req'[g] = req[g]
  BY <1>0
<1>3. TypeOK'
  BY <1>0, <1>1 DEF IInv, TypeOK
<1>4. ASSUME NEW g \in Handlers PROVE RequestInv(req[g])' /\ CommittedInv(req[g])'
  <2>1. RequestInv(r) /\ CommittedInv(r)
    BY <1>0, <1>1, RequestType DEF RequestInv, CommittedInv, NeedsCredit
  <2>2. PICK q : q = req'[g] /\ RequestInv(q) /\ CommittedInv(q)
    BY <1>2, <2>1 DEF IInv
  <2> QED  BY <1>0, <2>2 DEF RequestInv, CommittedInv, NeedsCredit
<1>5. FreshInv'
  BY <1>1, <1>2 DEF FreshInv, IInv
<1>6. BillInv' /\ OneActiveInvoice'
  BY <1>0 DEF BillInv, OneActiveInvoice, IInv
<1>7. LockInv'
  BY <1>0, <1>1, <1>2, NoneIsNobody DEF LockInv, IInv
<1>8. \A X : Exposure(X)' = Exposure(X)
  BY <1>0 DEF Exposure, OpenAmounts, OpenInvoices, PendingAmounts, PendingOrders, ActiveInvoices
<1>9. CreditWithinLimit'
  BY <1>0, <1>8 DEF CreditWithinLimit, IInv
<1>10. CoveredInv'
  <2> SUFFICES ASSUME NEW g \in Handlers, req'[g].pc = "held", Limit > 0, ~drifted
               PROVE  Exposure(Own(req[g]))' + req'[g].amount <= Limit
    BY <1>0 DEF CoveredInv
  <2>1. g = h
    BY <1>0, <1>7 DEF LockInv
  <2>2. PICK X : X = Own(req[h])
    OBVIOUS
  <2>3. Own(req[g])' = X
    BY <1>1, <1>2, <2>1, <2>2 DEF Own
  <2>4. Exposure(X) + req[h].amount <= Limit
    BY <1>0, <2>2, MoneyAssumption DEF WithinLimit
  <2> QED  BY <1>1, <1>2, <1>8, <2>1, <2>3, <2>4 DEF Exposure, PendingAmounts
<1> QED  BY <1>3, <1>4, <1>5, <1>6, <1>7, <1>9, <1>10 DEF IInv

LEMMA MarkBillingStep ==
    ASSUME IInv, NEW h \in Handlers, MarkBilling(h)
    PROVE  IInv'
<1> DEFINE o == billing[req[h].bill].order
           r == [req[h] EXCEPT !.pc = "marked", !.order = o, !.seen = order[o]]
<1>1. /\ req[h].op = "billing_set" /\ req[h].pc # "held" /\ req[h] \in Request
      /\ o \in Orders /\ order[o] \in OrderRow /\ RequestInv(req[h])
  BY RequestType DEF MarkBilling, Ready, NeedsCredit, RequestInv, IInv, TypeOK
<1>2. /\ r \in Request /\ r.op = "billing_set" /\ r.pc = "marked" /\ r.order = o
      /\ r.bill = req[h].bill /\ r.to = req[h].to /\ r.seen = order[o]
  BY <1>1 DEF Request
<1>3. /\ req' = [req EXCEPT ![h] = r]
      /\ UNCHANGED <<order, invoice, billing, lock, served, drifted>>
  BY <1>1 DEF MarkBilling, IInv, TypeOK
<1> HIDE DEF r
<1>4. RequestInv(r) /\ CommittedInv(r) /\ Unclaimed(h, r)
  BY <1>1, <1>2 DEF RequestInv, CommittedInv, Unclaimed, OrderOps, InvoiceMakers,
                    ExposureStatuses, Statuses
<1> QED  BY <1>1, <1>2, <1>3, <1>4, RequestStep DEF IInv, TypeOK
\* A request that arrives, once its fields are known to be in order.
LEMMA BeginStep ==
    ASSUME IInv, NEW h \in Handlers, NEW r \in Request, Begin(h, r), r.pc = "read",
           RequestInv(r), CommittedInv(r), Unclaimed(h, r)
    PROVE  IInv'
<1>1. /\ req[h].pc = "idle" /\ req' = [req EXCEPT ![h] = r] /\ served' = served + 1
      /\ UNCHANGED <<order, invoice, billing, lock, drifted>>
  BY DEF Begin
<1>2. served' \in Nat
  BY <1>1 DEF IInv, TypeOK
<1> QED  BY <1>1, <1>2, RequestStep

LEMMA IdleRequest ==
    /\ Idle \in Request /\ Idle.op = "none" /\ Idle.pc = "idle" /\ Idle.seen = NoOrder
    /\ Idle.order = None /\ NoOrder \in OrderRow /\ NoOrder.status = "absent"
<1>1. NoOrder \in OrderRow
  BY DEF NoOrder, OrderRow, Approvals
<1> QED  BY <1>1 DEF Idle, Request, OpNames, NoOrder

LEMMA OnOrderType ==
    ASSUME IInv, NEW o \in Orders, NEW op \in OpNames
    PROVE  /\ OnOrder(op, o) \in Request
           /\ OnOrder(op, o).op = op /\ OnOrder(op, o).pc = "read"
           /\ OnOrder(op, o).order = o /\ OnOrder(op, o).seen = order[o]
           /\ order[o] \in OrderRow
<1>1. order[o] \in OrderRow
  BY DEF IInv, TypeOK
<1> QED  BY <1>1, IdleRequest DEF OnOrder, Request

LEMMA LinesTotal ==
    ASSUME NEW lines \in [Items -> Nat]
    PROVE  Total(lines) \in Nat
BY RowsAssumption, TotalType DEF Amounts

\* Requests on an order that is there and that insert nothing but billing rows.
LEMMA BeginOnOrder ==
    ASSUME IInv, NEW h \in Handlers, NEW o \in Orders, NEW r \in Request, Begin(h, r),
           r.op \in {"approve", "reject", "resolve", "billing_open"},
           r.pc = "read", r.order = o, order[o].status # "absent",
           r.op = "resolve" => r.line \in Items,
           r.op = "billing_open" => r.bill \in Bills
    PROVE  IInv'
<1>1. RequestInv(r) /\ CommittedInv(r) /\ Unclaimed(h, r)
  BY DEF RequestInv, CommittedInv, Unclaimed, OrderOps, InvoiceMakers
<1> QED  BY <1>1, BeginStep

LEMMA BeginCreateStep ==
    ASSUME IInv, NEW h \in Handlers, NEW o \in Orders, NEW lines \in [Items -> Prices],
           NEW pending \in SUBSET Items, NEW approval \in Approvals,
           BeginCreate(h, o, lines, pending, approval)
    PROVE  IInv'
<1> DEFINE new == [status |-> "recibido", approval |-> approval, lines |-> lines,
                   pending |-> pending, total |-> Total(lines), tracking |-> FALSE]
           r == [OnOrder("create", o) EXCEPT !.seen = new]
<1>1. new \in OrderRow
  <2>1. lines \in [Items -> Nat]
    BY MoneyAssumption
  <2> QED  BY <2>1, LinesTotal DEF OrderRow, Statuses
<1>2. /\ r \in Request /\ r.op = "create" /\ r.pc = "read" /\ r.order = o
      /\ r.seen = new
  <2>1. PICK q \in Request : q = OnOrder("create", o) /\ q.op = "create" /\ q.pc = "read" /\ q.order = o
    BY OnOrderType DEF OpNames
  <2>2. r = [q EXCEPT !.seen = new]
    BY <2>1
  <2> HIDE DEF r, new
  <2> QED  BY <1>1, <2>1, <2>2 DEF Request
<1>3. /\ Begin(h, r) /\ order[o] = NoOrder
      /\ \A g \in Handlers : req[g].op = "create" => req[g].order # o
  BY DEF BeginCreate
<1>4. new.status = "recibido"
  OBVIOUS
<1> HIDE DEF r, new
<1>5. RequestInv(r) /\ CommittedInv(r) /\ Unclaimed(h, r)
  BY <1>2, <1>3, <1>4, IdleRequest DEF RequestInv, CommittedInv, Unclaimed, OrderOps, InvoiceMakers
<1> QED  BY <1>2, <1>3, <1>5, BeginStep
LEMMA BeginApproveStep ==
    ASSUME IInv, NEW h \in Handlers, NEW o \in Orders, BeginApprove(h, o)
    PROVE  IInv'
<1>1. PICK q \in Request :
         q = OnOrder("approve", o) /\ q.op = "approve" /\ q.pc = "read" /\ q.order = o
  BY OnOrderType DEF OpNames
<1> DEFINE r == [q EXCEPT !.amount = order[o].total]
<1>2. order[o].total \in Nat
  BY OnOrderType DEF OpNames, OrderRow
<1>3. r \in Request /\ r.op = "approve" /\ r.pc = "read" /\ r.order = o
  BY <1>1, <1>2 DEF Request
<1>4. Begin(h, r) /\ order[o].status # "absent"
  BY <1>1 DEF BeginApprove
<1> HIDE DEF r
<1> QED  BY <1>3, <1>4, BeginOnOrder

LEMMA BeginRejectStep ==
    ASSUME IInv, NEW h \in Handlers, NEW o \in Orders, BeginReject(h, o)
    PROVE  IInv'
<1>1. PICK q \in Request :
         q = OnOrder("reject", o) /\ q.op = "reject" /\ q.pc = "read" /\ q.order = o
  BY OnOrderType DEF OpNames
<1> QED  BY <1>1, BeginOnOrder DEF BeginReject

LEMMA BeginBillingStep ==
    ASSUME IInv, NEW h \in Handlers, NEW o \in Orders, NEW b \in Bills, NEW direct \in BOOLEAN,
           BeginBilling(h, o, b, direct)
    PROVE  IInv'
<1>1. PICK q \in Request :
         q = OnOrder("billing_open", o) /\ q.op = "billing_open" /\ q.pc = "read" /\ q.order = o
  BY OnOrderType DEF OpNames
<1> DEFINE r == [q EXCEPT !.bill = b]
<1>2. r \in Request /\ r.op = "billing_open" /\ r.pc = "read" /\ r.order = o /\ r.bill = b
  BY <1>1 DEF Request
<1>3. Begin(h, r) /\ order[o].status # "absent"
  BY <1>1 DEF BeginBilling
<1> HIDE DEF r
<1> QED  BY <1>2, <1>3, BeginOnOrder

LEMMA BeginResolveStep ==
    ASSUME IInv, NEW h \in Handlers, NEW o \in Orders, NEW k \in Items, NEW price \in Prices,
           BeginResolve(h, o, k, price)
    PROVE  IInv'
<1> DEFINE lines == [order[o].lines EXCEPT ![k] = price]
<1>1. PICK q \in Request :
         q = OnOrder("resolve", o) /\ q.op = "resolve" /\ q.pc = "read" /\ q.order = o
  BY OnOrderType DEF OpNames
<1>2. order[o] \in OrderRow /\ order[o].lines \in [Items -> Nat] /\ price \in Nat
  BY OnOrderType, MoneyAssumption DEF OpNames, OrderRow
<1>3. lines \in [Items -> Nat]
  BY <1>2
<1> HIDE DEF lines
<1>4. Total(lines) \in Nat
  BY <1>3, LinesTotal
<1> DEFINE seen == [q.seen EXCEPT !.lines = lines]
           r == [q EXCEPT !.line = k, !.seen = seen, !.amount = Total(lines)]
<1>5. seen \in OrderRow
  BY <1>3 DEF Request, OrderRow
<1>6. r = [q EXCEPT !.line = k, !.seen.lines = lines, !.amount = Total(lines)]
  BY DEF Request
<1> HIDE DEF seen
<1>7. r \in Request /\ r.op = "resolve" /\ r.pc = "read" /\ r.order = o /\ r.line = k
  BY <1>1, <1>4, <1>5 DEF Request
<1> HIDE DEF r
<1>8. Begin(h, r) /\ order[o].status # "absent"
  BY <1>1, <1>6 DEF BeginResolve, lines
<1> QED  BY <1>7, <1>8, BeginOnOrder

LEMMA BeginAdvanceStep ==
    ASSUME IInv, NEW h \in Handlers, NEW o \in Orders, BeginAdvance(h, o)
    PROVE  IInv'
<1> DEFINE to == NextStatus[order[o].status]
<1>1. PICK q \in Request :
         q = OnOrder("advance", o) /\ q.op = "advance" /\ q.pc = "read" /\ q.order = o
  BY OnOrderType DEF OpNames
<1>2. order[o].total \in Nat
  BY OnOrderType DEF OpNames, OrderRow
<1>3. /\ order[o].status \in Statuses /\ order[o].status # "absent" /\ to \in ExposureStatuses
      /\ order[o].status \in DOMAIN NextStatus
      /\ to # "orden_facturacion" => order[o].status \in ExposureStatuses
  BY DEF BeginAdvance, NextStatus, ExposureStatuses, Statuses
<1> HIDE DEF to
<1> DEFINE r == [q EXCEPT !.to = to, !.amount = order[o].total]
<1>4. /\ r \in Request /\ r.op = "advance" /\ r.pc = "read" /\ r.order = o /\ r.to = to
      /\ r.seen = q.seen
  BY <1>1, <1>2, <1>3 DEF Request, ExposureStatuses
<1>5. q.seen = order[o]
  BY <1>1 DEF OnOrder, Idle
<1>6. r.seen.status \in DOMAIN NextStatus /\ to = NextStatus[r.seen.status]
  BY <1>3, <1>4, <1>5 DEF to
<1>7. Begin(h, r)
  BY <1>1 DEF BeginAdvance, to
<1> HIDE DEF r
<1>8. RequestInv(r) /\ CommittedInv(r) /\ Unclaimed(h, r)
  BY <1>3, <1>4, <1>6 DEF RequestInv, CommittedInv, Unclaimed, OrderOps, InvoiceMakers
<1> QED  BY <1>4, <1>7, <1>8, BeginStep

LEMMA BeginInvoiceOrderStep ==
    ASSUME IInv, NEW h \in Handlers, NEW o \in Orders, NEW i \in Invoices,
           BeginInvoiceOrder(h, o, i)
    PROVE  IInv'
<1>1. PICK q \in Request : /\ q = OnOrder("invoice_order", o) /\ q.op = "invoice_order"
                           /\ q.pc = "read" /\ q.order = o
  BY OnOrderType DEF OpNames
<1>2. order[o].total \in Nat /\ order[o].lines \in [Items -> Nat]
  BY OnOrderType DEF OpNames, OrderRow
<1>3. InvoiceAmount(order[o]) \in Nat
  BY <1>2, LinesTotal DEF InvoiceAmount
<1> DEFINE r == [q EXCEPT !.invoice = i, !.amount = InvoiceAmount(order[o])]
<1>4. /\ r \in Request /\ r.op = "invoice_order" /\ r.pc = "read" /\ r.order = o
      /\ r.invoice = i
  BY <1>1, <1>3 DEF Request
<1>5. /\ Begin(h, r) /\ order[o].status \in InvoiceableStatuses /\ invoice[i] = NoInvoice
      /\ \A g \in Handlers : req[g].invoice # i
  BY <1>1 DEF BeginInvoiceOrder, FreshInvoices
<1> HIDE DEF r
<1>6. RequestInv(r) /\ CommittedInv(r) /\ Unclaimed(h, r)
  BY <1>4, <1>5 DEF RequestInv, CommittedInv, Unclaimed, OrderOps, InvoiceMakers,
                    InvoiceableStatuses, ExposureStatuses, Statuses
<1> QED  BY <1>4, <1>5, <1>6, BeginStep

LEMMA BeginInvoiceCreateStep ==
    ASSUME IInv, NEW h \in Handlers, NEW o \in Orders \cup {None}, NEW i \in Invoices,
           NEW amount \in Prices, BeginInvoiceCreate(h, o, i, amount)
    PROVE  IInv'
<1> DEFINE r == [Idle EXCEPT !.op = "invoice_create", !.pc = "read", !.order = o,
                             !.invoice = i, !.amount = amount]
<1>1. /\ r \in Request /\ r.op = "invoice_create" /\ r.pc = "read" /\ r.order = o
      /\ r.invoice = i
  BY IdleRequest, MoneyAssumption DEF Request, OpNames
<1>2. /\ Begin(h, r) /\ invoice[i] = NoInvoice /\ \A g \in Handlers : req[g].invoice # i
  BY DEF BeginInvoiceCreate, FreshInvoices
<1> HIDE DEF r
<1>3. RequestInv(r) /\ CommittedInv(r) /\ Unclaimed(h, r)
  BY <1>1, <1>2 DEF RequestInv, CommittedInv, Unclaimed, OrderOps, InvoiceMakers
<1> QED  BY <1>1, <1>2, <1>3, BeginStep

\* A status write of an invoice, by hand or by a payment.
LEMMA BeginInvoiceWriteStep ==
    ASSUME IInv, NEW h \in Handlers, NEW i \in Invoices, NEW to \in InvoiceStatuses,
           BeginInvoiceStatus(h, i, to) \/ BeginSettle(h, i, to)
    PROVE  IInv'
<1>1. PICK op \in {"invoice_status", "settle"} :
        Begin(h, [Idle EXCEPT !.op = op, !.pc = "read", !.invoice = i, !.to = to])
  BY DEF BeginInvoiceStatus, BeginSettle
<1>2. invoice[i].status # "absent"
  BY DEF BeginInvoiceStatus, BeginSettle, IInv, TypeOK
<1> DEFINE r == [Idle EXCEPT !.op = op, !.pc = "read", !.invoice = i, !.to = to]
<1>3. /\ r \in Request /\ r.op = op /\ r.pc = "read" /\ r.invoice = i /\ r.to = to
  BY IdleRequest DEF Request, OpNames
<1> HIDE DEF r
<1>4. RequestInv(r) /\ CommittedInv(r) /\ Unclaimed(h, r)
  BY <1>2, <1>3 DEF RequestInv, CommittedInv, Unclaimed, OrderOps, InvoiceMakers
<1> QED  BY <1>1, <1>3, <1>4, BeginStep DEF r

LEMMA BeginBillingSetStep ==
    ASSUME IInv, NEW h \in Handlers, NEW b \in Bills, NEW to \in {"procesada", "rechazada"},
           BeginBillingSet(h, b, to)
    PROVE  IInv'
<1> DEFINE r == [Idle EXCEPT !.op = "billing_set", !.pc = "read", !.bill = b, !.to = to]
<1>1. /\ r \in Request /\ r.op = "billing_set" /\ r.pc = "read" /\ r.bill = b /\ r.to = to
  BY IdleRequest DEF Request, OpNames
<1>2. Begin(h, r) /\ billing[b].order \in Orders
  BY DEF BeginBillingSet, IInv, BillInv
<1> HIDE DEF r
<1>3. RequestInv(r) /\ CommittedInv(r) /\ Unclaimed(h, r)
  BY <1>1, <1>2 DEF RequestInv, CommittedInv, Unclaimed, OrderOps, InvoiceMakers
<1> QED  BY <1>1, <1>2, <1>3, BeginStep
LEMMA LogisticsStep ==
    ASSUME IInv, NEW o \in Orders, NEW tracking \in BOOLEAN, UpdateLogistics(o, tracking)
    PROVE  IInv'
<1> DEFINE row == [order[o] EXCEPT !.tracking = tracking]
<1>0. order \in [Orders -> OrderRow] /\ order[o] \in OrderRow
  BY DEF IInv, TypeOK
<1>1. row \in OrderRow /\ row.status = order[o].status /\ row.total = order[o].total
  BY <1>0 DEF OrderRow
<1>2. /\ order' = [order EXCEPT ![o] = row] /\ served' \in Nat
      /\ UNCHANGED <<invoice, billing, lock, req, drifted>>
  BY <1>0 DEF UpdateLogistics, IInv, TypeOK
<1> HIDE DEF row
<1>3. /\ order' \in [Orders -> OrderRow]
      /\ \A p \in Orders : order'[p].status = order[p].status /\ order'[p].total = order[p].total
  BY <1>0, <1>1, <1>2
<1>4. TypeOK'
  BY <1>2, <1>3 DEF IInv, TypeOK
<1>5. ASSUME NEW g \in Handlers PROVE RequestInv(req[g])' /\ CommittedInv(req[g])'
  <2>1. RequestInv(req[g])'
    BY <1>2, <1>3, RequestType DEF RequestInv, NeedsCredit, OrderOps
  <2>2. CommittedInv(req[g]) /\ RequestInv(req[g]) /\ req'[g] = req[g]
    BY <1>2, RequestType
  <2>3. CommittedInv(req[g])'
    <3> SUFFICES ASSUME \/ req[g].op = "invoice_order"
                        \/ req[g].op = "advance" /\ req[g].to # "orden_facturacion"
                        \/ req[g].pc = "marked" /\ req[g].seen.status = "orden_facturacion"
                 PROVE  order'[req[g].order].status \in ExposureStatuses
      BY <2>2 DEF CommittedInv
    <3>1. req[g].order \in Orders
      BY <2>2 DEF RequestInv, OrderOps
    <3> QED  BY <1>3, <2>2, <3>1 DEF CommittedInv
  <2> QED  BY <2>1, <2>3
<1>6. FreshInv' /\ BillInv' /\ LockInv' /\ OneActiveInvoice'
  BY <1>2 DEF FreshInv, BillInv, LockInv, OneActiveInvoice, IInv
<1>7. ASSUME NEW X PROVE Exposure(X)' <= Exposure(X)
  BY <1>2, <1>3, <1>4, OrderWrite DEF IInv, TypeOK, OrderRow
<1>8. Summable /\ Summable'
  BY <1>4, ExposureType, ExposureTypeNext DEF IInv
<1>9. CreditWithinLimit'
  <2>1. Exposure({})' <= Exposure({}) /\ Exposure({}) \in Nat /\ Exposure({})' \in Nat
    BY <1>7, <1>8 DEF Summable
  <2> QED  BY <1>2, <2>1, MoneyAssumption DEF CreditWithinLimit, IInv
<1>10. CoveredInv'
  <2> SUFFICES ASSUME NEW g \in Handlers, req[g].pc = "held", Limit > 0, ~drifted
               PROVE  Exposure(Own(req[g]))' + req'[g].amount <= Limit
    BY <1>2 DEF CoveredInv
  <2>1. PICK X : X = Own(req[g])
    OBVIOUS
  <2>2. Own(req[g])' = X /\ req'[g] = req[g]
    BY <1>2, <2>1 DEF Own
  <2>3. Exposure(X) + req[g].amount <= Limit
    BY <2>1 DEF IInv, CoveredInv
  <2>4. Exposure(X)' <= Exposure(X) /\ Exposure(X) \in Nat /\ Exposure(X)' \in Nat
    BY <1>7, <1>8 DEF Summable
  <2> QED  BY <2>2, <2>3, <2>4, RequestType, MoneyAssumption DEF Exposure, PendingAmounts
<1> QED  BY <1>4, <1>5, <1>6, <1>9, <1>10 DEF IInv
-----------------------------------------------------------------------------
(***************************************************************************)
(* The invariant.                                                          *)
(***************************************************************************)
LEMMA InitInv == Init => IInv
<1> SUFFICES ASSUME Init PROVE IInv
  OBVIOUS
<1>1. StartRows \subseteq OrderRow
  <2> SUFFICES ASSUME NEW r \in StartRows PROVE r \in OrderRow
    OBVIOUS
  <2>1. CASE r = NoOrder
    BY <2>1, IdleRequest
  <2>2. CASE \E s \in StartStatuses \cap Statuses, a \in Approvals, l \in [Items -> Prices],
                p \in SUBSET Items : r = StartRow(s, a, l, p)
    <3>1. PICK s \in Statuses, a \in Approvals, l \in [Items -> Prices], p \in SUBSET Items :
              r = StartRow(s, a, l, p)
      BY <2>2
    <3>2. l \in [Items -> Nat] /\ Total(l) \in Nat
      BY <3>1, MoneyAssumption, LinesTotal
    <3>3. (Rank[s] >= Rank["en_transito"]) \in BOOLEAN
      OBVIOUS
    <3> QED  BY <3>1, <3>2, <3>3 DEF StartRow, OrderRow
  <2> QED  BY <2>1, <2>2 DEF StartRows
<1>2. TypeOK
  BY <1>1, IdleRequest DEF Init, TypeOK, NoInvoice, InvoiceRow, NoBill, BillRow
<1>3. \A h \in Handlers : RequestInv(req[h]) /\ CommittedInv(req[h])
  BY IdleRequest DEF Init, RequestInv, CommittedInv, OrderOps, InvoiceMakers, NoOrder
<1>4. FreshInv /\ BillInv /\ LockInv
  BY IdleRequest, NoneIsNobody DEF Init, FreshInv, BillInv, LockInv, InvoiceMakers, NoBill
<1>5. CoveredInv
  BY IdleRequest DEF Init, CoveredInv
<1>6. OneActiveInvoice
  BY DEF Init, OneActiveInvoice, NoInvoice
<1>7. CreditWithinLimit
  BY <1>2, ExposureType, MoneyAssumption DEF Init, WithinLimit, CreditWithinLimit, Summable
<1> QED  BY <1>2, <1>3, <1>4, <1>5, <1>6, <1>7 DEF IInv

LEMMA NextInv == IInv /\ [Next]_vars => IInv'
<1> SUFFICES ASSUME IInv, [Next]_vars PROVE IInv'
  OBVIOUS
<1>1. ASSUME NEW h \in Handlers, Arrive(h) PROVE IInv'
  <2>1. ASSUME NEW o \in Orders, NEW lines \in [Items -> Prices], NEW pending \in SUBSET Items,
               NEW approval \in Approvals, BeginCreate(h, o, lines, pending, approval)
        PROVE  IInv'
    BY <2>1, BeginCreateStep
  <2>2. ASSUME NEW o \in Orders, BeginApprove(h, o) \/ BeginReject(h, o) \/ BeginAdvance(h, o)
        PROVE  IInv'
    BY <2>2, BeginApproveStep, BeginRejectStep, BeginAdvanceStep
  <2>3. ASSUME NEW o \in Orders, NEW k \in Items, NEW price \in Prices, BeginResolve(h, o, k, price)
        PROVE  IInv'
    BY <2>3, BeginResolveStep
  <2>4. ASSUME NEW o \in Orders, NEW i \in Invoices, BeginInvoiceOrder(h, o, i) PROVE IInv'
    BY <2>4, BeginInvoiceOrderStep
  <2>5. ASSUME NEW o \in Orders, NEW b \in Bills, NEW direct \in BOOLEAN,
               BeginBilling(h, o, b, direct)
        PROVE  IInv'
    BY <2>5, BeginBillingStep
  <2>6. ASSUME NEW i \in Invoices, NEW o \in Orders \cup {None}, NEW amount \in Prices,
               BeginInvoiceCreate(h, o, i, amount)
        PROVE  IInv'
    BY <2>6, BeginInvoiceCreateStep
  <2>7. ASSUME NEW i \in Invoices, NEW to \in InvoiceStatuses,
               BeginInvoiceStatus(h, i, to) \/ BeginSettle(h, i, to)
        PROVE  IInv'
    BY <2>7, BeginInvoiceWriteStep
  <2>8. ASSUME NEW b \in Bills, NEW to \in {"procesada", "rechazada"}, BeginBillingSet(h, b, to)
        PROVE  IInv'
    BY <2>8, BeginBillingSetStep
  <2> QED  BY <1>1, <2>1, <2>2, <2>3, <2>4, <2>5, <2>6, <2>7, <2>8 DEF Arrive
<1>2. ASSUME NEW h \in Handlers, Serve(h) PROVE IInv'
  <2>1. CASE TakeLock(h) \/ MarkBilling(h)
    BY <2>1, TakeLockStep, MarkBillingStep
  <2>2. CASE RefuseCredit(h) \/ RefuseDuplicate(h)
    BY <2>2, RollbackStep DEF RefuseCredit, RefuseDuplicate
  <2>3. CASE \/ CommitCreate(h) \/ CommitApprove(h) \/ CommitReject(h)
             \/ CommitAdvance(h) \/ CommitResolve(h)
    BY <2>3, CreateStep, ApproveStep, RejectStep, AdvanceStep, ResolveStep
  <2>4. CASE \/ CommitInvoiceOrder(h) \/ CommitInvoiceCreate(h)
             \/ CommitInvoiceStatus(h) \/ CommitSettle(h)
    BY <2>4, InvoiceOrderStep, InvoiceCreateStep, InvoiceWriteStep
       DEF CommitInvoiceStatus, CommitSettle
  <2>5. CASE CommitBilling(h) \/ CommitBillingSet(h)
    BY <2>5, BillingStep, BillingSetStep
  <2> QED  BY <1>2, <2>1, <2>2, <2>3, <2>4, <2>5 DEF Serve
<1>3. ASSUME NEW h \in Handlers, Rollback(h) PROVE IInv'
  BY <1>3, RollbackStep DEF Rollback
<1>4. ASSUME NEW o \in Orders, NEW tracking \in BOOLEAN, UpdateLogistics(o, tracking)
      PROVE  IInv'
  BY <1>4, LogisticsStep
<1>5. CASE UNCHANGED vars
  BY <1>5 DEF vars, IInv, TypeOK, RequestInv, CommittedInv, NeedsCredit, FreshInv, BillInv,
              LockInv, CoveredInv, OneActiveInvoice, CreditWithinLimit, Exposure, Own,
              OpenAmounts, OpenInvoices, PendingAmounts, PendingOrders, ActiveInvoices
<1> QED  BY <1>1, <1>2, <1>3, <1>4, <1>5 DEF Next, Quiet

THEOREM Invariant == Spec => []IInv
<1> QED  BY InitInv, NextInv, PTL DEF Spec

\* The tables and the requests keep their shape in every behaviour.
THEOREM TypeCorrect == Spec => []TypeOK
<1>1. IInv => TypeOK
  BY DEF IInv
<1> QED  BY <1>1, Invariant, PTL

\* However the requests of a customer interleave, the row lock of
\* assertCreditLimit keeps the exposure within the limit, for any number of
\* orders, invoices and requests, as long as no unchecked write raised it.
THEOREM CreditSafe == Spec => []CreditWithinLimit
<1>1. IInv => CreditWithinLimit
  BY DEF IInv
<1> QED  BY <1>1, Invariant, PTL

\* No order ever has two invoices that are not annulled.
THEOREM InvoiceUnique == Spec => []OneActiveInvoice
<1>1. IInv => OneActiveInvoice
  BY DEF IInv
<1> QED  BY <1>1, Invariant, PTL
-----------------------------------------------------------------------------
(***************************************************************************)
(* Every request is answered.                                              *)
(***************************************************************************)

\* A request that updated billing request b and has not committed.
Marks(g, b) == req[g].pc = "marked" /\ req[g].bill = b

Clear(b) == \A g \in Handlers : ~Marks(g, b)

\* One request at a time is past the update of a billing request.
OneMarker == \A g, h \in Handlers, b \in Bills \cup {None} : Marks(g, b) /\ Marks(h, b) => g = h

\* Where a request is after it has waited.
Past == {"held", "marked", "idle"}

\* A step of h touches no other request.
Alone(h) == \A g \in Handlers \ {h} : req'[g] = req[g]

\* A step of a request: its answer, the customer row or the row of its billing request.
LEMMA Serving ==
    ASSUME TypeOK, NEW h \in Handlers, Serve(h) \/ Rollback(h)
    PROVE  /\ Alone(h)
           /\ \/ Finish(h)
              \/ /\ TakeLock(h) /\ req[h].pc = "read" /\ lock = None /\ lock' = h
                 /\ req'[h].pc = "held"
              \/ /\ MarkBilling(h) /\ req[h].pc = "read" /\ lock' = lock
                 /\ req'[h].pc = "marked" /\ req'[h].bill = req[h].bill /\ Clear(req[h].bill)
<1>1. CASE TakeLock(h)
  BY <1>1 DEF TakeLock, TypeOK, Alone
<1>2. CASE MarkBilling(h)
  <2>1. req[h].pc = "read"
    BY <1>2 DEF MarkBilling, Ready, NeedsCredit
  <2> QED  BY <1>2, <2>1 DEF MarkBilling, TypeOK, Alone, Clear, Marks
<1>3. CASE ~TakeLock(h) /\ ~MarkBilling(h)
  <2>1. Finish(h)
    BY <1>3 DEF Serve, Rollback, RefuseCredit, CommitCreate, CommitApprove, CommitReject,
         CommitAdvance, CommitResolve, CommitInvoiceOrder, CommitInvoiceCreate,
         CommitInvoiceStatus, CommitSettle, CommitInvoiceWrite, RefuseDuplicate,
         CommitBilling, CommitBillingSet
  <2> QED  BY <2>1 DEF Finish, TypeOK, Alone
<1> QED  BY <1>1, <1>2, <1>3

\* A request that arrives was idle and has read its rows.
LEMMA Arriving ==
    ASSUME IInv, NEW h \in Handlers, Arrive(h)
    PROVE  Alone(h) /\ req[h].pc = "idle" /\ req'[h].pc = "read" /\ lock' = lock
<1> DEFINE Arrived == Alone(h) /\ req[h].pc = "idle" /\ req'[h].pc = "read" /\ lock' = lock
<1>1. ASSUME NEW r, Begin(h, r), r.pc = "read" PROVE Arrived
  BY <1>1 DEF Begin, IInv, TypeOK, Alone
<1>2. ASSUME NEW o \in Orders PROVE
        /\ \A seen : [OnOrder("create", o) EXCEPT !.seen = seen].pc = "read"
        /\ \A n : [OnOrder("approve", o) EXCEPT !.amount = n].pc = "read"
        /\ OnOrder("reject", o).pc = "read"
        /\ \A to, n : [OnOrder("advance", o) EXCEPT !.to = to, !.amount = n].pc = "read"
        /\ \A k, lines, n : [OnOrder("resolve", o) EXCEPT !.line = k, !.seen.lines = lines,
                                                        !.amount = n].pc = "read"
        /\ \A i, n : [OnOrder("invoice_order", o) EXCEPT !.invoice = i, !.amount = n].pc = "read"
        /\ \A b : [OnOrder("billing_open", o) EXCEPT !.bill = b].pc = "read"
  <2>1. \A op \in OpNames : OnOrder(op, o) \in Request /\ OnOrder(op, o).pc = "read"
    BY OnOrderType
  <2> QED  BY <2>1 DEF Request, OpNames
<1>3. /\ \A o, i, n : [Idle EXCEPT !.op = "invoice_create", !.pc = "read", !.order = o,
                                   !.invoice = i, !.amount = n].pc = "read"
      /\ \A op, i, to : [Idle EXCEPT !.op = op, !.pc = "read", !.invoice = i, !.to = to].pc = "read"
      /\ \A b, to : [Idle EXCEPT !.op = "billing_set", !.pc = "read", !.bill = b, !.to = to].pc = "read"
  BY DEF Idle
<1> HIDE DEF Arrived
<1>4. ASSUME NEW o \in Orders, NEW k, NEW price, BeginResolve(h, o, k, price) PROVE Arrived
  <2> DEFINE lines == [order[o].lines EXCEPT ![k] = price]
             r == [OnOrder("resolve", o) EXCEPT !.line = k, !.seen.lines = lines,
                                                !.amount = Total(lines)]
  <2>1. Begin(h, r)
    BY <1>4 DEF BeginResolve
  <2>2. r.pc = "read"
    BY <1>2
  <2> HIDE DEF r
  <2> QED  BY <1>1, <2>1, <2>2
<1>5. ASSUME NEW o \in Orders, NEW lines, NEW pending, NEW approval,
             BeginCreate(h, o, lines, pending, approval)
      PROVE  Arrived
  <2>1. PICK seen : Begin(h, [OnOrder("create", o) EXCEPT !.seen = seen])
    BY <1>5 DEF BeginCreate
  <2> DEFINE r == [OnOrder("create", o) EXCEPT !.seen = seen]
  <2>2. Begin(h, r) /\ r.pc = "read"
    BY <1>2, <2>1
  <2> HIDE DEF r
  <2> QED  BY <1>1, <2>2
<1>6. ASSUME NEW o \in Orders, BeginApprove(h, o) \/ BeginReject(h, o) \/ BeginAdvance(h, o)
      PROVE  Arrived
  <2> DEFINE a == [OnOrder("approve", o) EXCEPT !.amount = order[o].total]
             b == OnOrder("reject", o)
             c == [OnOrder("advance", o) EXCEPT !.to = NextStatus[order[o].status],
                                                !.amount = order[o].total]
  <2>1. Begin(h, a) \/ Begin(h, b) \/ Begin(h, c)
    BY <1>6 DEF BeginApprove, BeginReject, BeginAdvance
  <2>2. a.pc = "read" /\ b.pc = "read" /\ c.pc = "read"
    BY <1>2
  <2> HIDE DEF a, b, c
  <2> QED  BY <1>1, <2>1, <2>2
<1>7. ASSUME NEW o \in Orders, NEW i, NEW b, NEW direct,
             BeginInvoiceOrder(h, o, i) \/ BeginBilling(h, o, b, direct)
      PROVE  Arrived
  <2> DEFINE r == [OnOrder("invoice_order", o) EXCEPT !.invoice = i,
                                                      !.amount = InvoiceAmount(order[o])]
             q == [OnOrder("billing_open", o) EXCEPT !.bill = b]
  <2>1. Begin(h, r) \/ Begin(h, q)
    BY <1>7 DEF BeginInvoiceOrder, BeginBilling
  <2>2. r.pc = "read" /\ q.pc = "read"
    BY <1>2
  <2> HIDE DEF r, q
  <2> QED  BY <1>1, <2>1, <2>2
<1>8. ASSUME NEW i, NEW o, NEW n, BeginInvoiceCreate(h, o, i, n) PROVE Arrived
  <2> DEFINE r == [Idle EXCEPT !.op = "invoice_create", !.pc = "read", !.order = o,
                               !.invoice = i, !.amount = n]
  <2>1. Begin(h, r) /\ r.pc = "read"
    BY <1>3, <1>8 DEF BeginInvoiceCreate
  <2> HIDE DEF r
  <2> QED  BY <1>1, <2>1
<1>9. ASSUME NEW i, NEW b, NEW to,
             BeginInvoiceStatus(h, i, to) \/ BeginSettle(h, i, to) \/ BeginBillingSet(h, b, to)
      PROVE  Arrived
  <2> DEFINE p == [Idle EXCEPT !.op = "invoice_status", !.pc = "read", !.invoice = i, !.to = to]
             q == [Idle EXCEPT !.op = "settle", !.pc = "read", !.invoice = i, !.to = to]
             r == [Idle EXCEPT !.op = "billing_set", !.pc = "read", !.bill = b, !.to = to]
  <2>1. Begin(h, p) \/ Begin(h, q) \/ Begin(h, r)
    BY <1>9 DEF BeginInvoiceStatus, BeginSettle, BeginBillingSet
  <2>2. p.pc = "read" /\ q.pc = "read" /\ r.pc = "read"
    BY <1>3
  <2> HIDE DEF p, q, r
  <2> QED  BY <1>1, <2>1, <2>2
<1>10. Arrived
  BY <1>4, <1>5, <1>6, <1>7, <1>8, <1>9 DEF Arrive
<1> QED  BY <1>10 DEF Arrived

\* No other step touches the requests or the customer row.
LEMMA OtherSteps ==
    ASSUME [Next]_vars, \A h \in Handlers : ~Arrive(h) /\ ~Serve(h) /\ ~Rollback(h)
    PROVE  UNCHANGED <<req, lock>>
BY DEF Next, UpdateLogistics, Quiet, vars

\* MarkBilling waits for the request that has the row.
LEMMA StepKeepsOneMarker == IInv /\ OneMarker /\ [Next]_vars => OneMarker'
<1> SUFFICES ASSUME IInv, OneMarker, [Next]_vars PROVE OneMarker'
  OBVIOUS
<1>1. ASSUME NEW h \in Handlers, Alone(h), req'[h].pc # "marked" PROVE OneMarker'
  BY <1>1 DEF OneMarker, Marks, Alone
<1>2. ASSUME NEW h \in Handlers, Serve(h) \/ Rollback(h) PROVE OneMarker'
  <2>1. CASE Finish(h)
    BY <1>1, <1>2, <2>1, Serving DEF Finish, Idle, IInv, TypeOK
  <2>2. CASE TakeLock(h) /\ req'[h].pc = "held"
    BY <1>1, <1>2, <2>2, Serving DEF IInv
  <2>3. CASE req'[h].pc = "marked" /\ req'[h].bill = req[h].bill /\ Clear(req[h].bill) /\ Alone(h)
    BY <2>3 DEF OneMarker, Marks, Alone, Clear
  <2> QED  BY <1>2, <2>1, <2>2, <2>3, Serving DEF IInv
<1>3. ASSUME NEW h \in Handlers, Arrive(h) PROVE OneMarker'
  BY <1>1, <1>3, Arriving DEF IInv
<1>4. CASE UNCHANGED <<req, lock>>
  BY <1>4 DEF OneMarker, Marks
<1> QED  BY <1>2, <1>3, <1>4, OtherSteps

\* Two requests never both hold the row of a billing request.
LEMMA BillingHeldByOne == Spec => []OneMarker
<1>1. Init => OneMarker
  BY DEF Init, OneMarker, Marks, Idle
<1> QED  BY <1>1, StepKeepsOneMarker, Invariant, PTL DEF Spec

\* The way of a request: from its reads to a lock or to its answer, from a lock to its
\* answer; its own step takes it on.
LEMMA Moving ==
    ASSUME IInv, [Next]_vars, NEW h \in Handlers
    PROVE  /\ req[h].pc = "read" => \/ req'[h] = req[h]
                                    \/ req'[h].pc \in Past
           /\ req[h].pc \in {"held", "marked"} => req'[h] = req[h] \/ req'[h].pc = "idle"
           /\ Serve(h) => \/ req[h].pc = "read" /\ req'[h].pc \in Past
                          \/ req[h].pc \in {"held", "marked"} /\ req'[h].pc = "idle"
                          \/ req'[h].pc = "idle" /\ req[h].pc = "idle"
<1>0. TypeOK /\ Idle.pc = "idle" /\ req[h].pc \in {"idle", "read", "held", "marked"}
  BY DEF IInv, TypeOK, Request, Idle
<1>1. CASE Serve(h) \/ Rollback(h)
  <2>1. Finish(h) => req'[h].pc = "idle"
    BY <1>0 DEF Finish, TypeOK
  <2> QED  BY <1>0, <1>1, <2>1, Serving DEF Past
<1>2. CASE ~Serve(h) /\ ~Rollback(h)
  <2>1. ASSUME NEW g \in Handlers, g # h, Serve(g) \/ Rollback(g) PROVE req'[h] = req[h]
    BY <1>0, <2>1, Serving DEF Alone
  <2>2. ASSUME NEW g \in Handlers, g # h, Arrive(g) PROVE req'[h] = req[h]
    BY <1>0, <2>2, Arriving DEF Alone
  <2>3. Arrive(h) => req[h].pc = "idle"
    BY <1>0, Arriving
  <2> QED  BY <1>0, <1>2, <2>1, <2>2, <2>3, OtherSteps
<1> QED  BY <1>1, <1>2

\* The customer row passes through no hands but nobody's.
LEMMA LockMoving ==
    ASSUME IInv, [Next]_vars, NEW g \in Handlers, lock = g
    PROVE  /\ lock' = g \/ lock' = None
           /\ Serve(g) => lock' = None
<1>0. TypeOK /\ g # None /\ req[g].pc = "held"
  BY NoneIsNobody DEF IInv, LockInv
<1>1. ASSUME NEW h \in Handlers, Serve(h) \/ Rollback(h) PROVE lock' = g \/ lock' = None
  BY <1>0, <1>1, Serving DEF Finish
<1>2. Serve(g) => lock' = None
  BY <1>0, Serving DEF Finish
<1>3. ASSUME NEW h \in Handlers, Arrive(h) PROVE lock' = g
  BY <1>0, <1>3, Arriving
<1> QED  BY <1>1, <1>2, <1>3, OtherSteps

\* So does the row of a billing request.
LEMMA MarkMoving ==
    ASSUME IInv, OneMarker, [Next]_vars, NEW g \in Handlers, NEW b \in Bills, Marks(g, b)
    PROVE  /\ Marks(g, b)' \/ Clear(b)'
           /\ Serve(g) => Clear(b)'
<1>0. TypeOK /\ Idle.pc = "idle"
  BY DEF IInv, Idle
<1>1. \A h \in Handlers \ {g} : ~Marks(h, b)
  BY DEF OneMarker
<1>2. ASSUME NEW h \in Handlers, h # g, Serve(h) \/ Rollback(h) PROVE Marks(g, b)'
  BY <1>0, <1>2, Serving DEF Alone, Marks
<1>3. ASSUME NEW h \in Handlers, Arrive(h) PROVE Marks(g, b)'
  BY <1>0, <1>3, Arriving DEF Alone, Marks
<1>4. CASE Serve(g) \/ Rollback(g)
  <2>1. Finish(g) /\ Alone(g)
    BY <1>0, <1>4, Serving DEF Marks
  <2>2. req'[g].pc = "idle"
    BY <1>0, <2>1 DEF Finish, TypeOK
  <2> QED  BY <1>1, <2>1, <2>2 DEF Clear, Marks, Alone
<1>5. ASSUME UNCHANGED <<req, lock>> PROVE Marks(g, b)'
  BY <1>5 DEF Marks
<1>6. Serve(g) => Clear(b)'
  BY <1>4
<1> QED  BY <1>2, <1>3, <1>4, <1>5, <1>6, OtherSteps
-----------------------------------------------------------------------------
(***************************************************************************)
(* Under the fairness of FairSpec: a request with a lock is never blocked, *)
(* so it ends and lets the lock go; a lock that is free again and again is *)
(* granted, since a waiting request can then go on and Postgres does not   *)
(* pass it over for ever (SF).  ENABLED, SF and <> stand behind operators, *)
(* which only the temporal steps expand.                                   *)
(***************************************************************************)
Held(h) == req[h].pc = "held"
Marked(h) == req[h].pc = "marked"
Reads(h) == req[h].pc = "read" /\ req[h].op # "billing_set"
Sets(h, b) == req[h].pc = "read" /\ req[h].op = "billing_set" /\ req[h].bill = b
Out(h) == req[h].pc = "idle"

Working == FairSpec /\ []WaitsOnlyForRows

\* What a request does in every state.
Runs(h) == [](IInv /\ OneMarker /\ WaitsOnlyForRows) /\ [][Next]_vars /\ Diligent(h)

\* What a behaviour gives one request.
LEMMA Running == ASSUME NEW h \in Handlers PROVE Working => Runs(h)
<1>1. FairSpec => Spec /\ Diligent(h)
  BY DEF FairSpec, Fairness
<1>2. Spec => [](IInv /\ OneMarker) /\ [][Next]_vars
  BY Invariant, BillingHeldByOne, PTL DEF Spec
<1>3. Working => Spec /\ Diligent(h) /\ []WaitsOnlyForRows
  BY <1>1 DEF Working
<1> QED  BY <1>2, <1>3, PTL DEF Runs

\* A request that has a lock is answered.
LEMMA Locked ==
    ASSUME NEW h \in Handlers
    PROVE  Runs(h) => (Held(h) ~> Out(h)) /\ (Marked(h) ~> Out(h))
<1>1. WaitsOnlyForRows => (Held(h) \/ Marked(h) => CanGoOn(h))
  BY DEF WaitsOnlyForRows, Blocked, Held, Marked
<1>2. IInv /\ [Next]_vars => /\ Held(h) => Held(h)' \/ Out(h)'
                             /\ Marked(h) => Marked(h)' \/ Out(h)'
  BY Moving DEF Held, Marked, Out
<1>3. IInv /\ <<Serve(h)>>_vars => /\ Held(h) => Out(h)'
                                   /\ Marked(h) => Out(h)'
  <2>1. Serve(h) => Next
    BY DEF Next
  <2> QED  BY <2>1, Moving DEF Held, Marked, Out
<1>4. Runs(h) => (Held(h) ~> Out(h))
  BY <1>1, <1>2, <1>3, PTL DEF Runs, Diligent, CanGoOn
<1>5. Runs(h) => (Marked(h) ~> Out(h))
  BY <1>1, <1>2, <1>3, PTL DEF Runs, Diligent, CanGoOn
<1> QED  BY <1>4, <1>5

Unlocked == lock = None
FreesLock(g) == [](lock = g => <>Unlocked)

\* A request that has the customer row lets it go.
LEMMA HolderLetsGo == ASSUME NEW g \in Handlers PROVE Working => FreesLock(g)
<1> DEFINE has == lock = g
<1>1. IInv /\ WaitsOnlyForRows => (has => CanGoOn(g))
  BY DEF WaitsOnlyForRows, Blocked, IInv, LockInv
<1>2. IInv /\ [Next]_vars => (has => has' \/ Unlocked')
  BY LockMoving DEF Unlocked
<1>3. IInv /\ <<Serve(g)>>_vars => (has => Unlocked')
  <2>1. Serve(g) => Next
    BY DEF Next
  <2> QED  BY <2>1, LockMoving DEF Unlocked
<1>4. FreesLock(g) <=> [](has => <>Unlocked)
  BY DEF FreesLock
<1> HIDE DEF has
<1>5. Runs(g) => [](has => <>Unlocked)
  BY <1>1, <1>2, <1>3, PTL DEF Runs, Diligent, CanGoOn
<1> QED  BY <1>4, <1>5, Running

GetsUnlocked == <>Unlocked

\* Again and again nobody has the customer row.
LEMMA LockFree == Working => []GetsUnlocked
<1>1. Working => \A g \in Handlers : FreesLock(g)
  BY HolderLetsGo
<1>2. (\A g \in Handlers : FreesLock(g)) => [](\A g \in Handlers : lock = g => GetsUnlocked)
  BY DEF FreesLock, GetsUnlocked
<1>3. IInv /\ (\A g \in Handlers : lock = g => GetsUnlocked) => (~Unlocked => GetsUnlocked)
  BY DEF IInv, TypeOK, Unlocked
<1>4. Working => Spec
  BY DEF Working, FairSpec
<1> QED  BY <1>1, <1>2, <1>3, <1>4, Invariant, PTL DEF GetsUnlocked

GetsClear(b) == <>Clear(b)
FreesBill(g, b) == [](Marks(g, b) => GetsClear(b))

\* A request that updated a billing request commits or is rolled back.
LEMMA MarkerLetsGo == ASSUME NEW g \in Handlers, NEW b \in Bills PROVE Working => FreesBill(g, b)
<1>1. WaitsOnlyForRows => (Marks(g, b) => CanGoOn(g))
  BY DEF WaitsOnlyForRows, Blocked, Marks
<1>2. IInv /\ OneMarker /\ [Next]_vars => (Marks(g, b) => Marks(g, b)' \/ Clear(b)')
  BY MarkMoving
<1>3. IInv /\ OneMarker /\ <<Serve(g)>>_vars => (Marks(g, b) => Clear(b)')
  <2>1. Serve(g) => Next
    BY DEF Next
  <2> QED  BY <2>1, MarkMoving
<1>4. Runs(g) => [](Marks(g, b) => GetsClear(b))
  BY <1>1, <1>2, <1>3, PTL DEF Runs, Diligent, CanGoOn, GetsClear
<1> QED  BY <1>4, Running DEF FreesBill

\* Again and again nobody has the row of a billing request.
LEMMA BillFree == ASSUME NEW b \in Bills PROVE Working => []GetsClear(b)
<1>1. Working => \A g \in Handlers : FreesBill(g, b)
  BY MarkerLetsGo
<1>2. (\A g \in Handlers : FreesBill(g, b)) => [](\A g \in Handlers : Marks(g, b) => GetsClear(b))
  BY DEF FreesBill
<1>3. (\A g \in Handlers : Marks(g, b) => GetsClear(b)) => (~Clear(b) => GetsClear(b))
  BY DEF Clear
<1> QED  BY <1>1, <1>2, <1>3, PTL DEF GetsClear

Gone(h) == ~(req[h].pc = "read")
GoesOn(h) == <>Gone(h)

ReaderGoes(h) == [](Reads(h) => GoesOn(h))

\* A request that waits for the customer row, or for no row, goes on.
LEMMA ReaderGoesOn == ASSUME NEW h \in Handlers PROVE Working => ReaderGoes(h)
<1>1. IInv /\ [Next]_vars => (Reads(h) => Reads(h)' \/ Gone(h)')
  BY Moving DEF Reads, Gone, Past
<1>2. IInv /\ <<Serve(h)>>_vars => (Reads(h) => Gone(h)')
  <2>1. Serve(h) => Next
    BY DEF Next
  <2> QED  BY <2>1, Moving DEF Reads, Gone, Past
<1>3. WaitsOnlyForRows => (Reads(h) /\ Unlocked => CanGoOn(h))
  BY DEF WaitsOnlyForRows, Blocked, Reads, Unlocked, CustomerKeyFree
<1>4. Runs(h) /\ []GetsUnlocked => [](Reads(h) => GoesOn(h))
  BY <1>1, <1>2, <1>3, PTL DEF Runs, Diligent, CanGoOn, GetsUnlocked, GoesOn
<1> QED  BY <1>4, Running, LockFree DEF ReaderGoes

SetterGoes(h, b) == [](Sets(h, b) => GoesOn(h))

\* A request that waits for a billing request goes on.
LEMMA SetterGoesOn ==
    ASSUME NEW h \in Handlers, NEW b \in Bills
    PROVE  Working => SetterGoes(h, b)
<1>1. IInv /\ [Next]_vars => (Sets(h, b) => Sets(h, b)' \/ Gone(h)')
  BY Moving DEF Sets, Gone, Past
<1>2. IInv /\ <<Serve(h)>>_vars => (Sets(h, b) => Gone(h)')
  <2>1. Serve(h) => Next
    BY DEF Next
  <2> QED  BY <2>1, Moving DEF Sets, Gone, Past
<1>3. WaitsOnlyForRows => (Sets(h, b) /\ Clear(b) => CanGoOn(h))
  BY DEF WaitsOnlyForRows, Blocked, Sets, Clear, Marks, NeedsCredit
<1>4. Runs(h) /\ []GetsClear(b) => [](Sets(h, b) => GoesOn(h))
  BY <1>1, <1>2, <1>3, PTL DEF Runs, Diligent, CanGoOn, GetsClear, GoesOn
<1> QED  BY <1>4, Running, BillFree DEF SetterGoes

Answers(h) == req[h].pc # "idle" ~> req[h].pc = "idle"

\* One request, whatever it waits for first.
LEMMA RequestAnswered == ASSUME NEW h \in Handlers PROVE Working => Answers(h)
<1> DEFINE read == req[h].pc = "read"
           setter == \A b \in Bills : Sets(h, b) => GoesOn(h)
<1>1. Working => \A b \in Bills : SetterGoes(h, b)
  BY SetterGoesOn
<1>2. (\A b \in Bills : SetterGoes(h, b)) => []setter
  BY DEF SetterGoes
<1>3. IInv /\ setter /\ (Reads(h) => GoesOn(h)) => (read => GoesOn(h))
  BY DEF Reads, Sets, IInv, RequestInv
<1>4. IInv => /\ Gone(h) <=> Held(h) \/ Marked(h) \/ Out(h)
              /\ ~Out(h) => read \/ Held(h) \/ Marked(h)
  BY DEF IInv, TypeOK, Request, Gone, Held, Marked, Out
<1>5. (req[h].pc # "idle" <=> ~Out(h)) /\ (req[h].pc = "idle" <=> Out(h))
  BY DEF Out
<1> HIDE DEF read, setter
<1>6. Working => Spec
  BY DEF Working, FairSpec
<1>7. Working => ReaderGoes(h)
  BY ReaderGoesOn
<1>8. Working => [](read => GoesOn(h)) /\ []IInv
  BY <1>1, <1>2, <1>3, <1>6, <1>7, Invariant, PTL DEF ReaderGoes
<1>9. Working => (Held(h) ~> Out(h)) /\ (Marked(h) ~> Out(h))
  BY Running, Locked
<1> QED  BY <1>4, <1>5, <1>8, <1>9, PTL DEF GoesOn, Answers

\* While a request that waits for no row lock has a step of its own, every request is
\* answered, for any number of requests, orders and billing requests: the locks of
\* lockCustomerForUpdate and of the updates are held by requests that wait for nothing.
THEOREM AllAnswered == FairSpec /\ []WaitsOnlyForRows => EveryRequestAnswered
<1>1. Working => \A h \in Handlers : Answers(h)
  BY RequestAnswered
<1> QED  BY <1>1 DEF Working, Answers, EveryRequestAnswered
-----------------------------------------------------------------------------
(***************************************************************************)
(* A request leaves its order at least where it had read it.               *)
(***************************************************************************)

\* The order of a request that closes has the status it had, or one no earlier
\* than what the request read.
Onward(h) ==
    req[h].order # None /\ req'[h] = Idle =>
      \/ order'[req[h].order].status = order[req[h].order].status
      \/ Rank[order'[req[h].order].status] >= Rank[req[h].seen.status]

\* The commits that write a status: each computes it from the status it read.
LEMMA StatusWrites ==
    ASSUME IInv, NEW h \in Handlers, req[h].order \in Orders,
           \/ CommitCreate(h) \/ CommitApprove(h) \/ CommitAdvance(h)
           \/ CommitInvoiceOrder(h) \/ CommitBillingSet(h)
    PROVE  Onward(h)
<1> DEFINE r == req[h]
           o == req[h].order
<1>1. /\ o \in Orders /\ order \in [Orders -> OrderRow] /\ r.seen.status \in Statuses \cup {"absent"}
      /\ RequestInv(r)
  BY RequestType DEF IInv, TypeOK, OrderRow
<1>2. CASE CommitCreate(h)
  <2>1. order'[o] = r.seen
    BY <1>1, <1>2 DEF CommitCreate
  <2> QED  BY <1>1, <2>1 DEF Onward, Rank, Statuses
<1>3. CASE CommitApprove(h)
  <2>1. order'[o].status = IF r.seen.status = "recibido" THEN "orden_facturacion" ELSE order[o].status
    BY <1>1, <1>3 DEF CommitApprove, OrderRow
  <2> QED  BY <2>1 DEF Onward, Rank
<1>4. CASE CommitAdvance(h)
  <2>1. order'[o].status = r.to
    BY <1>1, <1>4 DEF CommitAdvance, OrderRow
  <2>2. r.seen.status \in DOMAIN NextStatus /\ r.to = NextStatus[r.seen.status]
    BY <1>1, <1>4 DEF CommitAdvance, Ready, RequestInv
  <2> QED  BY <2>1, <2>2 DEF Onward, Rank, NextStatus
<1>5. CASE CommitInvoiceOrder(h)
  <2>1. \/ order'[o].status = order[o].status
        \/ order'[o].status = "facturado" /\ Rank[r.seen.status] < Rank["facturado"]
    BY <1>1, <1>5 DEF CommitInvoiceOrder, OrderRow
  <2> QED  BY <1>1, <2>1 DEF Onward, Rank, Statuses
<1>6. CASE CommitBillingSet(h)
  <2>1. \/ order'[o].status = order[o].status
        \/ order'[o].status = "facturado" /\ r.seen.status = "orden_facturacion"
    BY <1>1, <1>6 DEF CommitBillingSet, OrderRow
  <2> QED  BY <2>1 DEF Onward, Rank
<1> QED  BY <1>2, <1>3, <1>4, <1>5, <1>6

\* Only a request that answers for a status its order has left takes it back.
THEOREM OnlyStaleGoBack == Spec => OnlyStaleWritesGoBack
<1> DEFINE Step == \A h \in Handlers : LET r == req[h] IN
                     r.order # None /\ req'[h] = Idle =>
                       \/ order'[r.order].status = order[r.order].status
                       \/ Rank[order'[r.order].status] >= Rank[r.seen.status]
<1>1. ASSUME IInv, [Next]_vars PROVE Step
  <2> SUFFICES ASSUME NEW h \in Handlers, req[h].order # None, req'[h] = Idle PROVE Onward(h)
    BY DEF Onward
  <2> USE <1>1
  <2>0. TypeOK /\ req[h].order \in Orders
    BY RequestType DEF IInv
  <2>1. req'[h] # req[h] /\ req'[h].pc = "idle"
    BY <2>0 DEF Idle
  <2>2. SUFFICES ASSUME order' # order PROVE Onward(h)
    BY DEF Onward
  <2>3. ASSUME NEW g \in Handlers, Arrive(g) PROVE FALSE
    BY <2>1, <2>3, Arriving DEF Alone
  <2>4. ASSUME NEW g \in Handlers, Serve(g) \/ Rollback(g) PROVE Onward(h)
    <3>1. g = h
      BY <2>0, <2>1, <2>4, Serving DEF Alone
    <3>2. CASE CommitReject(h)
      BY <2>0, <3>2 DEF CommitReject, Onward, TypeOK, OrderRow
    <3>3. CASE CommitResolve(h)
      BY <2>0, <3>3 DEF CommitResolve, Onward, TypeOK, OrderRow
    <3>4. CASE \/ CommitCreate(h) \/ CommitApprove(h) \/ CommitAdvance(h)
               \/ CommitInvoiceOrder(h) \/ CommitBillingSet(h)
      BY <2>0, <3>4, StatusWrites
    <3> QED
      BY <2>2, <2>4, <3>1, <3>2, <3>3, <3>4 DEF Serve, Rollback, TakeLock, RefuseCredit,
         CommitInvoiceCreate, CommitInvoiceStatus, CommitSettle, CommitInvoiceWrite,
         RefuseDuplicate, CommitBilling, MarkBilling
  <2>5. ASSUME NEW p \in Orders, NEW tracking \in BOOLEAN, UpdateLogistics(p, tracking) PROVE FALSE
    BY <2>1, <2>5 DEF UpdateLogistics
  <2> QED  BY <2>1, <2>3, <2>4, <2>5 DEF Next, Quiet, vars
<1>2. OnlyStaleWritesGoBack <=> [][Step]_vars
  BY DEF OnlyStaleWritesGoBack
<1> QED  BY <1>1, <1>2, Invariant, PTL DEF Spec
=============================================================================
