-------------------------- MODULE SalesDesk_proofs --------------------------
(***************************************************************************)
(* Proofs about SalesDesk: its types and invariants, and that it           *)
(* implements StatusTable.                                                 *)
(***************************************************************************)
EXTENDS SalesDesk, TLAPS

\* A row has the statuses of its table, and a date or a reason with one outcome.
RowFine(r, x) ==
    /\ r \in Visits => x.status \in VisitStatus \cup {"absent", "gone"}
    /\ r \in Tasks => x.status \in TaskStatus \cup {"absent"}
    /\ r \in Expenses => x.status \in ExpenseStatus \cup {"absent"}
    /\ r \in Opportunities =>
         /\ x.status \in Stages \cup {"absent"}
         /\ x.dated <=> x.status = "venta_cerrada"
         /\ x.data # None => x.status = "perdida"
    /\ r \in Visits \cup Tasks /\ x.dated => x.status = "completada"

\* What a request carries since it was read.
Static(q) ==
    /\ q.op \in {"status", "complete"} =>
         \/ q.row \in Visits /\ <<q.seen, q.to.status>> \in VisitMoves
         \/ q.row \in Tasks /\ <<q.seen, q.to.status>> \in TaskMoves
         \/ q.row \in Opportunities /\ q.op = "status" /\ <<q.seen, q.to.status>> \in StageMoves
         \/ q.row \in Expenses /\ q.op = "status" /\ <<q.seen, q.to.status>> \in ExpenseMoves
    /\ q.op = "complete" => q.to.status = "completada"
    /\ q.op \in {"remove", "report"} => q.row \in Visits
    /\ q.op \in {"expense", "drop", "edit", "ask"} => q.row \in Expenses
    /\ q.op = "expense" => q.to.status = "pendiente"
    /\ q.op = "edit" => q.seen \in {"pendiente", "requiere_correccion"}
    /\ q.op # "edit" => q.to \in RowState

\* A visit that took place: it can only be removed.
Held(status) == status \in {"completada", "gone"}

\* How it stands to the rows and to the other requests now.
Dynamic(h) ==
    LET q == req[h] IN
    /\ q.op \in {"expense", "drop"} =>
         row[q.row] = NoRow /\ \A g \in Handlers \ {h} : req[g] # Idle => req[g].row # q.row
    /\ q.op \notin {"expense", "drop"} /\ q.row \in Expenses => Exists(q.row)
    /\ q.op = "report" => Held(row[q.row].status)

Carries(h) == req[h] # Idle => Static(req[h]) /\ Dynamic(h)

Inv ==
    /\ TypeOK
    /\ \A r \in Rows : RowFine(r, row[r])
    /\ \A h \in Handlers : Carries(h)
    /\ NoGhostNotice /\ SupportsAgree /\ CorrectionIsAsked /\ ReportsOfHeldVisits
-----------------------------------------------------------------------------
LEMMA KindsFact ==
    \A r \in Rows :
        /\ r \in Visits => r \notin Tasks /\ r \notin Opportunities /\ r \notin Expenses
        /\ r \in Tasks => r \notin Visits /\ r \notin Opportunities /\ r \notin Expenses
        /\ r \in Opportunities => r \notin Visits /\ r \notin Tasks /\ r \notin Expenses
        /\ r \in Expenses => r \notin Visits /\ r \notin Tasks /\ r \notin Opportunities
BY KindsAssumption

LEMMA PipelineFact ==
    /\ Stages = {"prospecto", "contacto", "visita", "cotizacion", "negociacion",
                 "orden_facturacion", "venta_cerrada", "perdida"}
    /\ \A i \in 1 .. 6 : Pipeline[i] \in Stages \ {"venta_cerrada", "perdida"} /\ Pipeline[i + 1] \in Stages
<1>1. \A i \in 1 .. 7 : i = 1 \/ i = 2 \/ i = 3 \/ i = 4 \/ i = 5 \/ i = 6 \/ i = 7
  OBVIOUS
<1>2. /\ Pipeline[1] = "prospecto" /\ Pipeline[2] = "contacto" /\ Pipeline[3] = "visita"
      /\ Pipeline[4] = "cotizacion" /\ Pipeline[5] = "negociacion" /\ Pipeline[6] = "orden_facturacion"
      /\ Pipeline[7] = "venta_cerrada"
  BY DEF Pipeline
<1>3. 1 \in 1 .. 7 /\ 2 \in 1 .. 7 /\ 3 \in 1 .. 7 /\ 4 \in 1 .. 7 /\ 5 \in 1 .. 7 /\ 6 \in 1 .. 7 /\ 7 \in 1 .. 7
  OBVIOUS
<1>4. Stages = {"prospecto", "contacto", "visita", "cotizacion", "negociacion",
                "orden_facturacion", "venta_cerrada", "perdida"}
  BY <1>1, <1>2, <1>3 DEF Stages
<1>5. \A i \in 1 .. 6 : (i = 1 \/ i = 2 \/ i = 3 \/ i = 4 \/ i = 5 \/ i = 6) /\ i + 1 \in 1 .. 7
  OBVIOUS
<1>6. \A i \in 1 .. 6 : Pipeline[i] \in Stages \ {"venta_cerrada", "perdida"}
  BY <1>2, <1>4, <1>5
<1>7. \A i \in 1 .. 6 : Pipeline[i + 1] \in Stages
  BY <1>5 DEF Stages
<1> QED  BY <1>4, <1>6, <1>7

LEMMA MovesFact ==
    ASSUME NEW a, NEW b
    PROVE  /\ <<a, b>> \in VisitMoves => a = "programada" /\ b \in {"completada", "cancelada", "no_realizada"}
           /\ <<a, b>> \in TaskMoves => a = "pendiente" /\ b \in {"completada", "vencida"}
           /\ <<a, b>> \in StageMoves => a \in Stages \ {"venta_cerrada", "perdida"} /\ b \in Stages
           /\ <<a, b>> \in ExpenseMoves =>
                \/ a = "pendiente" /\ b \in {"aprobado", "requiere_correccion", "rechazado"}
                \/ a = "requiere_correccion" /\ b = "pendiente"
                \/ a = "aprobado" /\ b = "contabilizado"
<1>1. <<a, b>> \in StageMoves => a \in Stages \ {"venta_cerrada", "perdida"} /\ b \in Stages
  <2> SUFFICES ASSUME <<a, b>> \in StageMoves PROVE a \in Stages \ {"venta_cerrada", "perdida"} /\ b \in Stages
    OBVIOUS
  <2>1. CASE \E i \in 1 .. 6, to \in {"perdida"} : <<a, b>> = <<Pipeline[i], to>>
    BY <2>1, PipelineFact
  <2>2. CASE \E i \in 1 .. 6 : <<a, b>> = <<Pipeline[i], Pipeline[i + 1]>>
    BY <2>2, PipelineFact
  <2> QED  BY <2>1, <2>2 DEF StageMoves
<1>2. <<a, b>> \in VisitMoves => a = "programada" /\ b \in {"completada", "cancelada", "no_realizada"}
  BY DEF VisitMoves
<1>3. <<a, b>> \in TaskMoves => a = "pendiente" /\ b \in {"completada", "vencida"}
  BY DEF TaskMoves
<1>4. <<a, b>> \in ExpenseMoves =>
        \/ a = "pendiente" /\ b \in {"aprobado", "requiere_correccion", "rechazado"}
        \/ a = "requiere_correccion" /\ b = "pendiente"
        \/ a = "aprobado" /\ b = "contabilizado"
  BY DEF ExpenseMoves
<1> QED  BY <1>1, <1>2, <1>3, <1>4

LEMMA NoRowFact ==
    /\ NoRow \in RowState /\ NoRow.status = "absent" /\ NoRow.data = None
    /\ NoRow.dated = FALSE /\ NoRow.visit = None
    /\ \A r \in Rows : RowFine(r, NoRow)
<1>1. NoRow \in RowState /\ NoRow.status = "absent" /\ NoRow.data = None
      /\ NoRow.dated = FALSE /\ NoRow.visit = None
  BY DEF NoRow, RowState, Status
<1>2. \A r \in Rows : RowFine(r, NoRow)
  BY <1>1, PipelineFact DEF RowFine
<1> QED  BY <1>1, <1>2

LEMMA IdleFact ==
    ASSUME NEW q \in Request, q # Idle
    PROVE  /\ q.op \in Ops /\ q.row \in Rows /\ q.to \in Written /\ q.seen \in Status
           /\ q \in [op : Ops, row : Rows, to : Written, seen : Status]
BY DEF Request

LEMMA RowStateWritten == RowState \subseteq Written
BY DEF RowState, Written

\* What is told of an expense, in words of its status.
Told(e, status, notices) ==
    /\ status \in {"aprobado", "contabilizado"} => notices = {"aprobado"}
    /\ status = "rechazado" => notices = {"rechazado"}
    /\ status \in {"absent", "gone", "pendiente", "requiere_correccion"} => notices = {}

LEMMA GhostFact ==
    ASSUME \A e \in Expenses : row[e].status \in ExpenseStatus \cup {"absent"}
    PROVE  NoGhostNotice <=> \A e \in Expenses : Told(e, row[e].status, Resolved(e))
BY DEF NoGhostNotice, Told, ExpenseStatus

LEMMA InitInv == Init => Inv
<1> SUFFICES ASSUME Init PROVE Inv
  OBVIOUS
<1>1. TypeOK
  BY NoRowFact DEF Init, TypeOK, NoReport, Request
<1>2. \A r \in Rows : row[r] = NoRow
  BY DEF Init
<1>3. \A r \in Rows : RowFine(r, row[r])
  BY <1>2, NoRowFact
<1>4. \A h \in Handlers : Carries(h)
  BY DEF Init, Carries
<1>5. \A e \in Expenses : Resolved(e) = {} /\ row[e].status = "absent"
  BY <1>2, NoRowFact DEF Init, Resolved, Rows
<1>6. NoGhostNotice
  BY <1>5 DEF NoGhostNotice
<1>7. SupportsAgree /\ CorrectionIsAsked /\ ReportsOfHeldVisits
  BY <1>5, ReachableAssumption DEF Init, SupportsAgree, CorrectionIsAsked, ReportsOfHeldVisits, Exists, NoReport
<1> QED  BY <1>1, <1>3, <1>4, <1>6, <1>7 DEF Inv
-----------------------------------------------------------------------------
(***************************************************************************)
(* Requests that begin                                                     *)
(***************************************************************************)
\* What is owed to an expense stays owed while requests go on.
LEMMA StillOwed ==
    ASSUME Inv, UNCHANGED <<store, asked, failures>>,
           \A g \in Busy : g \in Busy' /\ req'[g].op = req[g].op /\ req'[g].row = req[g].row,
           \A e \in Expenses : row'[e].status = row[e].status
    PROVE  SupportsAgree' /\ CorrectionIsAsked'
<1>1. SupportsAgree'
  <2>1. \A e \in Expenses : Exists(e)' => e \in store'
    BY DEF Inv, SupportsAgree, Exists
  <2>2. ASSUME failures = 0, NEW e \in store PROVE Exists(e)' \/ \E h \in Busy' : req'[h].row = e
    <3>1. CASE Exists(e)
      BY <2>2, <3>1 DEF Inv, TypeOK, Exists
    <3>2. CASE ~Exists(e)
      <4> PICK h \in Busy : req[h].row = e
        BY <2>2, <3>2 DEF Inv, SupportsAgree
      <4> QED  OBVIOUS
    <3> QED  BY <3>1, <3>2
  <2> QED  BY <2>1, <2>2 DEF SupportsAgree
<1>2. CorrectionIsAsked'
  <2> SUFFICES ASSUME failures = 0, NEW e \in Reachable, row'[e].status = "requiere_correccion", e \notin asked
               PROVE  \E h \in Busy' : req'[h].op = "ask" /\ req'[h].row = e
    BY DEF CorrectionIsAsked
  <2>1. row[e].status = "requiere_correccion"
    BY ReachableAssumption
  <2> PICK h \in Busy : req[h].op = "ask" /\ req[h].row = e
    BY <2>1 DEF Inv, CorrectionIsAsked
  <2> QED  OBVIOUS
<1> QED  BY <1>1, <1>2

\* The rows of the visits that took place stay as they are, and so do the reports.
LEMMA ReportsStay ==
    ASSUME Inv, report' = report, \A v \in Visits : Held(row[v].status) => row'[v].status = row[v].status
    PROVE  ReportsOfHeldVisits'
<1> SUFFICES ASSUME NEW p \in Reports, report[p].visit # None
             PROVE  row'[report[p].visit].status = "completada"
  BY DEF ReportsOfHeldVisits
<1>1. report[p].visit \in Visits /\ row[report[p].visit].status = "completada"
  BY DEF Inv, TypeOK, ReportsOfHeldVisits
<1> QED  BY <1>1 DEF Held

LEMMA BeginKeeps ==
    ASSUME Inv, NEW h \in Handlers, NEW op \in Ops, NEW r \in Rows, NEW to \in Written, Ask(h, op, r, to),
           Static([op |-> op, row |-> r, to |-> to, seen |-> row[r].status]),
           op # "drop", op = "expense" => row[r] = NoRow /\ \A g \in Busy : req[g].row # r,
           op # "expense" /\ r \in Expenses => Exists(r), op = "report" => row[r].status = "completada"
    PROVE  Inv'
<1> DEFINE Q == [op |-> op, row |-> r, to |-> to, seen |-> row[r].status]
<1>1. req' = [req EXCEPT ![h] = Q] /\ req[h] = Idle /\ served' = served + 1
      /\ UNCHANGED <<row, report, store, bell, asked, failures>>
  BY DEF Ask
<1>2. row[r].status \in Status
  BY DEF Inv, TypeOK, RowState
<1>3. Q \in Request /\ Q # Idle /\ Q.op = op /\ Q.row = r /\ Static(Q)
  BY <1>2 DEF Request, Idle, Ops
<1> HIDE DEF Q
<1>4. req'[h] = Q /\ \A g \in Handlers \ {h} : req'[g] = req[g]
  BY <1>1 DEF Inv, TypeOK
<1>5. TypeOK'
  BY <1>1, <1>3 DEF Inv, TypeOK
<1>6. \A q \in Rows : RowFine(q, row'[q])
  BY <1>1 DEF Inv
<1>7. Carries(h)'
  <2>1. op = "expense" => \A g \in Handlers \ {h} : req'[g] # Idle => req'[g].row # r
    BY <1>4 DEF Busy
  <2>2. Dynamic(h)'
    BY <1>1, <1>3, <1>4, <2>1 DEF Dynamic, Exists, Held
  <2> QED  BY <1>3, <1>4, <2>2 DEF Carries
<1>8. ASSUME NEW g \in Handlers, g # h, req[g] # Idle PROVE Carries(g)'
  <2>1. Static(req[g]) /\ Dynamic(g) /\ g \in Busy /\ req'[g] = req[g]
    BY <1>4, <1>8 DEF Inv, Carries, Busy
  <2>2. req[g].op \in {"expense", "drop"} => r # req[g].row
    <3> SUFFICES ASSUME req[g].op \in {"expense", "drop"}, r = req[g].row PROVE FALSE
      OBVIOUS
    <3>1. row[r] = NoRow /\ r \in Expenses
      BY <2>1 DEF Dynamic, Static
    <3>2. op # "expense"
      BY <2>1
    <3> QED  BY <3>1, <3>2, NoRowFact DEF Exists
  <2>3. req[g].op \in {"expense", "drop"} =>
          row'[req[g].row] = NoRow /\ \A f \in Handlers \ {g} : req'[f] # Idle => req'[f].row # req[g].row
    BY <1>1, <1>3, <1>4, <2>1, <2>2 DEF Dynamic
  <2>4. Dynamic(g)'
    BY <1>1, <2>1, <2>3 DEF Dynamic, Exists
  <2> QED  BY <2>1, <2>4 DEF Carries
<1>9. \A g \in Handlers : Carries(g)'
  BY <1>4, <1>7, <1>8 DEF Carries
<1>10. NoGhostNotice'
  BY <1>1 DEF Inv, NoGhostNotice, Resolved
<1>11. SupportsAgree' /\ CorrectionIsAsked'
  <2>1. \A g \in Busy : g \in Busy' /\ req'[g].op = req[g].op /\ req'[g].row = req[g].row
    BY <1>1, <1>4 DEF Busy
  <2>2. \A e \in Expenses : row'[e].status = row[e].status
    BY <1>1
  <2> QED  BY <1>1, <2>1, <2>2, StillOwed
<1>12. ReportsOfHeldVisits'
  BY <1>1, ReportsStay
<1> QED  BY <1>5, <1>6, <1>9, <1>10, <1>11, <1>12 DEF Inv

\* A row of somebody else's request.
LEMMA RowTyped ==
    ASSUME Inv, NEW r \in Rows
    PROVE  /\ row[r] \in RowState /\ row[r] \in Written /\ RowFine(r, row[r])
           /\ row[r].data \in Data \cup {None} /\ row[r].dated \in BOOLEAN
           /\ row[r].visit \in Visits \cup {None} /\ row[r].status \in Status
BY RowStateWritten DEF Inv, TypeOK, RowState

LEMMA StatusFact ==
    /\ VisitStatus \subseteq Status /\ TaskStatus \subseteq Status /\ Stages \subseteq Status
    /\ ExpenseStatus \subseteq Status
BY DEF Status

\* What a request will write, as it was read but for the fields it writes.
LEMMA WriteFact ==
    ASSUME Inv, NEW r \in Rows, NEW status \in Status
    PROVE  LET x == [row[r] EXCEPT !.status = status] IN
           /\ x \in RowState /\ x.status = status
           /\ \A data \in Data \cup {None} : LET y == [x EXCEPT !.data = data] IN y \in RowState /\ y.status = status
BY RowTyped DEF RowState

LEMMA VisitBegins ==
    ASSUME Inv, NEW h \in Handlers, NEW v \in Visits,
           \/ \E status \in VisitStatus : BeginVisitStatus(h, v, status)
           \/ \E data \in Data \cup {None} : BeginCompleteVisit(h, v, data)
           \/ BeginRemoveVisit(h, v) \/ BeginReport(h, v)
    PROVE  Inv'
<1>1. v \in Rows /\ v \notin Expenses
  BY KindsFact DEF Rows
<1>2. CASE \E status \in VisitStatus : BeginVisitStatus(h, v, status)
  <2> PICK status \in VisitStatus : BeginVisitStatus(h, v, status)
    BY <1>2
  <2> DEFINE to == [row[v] EXCEPT !.status = status]
  <2>1. to \in RowState /\ to.status = status
    BY <1>1, WriteFact, StatusFact
  <2>2. <<row[v].status, status>> \in VisitMoves /\ Ask(h, "status", v, to)
    BY DEF BeginVisitStatus
  <2> HIDE DEF to
  <2>3. Static([op |-> "status", row |-> v, to |-> to, seen |-> row[v].status])
    BY <2>1, <2>2 DEF Static
  <2> QED  BY <1>1, <2>1, <2>2, <2>3, BeginKeeps, RowStateWritten DEF Ops
<1>3. CASE \E data \in Data \cup {None} : BeginCompleteVisit(h, v, data)
  <2> PICK data \in Data \cup {None} : BeginCompleteVisit(h, v, data)
    BY <1>3
  <2> DEFINE to == [row[v] EXCEPT !.status = "completada", !.data = data]
  <2>1. to \in RowState /\ to.status = "completada"
    BY <1>1, RowTyped, StatusFact DEF RowState, VisitStatus
  <2>2. row[v].status = "programada" /\ Ask(h, "complete", v, to)
    BY DEF BeginCompleteVisit
  <2> HIDE DEF to
  <2>3. Static([op |-> "complete", row |-> v, to |-> to, seen |-> row[v].status])
    BY <2>1, <2>2 DEF Static, VisitMoves
  <2> QED  BY <1>1, <2>1, <2>2, <2>3, BeginKeeps, RowStateWritten DEF Ops
<1>4. CASE BeginRemoveVisit(h, v) \/ BeginReport(h, v)
  <2>1. PICK op \in {"remove", "report"} : Ask(h, op, v, row[v]) /\ (op = "report" => row[v].status = "completada")
    BY <1>4 DEF BeginRemoveVisit, BeginReport
  <2>2. Static([op |-> op, row |-> v, to |-> row[v], seen |-> row[v].status])
    BY <1>1, RowTyped DEF Static
  <2> QED  BY <1>1, <2>1, <2>2, BeginKeeps, RowTyped DEF Ops
<1> QED  BY <1>2, <1>3, <1>4

LEMMA TaskBegins ==
    ASSUME Inv, NEW h \in Handlers, NEW t \in Tasks,
           BeginCompleteTask(h, t) \/ \E status \in TaskStatus : BeginTaskStatus(h, t, status)
    PROVE  Inv'
<1>1. t \in Rows /\ t \notin Expenses
  BY KindsFact DEF Rows
<1>2. PICK op \in {"status", "complete"}, status \in TaskStatus :
        /\ <<row[t].status, status>> \in TaskMoves
        /\ Ask(h, op, t, [row[t] EXCEPT !.status = status])
        /\ op = "complete" => status = "completada"
  BY DEF BeginCompleteTask, BeginTaskStatus, TaskMoves, TaskStatus
<1> DEFINE to == [row[t] EXCEPT !.status = status]
<1>3. to \in RowState /\ to.status = status
  BY <1>1, WriteFact, StatusFact
<1>4. Ask(h, op, t, to)
  BY <1>2
<1> HIDE DEF to
<1>5. Static([op |-> op, row |-> t, to |-> to, seen |-> row[t].status])
  BY <1>2, <1>3 DEF Static
<1> QED  BY <1>1, <1>3, <1>4, <1>5, BeginKeeps, RowStateWritten DEF Ops

LEMMA StageBegins ==
    ASSUME Inv, NEW h \in Handlers, NEW o \in Opportunities, NEW stage \in Stages,
           NEW data \in Data \cup {None}, BeginStage(h, o, stage, data)
    PROVE  Inv'
<1>1. o \in Rows /\ o \notin Expenses
  BY KindsFact DEF Rows
<1> DEFINE to == [row[o] EXCEPT !.status = stage, !.data = data]
<1>2. to \in RowState /\ to.status = stage
  BY <1>1, RowTyped, StatusFact DEF RowState
<1>3. <<row[o].status, stage>> \in StageMoves /\ Ask(h, "status", o, to)
  BY DEF BeginStage
<1> HIDE DEF to
<1>4. Static([op |-> "status", row |-> o, to |-> to, seen |-> row[o].status])
  BY <1>2, <1>3 DEF Static
<1> QED  BY <1>1, <1>2, <1>3, <1>4, BeginKeeps, RowStateWritten DEF Ops

LEMMA ExpenseBegins ==
    ASSUME Inv, NEW h \in Handlers, NEW e \in Expenses,
           \/ \E data \in Data, v \in Visits \cup {None} : BeginExpense(h, e, data, v)
           \/ \E data \in Data \cup {Unsent}, v \in Visits \cup {None, Unsent} : BeginEditExpense(h, e, data, v)
           \/ \E status \in ExpenseStatus : BeginReview(h, e, status)
    PROVE  Inv'
<1>1. e \in Rows /\ row[e] \in RowState
  BY RowTyped DEF Rows
<1>2. CASE \E data \in Data, v \in Visits \cup {None} : BeginExpense(h, e, data, v)
  <2> PICK data \in Data, v \in Visits \cup {None} : BeginExpense(h, e, data, v)
    BY <1>2
  <2> DEFINE to == [row[e] EXCEPT !.status = "pendiente", !.data = data, !.visit = v]
  <2>1. to \in RowState /\ to.status = "pendiente"
    BY <1>1, StatusFact DEF RowState, ExpenseStatus
  <2>2. row[e] = NoRow /\ (\A g \in Busy : req[g].row # e) /\ Ask(h, "expense", e, to)
    BY DEF BeginExpense
  <2> HIDE DEF to
  <2>3. Static([op |-> "expense", row |-> e, to |-> to, seen |-> row[e].status])
    BY <2>1 DEF Static
  <2> QED  BY <1>1, <2>1, <2>2, <2>3, BeginKeeps, RowStateWritten DEF Ops
<1>3. CASE \E data \in Data \cup {Unsent}, v \in Visits \cup {None, Unsent} : BeginEditExpense(h, e, data, v)
  <2> PICK data \in Data \cup {Unsent}, v \in Visits \cup {None, Unsent} : BeginEditExpense(h, e, data, v)
    BY <1>3
  <2> DEFINE dated == row[e].dated /\ row[e].status = "pendiente"
             to == [row[e] EXCEPT !.status = "pendiente", !.data = data, !.visit = v, !.dated = dated]
  <2>1. dated \in BOOLEAN
    OBVIOUS
  <2>2. row[e].status \in {"pendiente", "requiere_correccion"} /\ Ask(h, "edit", e, to)
    BY <1>1 DEF BeginEditExpense, RowState
  <2> HIDE DEF dated
  <2>3. to \in Written
    BY <1>1, <2>1, StatusFact DEF RowState, Written, ExpenseStatus
  <2> HIDE DEF to
  <2>4. Static([op |-> "edit", row |-> e, to |-> to, seen |-> row[e].status])
    BY <2>2 DEF Static
  <2> QED  BY <1>1, <2>2, <2>3, <2>4, BeginKeeps DEF Ops, Exists
<1>4. CASE \E status \in ExpenseStatus : BeginReview(h, e, status)
  <2> PICK status \in ExpenseStatus : BeginReview(h, e, status)
    BY <1>4
  <2> DEFINE to == [row[e] EXCEPT !.status = status, !.dated = TRUE]
  <2>1. to \in RowState /\ to.status = status
    BY <1>1, StatusFact DEF RowState
  <2>2. <<row[e].status, status>> \in ExpenseMoves /\ Ask(h, "status", e, to)
    BY DEF BeginReview
  <2> HIDE DEF to
  <2>3. Static([op |-> "status", row |-> e, to |-> to, seen |-> row[e].status])
    BY <2>1, <2>2 DEF Static
  <2>4. Exists(e)
    BY <2>2, MovesFact DEF Exists
  <2> QED  BY <1>1, <2>1, <2>2, <2>3, <2>4, BeginKeeps, RowStateWritten DEF Ops
<1> QED  BY <1>2, <1>3, <1>4
-----------------------------------------------------------------------------
(***************************************************************************)
(* Requests of one statement                                               *)
(***************************************************************************)
LEMMA AtOnceKeeps ==
    ASSUME Inv, AtOnce, NEW r \in Rows, r \notin Expenses, NEW x \in RowState, RowFine(r, x),
           Held(row[r].status) => x.status = row[r].status, row' = [row EXCEPT ![r] = x]
    PROVE  Inv'
<1>1. served' = served + 1 /\ UNCHANGED <<report, store, bell, asked, req, failures>>
  BY DEF AtOnce
<1>2. row \in [Rows -> RowState]
  BY DEF Inv, TypeOK
<1>3. row'[r] = x /\ \A q \in Rows \ {r} : row'[q] = row[q]
  BY <1>2
<1>4. \A e \in Expenses : e \in Rows /\ row'[e] = row[e]
  BY <1>3 DEF Rows
<1>5. row' \in [Rows -> RowState]
  BY <1>2
<1>6. TypeOK'
  BY <1>1, <1>5 DEF Inv, TypeOK
<1>7. \A q \in Rows : RowFine(q, row'[q])
  BY <1>3 DEF Inv
<1>8. \A q \in Rows : Held(row[q].status) => row'[q].status = row[q].status
  BY <1>3
<1>9. ASSUME NEW g \in Handlers PROVE Carries(g)'
  <2> SUFFICES ASSUME req[g] # Idle PROVE Carries(g)'
    BY <1>1 DEF Carries
  <2>1. Static(req[g]) /\ Dynamic(g)
    BY DEF Inv, Carries
  <2>2. req[g].op \in {"expense", "drop"} => row'[req[g].row] = NoRow
    BY <1>4, <2>1 DEF Dynamic, Static
  <2>3. req[g].op \notin {"expense", "drop"} /\ req[g].row \in Expenses => Exists(req[g].row)'
    BY <1>1, <1>4, <2>1 DEF Dynamic, Exists
  <2>4. req[g].op = "report" => Held(row'[req[g].row].status)
    BY <1>8, <2>1 DEF Dynamic, Static, Rows
  <2>5. Dynamic(g)'
    BY <1>1, <2>1, <2>2, <2>3, <2>4 DEF Dynamic, Exists
  <2> QED  BY <1>1, <2>1, <2>5 DEF Carries
<1>10. NoGhostNotice'
  BY <1>1, <1>4 DEF Inv, NoGhostNotice, Resolved
<1>11. SupportsAgree' /\ CorrectionIsAsked'
  BY <1>1, <1>4, StillOwed DEF Busy
<1>12. ReportsOfHeldVisits'
  BY <1>1, <1>8, ReportsStay DEF Rows
<1> QED  BY <1>6, <1>7, <1>9, <1>10, <1>11, <1>12 DEF Inv

LEMMA CreateKeeps == ASSUME Inv, Create PROVE Inv'
<1>1. ASSUME NEW r \in Rows, r \notin Expenses, NEW status \in Status, NEW data \in Data \cup {None},
             NEW dated \in BOOLEAN, Fresh(r, status, data, dated),
             RowFine(r, [NoRow EXCEPT !.status = status, !.data = data, !.dated = dated])
      PROVE  Inv'
  <2> DEFINE x == [NoRow EXCEPT !.status = status, !.data = data, !.dated = dated]
  <2>1. x \in RowState
    BY NoRowFact DEF RowState
  <2>2. AtOnce /\ row' = [row EXCEPT ![r] = x] /\ ~Held(row[r].status)
    BY <1>1, NoRowFact DEF Fresh, Held
  <2> HIDE DEF x
  <2> QED  BY <1>1, <2>1, <2>2, AtOnceKeeps DEF x
<1>2. CASE \E v \in Visits, data \in Data \cup {None} : CreateVisit(v, data)
  <2> PICK v \in Visits, data \in Data \cup {None} : CreateVisit(v, data)
    BY <1>2
  <2>1. v \in Rows /\ v \notin Expenses /\ v \notin Opportunities /\ v \notin Tasks
    BY KindsFact DEF Rows
  <2>2. RowFine(v, [NoRow EXCEPT !.status = "programada", !.data = data, !.dated = FALSE])
    BY <2>1, NoRowFact DEF RowFine, RowState, VisitStatus
  <2>3. "programada" \in Status
    BY DEF Status, VisitStatus
  <2> QED  BY <1>1, <2>1, <2>2, <2>3 DEF CreateVisit
<1>3. CASE \E v \in Visits, data \in Data \cup {None} : UpdateVisit(v, data)
  <2> PICK v \in Visits, data \in Data \cup {None} : UpdateVisit(v, data)
    BY <1>3
  <2> DEFINE x == [row[v] EXCEPT !.data = data]
  <2>1. v \in Rows /\ v \notin Expenses /\ v \notin Opportunities
    BY KindsFact DEF Rows
  <2>2. x \in RowState /\ x.status = row[v].status /\ x.dated = row[v].dated
    BY <2>1, RowTyped DEF RowState
  <2>3. AtOnce /\ row' = [row EXCEPT ![v] = x]
    BY <2>1 DEF UpdateVisit, Inv, TypeOK
  <2> HIDE DEF x
  <2>4. RowFine(v, x)
    BY <2>1, <2>2, RowTyped DEF RowFine
  <2> QED  BY <2>1, <2>2, <2>3, <2>4, AtOnceKeeps
<1>4. CASE \E t \in Tasks : CreateTask(t)
  <2> PICK t \in Tasks : CreateTask(t)
    BY <1>4
  <2>1. t \in Rows /\ t \notin Expenses /\ t \notin Opportunities /\ t \notin Visits
    BY KindsFact DEF Rows
  <2>2. RowFine(t, [NoRow EXCEPT !.status = "pendiente", !.data = None, !.dated = FALSE])
    BY <2>1, NoRowFact DEF RowFine, RowState, TaskStatus
  <2>3. "pendiente" \in Status
    BY DEF Status, TaskStatus
  <2> QED  BY <1>1, <2>1, <2>2, <2>3 DEF CreateTask
<1>5. CASE \E o \in Opportunities, s \in Stages, data \in Data \cup {None} : CreateOpportunity(o, s, data)
  <2> PICK o \in Opportunities, s \in Stages, given \in Data \cup {None} : CreateOpportunity(o, s, given)
    BY <1>5
  <2> DEFINE data == IF s = "perdida" THEN given ELSE None
             dated == s = "venta_cerrada"
  <2>1. o \in Rows /\ o \notin Expenses /\ o \notin Visits /\ o \notin Tasks /\ s \in Status
    BY KindsFact, StatusFact DEF Rows
  <2>2. data \in Data \cup {None} /\ dated \in BOOLEAN /\ (data # None => s = "perdida")
    OBVIOUS
  <2>3. (dated <=> s = "venta_cerrada") /\ Fresh(o, s, data, dated)
    BY DEF CreateOpportunity
  <2> HIDE DEF data, dated
  <2>4. RowFine(o, [NoRow EXCEPT !.status = s, !.data = data, !.dated = dated])
    BY <2>1, <2>2, <2>3, NoRowFact DEF RowFine, RowState
  <2> QED  BY <1>1, <2>1, <2>2, <2>3, <2>4
<1> QED  BY <1>2, <1>3, <1>4, <1>5 DEF Create
-----------------------------------------------------------------------------
(***************************************************************************)
(* Commits                                                                 *)
(***************************************************************************)
LEMMA CommitKeeps ==
    ASSUME Inv, NEW h \in Handlers, req[h] # Idle, NEW q \in Request, req' = [req EXCEPT ![h] = q],
           q # Idle => /\ q.row = req[h].row /\ q.op # "report" /\ Static(q)
                       /\ q.op \in {"expense", "drop"} =>
                            req[h].op \in {"expense", "drop"} /\ row'[q.row] = NoRow
                       /\ q.op \notin {"expense", "drop"} /\ q.row \in Expenses => Exists(q.row)',
           row' \in [Rows -> RowState], \A r \in Rows : RowFine(r, row'[r]),
           \A e \in Expenses : /\ Exists(e) => Exists(e)'
                               /\ row[e] = NoRow /\ e # req[h].row => row'[e] = NoRow,
           report' \in [Reports -> [made : BOOLEAN, visit : Visits \cup {None}]],
           store' \subseteq Expenses, asked' \subseteq Expenses,
           bell' \subseteq [expense : Expenses, status : {"aprobado", "rechazado"}],
           served' = served, failures' \in Nat, \A v \in Visits : Held(row[v].status) => Held(row'[v].status),
           NoGhostNotice', SupportsAgree', CorrectionIsAsked', ReportsOfHeldVisits'
    PROVE  Inv'
<1>1. req \in [Handlers -> Request] /\ req'[h] = q /\ \A g \in Handlers \ {h} : req'[g] = req[g]
  BY DEF Inv, TypeOK
<1>2. TypeOK'
  BY <1>1 DEF Inv, TypeOK
<1>3. ASSUME NEW g \in Handlers, g # h, req[g] # Idle PROVE Carries(g)'
  <2>1. Static(req[g]) /\ Dynamic(g) /\ req'[g] = req[g]
    BY <1>1, <1>3 DEF Inv, Carries
  <2>2. req[g].op = "report" => Held(row'[req[g].row].status)
    BY <2>1 DEF Dynamic, Static
  <2>3. req[g].op \in {"expense", "drop"} =>
          /\ row'[req[g].row] = NoRow
          /\ \A f \in Handlers \ {g} : req'[f] # Idle => req'[f].row # req[g].row
    <3> SUFFICES ASSUME req[g].op \in {"expense", "drop"}
                 PROVE  /\ row'[req[g].row] = NoRow
                        /\ \A f \in Handlers \ {g} : req'[f] # Idle => req'[f].row # req[g].row
      OBVIOUS
    <3>1. req[g].row \in Expenses /\ row[req[g].row] = NoRow
      BY <2>1 DEF Dynamic, Static
    <3>2. \A f \in Handlers \ {g} : req[f] # Idle => req[f].row # req[g].row
      BY <2>1 DEF Dynamic
    <3>3. req[h].row # req[g].row
      BY <1>3, <3>2
    <3> QED  BY <1>1, <3>1, <3>2, <3>3
  <2>4. req[g].op \notin {"expense", "drop"} /\ req[g].row \in Expenses => Exists(req[g].row)'
    BY <2>1 DEF Dynamic, Exists
  <2>5. Dynamic(g)'
    BY <2>1, <2>2, <2>3, <2>4 DEF Dynamic, Exists
  <2> QED  BY <2>1, <2>5 DEF Carries
<1>4. Carries(h)'
  <2> SUFFICES ASSUME q # Idle PROVE Static(q) /\ Dynamic(h)'
    BY <1>1 DEF Carries
  <2>1. Dynamic(h) /\ Static(q)
    BY DEF Inv, Carries
  <2>2. q.op \in {"expense", "drop"} =>
          row'[q.row] = NoRow /\ \A g \in Handlers \ {h} : req'[g] # Idle => req'[g].row # q.row
    BY <1>1, <2>1 DEF Dynamic
  <2> QED  BY <1>1, <2>1, <2>2 DEF Dynamic, Exists
<1>5. \A g \in Handlers : Carries(g)'
  BY <1>1, <1>3, <1>4 DEF Carries
<1> QED  BY <1>2, <1>5 DEF Inv

\* What was carried to this point, and by whom.
LEMMA CarriedFact ==
    ASSUME Inv, NEW h \in Handlers, req[h] # Idle
    PROVE  /\ req[h] \in Request /\ req[h].row \in Rows /\ req[h].op \in Ops
           /\ Static(req[h]) /\ Dynamic(h)
BY IdleFact DEF Inv, TypeOK, Carries

\* A request that ends and leaves the status of expenses alone.
LEMMA CalmKeeps ==
    ASSUME Inv, NEW h \in Handlers, req[h] # Idle, req' = [req EXCEPT ![h] = Idle],
           UNCHANGED <<store, bell, asked, served>>, failures' \in Nat,
           failures' = failures \/ failures' # 0,
           failures' # 0 \/ req[h].op \notin {"expense", "drop", "ask"},
           row' \in [Rows -> RowState], \A r \in Rows : RowFine(r, row'[r]),
           \A e \in Expenses : row'[e].status = row[e].status /\ (row[e] = NoRow => row'[e] = NoRow),
           \A v \in Visits : Held(row[v].status) => Held(row'[v].status),
           report' \in [Reports -> [made : BOOLEAN, visit : Visits \cup {None}]], ReportsOfHeldVisits'
    PROVE  Inv'
<1>1. req \in [Handlers -> Request] /\ \A g \in Handlers \ {h} : req'[g] = req[g]
  BY DEF Inv, TypeOK
<1>2. \A g \in Busy : g # h => g \in Busy' /\ req'[g].op = req[g].op /\ req'[g].row = req[g].row
  BY <1>1 DEF Busy
<1>3. SupportsAgree'
  <2>1. \A e \in Expenses : Exists(e)' => e \in store'
    BY DEF Inv, SupportsAgree, Exists
  <2>2. ASSUME failures' = 0, NEW e \in store PROVE Exists(e)' \/ \E g \in Busy' : req'[g].row = e
    <3>1. e \in Expenses /\ failures = 0
      BY <2>2 DEF Inv, TypeOK
    <3>2. CASE Exists(e)
      BY <3>1, <3>2 DEF Exists
    <3>3. CASE ~Exists(e)
      <4> PICK g \in Busy : req[g].row = e
        BY <3>1, <3>3 DEF Inv, SupportsAgree
      <4>1. g # h
        BY <2>2, <3>1, <3>3, CarriedFact DEF Dynamic
      <4> QED  BY <1>2, <4>1
    <3> QED  BY <3>2, <3>3
  <2> QED  BY <2>1, <2>2 DEF SupportsAgree
<1>4. CorrectionIsAsked'
  <2> SUFFICES ASSUME failures' = 0, NEW e \in Reachable, row'[e].status = "requiere_correccion", e \notin asked
               PROVE  \E g \in Busy' : req'[g].op = "ask" /\ req'[g].row = e
    BY DEF CorrectionIsAsked
  <2>1. row[e].status = "requiere_correccion" /\ failures = 0
    BY ReachableAssumption
  <2> PICK g \in Busy : req[g].op = "ask" /\ req[g].row = e
    BY <2>1 DEF Inv, CorrectionIsAsked
  <2> QED  BY <1>2
<1>5. NoGhostNotice'
  BY DEF Inv, NoGhostNotice, Resolved
<1>6. Idle \in Request /\ \A e \in Expenses : Exists(e) => Exists(e)'
  BY DEF Request, Exists
<1>7. store' \subseteq Expenses /\ asked' \subseteq Expenses
      /\ bell' \subseteq [expense : Expenses, status : {"aprobado", "rechazado"}]
  BY DEF Inv, TypeOK
<1> QED  BY <1>3, <1>4, <1>5, <1>6, <1>7, CommitKeeps

\* A request that ends with a write to a row of another kind.
LEMMA PutKeeps ==
    ASSUME Inv, NEW h \in Handlers, req[h] # Idle, End(h), UNCHANGED <<report, store, bell, asked>>,
           req[h].op \notin {"expense", "drop", "ask"}, req[h].row \notin Expenses,
           NEW x \in RowState, RowFine(req[h].row, x), row' = [row EXCEPT ![req[h].row] = x],
           req[h].row \in Visits => ~Held(row[req[h].row].status)
    PROVE  Inv'
<1>1. req[h].row \in Rows
  BY CarriedFact
<1>2. row \in [Rows -> RowState] /\ row' \in [Rows -> RowState]
  BY DEF Inv, TypeOK
<1>3. row'[req[h].row] = x /\ \A r \in Rows \ {req[h].row} : row'[r] = row[r]
  BY <1>1, <1>2
<1>4. \A r \in Rows : RowFine(r, row'[r])
  BY <1>3 DEF Inv
<1>5. \A e \in Expenses : e \in Rows /\ row'[e] = row[e]
  BY <1>3 DEF Rows
<1>6. failures' \in Nat /\ failures' = failures /\ served' = served
      /\ req' = [req EXCEPT ![h] = Idle]
      /\ report' \in [Reports -> [made : BOOLEAN, visit : Visits \cup {None}]]
  BY DEF Inv, TypeOK, End
<1>7. \A v \in Visits : Held(row[v].status) => row'[v].status = row[v].status
  BY <1>3 DEF Rows
<1>8. ReportsOfHeldVisits' /\ \A v \in Visits : Held(row[v].status) => Held(row'[v].status)
  BY <1>7, ReportsStay
<1> QED  BY <1>2, <1>4, <1>5, <1>6, <1>8, CalmKeeps

LEMMA QuietEndKeeps ==
    ASSUME Inv, NEW h \in Handlers, Conflict(h) \/ NotFound(h) \/ Abandon(h)
    PROVE  Inv'
<1>1. req[h] # Idle /\ req' = [req EXCEPT ![h] = Idle] /\ UNCHANGED <<row, report, store, bell, asked, served>>
  BY DEF Conflict, NotFound, Abandon, End, Idle
<1>2. failures' \in Nat /\ (failures' = failures \/ failures' # 0)
      /\ (failures' # 0 \/ req[h].op \notin {"expense", "drop", "ask"})
  BY DEF Conflict, NotFound, Abandon, End, Fail, Inv, TypeOK
<1>3. row' \in [Rows -> RowState] /\ (\A r \in Rows : RowFine(r, row'[r]))
      /\ report' \in [Reports -> [made : BOOLEAN, visit : Visits \cup {None}]]
  BY <1>1 DEF Inv, TypeOK
<1>4. \A e \in Expenses : row'[e].status = row[e].status /\ (row[e] = NoRow => row'[e] = NoRow)
  BY <1>1
<1>5. ReportsOfHeldVisits' /\ \A v \in Visits : Held(row[v].status) => Held(row'[v].status)
  BY <1>1, ReportsStay
<1> QED  BY <1>1, <1>2, <1>3, <1>4, <1>5, CalmKeeps

LEMMA VisitKeeps ==
    ASSUME Inv, NEW h \in Handlers, CommitVisit(h)
    PROVE  Inv'
<1> DEFINE v == req[h].row
           dated == row[v].dated \/ req[h].op = "complete"
           data == IF req[h].op = "complete" /\ req[h].to.data # None THEN req[h].to.data ELSE row[v].data
           x == [row[v] EXCEPT !.status = req[h].to.status, !.dated = dated, !.data = data]
<1>1. /\ req[h] # Idle /\ req[h].op \in {"status", "complete"} /\ v \in Visits /\ row[v].status = req[h].seen
      /\ End(h) /\ UNCHANGED <<report, store, bell, asked>>
  BY DEF CommitVisit, CommitVisit_Anyway, Unmoved
<1>2. Static(req[h]) /\ v \in Rows /\ v \notin Expenses /\ v \notin Tasks /\ v \notin Opportunities
  BY <1>1, CarriedFact, KindsFact
<1>3. row[v].status = "programada" /\ req[h].to.status \in {"completada", "cancelada", "no_realizada"}
      /\ req[h].to \in RowState /\ (req[h].op = "complete" => req[h].to.status = "completada")
  BY <1>1, <1>2, MovesFact DEF Static
<1>4. row[v].dated = FALSE
  <2>1. RowFine(v, row[v]) /\ row[v].dated \in BOOLEAN
    BY <1>2, RowTyped
  <2> QED  BY <1>1, <1>3, <2>1 DEF RowFine
<1>5. dated \in BOOLEAN /\ data \in Data \cup {None} /\ (dated => req[h].op = "complete")
  BY <1>2, <1>3, <1>4, RowTyped DEF RowState
<1>6. row' = [row EXCEPT ![v] = x]
  BY <1>1, <1>2 DEF CommitVisit, CommitVisit_Anyway, Inv, TypeOK, RowState
<1> HIDE DEF dated, data
<1>7. x \in RowState /\ x.status = req[h].to.status /\ x.dated = dated
  BY <1>2, <1>3, <1>5, RowTyped, StatusFact DEF RowState, VisitStatus
<1> HIDE DEF x
<1>8. RowFine(v, x)
  BY <1>1, <1>2, <1>3, <1>5, <1>7 DEF RowFine, VisitStatus
<1> QED  BY <1>1, <1>2, <1>3, <1>6, <1>7, <1>8, PutKeeps DEF Held

LEMMA TaskKeeps ==
    ASSUME Inv, NEW h \in Handlers, CommitTask(h)
    PROVE  Inv'
<1> DEFINE t == req[h].row
           dated == req[h].op = "complete"
           x == [row[t] EXCEPT !.status = req[h].to.status, !.dated = dated]
<1>1. /\ req[h] # Idle /\ req[h].op \in {"status", "complete"} /\ t \in Tasks /\ row[t].status = req[h].seen
      /\ End(h) /\ UNCHANGED <<report, store, bell, asked>>
  BY DEF CommitTask, Unmoved
<1>2. Static(req[h]) /\ t \in Rows /\ t \notin Expenses /\ t \notin Visits /\ t \notin Opportunities
  BY <1>1, CarriedFact, KindsFact
<1>3. req[h].to.status \in {"completada", "vencida"} /\ (dated => req[h].to.status = "completada")
  BY <1>1, <1>2, MovesFact DEF Static
<1>4. row' = [row EXCEPT ![t] = x] /\ dated \in BOOLEAN
  BY <1>1, <1>2 DEF CommitTask, Inv, TypeOK, RowState
<1> HIDE DEF dated
<1>5. x \in RowState /\ x.status = req[h].to.status /\ x.dated = dated
  BY <1>2, <1>3, <1>4, RowTyped, StatusFact DEF RowState, TaskStatus
<1> HIDE DEF x
<1>6. RowFine(t, x)
  BY <1>1, <1>2, <1>3, <1>5 DEF RowFine, TaskStatus
<1> QED  BY <1>1, <1>2, <1>4, <1>5, <1>6, PutKeeps

LEMMA StageKeeps ==
    ASSUME Inv, NEW h \in Handlers, CommitStage(h)
    PROVE  Inv'
<1> DEFINE o == req[h].row
           stage == req[h].to.status
           dated == IF stage = "venta_cerrada" THEN TRUE ELSE row[o].dated
           data == IF stage = "perdida" THEN req[h].to.data ELSE row[o].data
           x == [row[o] EXCEPT !.status = stage, !.dated = dated, !.data = data]
<1>1. /\ req[h] # Idle /\ req[h].op = "status" /\ o \in Opportunities /\ row[o].status = req[h].seen
      /\ End(h) /\ UNCHANGED <<report, store, bell, asked>>
  BY DEF CommitStage, CommitStage_Anyway, Unmoved
<1>2. Static(req[h]) /\ o \in Rows /\ o \notin Expenses /\ o \notin Visits /\ o \notin Tasks
  BY <1>1, CarriedFact, KindsFact
<1>3. row[o].status \in Stages \ {"venta_cerrada", "perdida"} /\ stage \in Stages /\ req[h].to \in RowState
  BY <1>1, <1>2, MovesFact DEF Static
<1>4. row[o].dated = FALSE /\ row[o].data = None
  <2>1. RowFine(o, row[o]) /\ row[o].dated \in BOOLEAN
    BY <1>2, RowTyped
  <2> QED  BY <1>1, <1>3, <2>1 DEF RowFine
<1>5. dated \in BOOLEAN /\ data \in Data \cup {None} /\ (dated <=> stage = "venta_cerrada")
      /\ (data # None => stage = "perdida")
  BY <1>3, <1>4 DEF RowState
<1>6. row' = [row EXCEPT ![o] = x]
  BY <1>1, <1>2 DEF CommitStage, CommitStage_Anyway, Inv, TypeOK, RowState
<1> HIDE DEF dated, data
<1>7. x \in RowState /\ x.status = stage /\ x.dated = dated /\ x.data = data
  BY <1>2, <1>3, <1>5, RowTyped, StatusFact DEF RowState
<1> HIDE DEF x
<1>8. RowFine(o, x)
  BY <1>1, <1>2, <1>3, <1>5, <1>7 DEF RowFine
<1> QED  BY <1>1, <1>2, <1>6, <1>7, <1>8, PutKeeps

LEMMA ReportKeeps ==
    ASSUME Inv, NEW h \in Handlers, NEW p \in Reports, CommitReport(h, p)
    PROVE  Inv'
<1>1. req[h] # Idle /\ req[h].op = "report" /\ req[h].row \in Visits
  <2>1. req[h] # Idle /\ req[h].op = "report"
    BY DEF CommitReport, Idle
  <2> QED  BY <2>1, CarriedFact DEF Static
<1>2. report' \in [Reports -> [made : BOOLEAN, visit : Visits \cup {None}]]
  BY <1>1 DEF CommitReport, Inv, TypeOK
<1>3. UNCHANGED <<row, store, bell, asked, served, failures>> /\ req' = [req EXCEPT ![h] = Idle]
  BY DEF CommitReport, End
<1>4. row' \in [Rows -> RowState] /\ (\A r \in Rows : RowFine(r, row'[r])) /\ failures' \in Nat
      /\ \A e \in Expenses : row'[e].status = row[e].status /\ (row[e] = NoRow => row'[e] = NoRow)
  BY <1>3 DEF Inv, TypeOK
<1>5. row[req[h].row].status = "completada"
  BY <1>1, CarriedFact DEF CommitReport, Dynamic, Held, Exists
<1>6. ReportsOfHeldVisits'
  <2> SUFFICES ASSUME NEW q \in Reports, report'[q].visit # None
               PROVE  row[report'[q].visit].status = "completada"
    BY <1>3 DEF ReportsOfHeldVisits
  <2>1. report' = [report EXCEPT ![p] = [made |-> TRUE, visit |-> req[h].row]]
    BY DEF CommitReport
  <2>2. CASE q = p
    BY <1>5, <2>1, <2>2 DEF Inv, TypeOK
  <2>3. CASE q # p
    BY <2>1, <2>3 DEF Inv, TypeOK, ReportsOfHeldVisits
  <2> QED  BY <2>2, <2>3
<1> QED  BY <1>1, <1>2, <1>3, <1>4, <1>6, CalmKeeps

\* The visit goes and what refers to it lets go of it.
LEMMA RemoveKeeps ==
    ASSUME Inv, NEW h \in Handlers, CommitRemoveVisit(h)
    PROVE  Inv'
<1> DEFINE v == req[h].row
           Gone == [NoRow EXCEPT !.status = "gone"]
           Freed(r) == [row[r] EXCEPT !.visit = None]
<1>1. req[h] # Idle /\ req[h].op = "remove" /\ v \in Visits /\ v \in Rows /\ Dynamic(h)
  <2>1. req[h] # Idle /\ req[h].op = "remove"
    BY DEF CommitRemoveVisit, Idle
  <2> QED  BY <2>1, CarriedFact DEF Static
<1>2. Gone \in RowState /\ Gone.status = "gone" /\ Gone.dated = FALSE
  BY NoRowFact DEF RowState, Status
<1>3. row' = [r \in Rows |-> IF r = v THEN Gone ELSE IF row[r].visit = v THEN Freed(r) ELSE row[r]]
  BY DEF CommitRemoveVisit
<1>4. ASSUME NEW r \in Rows
      PROVE  /\ Freed(r) \in RowState /\ Freed(r).status = row[r].status
             /\ Freed(r).dated = row[r].dated /\ Freed(r).data = row[r].data
  BY RowTyped DEF RowState
<1> HIDE DEF Gone, Freed
<1>5. row' \in [Rows -> RowState]
  BY <1>2, <1>3, <1>4 DEF Inv, TypeOK
<1>6. ASSUME NEW r \in Rows PROVE RowFine(r, row'[r])
  <2>1. CASE r = v
    BY <1>1, <1>2, <1>3, <2>1, KindsFact DEF RowFine
  <2>2. CASE r # v
    <3>1. row'[r].status = row[r].status /\ row'[r].dated = row[r].dated /\ row'[r].data = row[r].data
      BY <1>3, <1>4, <2>2
    <3>2. RowFine(r, row[r])
      BY DEF Inv
    <3> QED  BY <3>1, <3>2 DEF RowFine
  <2> QED  BY <2>1, <2>2
<1>7. ASSUME NEW e \in Expenses
      PROVE  row'[e].status = row[e].status /\ (row[e] = NoRow => row'[e] = NoRow)
  <2>1. e \in Rows /\ e # v /\ NoRow.visit # v
    BY <1>1, KindsFact, NoRowFact, NoneAssumption DEF Rows
  <2> QED  BY <1>3, <1>4, <2>1
<1>8. report' \in [Reports -> [made : BOOLEAN, visit : Visits \cup {None}]]
  BY DEF CommitRemoveVisit, Inv, TypeOK
<1>9. ASSUME NEW u \in Visits PROVE row'[u].status = IF u = v THEN "gone" ELSE row[u].status
  <2>1. u \in Rows
    BY DEF Rows
  <2> QED  BY <1>2, <1>3, <1>4, <2>1
<1>11. ReportsOfHeldVisits' /\ \A u \in Visits : Held(row[u].status) => Held(row'[u].status)
  <2>1. \A u \in Visits : Held(row[u].status) => Held(row'[u].status)
    BY <1>9 DEF Held
  <2>2. ASSUME NEW p \in Reports, report'[p].visit # None
        PROVE  report'[p].visit = report[p].visit /\ report[p].visit # v
    BY <2>2 DEF CommitRemoveVisit, Inv, TypeOK
  <2>3. ASSUME NEW p \in Reports, report'[p].visit # None PROVE row'[report'[p].visit].status = "completada"
    <3>1. report[p].visit \in Visits \ {v} /\ row[report[p].visit].status = "completada"
      BY <2>2, <2>3 DEF Inv, TypeOK, ReportsOfHeldVisits
    <3> QED  BY <1>9, <2>2, <2>3, <3>1
  <2> QED  BY <2>1, <2>3 DEF ReportsOfHeldVisits
<1>10. UNCHANGED <<store, bell, asked, served, failures>> /\ req' = [req EXCEPT ![h] = Idle] /\ failures' \in Nat
  BY DEF CommitRemoveVisit, End, Inv, TypeOK
<1> QED  BY <1>1, <1>5, <1>6, <1>7, <1>8, <1>10, <1>11, CalmKeeps
-----------------------------------------------------------------------------
(***************************************************************************)
(* Expenses                                                                *)
(***************************************************************************)

\* A step that leaves the rows and the notices alone.
LEMMA StandKeeps ==
    ASSUME Inv, NEW h \in Handlers, req[h] # Idle, NEW q \in Request, req' = [req EXCEPT ![h] = q],
           q # Idle => /\ q.row = req[h].row /\ q.op # "report" /\ Static(q)
                       /\ q.op \in {"expense", "drop"} /\ req[h].op \in {"expense", "drop"},
           UNCHANGED <<row, report, bell, served>>, failures' \in Nat,
           store' \subseteq Expenses, asked' \subseteq Expenses, SupportsAgree', CorrectionIsAsked'
    PROVE  Inv'
<1>1. row' \in [Rows -> RowState] /\ (\A r \in Rows : RowFine(r, row'[r])) /\ NoGhostNotice'
      /\ report' \in [Reports -> [made : BOOLEAN, visit : Visits \cup {None}]]
      /\ bell' \subseteq [expense : Expenses, status : {"aprobado", "rechazado"}]
  BY DEF Inv, TypeOK, NoGhostNotice, Resolved
<1>2. \A e \in Expenses : /\ Exists(e) => Exists(e)'
                          /\ row[e] = NoRow /\ e # req[h].row => row'[e] = NoRow
  BY DEF Exists
<1>3. q # Idle => row'[q.row] = NoRow
  BY CarriedFact DEF Dynamic
<1>4. ReportsOfHeldVisits' /\ \A v \in Visits : Held(row[v].status) => Held(row'[v].status)
  BY ReportsStay
<1> QED  BY <1>1, <1>2, <1>3, <1>4, CommitKeeps

LEMMA UploadKeeps ==
    ASSUME Inv, NEW h \in Handlers, UploadSupport(h)
    PROVE  Inv'
<1>1. req[h] # Idle /\ req[h].op = "expense"
  BY DEF UploadSupport, Idle
<1>2. req[h] \in Request /\ req[h].row \in Expenses /\ Static(req[h])
  BY <1>1, CarriedFact DEF Static
<1>3. UNCHANGED <<row, report, bell, served, req, asked, failures>> /\ store' = store \cup {req[h].row}
  BY DEF UploadSupport
<1>4. req' = [req EXCEPT ![h] = req[h]] /\ failures' \in Nat /\ store' \subseteq Expenses /\ asked' \subseteq Expenses
  BY <1>2, <1>3 DEF Inv, TypeOK
<1>5. SupportsAgree'
  BY <1>1, <1>3 DEF Inv, SupportsAgree, Exists, Busy
<1>6. CorrectionIsAsked'
  BY <1>3 DEF Inv, CorrectionIsAsked, Busy
<1> QED  BY <1>1, <1>2, <1>3, <1>4, <1>5, <1>6, StandKeeps

LEMMA DropBegins ==
    ASSUME Inv, NEW h \in Handlers, RefuseExpense(h) \/ ThrowExpense(h)
    PROVE  Inv'
<1> DEFINE q == [req[h] EXCEPT !.op = "drop"]
<1>1. req[h] # Idle /\ req[h].op = "expense"
  BY DEF RefuseExpense, ThrowExpense, Idle
<1>2. req[h] \in Request /\ req[h].row \in Expenses /\ Static(req[h])
  BY <1>1, CarriedFact DEF Static
<1>3. req' = [req EXCEPT ![h] = q] /\ UNCHANGED <<row, report, bell, served, asked, store>>
      /\ (failures' = failures \/ failures' # 0) /\ failures' \in Nat
  BY DEF RefuseExpense, ThrowExpense, Fail, Inv, TypeOK
<1>4. /\ q \in [op : Ops, row : Rows, to : Written, seen : Status]
      /\ q.op = "drop" /\ q.row = req[h].row /\ q.to = req[h].to /\ q.seen = req[h].seen
  BY <1>1, <1>2, IdleFact DEF Ops
<1> HIDE DEF q
<1>5. q \in Request /\ q # Idle /\ Static(q)
  BY <1>1, <1>2, <1>4 DEF Request, Idle, Static
<1>6. \A g \in Handlers : g # h => req'[g] = req[g]
  BY <1>3 DEF Inv, TypeOK
<1>7. req'[h] = q
  BY <1>3 DEF Inv, TypeOK
<1>8. SupportsAgree'
  BY <1>3, <1>4, <1>5, <1>6, <1>7 DEF Inv, SupportsAgree, Exists, Busy
<1>9. CorrectionIsAsked'
  BY <1>1, <1>3, <1>6 DEF Inv, CorrectionIsAsked, Busy
<1>10. store' \subseteq Expenses /\ asked' \subseteq Expenses
  BY <1>3 DEF Inv, TypeOK
<1> QED  BY <1>1, <1>3, <1>4, <1>5, <1>8, <1>9, <1>10, StandKeeps

LEMMA DropKeeps ==
    ASSUME Inv, NEW h \in Handlers, DropSupport(h)
    PROVE  Inv'
<1>1. req[h] # Idle /\ req[h].op = "drop"
  BY DEF DropSupport, Idle
<1>2. req[h].row \in Expenses /\ row[req[h].row] = NoRow
  BY <1>1, CarriedFact DEF Static, Dynamic
<1>3. req' = [req EXCEPT ![h] = Idle] /\ UNCHANGED <<row, report, bell, served, asked, failures>>
      /\ store' = store \ {req[h].row}
  BY DEF DropSupport, End
<1>4. \A g \in Handlers : g # h => req'[g] = req[g]
  BY <1>3 DEF Inv, TypeOK
<1>5. SupportsAgree'
  BY <1>2, <1>3, <1>4, NoRowFact DEF Inv, SupportsAgree, Exists, Busy
<1>6. CorrectionIsAsked'
  BY <1>1, <1>3, <1>4 DEF Inv, CorrectionIsAsked, Busy
<1>7. store' \subseteq Expenses /\ asked' \subseteq Expenses /\ Idle \in Request /\ failures' \in Nat
  BY <1>3 DEF Inv, TypeOK, Request
<1> QED  BY <1>1, <1>3, <1>5, <1>6, <1>7, StandKeeps

LEMMA AskKeeps ==
    ASSUME Inv, NEW h \in Handlers, AskCorrection(h)
    PROVE  Inv'
<1>1. req[h] # Idle /\ req[h].op = "ask"
  BY DEF AskCorrection, Idle
<1>2. req[h].row \in Expenses /\ Exists(req[h].row)
  BY <1>1, CarriedFact DEF Static, Dynamic
<1>3. req' = [req EXCEPT ![h] = Idle] /\ UNCHANGED <<row, report, bell, served, store, failures>>
      /\ asked' = asked \cup ({req[h].row} \cap Reachable)
  BY DEF AskCorrection, End
<1>4. \A g \in Handlers : g # h => req'[g] = req[g]
  BY <1>3 DEF Inv, TypeOK
<1>5. SupportsAgree'
  BY <1>2, <1>3, <1>4 DEF Inv, SupportsAgree, Exists, Busy
<1>6. CorrectionIsAsked'
  <2> SUFFICES ASSUME failures = 0, NEW e \in Reachable, row[e].status = "requiere_correccion", e \notin asked'
               PROVE  \E g \in Busy' : req'[g].op = "ask" /\ req'[g].row = e
    BY <1>3 DEF CorrectionIsAsked
  <2>1. e \notin asked /\ e # req[h].row
    BY <1>3
  <2> PICK g \in Busy : req[g].op = "ask" /\ req[g].row = e
    BY <2>1 DEF Inv, CorrectionIsAsked
  <2> QED  BY <1>4, <2>1 DEF Busy
<1>7. store' \subseteq Expenses /\ asked' \subseteq Expenses /\ Idle \in Request /\ failures' \in Nat
  BY <1>2, <1>3 DEF Inv, TypeOK, Request
<1> QED  BY <1>1, <1>3, <1>5, <1>6, <1>7, StandKeeps

\* The notices of an expense, when the bell stays as it was.
LEMMA SameBell == bell' = bell => \A f : Resolved(f)' = Resolved(f)
BY DEF Resolved

\* An expense that gets a new state, with the notice and the correction it calls for.
LEMMA ExpenseKeeps ==
    ASSUME Inv, NEW h \in Handlers, req[h] # Idle, req[h].op \in {"expense", "status", "edit"},
           NEW e \in Expenses, e = req[h].row, e \in store,
           NEW x \in RowState, RowFine(e, x), x.status \notin {"absent", "gone"},
           row' = [row EXCEPT ![e] = x],
           NEW q \in Request, req' = [req EXCEPT ![h] = q],
           q # Idle => q.op = "ask" /\ q.row = e /\ Static(q),
           x.status = "requiere_correccion" => q # Idle,
           UNCHANGED <<report, store, served, failures>>,
           asked' \subseteq asked, asked \subseteq asked' \cup {e},
           bell' \subseteq [expense : Expenses, status : {"aprobado", "rechazado"}],
           \A f \in Expenses \ {e} : Resolved(f)' = Resolved(f),
           Told(e, x.status, Resolved(e)')
    PROVE  Inv'
<1>1. e \in Expenses /\ e \in Rows
  BY DEF Rows
<1>2. row \in [Rows -> RowState] /\ row' \in [Rows -> RowState] /\ row'[e] = x
      /\ \A r \in Rows \ {e} : row'[r] = row[r]
  BY <1>1 DEF Inv, TypeOK
<1>3. req \in [Handlers -> Request] /\ req'[h] = q /\ \A g \in Handlers : g # h => req'[g] = req[g]
  BY DEF Inv, TypeOK
<1>4. \A r \in Rows : RowFine(r, row'[r])
  BY <1>2 DEF Inv
<1>5. Exists(e)' /\ \A f \in Expenses : /\ f # e => row'[f] = row[f] /\ (Exists(f)' <=> Exists(f))
                                        /\ Exists(f) => Exists(f)'
  BY <1>1, <1>2 DEF Exists, Rows
<1>6. NoGhostNotice'
  <2>1. \A f \in Expenses : row[f].status \in ExpenseStatus \cup {"absent"}
    BY DEF Inv, RowFine, Rows
  <2>2. \A f \in Expenses : Told(f, row[f].status, Resolved(f))
    BY <2>1, GhostFact DEF Inv
  <2>3. \A f \in Expenses : row'[f].status \in ExpenseStatus \cup {"absent"}
    BY <1>4 DEF RowFine, Rows
  <2>4. ASSUME NEW f \in Expenses PROVE Told(f, row'[f].status, Resolved(f)')
    <3>1. CASE f = e
      BY <1>2, <3>1
    <3>2. CASE f # e
      BY <1>5, <2>2, <3>2
    <3> QED  BY <3>1, <3>2
  <2> QED  BY <2>3, <2>4 DEF NoGhostNotice, Told, ExpenseStatus
<1>7. SupportsAgree'
  <2>1. \A f \in Expenses : Exists(f)' => f \in store'
    BY <1>5 DEF Inv, SupportsAgree
  <2>2. ASSUME failures = 0, NEW f \in store PROVE Exists(f)' \/ \E g \in Busy' : req'[g].row = f
    <3>1. f \in Expenses
      BY DEF Inv, TypeOK
    <3>2. CASE f = e \/ Exists(f)
      BY <1>5, <3>1, <3>2
    <3>3. CASE f # e /\ ~Exists(f)
      <4> PICK g \in Busy : req[g].row = f
        BY <2>2, <3>1, <3>3 DEF Inv, SupportsAgree
      <4> QED  BY <1>3, <3>3 DEF Busy
    <3> QED  BY <3>2, <3>3
  <2> QED  BY <2>1, <2>2 DEF SupportsAgree
<1>8. CorrectionIsAsked'
  <2> SUFFICES ASSUME failures = 0, NEW f \in Reachable, row'[f].status = "requiere_correccion", f \notin asked'
               PROVE  \E g \in Busy' : req'[g].op = "ask" /\ req'[g].row = f
    BY DEF CorrectionIsAsked
  <2>1. CASE f = e
    BY <1>2, <1>3, <2>1 DEF Busy
  <2>2. CASE f # e
    <3>1. row[f].status = "requiere_correccion" /\ f \notin asked
      BY <1>5, <2>2, ReachableAssumption
    <3> PICK g \in Busy : req[g].op = "ask" /\ req[g].row = f
      BY <3>1 DEF Inv, CorrectionIsAsked
    <3> QED  BY <1>3, <2>2 DEF Busy
  <2> QED  BY <2>1, <2>2
<1>9. /\ report' \in [Reports -> [made : BOOLEAN, visit : Visits \cup {None}]]
      /\ store' \subseteq Expenses /\ asked' \subseteq Expenses /\ failures' \in Nat
  BY DEF Inv, TypeOK
<1>10. \A f \in Expenses : row[f] = NoRow /\ f # e => row'[f] = NoRow
  BY <1>5
<1>11. q # Idle => q.row \in Expenses /\ Exists(q.row)' /\ q.op \notin {"expense", "drop", "report"}
  BY <1>1, <1>5
<1>12. ReportsOfHeldVisits' /\ \A v \in Visits : Held(row[v].status) => Held(row'[v].status)
  <2>1. \A v \in Visits : v # e /\ v \in Rows
    BY KindsFact DEF Rows
  <2> QED  BY <1>2, <2>1, ReportsStay
<1> QED  BY <1>2, <1>4, <1>5, <1>6, <1>7, <1>8, <1>9, <1>10, <1>11, <1>12, CommitKeeps

LEMMA NewExpenseKeeps ==
    ASSUME Inv, NEW h \in Handlers, CommitExpense(h)
    PROVE  Inv'
<1> DEFINE x == req[h].to
<1>1. req[h] # Idle /\ req[h].op = "expense" /\ req[h].row \in store
  BY DEF CommitExpense, Idle
<1> PICK e \in Expenses : e = req[h].row
  BY <1>1, CarriedFact DEF Static
<1>2. e \in Rows /\ x \in RowState /\ x.status = "pendiente" /\ row[e] = NoRow
  BY <1>1, CarriedFact DEF Static, Dynamic
<1>3. RowFine(e, x)
  BY <1>2, KindsFact DEF RowFine, ExpenseStatus
<1>4. row' = [row EXCEPT ![e] = x] /\ req' = [req EXCEPT ![h] = Idle] /\ Idle \in Request
      /\ UNCHANGED <<report, store, bell, asked, served, failures>>
  BY DEF CommitExpense, End, Request
<1>5. Resolved(e) = {}
  BY <1>2, NoRowFact DEF Inv, NoGhostNotice
<1>6. \A f : Resolved(f)' = Resolved(f)
  BY <1>4, SameBell
<1>7. bell' \subseteq [expense : Expenses, status : {"aprobado", "rechazado"}]
  BY <1>4 DEF Inv, TypeOK
<1>8. Told(e, x.status, Resolved(e)')
  BY <1>2, <1>5, <1>6 DEF Told
<1> HIDE DEF x
<1> QED  BY <1>1, <1>2, <1>3, <1>4, <1>6, <1>7, <1>8, ExpenseKeeps

LEMMA EditKeeps ==
    ASSUME Inv, NEW h \in Handlers, CommitEditExpense(h)
    PROVE  Inv'
<1>0. req[h] # Idle /\ req[h].op = "edit"
  BY DEF CommitEditExpense, Unmoved, CommitEditExpense_Anyway
<1> PICK e \in Expenses : e = req[h].row
  BY <1>0, CarriedFact DEF Static
<1> DEFINE status == IF req[h].seen = "requiere_correccion" THEN "pendiente" ELSE row[e].status
           dated == IF req[h].seen = "requiere_correccion" THEN FALSE ELSE row[e].dated
           data == Sent(req[h].to.data, row[e].data)
           visit == Sent(req[h].to.visit, row[e].visit)
           x == [row[e] EXCEPT !.data = data, !.visit = visit, !.status = status, !.dated = dated]
<1>1. req[h] # Idle /\ req[h].op = "edit" /\ row[e].status = req[h].seen
  BY DEF CommitEditExpense, Unmoved, CommitEditExpense_Anyway
<1>2. req[h] \in Request /\ e \in Expenses /\ e \in Rows /\ Static(req[h]) /\ Exists(e)
      /\ req[h].seen \in {"pendiente", "requiere_correccion"} /\ req[h].to \in Written
  BY <1>1, CarriedFact, IdleFact DEF Static, Dynamic
<1>3. status = "pendiente" /\ dated \in BOOLEAN
  BY <1>1, <1>2, RowTyped
<1>4. data \in Data \cup {None} /\ visit \in Visits \cup {None}
  BY <1>2, RowTyped DEF Sent, Written
<1>5. row' = [row EXCEPT ![e] = x]
  BY <1>1, <1>2, RowTyped DEF CommitEditExpense, CommitEditExpense_Anyway, Inv, TypeOK, RowState
<1> HIDE DEF status, dated, data, visit
<1>6. x \in RowState /\ x.status = "pendiente"
  BY <1>2, <1>3, <1>4, RowTyped, StatusFact DEF RowState, ExpenseStatus
<1> HIDE DEF x
<1>7. RowFine(e, x)
  BY <1>2, <1>6, KindsFact DEF RowFine, ExpenseStatus
<1>8. row'[e] = x
  BY <1>2, <1>5 DEF Inv, TypeOK
<1>9. asked' = asked \ {e} /\ req' = [req EXCEPT ![h] = Idle] /\ Idle \in Request
      /\ UNCHANGED <<report, store, bell, served, failures>>
  BY <1>6, <1>8 DEF CommitEditExpense, CommitEditExpense_Anyway, StillAsked, End, Request
<1>10. Resolved(e) = {}
  BY <1>1, <1>2 DEF Inv, NoGhostNotice
<1>11. \A f : Resolved(f)' = Resolved(f)
  BY <1>9, SameBell
<1>12. bell' \subseteq [expense : Expenses, status : {"aprobado", "rechazado"}] /\ e \in store
  BY <1>2, <1>9 DEF Inv, TypeOK, SupportsAgree
<1>13. Told(e, x.status, Resolved(e)')
  BY <1>6, <1>10, <1>11 DEF Told
<1> QED  BY <1>1, <1>2, <1>5, <1>6, <1>7, <1>9, <1>11, <1>12, <1>13, ExpenseKeeps

LEMMA ReviewKeeps ==
    ASSUME Inv, NEW h \in Handlers, CommitReview(h)
    PROVE  Inv'
<1>0. req[h].op = "status" /\ req[h].row \in Expenses /\ req[h] # Idle
  BY DEF CommitReview, Unmoved
<1> PICK e \in Expenses : e = req[h].row
  BY <1>0
<1> DEFINE status == req[h].to.status
           x == [row[e] EXCEPT !.status = status, !.dated = TRUE]
           asks == [req[h] EXCEPT !.op = "ask"]
           q == IF status = "requiere_correccion" THEN asks ELSE Idle
           notices == IF status \in {"aprobado", "rechazado"} THEN {[expense |-> e, status |-> status]} ELSE {}
<1>1. /\ row[e].status = req[h].seen /\ row' = [row EXCEPT ![e].status = status, ![e].dated = TRUE]
      /\ bell' = bell \cup notices
      /\ req' = [req EXCEPT ![h] = q]
      /\ UNCHANGED <<report, store, served, failures>>
  <2>1. req' = IF status = "requiere_correccion" THEN [req EXCEPT ![h].op = "ask"] ELSE [req EXCEPT ![h] = Idle]
    BY DEF CommitReview
  <2>2. req' = [req EXCEPT ![h] = q]
    BY <2>1 DEF Inv, TypeOK
  <2>3. bell' = bell \cup notices
    BY DEF CommitReview
  <2> QED  BY <2>2, <2>3 DEF CommitReview, Unmoved
<1>2. req[h] \in Request /\ e \in Rows /\ Static(req[h]) /\ Exists(e) /\ req[h].to \in RowState
  BY <1>0, CarriedFact DEF Static, Dynamic, Rows
<1>3. \/ row[e].status = "pendiente" /\ status \in {"aprobado", "requiere_correccion", "rechazado"}
      \/ row[e].status = "requiere_correccion" /\ status = "pendiente"
      \/ row[e].status = "aprobado" /\ status = "contabilizado"
  BY <1>0, <1>1, <1>2, KindsFact, MovesFact DEF Static
<1>4. row' = [row EXCEPT ![e] = x]
  BY <1>1, <1>2 DEF Inv, TypeOK, RowState
<1>5. x \in RowState /\ x.status = status
  BY <1>2, <1>3, RowTyped, StatusFact DEF RowState, ExpenseStatus
<1>6. row'[e] = x
  BY <1>2, <1>4 DEF Inv, TypeOK
<1>7. asked' = StillAsked(e, status)
  BY <1>5, <1>6 DEF CommitReview
<1>8. asked' \subseteq asked /\ asked \subseteq asked' \cup {e}
  BY <1>7 DEF StillAsked
<1>9. q \in Request /\ (status = "requiere_correccion" => q # Idle)
      /\ (q # Idle => q.op = "ask" /\ q.row = e /\ Static(q))
  <2>1. /\ asks \in [op : Ops, row : Rows, to : Written, seen : Status]
        /\ asks.op = "ask" /\ asks.row = e /\ asks.to = req[h].to
        /\ asks.seen = req[h].seen
    BY <1>0, <1>2, IdleFact DEF Ops
  <2> HIDE DEF asks
  <2>2. asks # Idle /\ asks \in Request
    BY <2>1 DEF Idle, Request
  <2>3. Static(asks)
    BY <1>2, <2>1 DEF Static
  <2> QED  BY <2>1, <2>2, <2>3 DEF Request
<1>10. Told(e, row[e].status, Resolved(e))
  BY <1>2, GhostFact DEF Inv, RowFine, Rows
<1> HIDE DEF status, q, asks, x
<1>11. \A f \in Expenses \ {e} : Resolved(f)' = Resolved(f)
  <2> SUFFICES ASSUME NEW f \in Expenses \ {e} PROVE Resolved(f)' = Resolved(f)
    OBVIOUS
  <2>1. \A m \in bell' : m.expense = f => m \in bell
    BY <1>1
  <2> QED  BY <1>1, <2>1 DEF Resolved
<1>12. Told(e, x.status, Resolved(e)')
  <2>1. CASE status \in {"aprobado", "rechazado"}
    <3>1. Resolved(e) = {}
      BY <1>3, <1>10, <2>1 DEF Told
    <3>2. Resolved(e)' = Resolved(e) \cup {status}
      <4> DEFINE n == [expense |-> e, status |-> status]
      <4>1. n.expense = e /\ n.status = status /\ bell' = bell \cup {n}
        BY <1>1, <2>1
      <4> HIDE DEF n
      <4>2. {m \in bell' : m.expense = e} = {m \in bell : m.expense = e} \cup {n}
        BY <4>1
      <4> QED  BY <4>1, <4>2 DEF Resolved
    <3> QED  BY <1>5, <2>1, <3>1, <3>2 DEF Told
  <2>2. CASE status \notin {"aprobado", "rechazado"}
    <3>1. Resolved(e)' = Resolved(e)
      BY <1>1, <2>2, SameBell
    <3> QED  BY <1>3, <1>5, <1>10, <2>2, <3>1 DEF Told
  <2> QED  BY <2>1, <2>2
<1>13. RowFine(e, x)
  BY <1>2, <1>3, <1>5, KindsFact DEF RowFine, ExpenseStatus
<1>14. e \in store
  BY <1>2 DEF Inv, SupportsAgree
<1>15. bell' \subseteq [expense : Expenses, status : {"aprobado", "rechazado"}]
  BY <1>1 DEF Inv, TypeOK
<1>16. x.status \notin {"absent", "gone"}
  BY <1>3, <1>5
<1>17. x.status = "requiere_correccion" => q # Idle
  BY <1>5, <1>9
<1> HIDE DEF notices
<1> QED  BY <1>0, <1>1, <1>4, <1>5, <1>8, <1>9, <1>11, <1>12, <1>13, <1>14, <1>15, <1>16, <1>17, ExpenseKeeps
-----------------------------------------------------------------------------
(***************************************************************************)
(* The invariant                                                           *)
(***************************************************************************)
LEMMA BeginsKeep ==
    ASSUME Inv, NEW h \in Handlers, Begin(h)
    PROVE  Inv'
<1>1. CASE \E v \in Visits :
             \/ \E s \in VisitStatus : BeginVisitStatus(h, v, s)
             \/ \E data \in Data \cup {None} : BeginCompleteVisit(h, v, data)
             \/ BeginRemoveVisit(h, v) \/ BeginReport(h, v)
  BY <1>1, VisitBegins
<1>2. CASE \E t \in Tasks : BeginCompleteTask(h, t) \/ \E s \in TaskStatus : BeginTaskStatus(h, t, s)
  BY <1>2, TaskBegins
<1>3. CASE \E o \in Opportunities, s \in Stages, data \in Data \cup {None} : BeginStage(h, o, s, data)
  BY <1>3, StageBegins
<1>4. CASE \E e \in Expenses :
             \/ \E data \in Data, v \in Visits \cup {None} : BeginExpense(h, e, data, v)
             \/ \E data \in Data \cup {Unsent}, v \in Visits \cup {None, Unsent} :
                  BeginEditExpense(h, e, data, v)
             \/ \E s \in ExpenseStatus : BeginReview(h, e, s)
  BY <1>4, ExpenseBegins
<1> QED  BY <1>1, <1>2, <1>3, <1>4 DEF Begin

LEMMA ServeKeeps ==
    ASSUME Inv, NEW h \in Handlers, Serve(h)
    PROVE  Inv'
<1>1. CASE CommitVisit(h)
  BY <1>1, VisitKeeps
<1>2. CASE CommitRemoveVisit(h)
  BY <1>2, RemoveKeeps
<1>3. CASE \E p \in Reports : CommitReport(h, p)
  BY <1>3, ReportKeeps
<1>4. CASE CommitTask(h)
  BY <1>4, TaskKeeps
<1>5. CASE CommitStage(h)
  BY <1>5, StageKeeps
<1>6. CASE UploadSupport(h)
  BY <1>6, UploadKeeps
<1>7. CASE CommitExpense(h)
  BY <1>7, NewExpenseKeeps
<1>8. CASE RefuseExpense(h)
  BY <1>8, DropBegins
<1>9. CASE DropSupport(h)
  BY <1>9, DropKeeps
<1>10. CASE CommitEditExpense(h)
  BY <1>10, EditKeeps
<1>11. CASE CommitReview(h)
  BY <1>11, ReviewKeeps
<1>12. CASE AskCorrection(h)
  BY <1>12, AskKeeps
<1>13. CASE Conflict(h) \/ NotFound(h)
  BY <1>13, QuietEndKeeps
<1> QED  BY <1>1, <1>2, <1>3, <1>4, <1>5, <1>6, <1>7, <1>8, <1>9, <1>10, <1>11, <1>12, <1>13 DEF Serve

LEMMA StutterKeeps == Inv /\ UNCHANGED vars => Inv'
<1> SUFFICES ASSUME Inv, UNCHANGED vars PROVE Inv'
  OBVIOUS
<1>1. UNCHANGED <<row, report, store, bell, asked, req, served, failures>>
  BY DEF vars
<1>2. TypeOK' /\ \A r \in Rows : RowFine(r, row'[r])
  BY <1>1 DEF Inv, TypeOK
<1>3. \A h \in Handlers : Carries(h)'
  BY <1>1 DEF Inv, Carries, Dynamic, Exists
<1>4. NoGhostNotice' /\ ReportsOfHeldVisits'
  BY <1>1 DEF Inv, NoGhostNotice, Resolved, ReportsOfHeldVisits
<1>5. SupportsAgree' /\ CorrectionIsAsked'
  BY <1>1 DEF Inv, SupportsAgree, CorrectionIsAsked, Exists, Busy
<1> QED  BY <1>2, <1>3, <1>4, <1>5 DEF Inv

LEMMA NextInv == Inv /\ [Next]_vars => Inv'
<1> SUFFICES ASSUME Inv, [Next]_vars PROVE Inv'
  OBVIOUS
<1>1. CASE Create
  BY <1>1, CreateKeeps
<1>2. CASE \E h \in Handlers : Begin(h)
  BY <1>2, BeginsKeep
<1>3. CASE \E h \in Handlers : Serve(h)
  BY <1>3, ServeKeeps
<1>4. CASE \E h \in Handlers : Abandon(h)
  BY <1>4, QuietEndKeeps
<1>5. CASE \E h \in Handlers : ThrowExpense(h)
  BY <1>5, DropBegins
<1>6. CASE UNCHANGED vars
  BY <1>6, StutterKeeps
<1> QED  BY <1>1, <1>2, <1>3, <1>4, <1>5, <1>6 DEF Next, Quiet

\* The inductive invariant: what is asserted of the rows, and what each request
\* carries from what it read to what it commits.
THEOREM Invariant == Spec => []Inv
BY InitInv, NextInv, PTL DEF Spec

\* The types of rows, reports, requests and notices.
THEOREM TypeCorrect == Spec => []TypeOK
<1>1. Inv => TypeOK
  BY DEF Inv
<1> QED  BY <1>1, Invariant, PTL

\* closedAt, completedAt and the reason of a loss go with one outcome, whoever
\* settles the row and with whomever he races.
THEOREM DatesGoWithOutcomes == Spec => []OutcomesAgree
<1>1. Inv => OutcomesAgree
  <2> SUFFICES ASSUME Inv PROVE OutcomesAgree
    OBVIOUS
  <2>1. ASSUME NEW o \in Opportunities
        PROVE  /\ row[o].dated = (row[o].status = "venta_cerrada")
               /\ row[o].data # None => row[o].status = "perdida"
    <3>1. o \in Rows
      BY DEF Rows
    <3>2. row[o].dated \in BOOLEAN /\ RowFine(o, row[o])
      BY <3>1, RowTyped
    <3> QED  BY <3>2 DEF RowFine
  <2>2. \A r \in Visits \cup Tasks : row[r].dated => row[r].status = "completada"
    BY DEF Inv, RowFine, Rows
  <2> QED  BY <2>1, <2>2 DEF OutcomesAgree
<1> QED  BY <1>1, Invariant, PTL

\* A submitter is told of the resolution his expense got and of no other.
THEOREM NoticesAreTrue == Spec => []NoGhostNotice
<1>1. Inv => NoGhostNotice
  BY DEF Inv
<1> QED  BY <1>1, Invariant, PTL

\* The rows of expenses and the objects of their supports stay in step.
THEOREM SupportsInStep == Spec => []SupportsAgree
<1>1. Inv => SupportsAgree
  BY DEF Inv
<1> QED  BY <1>1, Invariant, PTL

\* No correction is forgotten without a failure.
THEOREM CorrectionsAreAsked == Spec => []CorrectionIsAsked
<1>1. Inv => CorrectionIsAsked
  BY DEF Inv
<1> QED  BY <1>1, Invariant, PTL

\* A report is of a visit that took place and was not removed, with any number of
\* requests that settle and remove visits between its reads and its write.
THEOREM ReportsAreSound == Spec => []ReportsOfHeldVisits
<1>1. Inv => ReportsOfHeldVisits
  BY DEF Inv
<1> QED  BY <1>1, Invariant, PTL
-----------------------------------------------------------------------------
(***************************************************************************)
(* The refinement                                                          *)
(***************************************************************************)

\* A row as its table sees it.
Show(x) == [status |-> IF x.status \notin {"absent", "gone"} THEN x.status ELSE "absent", data |-> x.data]

LEMMA OfFact ==
    ASSUME NEW rows, NEW moves, NEW r \in rows, NEW a, NEW b, <<a, b>> \in moves
    PROVE  <<r, a, b>> \in Of(rows, moves)
<1>1. <<a, b>>[1] = a /\ <<a, b>>[2] = b
  OBVIOUS
<1> QED  BY <1>1 DEF Of

LEMMA MovesOf ==
    ASSUME NEW r, NEW a, NEW b,
           \/ r \in Visits /\ <<a, b>> \in VisitMoves
           \/ r \in Tasks /\ <<a, b>> \in TaskMoves
           \/ r \in Opportunities /\ <<a, b>> \in StageMoves
           \/ r \in Expenses /\ <<a, b>> \in ExpenseMoves
    PROVE  /\ <<r, a, b>> \in Moves
           /\ b \in {"completada", "perdida"} => <<r, a, b>> \in Writing
           /\ r \in Expenses /\ a = "requiere_correccion" /\ b = "pendiente" => <<r, a, b>> \in Writing
<1>1. <<r, a, b>> \in Moves
  <2>1. CASE r \in Visits /\ <<a, b>> \in VisitMoves
    BY <2>1, OfFact DEF Moves
  <2>2. CASE r \in Tasks /\ <<a, b>> \in TaskMoves
    BY <2>2, OfFact DEF Moves
  <2>3. CASE r \in Opportunities /\ <<a, b>> \in StageMoves
    BY <2>3, OfFact DEF Moves
  <2>4. CASE r \in Expenses /\ <<a, b>> \in ExpenseMoves
    BY <2>4, OfFact DEF Moves
  <2> QED  BY <2>1, <2>2, <2>3, <2>4
<1>2. <<r, a, b>>[3] = b
  OBVIOUS
<1>3. b \in {"completada", "perdida"} => <<r, a, b>> \in Writing
  BY <1>1, <1>2 DEF Writing
<1>4. r \in Expenses /\ a = "requiere_correccion" /\ b = "pendiente" => <<r, a, b>> \in Writing
  <2> SUFFICES ASSUME r \in Expenses, a = "requiere_correccion", b = "pendiente" PROVE <<r, a, b>> \in Writing
    OBVIOUS
  <2>1. <<a, b>> \in {<<"requiere_correccion", "pendiente">>}
    OBVIOUS
  <2>2. <<r, a, b>> \in Of(Expenses, {<<"requiere_correccion", "pendiente">>})
    BY <2>1, OfFact
  <2> QED  BY <2>2 DEF Writing
<1> QED  BY <1>1, <1>3, <1>4

\* What a step of the table is, for one row.
LEMMA TableStep ==
    ASSUME NEW r \in Rows, \A s \in Rows \ {r} : Show(row'[s]) = Show(row[s]),
           \/ Show(row[r]).status = "absent" /\ <<r, Show(row'[r]).status>> \in Births
           \/ /\ <<r, Show(row[r]).status, Show(row'[r]).status>> \in Moves
              /\ \/ Show(row'[r]).data = Show(row[r]).data
                 \/ <<r, Show(row[r]).status, Show(row'[r]).status>> \in Writing
           \/ /\ Show(row'[r]).status = Show(row[r]).status
              /\ <<r, Show(row[r]).status>> \in (Visits \X VisitStatus)
                                                  \cup (Expenses \X {"pendiente", "requiere_correccion"})
           \/ Show(row[r]).status # "absent" /\ Show(row'[r]).status = "absent"
    PROVE  Table!Next
<1> DEFINE old(s) == [status |-> IF Exists(s) THEN row[s].status ELSE "absent", data |-> row[s].data]
           abs == [s \in Rows |-> old(s)]
<1>1. \A s \in Rows : old(s) = Show(row[s])
  BY DEF Show, Exists
<1>2. \A s \in Rows : old(s)' = Show(row'[s])
  BY DEF Show, Exists
<1>3. \A s \in Rows : abs[s] = Show(row[s]) /\ abs'[s] = Show(row'[s])
  <2>1. \A s \in Rows : abs[s] = old(s) /\ abs'[s] = old(s)'
    OBVIOUS
  <2> QED  BY <1>1, <1>2, <2>1
<1> HIDE DEF old
<1> DEFINE Step == \/ /\ abs[r].status = "absent"
                      /\ <<r, abs'[r].status>> \in Births
                   \/ /\ <<r, abs[r].status, abs'[r].status>> \in Moves
                      /\ \/ abs'[r].data = abs[r].data
                         \/ <<r, abs[r].status, abs'[r].status>> \in Writing
                   \/ /\ abs'[r].status = abs[r].status
                      /\ <<r, abs[r].status>> \in (Visits \X VisitStatus)
                                                    \cup (Expenses \X {"pendiente", "requiere_correccion"})
                   \/ abs[r].status # "absent" /\ abs'[r].status = "absent"
<1> HIDE DEF abs
<1>4. Step /\ \A s \in Rows \ {r} : abs'[s] = abs[s]
  BY <1>3
<1> QED
  BY <1>4 DEF Table!Next, Table!Create, Table!Move, Table!Edit, Table!Remove, Table!Others, abs, old

LEMMA TableStutter ==
    ASSUME row' = row
    PROVE  UNCHANGED [r \in Rows |-> [status |-> IF Exists(r) THEN row[r].status ELSE "absent",
                                      data |-> row[r].data]]
BY DEF Exists

\* A write to one row shows in that row alone.
LEMMA OneRow ==
    ASSUME Inv, NEW r \in Rows, NEW x, row' = [row EXCEPT ![r] = x]
    PROVE  row'[r] = x /\ \A s \in Rows \ {r} : Show(row'[s]) = Show(row[s])
BY DEF Inv, TypeOK

LEMMA ShowFact ==
    ASSUME NEW x, x.status \notin {"absent", "gone"}
    PROVE  Show(x).status = x.status /\ Show(x).data = x.data
BY DEF Show

\* A row moves along its table.
LEMMA MoveInTable ==
    ASSUME Inv, NEW r \in Rows, NEW x, row' = [row EXCEPT ![r] = x],
           \/ r \in Visits /\ <<row[r].status, x.status>> \in VisitMoves
           \/ r \in Tasks /\ <<row[r].status, x.status>> \in TaskMoves
           \/ r \in Opportunities /\ <<row[r].status, x.status>> \in StageMoves
           \/ r \in Expenses /\ <<row[r].status, x.status>> \in ExpenseMoves,
           \/ x.data = row[r].data \/ x.status \in {"completada", "perdida"}
           \/ r \in Expenses /\ row[r].status = "requiere_correccion" /\ x.status = "pendiente"
    PROVE  Table!Next
<1>1. row'[r] = x /\ \A s \in Rows \ {r} : Show(row'[s]) = Show(row[s])
  BY OneRow
<1>2. row[r].status \notin {"absent", "gone"} /\ x.status \notin {"absent", "gone"}
  BY MovesFact, PipelineFact
<1>3. Show(row[r]).status = row[r].status /\ Show(row'[r]).status = x.status
      /\ Show(row[r]).data = row[r].data /\ Show(row'[r]).data = x.data
  BY <1>1, <1>2, ShowFact
<1>4. <<r, row[r].status, x.status>> \in Moves
      /\ (x.data = row[r].data \/ <<r, row[r].status, x.status>> \in Writing)
  BY MovesOf
<1> QED  BY <1>1, <1>3, <1>4, TableStep

LEMMA BirthInTable ==
    ASSUME Inv, NEW r \in Rows, NEW x, row[r] = NoRow, row' = [row EXCEPT ![r] = x],
           <<r, x.status>> \in Births, x.status \notin {"absent", "gone"}
    PROVE  Table!Next
<1>1. row'[r] = x /\ \A s \in Rows \ {r} : Show(row'[s]) = Show(row[s])
  BY OneRow
<1>2. Show(row[r]).status = "absent" /\ Show(row'[r]).status = x.status
  BY <1>1, NoRowFact, ShowFact DEF Show
<1> QED  BY <1>1, <1>2, TableStep

LEMMA EditInTable ==
    ASSUME Inv, NEW r \in Rows, NEW x, row' = [row EXCEPT ![r] = x], x.status = row[r].status,
           \/ r \in Visits /\ row[r].status \in VisitStatus
           \/ r \in Expenses /\ row[r].status \in {"pendiente", "requiere_correccion"}
    PROVE  Table!Next
<1>1. row'[r] = x /\ \A s \in Rows \ {r} : Show(row'[s]) = Show(row[s])
  BY OneRow
<1>2. x.status \notin {"absent", "gone"}
  BY DEF VisitStatus
<1>3. Show(row[r]).status = row[r].status /\ Show(row'[r]).status = row[r].status
  BY <1>1, <1>2, ShowFact
<1>4. <<r, row[r].status>> \in (Visits \X VisitStatus) \cup (Expenses \X {"pendiente", "requiere_correccion"})
  OBVIOUS
<1> QED  BY <1>1, <1>3, <1>4, TableStep

LEMMA CreateInTable == ASSUME Inv, Create PROVE Table!Next
<1>1. ASSUME NEW r \in Rows, NEW status, NEW data, NEW dated, Fresh(r, status, data, dated),
             <<r, status>> \in Births, status \notin {"absent", "gone"}
      PROVE  Table!Next
  <2> DEFINE x == [NoRow EXCEPT !.status = status, !.data = data, !.dated = dated]
  <2>1. x.status = status /\ row[r] = NoRow /\ row' = [row EXCEPT ![r] = x]
    BY <1>1 DEF Fresh, NoRow
  <2> HIDE DEF x
  <2> QED  BY <1>1, <2>1, BirthInTable
<1>2. CASE \E v \in Visits, data \in Data \cup {None} : CreateVisit(v, data)
  BY <1>1, <1>2 DEF CreateVisit, Births, Rows
<1>3. CASE \E v \in Visits, data \in Data \cup {None} : UpdateVisit(v, data)
  <2> PICK v \in Visits, data \in Data \cup {None} : UpdateVisit(v, data)
    BY <1>3
  <2> DEFINE x == [row[v] EXCEPT !.data = data]
  <2>1. v \in Rows /\ Exists(v) /\ row' = [row EXCEPT ![v] = x] /\ x.status = row[v].status
    BY RowTyped DEF UpdateVisit, Rows, RowState
  <2>2. row[v].status \in VisitStatus
    BY <2>1, RowTyped DEF RowFine, Exists
  <2> HIDE DEF x
  <2> QED  BY <2>1, <2>2, EditInTable
<1>4. CASE \E t \in Tasks : CreateTask(t)
  BY <1>1, <1>4 DEF CreateTask, Births, Rows
<1>5. CASE \E o \in Opportunities, s \in Stages, data \in Data \cup {None} : CreateOpportunity(o, s, data)
  <2> PICK o \in Opportunities, s \in Stages, data \in Data \cup {None} : CreateOpportunity(o, s, data)
    BY <1>5
  <2>1. o \in Rows /\ <<o, s>> \in Births /\ s \notin {"absent", "gone"}
    BY PipelineFact DEF Rows, Births
  <2> QED  BY <1>1, <2>1 DEF CreateOpportunity
<1> QED  BY <1>2, <1>3, <1>4, <1>5 DEF Create

LEMMA VisitInTable == ASSUME Inv, NEW h \in Handlers, CommitVisit(h) PROVE Table!Next
<1>0. req[h] # Idle /\ req[h].op \in {"status", "complete"} /\ req[h].row \in Visits
  BY DEF CommitVisit, CommitVisit_Anyway, Unmoved
<1> PICK v \in Visits : v = req[h].row
  BY <1>0
<1> DEFINE dated == row[v].dated \/ req[h].op = "complete"
           data == IF req[h].op = "complete" /\ req[h].to.data # None THEN req[h].to.data ELSE row[v].data
           x == [row[v] EXCEPT !.status = req[h].to.status, !.dated = dated, !.data = data]
<1>1. Static(req[h]) /\ v \in Rows /\ v \notin Tasks /\ v \notin Opportunities /\ v \notin Expenses
  BY <1>0, CarriedFact, KindsFact
<1>2. <<row[v].status, req[h].to.status>> \in VisitMoves
  BY <1>0, <1>1 DEF Static, CommitVisit, Unmoved
<1>3. data = row[v].data \/ req[h].to.status = "completada"
  BY <1>0, <1>1 DEF Static
<1>4. row' = [row EXCEPT ![v] = x]
  BY <1>1 DEF CommitVisit, CommitVisit_Anyway, Inv, TypeOK, RowState
<1> HIDE DEF dated, data
<1>5. x.status = req[h].to.status /\ x.data = data
  BY <1>1, RowTyped DEF RowState
<1> HIDE DEF x
<1> QED  BY <1>1, <1>2, <1>3, <1>4, <1>5, MoveInTable

LEMMA RemoveInTable == ASSUME Inv, NEW h \in Handlers, CommitRemoveVisit(h) PROVE Table!Next
<1>0. req[h] # Idle /\ req[h].op = "remove"
  BY DEF CommitRemoveVisit, Idle
<1> PICK v \in Visits : v = req[h].row
  BY <1>0, CarriedFact DEF Static
<1> DEFINE Gone == [NoRow EXCEPT !.status = "gone"]
           Freed(r) == [row[r] EXCEPT !.visit = None]
<1>1. v \in Rows /\ row[v].status \notin {"absent", "gone"}
  BY DEF Rows, CommitRemoveVisit, Exists
<1>2. Gone.status = "gone"
  BY DEF NoRow
<1>3. row' = [r \in Rows |-> IF r = v THEN Gone ELSE IF row[r].visit = v THEN Freed(r) ELSE row[r]]
  BY DEF CommitRemoveVisit
<1>4. ASSUME NEW r \in Rows PROVE Freed(r).status = row[r].status /\ Freed(r).data = row[r].data
  BY RowTyped DEF RowState
<1> HIDE DEF Gone, Freed
<1>5. \A s \in Rows \ {v} : Show(row'[s]) = Show(row[s])
  BY <1>3, <1>4 DEF Show
<1>6. Show(row[v]).status # "absent" /\ Show(row'[v]).status = "absent"
  BY <1>1, <1>2, <1>3 DEF Show
<1> QED  BY <1>1, <1>5, <1>6, TableStep

LEMMA TaskInTable == ASSUME Inv, NEW h \in Handlers, CommitTask(h) PROVE Table!Next
<1>0. req[h] # Idle /\ req[h].op \in {"status", "complete"} /\ req[h].row \in Tasks
  BY DEF CommitTask, Unmoved
<1> PICK t \in Tasks : t = req[h].row
  BY <1>0
<1> DEFINE dated == req[h].op = "complete"
           x == [row[t] EXCEPT !.status = req[h].to.status, !.dated = dated]
<1>1. Static(req[h]) /\ t \in Rows /\ t \notin Visits /\ t \notin Opportunities /\ t \notin Expenses
  BY <1>0, CarriedFact, KindsFact
<1>2. <<row[t].status, req[h].to.status>> \in TaskMoves
  BY <1>0, <1>1 DEF Static, CommitTask, Unmoved
<1>3. row' = [row EXCEPT ![t] = x]
  BY <1>1 DEF CommitTask, Inv, TypeOK, RowState
<1> HIDE DEF dated
<1>4. x.status = req[h].to.status /\ x.data = row[t].data
  BY <1>1, RowTyped DEF RowState
<1> HIDE DEF x
<1> QED  BY <1>1, <1>2, <1>3, <1>4, MoveInTable

LEMMA StageInTable == ASSUME Inv, NEW h \in Handlers, CommitStage(h) PROVE Table!Next
<1>0. req[h] # Idle /\ req[h].op = "status" /\ req[h].row \in Opportunities
  BY DEF CommitStage, CommitStage_Anyway, Unmoved
<1> PICK o \in Opportunities : o = req[h].row
  BY <1>0
<1> DEFINE stage == req[h].to.status
           dated == IF stage = "venta_cerrada" THEN TRUE ELSE row[o].dated
           data == IF stage = "perdida" THEN req[h].to.data ELSE row[o].data
           x == [row[o] EXCEPT !.status = stage, !.dated = dated, !.data = data]
<1>1. Static(req[h]) /\ o \in Rows /\ o \notin Visits /\ o \notin Tasks /\ o \notin Expenses
  BY <1>0, CarriedFact, KindsFact
<1>2. <<row[o].status, stage>> \in StageMoves
  BY <1>0, <1>1 DEF Static, CommitStage, Unmoved
<1>3. data = row[o].data \/ stage = "perdida"
  OBVIOUS
<1>4. row' = [row EXCEPT ![o] = x]
  BY <1>1 DEF CommitStage, CommitStage_Anyway, Inv, TypeOK, RowState
<1> HIDE DEF dated, data
<1>5. x.status = stage /\ x.data = data
  BY <1>1, RowTyped DEF RowState
<1> HIDE DEF x, stage
<1> QED  BY <1>1, <1>2, <1>3, <1>4, <1>5, MoveInTable

LEMMA NewExpenseInTable == ASSUME Inv, NEW h \in Handlers, CommitExpense(h) PROVE Table!Next
<1>0. req[h] # Idle /\ req[h].op = "expense"
  BY DEF CommitExpense, Idle
<1> PICK e \in Expenses : e = req[h].row
  BY <1>0, CarriedFact DEF Static
<1>1. req[h].to.status = "pendiente" /\ row[e] = NoRow /\ e \in Rows
  BY <1>0, CarriedFact DEF Static, Dynamic
<1>2. row' = [row EXCEPT ![e] = req[h].to] /\ <<e, "pendiente">> \in Births
  BY DEF CommitExpense, Births
<1> QED  BY <1>1, <1>2, BirthInTable

LEMMA CorrectionInTable == ASSUME Inv, NEW h \in Handlers, CommitEditExpense(h) PROVE Table!Next
<1>0. req[h] # Idle /\ req[h].op = "edit"
  BY DEF CommitEditExpense, Unmoved, CommitEditExpense_Anyway
<1> PICK e \in Expenses : e = req[h].row
  BY <1>0, CarriedFact DEF Static
<1> DEFINE status == IF req[h].seen = "requiere_correccion" THEN "pendiente" ELSE row[e].status
           dated == IF req[h].seen = "requiere_correccion" THEN FALSE ELSE row[e].dated
           data == Sent(req[h].to.data, row[e].data)
           visit == Sent(req[h].to.visit, row[e].visit)
           x == [row[e] EXCEPT !.data = data, !.visit = visit, !.status = status, !.dated = dated]
<1>1. row[e].status = req[h].seen /\ req[h].seen \in {"pendiente", "requiere_correccion"} /\ e \in Rows
  BY <1>0, CarriedFact DEF Static, CommitEditExpense, Unmoved
<1>2. row' = [row EXCEPT ![e] = x]
  BY <1>1 DEF CommitEditExpense, CommitEditExpense_Anyway, Inv, TypeOK, RowState
<1>3. x.status = status /\ status = "pendiente"
  BY <1>1, RowTyped DEF RowState
<1> HIDE DEF x, status
<1>4. CASE row[e].status = "requiere_correccion"
  <2>1. <<row[e].status, x.status>> \in ExpenseMoves
    BY <1>3, <1>4 DEF ExpenseMoves
  <2> QED  BY <1>1, <1>2, <1>3, <1>4, <2>1, MoveInTable
<1>5. CASE row[e].status = "pendiente"
  BY <1>1, <1>2, <1>3, <1>5, EditInTable
<1> QED  BY <1>1, <1>4, <1>5

LEMMA ReviewInTable == ASSUME Inv, NEW h \in Handlers, CommitReview(h) PROVE Table!Next
<1>0. req[h] # Idle /\ req[h].op = "status" /\ req[h].row \in Expenses
  BY DEF CommitReview, Unmoved
<1> PICK e \in Expenses : e = req[h].row
  BY <1>0
<1> DEFINE status == req[h].to.status
           x == [row[e] EXCEPT !.status = status, !.dated = TRUE]
<1>1. Static(req[h]) /\ e \in Rows /\ e \notin Visits /\ e \notin Tasks /\ e \notin Opportunities
  BY <1>0, CarriedFact, KindsFact
<1>2. <<row[e].status, status>> \in ExpenseMoves
  BY <1>0, <1>1 DEF Static, CommitReview, Unmoved
<1>3. row' = [row EXCEPT ![e] = x]
  BY <1>1 DEF CommitReview, Inv, TypeOK, RowState
<1>4. x.status = status /\ x.data = row[e].data
  BY <1>1, RowTyped DEF RowState
<1> HIDE DEF x, status
<1> QED  BY <1>1, <1>2, <1>3, <1>4, MoveInTable

LEMMA RowsKeep ==
    ASSUME NEW h \in Handlers,
           \/ \E p \in Reports : CommitReport(h, p)
           \/ UploadSupport(h) \/ RefuseExpense(h) \/ DropSupport(h) \/ AskCorrection(h)
           \/ Conflict(h) \/ NotFound(h) \/ Abandon(h) \/ ThrowExpense(h) \/ Begin(h)
    PROVE  row' = row
BY DEF CommitReport, UploadSupport, RefuseExpense, DropSupport, AskCorrection, Conflict, NotFound, Abandon,
       ThrowExpense, Begin, BeginVisitStatus, BeginCompleteVisit, BeginRemoveVisit, BeginReport,
       BeginTaskStatus, BeginCompleteTask, BeginStage, BeginExpense, BeginEditExpense, BeginReview, Ask

LEMMA StepInTable == ASSUME Inv, [Next]_vars PROVE Table!Next \/ row' = row
<1>1. CASE Create
  BY <1>1, CreateInTable
<1>2. ASSUME NEW h \in Handlers, Serve(h) PROVE Table!Next \/ row' = row
  <2>1. CASE CommitVisit(h)
    BY <2>1, VisitInTable
  <2>2. CASE CommitRemoveVisit(h)
    BY <2>2, RemoveInTable
  <2>3. CASE CommitTask(h)
    BY <2>3, TaskInTable
  <2>4. CASE CommitStage(h)
    BY <2>4, StageInTable
  <2>5. CASE CommitExpense(h)
    BY <2>5, NewExpenseInTable
  <2>6. CASE CommitEditExpense(h)
    BY <2>6, CorrectionInTable
  <2>7. CASE CommitReview(h)
    BY <2>7, ReviewInTable
  <2>8. CASE \/ \E p \in Reports : CommitReport(h, p)
             \/ UploadSupport(h) \/ RefuseExpense(h) \/ DropSupport(h) \/ AskCorrection(h)
             \/ Conflict(h) \/ NotFound(h)
    BY <2>8, RowsKeep
  <2> QED  BY <1>2, <2>1, <2>2, <2>3, <2>4, <2>5, <2>6, <2>7, <2>8 DEF Serve
<1>3. ASSUME NEW h \in Handlers, Begin(h) \/ Abandon(h) \/ ThrowExpense(h) PROVE row' = row
  BY <1>3, RowsKeep
<1>4. CASE UNCHANGED vars
  BY <1>4 DEF vars
<1> QED  BY <1>1, <1>2, <1>3, <1>4 DEF Next, Quiet

\* Every row of the desk moves along its table, and what was decided on stays as it
\* was said, however the requests interleave and whatever fails between them.
THEOREM ImplementsTables == Spec => KeepsTables
<1>1. Init => Table!Init
  <2> SUFFICES ASSUME Init PROVE Table!Init
    OBVIOUS
  <2>1. \A r \in Rows : row[r].status = "absent" /\ ~Exists(r)
    BY DEF Init, NoRow, Exists
  <2> QED  BY <2>1 DEF Table!Init
<1>2. Inv /\ [Next]_vars =>
        [Table!Next]_([r \in Rows |-> [status |-> IF Exists(r) THEN row[r].status ELSE "absent",
                                       data |-> row[r].data]])
  BY StepInTable, TableStutter
<1> QED  BY <1>1, <1>2, Invariant, PTL DEF Spec, KeepsTables, Table!Spec
=============================================================================
