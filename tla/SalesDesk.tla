------------------------------ MODULE SalesDesk ------------------------------
(***************************************************************************)
(* A seller's desk: visits, follow-up tasks, opportunities and the         *)
(* expenses of the road.  Each has a status with a table of transitions    *)
(* and is changed by handlers that read it first and write under the       *)
(* condition that it has not moved since.  Around the status there is more *)
(* to keep in step: the date or the reason of an outcome, the support of   *)
(* an expense in object storage, the notice of its resolution, the case    *)
(* that asks for its correction, the report of a visit.                    *)
(*                                                                         *)
(* A handler serves one request at a time; requests interleave between     *)
(* what they read and what they commit.                                    *)
(***************************************************************************)
EXTENDS Naturals, FiniteSets

CONSTANTS
    Handlers,
    Visits, Tasks, Opportunities, Expenses,  \* ids of rows
    Reports,
    Reachable,    \* expenses of submitters with a telephone, if there is a WhatsApp account
    Data,         \* what a person writes in a row
    None,
    Unsent,       \* a field an edit leaves alone
    MaxRequests,  \* bounds of the model: requests,
    MaxFailures   \* statements that fail or processes that stop

ASSUME KindsAssumption ==
    /\ Visits \cap Tasks = {} /\ Visits \cap Opportunities = {} /\ Visits \cap Expenses = {}
    /\ Tasks \cap Opportunities = {} /\ Tasks \cap Expenses = {}
    /\ Opportunities \cap Expenses = {}

ASSUME ReachableAssumption == Reachable \subseteq Expenses

ASSUME NoneAssumption == None \notin Data \cup Visits /\ Unsent \notin Data \cup Visits \cup {None}

VARIABLES
    row,      \* Visit, FollowUpTask, Opportunity, CommercialExpense
    report,   \* ExecutiveReport: the visit of each
    store,    \* expenses with their support in object storage
    bell,     \* notices of type gasto_resuelto
    asked,    \* expenses with a case that asks for the correction they wait for
    req,      \* the request each handler serves, with what it read
    served, failures

vars == <<row, report, store, bell, asked, req, served, failures>>
-----------------------------------------------------------------------------
Rows == Visits \cup Tasks \cup Opportunities \cup Expenses

\* allowedStatusTransitions of the visits.
VisitMoves == {"programada"} \X {"completada", "cancelada", "no_realizada"}

\* allowedStatusTransitions of the tasks.
TaskMoves == {"pendiente"} \X {"completada", "vencida"}

Pipeline == <<"prospecto", "contacto", "visita", "cotizacion",
              "negociacion", "orden_facturacion", "venta_cerrada">>

\* allowedTransitions: one stage on, or lost.
StageMoves == {<<Pipeline[i], to>> : i \in 1 .. 6, to \in {"perdida"}}
                  \cup {<<Pipeline[i], Pipeline[i + 1]>> : i \in 1 .. 6}

\* expenseStatusTransitions
ExpenseMoves ==
    ({"pendiente"} \X {"aprobado", "requiere_correccion", "rechazado"})
        \cup {<<"requiere_correccion", "pendiente">>, <<"aprobado", "contabilizado">>}

Stages == {Pipeline[i] : i \in 1 .. 7} \cup {"perdida"}
VisitStatus == {"programada", "completada", "cancelada", "no_realizada"}
TaskStatus == {"pendiente", "completada", "vencida"}
ExpenseStatus == {"pendiente", "aprobado", "requiere_correccion", "rechazado", "contabilizado"}
Status == {"absent", "gone"} \cup VisitStatus \cup TaskStatus \cup Stages \cup ExpenseStatus

\* `data`: the summary of a visit, the reason of a loss, the fields of an expense.
\* `dated`: completedAt, closedAt, reviewedAt.
RowState == [status : Status, data : Data \cup {None}, dated : BOOLEAN, visit : Visits \cup {None}]

\* What a request writes.
Written == [status : Status, data : Data \cup {None, Unsent}, dated : BOOLEAN,
            visit : Visits \cup {None, Unsent}]

Sent(field, old) == IF field = Unsent THEN old ELSE field

NoRow == [status |-> "absent", data |-> None, dated |-> FALSE, visit |-> None]

Exists(r) == row[r].status \notin {"absent", "gone"}

NoReport == [made |-> FALSE, visit |-> None]

Ops == {"status", "complete", "remove", "report", "expense", "drop", "edit", "ask"}

Idle == [op |-> "idle"]

\* `to`: the row as it will be written; `seen`: the status that was read.
Request == {Idle} \cup [op : Ops, row : Rows, to : Written, seen : Status]

Busy == {h \in Handlers : req[h] # Idle}

Ask(h, op, r, to) ==
    /\ req[h] = Idle
    /\ served < MaxRequests
    /\ served' = served + 1
    /\ req' = [req EXCEPT ![h] = [op |-> op, row |-> r, to |-> to, seen |-> row[r].status]]
    /\ UNCHANGED <<row, report, store, bell, asked, failures>>

\* A request that is one statement.
AtOnce ==
    /\ served < MaxRequests
    /\ served' = served + 1
    /\ UNCHANGED <<report, store, bell, asked, req, failures>>

End(h) == req' = [req EXCEPT ![h] = Idle] /\ UNCHANGED <<served, failures>>

\* updateMany ... where status is the one that was read; count 1.
Unmoved(h) == req[h] # Idle /\ row[req[h].row].status = req[h].seen

Fresh(r, status, data, dated) ==
    /\ row[r] = NoRow
    /\ row' = [row EXCEPT ![r] = [NoRow EXCEPT !.status = status, !.data = data, !.dated = dated]]
    /\ AtOnce
-----------------------------------------------------------------------------
(***************************************************************************)
(* Visits                                                                  *)
(***************************************************************************)
CreateVisit(v, summary) == v \in Visits /\ Fresh(v, "programada", summary, FALSE)

\* update: by id, whatever the status; a field that is not sent is not written.
UpdateVisit(v, summary) ==
    /\ v \in Visits /\ Exists(v)
    /\ row' = [row EXCEPT ![v].data = summary]
    /\ AtOnce

BeginVisitStatus(h, v, status) ==
    /\ v \in Visits
    /\ <<row[v].status, status>> \in VisitMoves
    /\ Ask(h, "status", v, [row[v] EXCEPT !.status = status])

\* complete: with or without a summary.
BeginCompleteVisit(h, v, summary) ==
    /\ v \in Visits
    /\ row[v].status = "programada"
    /\ Ask(h, "complete", v, [row[v] EXCEPT !.status = "completada", !.data = summary])

\* Mutant: the update has no condition.
CommitVisit_Anyway(h) ==
    LET r == req[h].row IN
    /\ req[h].op \in {"status", "complete"} /\ r \in Visits
    /\ Exists(r)
    /\ row' = [row EXCEPT ![r].status = req[h].to.status,
                          ![r].dated = (@ \/ req[h].op = "complete"),
                          ![r].data = IF req[h].op = "complete" /\ req[h].to.data # None
                                      THEN req[h].to.data ELSE @]
    /\ End(h)
    /\ UNCHANGED <<report, store, bell, asked>>

\* Only `complete` writes completedAt and the summary.
CommitVisit(h) == Unmoved(h) /\ CommitVisit_Anyway(h)

AttachedTo(v) ==
    {e \in Expenses : row[e].visit = v} \cup {p \in Reports : report[p].visit = v}

\* remove: counts reports and expenses before it deletes.
BeginRemoveVisit(h, v) ==
    /\ v \in Visits /\ Exists(v)
    /\ AttachedTo(v) = {}
    /\ Ask(h, "remove", v, row[v])

\* ON DELETE SET NULL of what refers to the visit by now.
CommitRemoveVisit(h) ==
    LET v == req[h].row IN
    /\ req[h].op = "remove"
    /\ Exists(v)
    /\ row' = [r \in Rows |-> IF r = v THEN [NoRow EXCEPT !.status = "gone"]
                              ELSE IF row[r].visit = v THEN [row[r] EXCEPT !.visit = None]
                              ELSE row[r]]
    /\ report' = [p \in Reports |-> IF report[p].visit = v THEN [report[p] EXCEPT !.visit = None]
                                    ELSE report[p]]
    /\ End(h)
    /\ UNCHANGED <<store, bell, asked>>

\* ReportsService.generateFromVisit; a free id is kept for each report on its way.
BeginReport(h, v) ==
    /\ v \in Visits
    /\ Cardinality({p \in Reports : ~report[p].made}) > Cardinality({g \in Busy : req[g].op = "report"})
    /\ row[v].status = "completada" /\ row[v].data # None
    /\ Ask(h, "report", v, row[v])

\* The visit a report refers to must still be there.
CommitReport(h, p) ==
    /\ req[h].op = "report"
    /\ Exists(req[h].row)
    /\ ~report[p].made
    /\ report' = [report EXCEPT ![p] = [made |-> TRUE, visit |-> req[h].row]]
    /\ End(h)
    /\ UNCHANGED <<row, store, bell, asked>>
-----------------------------------------------------------------------------
(***************************************************************************)
(* Follow-up tasks and opportunities                                       *)
(***************************************************************************)
CreateTask(t) == t \in Tasks /\ Fresh(t, "pendiente", None, FALSE)

BeginTaskStatus(h, t, status) ==
    /\ t \in Tasks
    /\ <<row[t].status, status>> \in TaskMoves
    /\ Ask(h, "status", t, [row[t] EXCEPT !.status = status])

BeginCompleteTask(h, t) ==
    /\ t \in Tasks
    /\ row[t].status = "pendiente"
    /\ Ask(h, "complete", t, [row[t] EXCEPT !.status = "completada"])

CommitTask(h) ==
    LET t == req[h].row IN
    /\ req[h].op \in {"status", "complete"} /\ t \in Tasks
    /\ Unmoved(h)
    /\ row' = [row EXCEPT ![t].status = req[h].to.status, ![t].dated = (req[h].op = "complete")]
    /\ End(h)
    /\ UNCHANGED <<report, store, bell, asked>>

\* createRecord: in any stage, also a closed one.
CreateOpportunity(o, stage, reason) ==
    /\ o \in Opportunities
    /\ Fresh(o, stage, IF stage = "perdida" THEN reason ELSE None, stage = "venta_cerrada")

BeginStage(h, o, stage, reason) ==
    /\ o \in Opportunities
    /\ <<row[o].status, stage>> \in StageMoves
    /\ Ask(h, "status", o, [row[o] EXCEPT !.status = stage, !.data = reason])

\* Mutant: the update has no condition.
CommitStage_Anyway(h) ==
    LET o == req[h].row
        stage == req[h].to.status
    IN  /\ req[h].op = "status" /\ o \in Opportunities
        /\ row' = [row EXCEPT ![o].status = stage,
                              ![o].dated = IF stage = "venta_cerrada" THEN TRUE ELSE @,
                              ![o].data = IF stage = "perdida" THEN req[h].to.data ELSE @]
        /\ End(h)
        /\ UNCHANGED <<report, store, bell, asked>>

\* updateStageRecord: closedAt with the close, the reason with the loss.
CommitStage(h) == Unmoved(h) /\ CommitStage_Anyway(h)
-----------------------------------------------------------------------------
(***************************************************************************)
(* Expenses                                                                *)
(***************************************************************************)

\* createWithUpload: the visit is checked, then the support is uploaded.
BeginExpense(h, e, data, v) ==
    /\ e \in Expenses /\ row[e] = NoRow /\ e \notin store
    /\ \A g \in Busy : req[g].row # e
    /\ v # None => Exists(v)
    /\ Ask(h, "expense", e, [row[e] EXCEPT !.status = "pendiente", !.data = data, !.visit = v])

UploadSupport(h) ==
    /\ req[h].op = "expense" /\ req[h].row \notin store
    /\ store' = store \cup {req[h].row}
    /\ UNCHANGED <<row, report, bell, asked, req, served, failures>>

\* The transaction; the visit it refers to must still be there.
CommitExpense(h) ==
    LET e == req[h].row IN
    /\ req[h].op = "expense" /\ e \in store
    /\ req[h].to.visit # None => Exists(req[h].to.visit)
    /\ row' = [row EXCEPT ![e] = req[h].to]
    /\ End(h)
    /\ UNCHANGED <<report, store, bell, asked>>

\* Mutant: a transaction that fails leaves the object.
RefuseExpense_Leave(h) ==
    /\ req[h].op = "expense" /\ req[h].row \in store
    /\ req[h].to.visit # None /\ ~Exists(req[h].to.visit)
    /\ End(h)
    /\ UNCHANGED <<row, report, store, bell, asked>>

\* The transaction fails for its visit, which went while the support was uploaded.
RefuseExpense(h) ==
    /\ req[h].op = "expense" /\ req[h].row \in store
    /\ req[h].to.visit # None /\ ~Exists(req[h].to.visit)
    /\ req' = [req EXCEPT ![h].op = "drop"]
    /\ UNCHANGED <<row, report, store, bell, asked, served, failures>>

\* The catch: the object goes.
DropSupport(h) ==
    /\ req[h].op = "drop"
    /\ store' = store \ {req[h].row}
    /\ End(h)
    /\ UNCHANGED <<row, report, bell, asked>>

\* update: while it is pending or waits for a correction, by whoever reviews it or
\* submitted it, in the application or through Nora.
BeginEditExpense(h, e, data, v) ==
    /\ e \in Expenses
    /\ row[e].status \in {"pendiente", "requiere_correccion"}
    /\ v \in Visits => Exists(v)
    /\ Ask(h, "edit", e, [row[e] EXCEPT !.status = "pendiente", !.data = data, !.visit = v,
                                        !.dated = (@ /\ row[e].status = "pendiente")])

\* A correction that was asked for is no longer, once its expense is under review.
StillAsked(e, status) == IF status = "pendiente" THEN asked \ {e} ELSE asked

\* Mutant: the update has no condition.
CommitEditExpense_Anyway(h) ==
    LET e == req[h].row IN
    /\ req[h].op = "edit"
    /\ req[h].to.visit \in Visits => Exists(req[h].to.visit)
    /\ row' = [row EXCEPT ![e].data = Sent(req[h].to.data, @), ![e].visit = Sent(req[h].to.visit, @),
                          ![e].status = IF req[h].seen = "requiere_correccion" THEN "pendiente" ELSE @,
                          ![e].dated = IF req[h].seen = "requiere_correccion" THEN FALSE ELSE @]
    /\ asked' = StillAsked(e, row'[e].status)
    /\ End(h)
    /\ UNCHANGED <<report, store, bell>>

\* The correction sends it back to review and clears the last one.
CommitEditExpense(h) == Unmoved(h) /\ CommitEditExpense_Anyway(h)

BeginReview(h, e, status) ==
    /\ e \in Expenses
    /\ <<row[e].status, status>> \in ExpenseMoves
    /\ Ask(h, "status", e, [row[e] EXCEPT !.status = status, !.dated = TRUE])

\* Mutant: the notice is emitted before the count of the update is looked at.
CommitReview_Ghost(h) ==
    LET e == req[h].row
        status == req[h].to.status
    IN  /\ req[h].op = "status" /\ e \in Expenses
        /\ row' = IF Unmoved(h) THEN [row EXCEPT ![e].status = status, ![e].dated = TRUE] ELSE row
        /\ bell' = IF status \in {"aprobado", "rechazado"}
                   THEN bell \cup {[expense |-> e, status |-> status]} ELSE bell
        /\ req' = IF status = "requiere_correccion" /\ Unmoved(h)
                  THEN [req EXCEPT ![h].op = "ask"] ELSE [req EXCEPT ![h] = Idle]
        /\ asked' = StillAsked(e, row'[e].status)
        /\ UNCHANGED <<report, store, served, failures>>

\* Mutant: the correction is asked by the status that was read.
CommitReview_Stale(h) ==
    LET e == req[h].row
        status == req[h].to.status
    IN  /\ req[h].op = "status" /\ e \in Expenses
        /\ Unmoved(h)
        /\ row' = [row EXCEPT ![e].status = status, ![e].dated = TRUE]
        /\ bell' = IF status \in {"aprobado", "rechazado"}
                   THEN bell \cup {[expense |-> e, status |-> status]} ELSE bell
        /\ req' = IF row[e].status = "requiere_correccion"
                  THEN [req EXCEPT ![h].op = "ask"] ELSE [req EXCEPT ![h] = Idle]
        /\ asked' = StillAsked(e, row'[e].status)
        /\ UNCHANGED <<report, store, served, failures>>

\* updateStatus: the status and the notice of a resolution in one transaction.
CommitReview(h) ==
    LET e == req[h].row
        status == req[h].to.status
    IN  /\ req[h].op = "status" /\ e \in Expenses
        /\ Unmoved(h)
        /\ row' = [row EXCEPT ![e].status = status, ![e].dated = TRUE]
        /\ bell' = IF status \in {"aprobado", "rechazado"}
                   THEN bell \cup {[expense |-> e, status |-> status]} ELSE bell
        /\ req' = IF status = "requiere_correccion"
                  THEN [req EXCEPT ![h].op = "ask"] ELSE [req EXCEPT ![h] = Idle]
        /\ asked' = StillAsked(e, row'[e].status)
        /\ UNCHANGED <<report, store, served, failures>>

\* After the commit, notifyExpenseCorrection opens a case for the submitter, if he
\* has a telephone; whatever became of the expense meanwhile.
AskCorrection(h) ==
    /\ req[h].op = "ask"
    /\ asked' = asked \cup ({req[h].row} \cap Reachable)
    /\ End(h)
    /\ UNCHANGED <<row, report, store, bell>>
-----------------------------------------------------------------------------
\* ConflictException: the row moved between the reading and the update.
Conflict(h) ==
    /\ req[h].op \in {"status", "complete", "edit"}
    /\ ~Unmoved(h)
    /\ End(h)
    /\ UNCHANGED <<row, report, store, bell, asked>>

\* The visit is not there any more.
NotFound(h) ==
    /\ \/ req[h].op \in {"remove", "report"} /\ ~Exists(req[h].row)
       \/ req[h].op = "edit" /\ req[h].to.visit \in Visits /\ ~Exists(req[h].to.visit)
    /\ End(h)
    /\ UNCHANGED <<row, report, store, bell, asked>>

Fail == failures < MaxFailures /\ failures' = failures + 1

\* A statement fails, the correction cannot be sent or the process stops: what was
\* committed stays and the rest does not happen.
Abandon(h) ==
    /\ req[h] # Idle
    /\ Fail
    /\ req' = [req EXCEPT ![h] = Idle]
    /\ UNCHANGED <<row, report, store, bell, asked, served>>

\* The transaction of a new expense fails and the process goes on.
ThrowExpense(h) ==
    /\ req[h].op = "expense" /\ req[h].row \in store
    /\ Fail
    /\ req' = [req EXCEPT ![h].op = "drop"]
    /\ UNCHANGED <<row, report, store, bell, asked, served>>
-----------------------------------------------------------------------------
Init ==
    /\ row = [r \in Rows |-> NoRow]
    /\ report = [p \in Reports |-> NoReport]
    /\ store = {} /\ bell = {} /\ asked = {}
    /\ req = [h \in Handlers |-> Idle]
    /\ served = 0 /\ failures = 0

Create ==
    \/ \E v \in Visits, data \in Data \cup {None} : CreateVisit(v, data)
    \/ \E v \in Visits, data \in Data \cup {None} : UpdateVisit(v, data)
    \/ \E t \in Tasks : CreateTask(t)
    \/ \E o \in Opportunities, s \in Stages, data \in Data \cup {None} : CreateOpportunity(o, s, data)

Begin(h) ==
    \/ \E v \in Visits :
         \/ \E s \in VisitStatus : BeginVisitStatus(h, v, s)
         \/ \E data \in Data \cup {None} : BeginCompleteVisit(h, v, data)
         \/ BeginRemoveVisit(h, v) \/ BeginReport(h, v)
    \/ \E t \in Tasks : BeginCompleteTask(h, t) \/ \E s \in TaskStatus : BeginTaskStatus(h, t, s)
    \/ \E o \in Opportunities, s \in Stages, data \in Data \cup {None} : BeginStage(h, o, s, data)
    \/ \E e \in Expenses :
         \/ \E data \in Data, v \in Visits \cup {None} : BeginExpense(h, e, data, v)
         \/ \E data \in Data \cup {Unsent}, v \in Visits \cup {None, Unsent} :
              BeginEditExpense(h, e, data, v)
         \/ \E s \in ExpenseStatus : BeginReview(h, e, s)

Serve(h) ==
    \/ CommitVisit(h) \/ CommitRemoveVisit(h) \/ \E p \in Reports : CommitReport(h, p)
    \/ CommitTask(h) \/ CommitStage(h)
    \/ UploadSupport(h) \/ CommitExpense(h) \/ RefuseExpense(h) \/ DropSupport(h)
    \/ CommitEditExpense(h) \/ CommitReview(h) \/ AskCorrection(h)
    \/ Conflict(h) \/ NotFound(h)

\* Nobody asks for more.
Quiet == Busy = {} /\ UNCHANGED vars

Next ==
    \/ Create
    \/ \E h \in Handlers : Begin(h) \/ Serve(h) \/ Abandon(h) \/ ThrowExpense(h)
    \/ Quiet

Spec == Init /\ [][Next]_vars
-----------------------------------------------------------------------------
(***************************************************************************)
(* Properties                                                              *)
(***************************************************************************)
TypeOK ==
    /\ row \in [Rows -> RowState]
    /\ report \in [Reports -> [made : BOOLEAN, visit : Visits \cup {None}]]
    /\ store \subseteq Expenses /\ asked \subseteq Expenses
    /\ bell \subseteq [expense : Expenses, status : {"aprobado", "rechazado"}]
    /\ req \in [Handlers -> Request]
    /\ served \in Nat /\ failures \in Nat

Resolved(e) == {n.status : n \in {m \in bell : m.expense = e}}

\* A date or a reason goes with one outcome: an opportunity has closedAt if it was
\* won and a reason only if it was lost (DASH-06, OPP-02), a visit or a task
\* completedAt only if it was completed, also when two handlers settle it at once.
OutcomesAgree ==
    /\ \A o \in Opportunities :
         /\ row[o].dated = (row[o].status = "venta_cerrada")
         /\ row[o].data # None => row[o].status = "perdida"
    /\ \A r \in Visits \cup Tasks : row[r].dated => row[r].status = "completada"

\* "si el update falla, no queda notificacion fantasma": the submitter is told of a
\* resolution if and only if it is the one his expense got.
NoGhostNotice ==
    \A e \in Expenses :
        Resolved(e) = CASE row[e].status \in {"aprobado", "contabilizado"} -> {"aprobado"}
                        [] row[e].status = "rechazado" -> {"rechazado"}
                        [] OTHER -> {}

\* An expense has its support, whatever fails; and an object without an expense is
\* of a request that goes on, unless something failed.
SupportsAgree ==
    /\ \A e \in Expenses : Exists(e) => e \in store
    /\ failures = 0 => \A e \in store : Exists(e) \/ \E h \in Busy : req[h].row = e

\* An expense that was sent back asks its submitter for the correction each time,
\* also when he corrected it before he was asked, unless something failed after the
\* commit.
CorrectionIsAsked ==
    failures = 0 =>
        \A e \in Reachable :
            row[e].status = "requiere_correccion" =>
                e \in asked \/ \E h \in Busy : req[h].op = "ask" /\ req[h].row = e

\* "Report can only be generated from completed visits": a report is of a visit that
\* took place and is there, whatever becomes of the visit, settled, settled again by
\* a request that had read it before, or removed, while the report is on its way.
ReportsOfHeldVisits ==
    \A p \in Reports : report[p].visit # None => row[report[p].visit].status = "completada"

(***************************************************************************)
(* The refinement                                                          *)
(***************************************************************************)
Births ==
    (Visits \X {"programada"}) \cup (Tasks \X {"pendiente"})
        \cup (Opportunities \X Stages) \cup (Expenses \X {"pendiente"})

Of(rows, moves) == {<<r, m[1], m[2]>> : r \in rows, m \in moves}

Moves ==
    Of(Visits, VisitMoves) \cup Of(Tasks, TaskMoves)
        \cup Of(Opportunities, StageMoves) \cup Of(Expenses, ExpenseMoves)

\* The summary with the completion, the reason with the loss, the fields of an
\* expense with its correction.
Writing ==
    {m \in Moves : m[3] \in {"completada", "perdida"}}
        \cup Of(Expenses, {<<"requiere_correccion", "pendiente">>})

Table ==
    INSTANCE StatusTable WITH
        Absent <- "absent",
        Editable <- (Visits \X VisitStatus) \cup (Expenses \X {"pendiente", "requiere_correccion"}),
        row <- [r \in Rows |-> [status |-> IF Exists(r) THEN row[r].status ELSE "absent",
                                data |-> row[r].data]]

\* Every row moves along its table, and what was decided on does not change after,
\* however its requests interleave.
KeepsTables == Table!Spec
=============================================================================
