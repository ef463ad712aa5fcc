------------------------ MODULE CaseExecution_proofs ------------------------
(***************************************************************************)
(* For any cases, rows, handlers, failures and restarts: two requests do   *)
(* not execute one case at a time, and an order case gives one order.      *)
(*                                                                         *)
(* A handler that holds a case has its claim, and a case a row was made    *)
(* from stays claimed by nobody who could make another row or give the     *)
(* claim back.                                                             *)
(***************************************************************************)
EXTENDS CaseExecution, TLAPS

\* What a request in flight carries.
Carries ==
    \A h \in Handlers :
        /\ req[h].pc # "idle" => req[h].case \in Cases
        /\ req[h].pc = "made" => req[h].row \in Rows
        /\ req[h].op = "order" => req[h].case \in OrderCases
        /\ req[h].op = "expense" /\ req[h].pc = "made" => req[h].case \in ExpenseCases

HoldersClaim == \A h \in Handlers, c \in Cases : Holds(h, c) => case[c].claim

\* The cases this module promises one row for.
Guarded(c) == c \in OrderCases \/ failures = 0

Sealed ==
    \A c \in Cases : Guarded(c) /\ MadeFrom(c) # {} =>
        /\ case[c].claim
        /\ \A h \in Handlers : Holds(h, c) => req[h].pc = "made"

Inv == TypeOK /\ Carries /\ HoldersClaim /\ ClaimIsExclusive /\ Sealed /\ OneRowPerCase
-----------------------------------------------------------------------------
LEMMA InitInv == Init => Inv
<1> SUFFICES ASSUME Init PROVE Inv
  OBVIOUS
<1>1. TypeOK
  BY DEF Init, TypeOK, CaseRow, NoCase, Request, Idle
<1>2. MadeFrom(None) = Rows /\ \A c \in Cases : MadeFrom(c) = {}
  BY CaseAssumption DEF Init, MadeFrom
<1>3. \A h \in Handlers : req[h].pc = "idle" /\ req[h].op = "none"
  BY DEF Init, Idle
<1> QED  BY <1>1, <1>2, <1>3 DEF Inv, Carries, HoldersClaim, ClaimIsExclusive, Sealed,
                                 OneRowPerCase, Holds

\* A step that makes no row, takes no claim away and lets no handler hold a
\* case it did not hold.
LEMMA Harmless ==
    ASSUME Inv, TypeOK', Carries', made' = made, failures' \in {failures, failures + 1},
           \A c \in Cases : case[c].claim => case'[c].claim,
           \A h \in Handlers, c \in Cases : Holds(h, c)' => Holds(h, c) /\ req'[h].pc = req[h].pc
    PROVE  Inv'
<1>1. \A c \in Cases : Guarded(c)' => Guarded(c)
  BY DEF Guarded, Inv, TypeOK
<1>2. \A c \in Cases : MadeFrom(c)' = MadeFrom(c)
  BY DEF MadeFrom
<1>3. HoldersClaim' /\ ClaimIsExclusive'
  BY DEF Inv, HoldersClaim, ClaimIsExclusive
<1>4. Sealed'
  BY <1>1, <1>2 DEF Inv, Sealed
<1>5. OneRowPerCase'
  BY <1>1, <1>2 DEF Inv, OneRowPerCase, Guarded
<1> QED  BY <1>3, <1>4, <1>5 DEF Inv
-----------------------------------------------------------------------------
(***************************************************************************)
(* Requests come and go                                                    *)
(***************************************************************************)
LEMMA ArriveKeeps ==
    ASSUME Inv, NEW h \in Handlers, Arrive(h)
    PROVE  Inv'
<1>1. PICK op \in {"order", "expense", "correct", "turn"}, pc \in {"read", "made"}, c \in Cases,
           r \in Rows \cup {None} :
        /\ Begin(h, op, pc, c, r)
        /\ op = "order" => c \in OrderCases
        /\ pc = "made" => op = "correct" /\ r \in Rows
  BY DEF Arrive, BeginOrder, BeginExpense, BeginTurn, BeginCorrect, Open
<1>2. /\ case' = case /\ made' = made /\ failures' = failures /\ restarts' = restarts
      /\ served' = served + 1
      /\ req' = [req EXCEPT ![h] = [op |-> op, pc |-> pc, case |-> c, row |-> r]]
  BY <1>1 DEF Begin
<1>3. [op |-> op, pc |-> pc, case |-> c, row |-> r] \in Request
  BY DEF Request
<1>4. TypeOK'
  BY <1>2, <1>3 DEF Inv, TypeOK
<1>5. Carries'
  BY <1>1, <1>2 DEF Inv, TypeOK, Carries
<1>6. \A g \in Handlers, d \in Cases : Holds(g, d)' => Holds(g, d) /\ req'[g].pc = req[g].pc
  BY <1>1, <1>2 DEF Inv, TypeOK, Holds
<1> QED  BY <1>2, <1>4, <1>5, <1>6, Harmless DEF Inv, TypeOK

\* A handler that only ends, whatever it does to a status.
LEMMA EndKeeps ==
    ASSUME Inv, NEW h \in Handlers, Finish(h), made' = made,
           failures' \in {failures, failures + 1}, UNCHANGED <<served, restarts>>,
           case' \in [Cases -> CaseRow],
           \A c \in Cases : case[c].claim => case'[c].claim
    PROVE  Inv'
<1>1. Idle \in Request /\ Idle.pc = "idle" /\ Idle.op = "none"
  BY DEF Idle, Request
<1>2. req' \in [Handlers -> Request] /\ req'[h] = Idle
      /\ \A g \in Handlers \ {h} : req'[g] = req[g]
  BY <1>1 DEF Finish, Inv, TypeOK
<1>3. TypeOK'
  BY <1>2 DEF Inv, TypeOK
<1>4. Carries'
  BY <1>1, <1>2 DEF Inv, Carries
<1>5. \A g \in Handlers, d \in Cases : Holds(g, d)' => Holds(g, d) /\ req'[g].pc = req[g].pc
  BY <1>1, <1>2 DEF Holds
<1> QED  BY <1>3, <1>4, <1>5, Harmless

LEMMA AbandonKeeps ==
    ASSUME Inv, NEW h \in Handlers, Abandon(h)
    PROVE  Inv'
BY EndKeeps DEF Abandon, Fail, Inv, TypeOK

LEMMA LoseClaimKeeps ==
    ASSUME Inv, NEW h \in Handlers, LoseClaim(h)
    PROVE  Inv'
BY EndKeeps DEF LoseClaim, counters, Inv, TypeOK

LEMMA RecordKeeps ==
    ASSUME Inv, NEW h \in Handlers, req[h].pc = "made", Record(h)
    PROVE  Inv'
<1>1. PICK row : row = [status |-> "executed", claim |-> TRUE, entity |-> req[h].row]
  OBVIOUS
<1>2. row \in CaseRow /\ row.claim
  BY <1>1 DEF CaseRow, Inv, Carries
<1>3. case' = [case EXCEPT ![req[h].case] = row]
  BY <1>1 DEF Record
<1>4. case' \in [Cases -> CaseRow] /\ \A c \in Cases : case[c].claim => case'[c].claim
  BY <1>2, <1>3 DEF Inv, TypeOK
<1> QED  BY <1>4, EndKeeps DEF Record, counters

LEMMA CommitTurnKeeps ==
    ASSUME Inv, NEW h \in Handlers, CommitTurn(h)
    PROVE  Inv'
<1>1. CASE req[h].case \in OrderCases
  <2>1. PICK c \in Cases : c = req[h].case
    BY <1>1 DEF Cases
  <2>2. PICK status \in {"ready_for_review", "executed"} :
          case' = [case EXCEPT ![c].status = status]
    BY <1>1, <2>1 DEF CommitTurn
  <2>3. case' \in [Cases -> CaseRow] /\ \A d \in Cases : case[d].claim => case'[d].claim
    BY <2>2 DEF Inv, TypeOK, CaseRow
  <2> QED  BY <2>3, EndKeeps DEF CommitTurn, counters
<1>2. CASE req[h].case \notin OrderCases
  <2>1. case' = case
    BY <1>2 DEF CommitTurn
  <2> QED  BY <2>1, EndKeeps DEF CommitTurn, counters, Inv, TypeOK
<1> QED  BY <1>1, <1>2

LEMMA StartCaseKeeps ==
    ASSUME Inv, NEW c \in Cases, StartCase(c)
    PROVE  Inv'
<1>1. PICK status \in {"collecting_info", "ready_for_review"} :
        case' = [case EXCEPT ![c].status = status]
  BY DEF StartCase
<1>2. case' \in [Cases -> CaseRow] /\ \A d \in Cases : case[d].claim => case'[d].claim
  BY <1>1 DEF Inv, TypeOK, CaseRow
<1>3. TypeOK' /\ Carries'
  BY <1>2 DEF StartCase, counters, Inv, TypeOK, Carries
<1>4. \A g \in Handlers, d \in Cases : Holds(g, d)' => Holds(g, d) /\ req'[g].pc = req[g].pc
  BY DEF StartCase, Holds
<1> QED  BY <1>2, <1>3, <1>4, Harmless DEF StartCase, counters, Inv, TypeOK

LEMMA RestartKeeps ==
    ASSUME Inv, Restart
    PROVE  Inv'
<1>1. Idle \in Request /\ Idle.pc = "idle" /\ Idle.op = "none"
  BY DEF Idle, Request
<1>2. req' = [h \in Handlers |-> Idle]
  BY DEF Restart
<1>3. TypeOK'
  BY <1>1, <1>2 DEF Restart, Inv, TypeOK
<1>4. Carries' /\ \A h \in Handlers, c \in Cases : ~Holds(h, c)'
  BY <1>1, <1>2 DEF Carries, Holds
<1> QED  BY <1>3, <1>4, Harmless DEF Restart, Inv, TypeOK
-----------------------------------------------------------------------------
(***************************************************************************)
(* Claim, make, release                                                    *)
(***************************************************************************)

\* What Advance does.
LEMMA Advancing ==
    ASSUME Inv, NEW h \in Handlers, NEW pc \in {"claimed", "made", "undo"},
           NEW r \in Rows \cup {None}, Advance(h, pc, r)
    PROVE  /\ req' \in [Handlers -> Request]
           /\ \A g \in Handlers \ {h} : req'[g] = req[g]
           /\ req'[h].op = req[h].op /\ req'[h].case = req[h].case
           /\ req'[h].pc = pc /\ req'[h].row = r
<1>1. req' = [req EXCEPT ![h].pc = pc, ![h].row = r]
  BY DEF Advance
<1>2. req[h] \in Request
  BY DEF Inv, TypeOK
<1>3. [req[h] EXCEPT !.pc = pc, !.row = r] \in Request
  BY <1>2 DEF Request
<1> QED  BY <1>1, <1>2, <1>3 DEF Inv, TypeOK, Request

LEMMA ClaimKeeps ==
    ASSUME Inv, NEW h \in Handlers, ClaimForExecution(h)
    PROVE  Inv'
<1>1. PICK c \in Cases : c = req[h].case
  BY DEF ClaimForExecution, Inv, Carries
<1>2. /\ req[h].op \in {"order", "expense"} /\ req[h].pc = "read" /\ ~case[c].claim
      /\ case' = [case EXCEPT ![c].claim = TRUE] /\ made' = made
      /\ UNCHANGED <<served, failures, restarts>>
  BY <1>1 DEF ClaimForExecution, Unclaimed, counters
<1>3. /\ req' \in [Handlers -> Request]
      /\ \A g \in Handlers \ {h} : req'[g] = req[g]
      /\ req'[h].op = req[h].op /\ req'[h].case = req[h].case
      /\ req'[h].pc = "claimed"
  BY Advancing DEF ClaimForExecution
<1>4. case' \in [Cases -> CaseRow]
  <2>1. case[c] \in CaseRow
    BY DEF Inv, TypeOK
  <2>2. [case[c] EXCEPT !.claim = TRUE] \in CaseRow
    BY <2>1, Zenon DEF CaseRow
  <2> QED  BY <1>2, <2>2 DEF Inv, TypeOK
<1>5. /\ case'[c].claim
      /\ \A d \in Cases \ {c} : case'[d] = case[d]
  BY <1>2 DEF Inv, TypeOK, CaseRow
<1>6. TypeOK' /\ Carries'
  BY <1>1, <1>2, <1>3, <1>4 DEF Inv, TypeOK, Carries
<1>7. \A g \in Handlers : ~Holds(g, c)
  BY <1>2 DEF Inv, HoldersClaim
<1>8. \A g \in Handlers, d \in Cases : Holds(g, d)' =>
        IF g = h THEN d = c ELSE d # c /\ Holds(g, d) /\ req'[g].pc = req[g].pc
  BY <1>1, <1>3, <1>7 DEF Holds
<1>9. HoldersClaim' /\ ClaimIsExclusive'
  BY <1>5, <1>8 DEF Inv, HoldersClaim, ClaimIsExclusive
<1>10. \A d \in Cases : MadeFrom(d)' = MadeFrom(d) /\ (Guarded(d)' <=> Guarded(d))
  BY <1>2 DEF MadeFrom, Guarded
<1>11. Guarded(c) => MadeFrom(c) = {}
  BY <1>2 DEF Inv, Sealed
<1>12. Sealed'
  BY <1>5, <1>8, <1>10, <1>11 DEF Inv, Sealed
<1>13. OneRowPerCase'
  BY <1>10 DEF Inv, OneRowPerCase, Guarded
<1> QED  BY <1>6, <1>9, <1>12, <1>13 DEF Inv

LEMMA MakeKeeps ==
    ASSUME Inv, NEW h \in Handlers, req[h].op \in {"order", "expense"}, req[h].pc = "claimed",
           req[h].op = "expense" => req[h].case \in ExpenseCases, Make(h)
    PROVE  Inv'
<1>1. PICK c \in Cases : c = req[h].case
  BY DEF Inv, Carries
<1>2. PICK r \in Fresh : made' = [made EXCEPT ![r] = c] /\ Advance(h, "made", r)
  BY <1>1 DEF Make
<1>3. r \in Rows /\ made[r] = None /\ UNCHANGED <<case, served, failures, restarts>>
  BY DEF Make, counters, Fresh
<1>4. /\ req' \in [Handlers -> Request]
      /\ \A g \in Handlers \ {h} : req'[g] = req[g]
      /\ req'[h].op = req[h].op /\ req'[h].case = req[h].case
      /\ req'[h].pc = "made" /\ req'[h].row = r
  BY <1>2, <1>3, Advancing
<1>5. TypeOK' /\ Carries'
  BY <1>1, <1>2, <1>3, <1>4 DEF Inv, TypeOK, Carries
<1>6. \A g \in Handlers, d \in Cases : Holds(g, d)' =>
        Holds(g, d) /\ (req'[g].pc = "made" \/ req'[g].pc = req[g].pc)
  BY <1>1, <1>4 DEF Holds
<1>7. HoldersClaim' /\ ClaimIsExclusive'
  BY <1>3, <1>6 DEF Inv, HoldersClaim, ClaimIsExclusive
<1>8. /\ MadeFrom(c)' = MadeFrom(c) \cup {r}
      /\ \A d \in Cases \ {c} : MadeFrom(d)' = MadeFrom(d)
      /\ \A d \in Cases : Guarded(d)' <=> Guarded(d)
  BY <1>2, <1>3, CaseAssumption DEF Inv, TypeOK, MadeFrom, Guarded
<1>9. Holds(h, c) /\ req[h].pc # "made"
  BY <1>1 DEF Holds
<1>10. Guarded(c) => MadeFrom(c) = {}
  BY <1>9 DEF Inv, Sealed
<1>11. case[c].claim /\ \A g \in Handlers : Holds(g, c) => g = h
  BY <1>9 DEF Inv, HoldersClaim, ClaimIsExclusive
<1>12. Sealed'
  BY <1>3, <1>4, <1>6, <1>8, <1>11 DEF Inv, Sealed
<1>13. OneRowPerCase'
  BY <1>8, <1>10 DEF Inv, OneRowPerCase, Guarded
<1> QED  BY <1>5, <1>7, <1>12, <1>13 DEF Inv

\* On to the release: the row was not made, or its record failed.
LEMMA UndoBegins ==
    ASSUME Inv, NEW h \in Handlers, Advance(h, "undo", None), UNCHANGED <<case, made>>,
           failures' \in {failures, failures + 1}, served' = served, restarts' = restarts,
           req[h].op \in {"order", "expense"},
           \/ req[h].pc = "claimed"
           \/ req[h].pc = "made" /\ req[h].case \in ExpenseCases /\ failures' = failures + 1
    PROVE  Inv'
<1>1. PICK c \in Cases : c = req[h].case
  BY DEF Inv, Carries
<1>2. /\ req' \in [Handlers -> Request]
      /\ \A g \in Handlers \ {h} : req'[g] = req[g]
      /\ req'[h].op = req[h].op /\ req'[h].case = req[h].case
      /\ req'[h].pc = "undo" /\ req'[h].row = None
  BY Advancing
<1>3. TypeOK' /\ Carries'
  BY <1>2 DEF Inv, TypeOK, Carries
<1>4. \A g \in Handlers, d \in Cases : Holds(g, d)' =>
        /\ Holds(g, d)
        /\ (g = h /\ d = c) \/ req'[g].pc = req[g].pc
  BY <1>1, <1>2 DEF Holds
<1>5. HoldersClaim' /\ ClaimIsExclusive'
  BY <1>4 DEF Inv, HoldersClaim, ClaimIsExclusive
<1>6. \A d \in Cases : MadeFrom(d)' = MadeFrom(d) /\ (Guarded(d)' => Guarded(d))
  BY DEF MadeFrom, Guarded, Inv, TypeOK
<1>7. ~Guarded(c)' \/ MadeFrom(c) = {}
  <2>1. CASE req[h].pc = "claimed"
    <3>1. Holds(h, c)
      BY <1>1, <2>1 DEF Holds
    <3> QED  BY <1>6, <2>1, <3>1 DEF Inv, Sealed
  <2>2. CASE req[h].pc # "claimed"
    BY <1>1, <2>2, CaseAssumption DEF Guarded, Inv, TypeOK
  <2> QED  BY <2>1, <2>2
<1>8. Sealed'
  BY <1>4, <1>6, <1>7 DEF Inv, Sealed
<1>9. OneRowPerCase'
  BY <1>6 DEF Inv, OneRowPerCase, Guarded
<1> QED  BY <1>3, <1>5, <1>8, <1>9 DEF Inv

\* The release of a claim.
LEMMA ReleaseKeeps ==
    ASSUME Inv, NEW h \in Handlers, UndoOrder(h) \/ UndoExpense(h)
    PROVE  Inv'
<1>1. PICK c \in Cases : c = req[h].case
  BY DEF UndoOrder, UndoExpense, At, Inv, Carries
<1>2. /\ req[h].op \in {"order", "expense"} /\ req[h].pc = "undo"
      /\ Finish(h) /\ UNCHANGED <<made, served, failures, restarts>>
  BY DEF UndoOrder, UndoExpense, At, counters
<1>3. PICK entity \in Rows \cup {None} :
        case' = [case EXCEPT ![c].claim = FALSE, ![c].entity = entity]
  <2>1. case[c].entity \in Rows \cup {None} /\ case[c] \in CaseRow
    BY DEF Inv, TypeOK, CaseRow
  <2>2. CASE UndoOrder(h)
    BY <1>1, <2>2 DEF UndoOrder
  <2>3. CASE UndoExpense(h)
    <3>1. case' = [case EXCEPT ![c].claim = FALSE]
      BY <1>1, <2>3 DEF UndoExpense
    <3>2. case' = [case EXCEPT ![c].claim = FALSE, ![c].entity = case[c].entity]
      BY <2>1, <3>1 DEF Inv, TypeOK, CaseRow
    <3> QED  BY <2>1, <3>2
  <2> QED  BY <2>2, <2>3
<1>4. case' \in [Cases -> CaseRow] /\ \A d \in Cases \ {c} : case'[d] = case[d]
  <2>1. case[c] \in CaseRow
    BY DEF Inv, TypeOK
  <2>2. [case[c] EXCEPT !.claim = FALSE, !.entity = entity] \in CaseRow
    BY <2>1, Zenon DEF CaseRow
  <2> QED  BY <1>3, <2>2 DEF Inv, TypeOK
<1>5. Idle \in Request /\ Idle.pc = "idle" /\ Idle.op = "none"
  BY DEF Idle, Request
<1>6. req' \in [Handlers -> Request] /\ req'[h] = Idle
      /\ \A g \in Handlers \ {h} : req'[g] = req[g]
  BY <1>2, <1>5 DEF Finish, Inv, TypeOK
<1>7. TypeOK' /\ Carries'
  BY <1>2, <1>4, <1>5, <1>6 DEF Inv, TypeOK, Carries
<1>8. Holds(h, c) /\ req[h].pc # "made"
  BY <1>1, <1>2 DEF Holds
<1>9. \A g \in Handlers, d \in Cases : Holds(g, d)' =>
        d # c /\ Holds(g, d) /\ req'[g].pc = req[g].pc
  BY <1>5, <1>6, <1>8 DEF Holds, Inv, ClaimIsExclusive
<1>10. HoldersClaim' /\ ClaimIsExclusive'
  BY <1>4, <1>9 DEF Inv, HoldersClaim, ClaimIsExclusive
<1>11. \A d \in Cases : MadeFrom(d)' = MadeFrom(d) /\ (Guarded(d)' <=> Guarded(d))
  BY <1>2 DEF MadeFrom, Guarded
<1>12. Guarded(c) => MadeFrom(c) = {}
  BY <1>8 DEF Inv, Sealed
<1>13. Sealed'
  BY <1>4, <1>9, <1>11, <1>12 DEF Inv, Sealed
<1>14. OneRowPerCase'
  BY <1>11 DEF Inv, OneRowPerCase, Guarded
<1> QED  BY <1>7, <1>10, <1>13, <1>14 DEF Inv
-----------------------------------------------------------------------------
LEMMA ServeKeeps ==
    ASSUME Inv, NEW h \in Handlers, Serve(h)
    PROVE  Inv'
<1>1. CASE ClaimForExecution(h) \/ LoseClaim(h)
  BY <1>1, ClaimKeeps, LoseClaimKeeps
<1>2. CASE MakeOrder(h) \/ MakeExpense(h)
  BY <1>2, MakeKeeps DEF MakeOrder, MakeExpense, At
<1>3. CASE RefuseOrder(h) \/ RefuseExpense(h)
  BY <1>3, UndoBegins DEF RefuseOrder, RefuseExpense, At, counters
<1>4. CASE FailExpense(h) \/ FailRecordExpense(h)
  BY <1>4, UndoBegins DEF FailExpense, FailRecordExpense, Fail, At, Inv, Carries
<1>5. CASE ThrowOrder(h) \/ FailRecordOrder(h) \/ FailUndo(h)
  BY <1>5, AbandonKeeps DEF ThrowOrder, FailRecordOrder, FailUndo
<1>6. CASE RecordOrder(h) \/ RecordExpense(h) \/ RecordCorrect(h)
  BY <1>6, RecordKeeps DEF RecordOrder, RecordExpense, RecordCorrect, At
<1>7. CASE UndoOrder(h) \/ UndoExpense(h)
  BY <1>7, ReleaseKeeps
<1>8. CASE CommitTurn(h)
  BY <1>8, CommitTurnKeeps
<1> QED  BY <1>1, <1>2, <1>3, <1>4, <1>5, <1>6, <1>7, <1>8 DEF Serve

LEMMA StepInv == Inv /\ [Next]_vars => Inv'
<1> SUFFICES ASSUME Inv, [Next]_vars PROVE Inv'
  OBVIOUS
<1>1. CASE UNCHANGED vars
  BY <1>1 DEF vars, Inv, TypeOK, Carries, HoldersClaim, ClaimIsExclusive, Sealed, OneRowPerCase,
              Holds, MadeFrom, Guarded
<1>2. ASSUME NEW h \in Handlers, Arrive(h) \/ Serve(h) PROVE Inv'
  BY <1>2, ArriveKeeps, ServeKeeps
<1>3. ASSUME NEW c \in Cases, StartCase(c) PROVE Inv'
  BY <1>3, StartCaseKeeps
<1>4. CASE Restart
  BY <1>4, RestartKeeps
<1> QED  BY <1>1, <1>2, <1>3, <1>4 DEF Next, Quiet

THEOREM Invariant == Spec => []Inv
BY InitInv, StepInv, PTL DEF Spec

\* Rows and requests keep their types.
THEOREM TypeCorrect == Spec => []TypeOK
BY Invariant, PTL DEF Inv

\* The claim of a case is a lock: one handler executes it at a time
\* (claimForExecution and the releases of its callers).
THEOREM ClaimSafe == Spec => []ClaimIsExclusive
BY Invariant, PTL DEF Inv

\* One order from an order case, whatever fails and restarts; one expense
\* from an expense case while nothing fails.
THEOREM RowUnique == Spec => []OneRowPerCase
BY Invariant, PTL DEF Inv
-----------------------------------------------------------------------------
(***************************************************************************)
(* Claims are settled                                                      *)
(***************************************************************************)

\* An expense case that is claimed and has no expense, with the process running
\* and one failure at most.
Unsettled(c) ==
    /\ case[c].claim /\ case[c].entity = None
    /\ ~(failures > 1 \/ restarts > 0)

\* The release of an expense case follows a failure.
Undoing ==
    \A h \in Handlers :
        req[h].op = "expense" /\ req[h].pc = "undo" /\ req[h].case \in ExpenseCases => failures > 0

\* Somebody is going on with it.
Attended == \A c \in ExpenseCases : Unsettled(c) => \E h \in Handlers : Holds(h, c)

Forward == {<<"claimed", "made">>, <<"claimed", "undo">>, <<"made", "undo">>}

\* What a step of a request does about an expense case: the one that holds it goes on to
\* its end, and only a claim leaves it unsettled.
LEMMA ServesExpense ==
    ASSUME Inv, Undoing, NEW h \in Handlers, Serve(h), NEW c \in ExpenseCases, Unsettled(c)'
    PROVE  /\ \A g \in Handlers \ {h} : req'[g] = req[g]
           /\ Holds(h, c) => Holds(h, c)' /\ <<req[h].pc, req'[h].pc>> \in Forward
           /\ Unsettled(c) \/ Holds(h, c)'
<1>1. c \in Cases /\ c \notin OrderCases
  BY CaseAssumption DEF Cases
<1>2. /\ req[h] \in Request /\ failures \in Nat /\ restarts \in Nat
      /\ case \in [Cases -> CaseRow]
      /\ req[h].op = "order" => req[h].case \in OrderCases
  BY DEF Inv, TypeOK, Carries
<1>3. /\ case'[c].claim /\ case'[c].entity = None /\ ~(failures' > 1 \/ restarts' > 0)
  BY DEF Unsettled
<1>4. Idle.pc = "idle" /\ Idle.op = "none"
  BY DEF Idle
<1>5. CASE ClaimForExecution(h)
  <2>1. /\ req[h].pc = "read" /\ UNCHANGED <<failures, restarts>>
        /\ case' = [case EXCEPT ![req[h].case].claim = TRUE] /\ Advance(h, "claimed", None)
        /\ req[h].op \in {"order", "expense"}
    BY <1>5 DEF ClaimForExecution, counters
  <2>2. /\ \A g \in Handlers \ {h} : req'[g] = req[g]
        /\ req'[h].op = req[h].op /\ req'[h].case = req[h].case /\ req'[h].pc = "claimed"
    BY <2>1, Advancing
  <2>3. case'[c].entity = case[c].entity /\ (c # req[h].case => case'[c] = case[c])
    BY <1>1, <1>2, <2>1 DEF CaseRow
  <2>4. ~Holds(h, c)
    BY <2>1 DEF Holds
  <2>5. c = req[h].case => Holds(h, c)'
    BY <2>1, <2>2 DEF Holds
  <2>6. c # req[h].case => Unsettled(c)
    BY <1>3, <2>1, <2>3 DEF Unsettled
  <2> QED  BY <2>2, <2>4, <2>5, <2>6
<1>6. CASE MakeOrder(h) \/ MakeExpense(h) \/ RefuseOrder(h) \/ RefuseExpense(h)
           \/ FailExpense(h) \/ FailRecordExpense(h)
  <2>1. PICK pc \in {"made", "undo"}, r \in Rows \cup {None} : Advance(h, pc, r)
    BY <1>6 DEF MakeOrder, MakeExpense, Make, Fresh, RefuseOrder, RefuseExpense, FailExpense, FailRecordExpense
  <2>2. /\ \A g \in Handlers \ {h} : req'[g] = req[g]
        /\ req'[h].op = req[h].op /\ req'[h].case = req[h].case /\ req'[h].pc = pc
    BY <2>1, Advancing
  <2>3. case' = case /\ failures' \in {failures, failures + 1} /\ restarts' = restarts
    BY <1>6 DEF MakeOrder, MakeExpense, Make, RefuseOrder, RefuseExpense, FailExpense, FailRecordExpense,
                counters, Fail
  <2>4. Unsettled(c)
    BY <1>2, <1>3, <2>3 DEF Unsettled
  <2>5. req[h].pc = "claimed" \/ (req[h].pc = "made" /\ pc = "undo")
    <3>1. CASE FailRecordExpense(h)
      <4>1. req'[h].pc = "undo"
        BY <3>1, Advancing DEF FailRecordExpense
      <4> QED  BY <2>2, <3>1, <4>1 DEF FailRecordExpense, At
    <3> QED  BY <1>6, <3>1 DEF MakeOrder, MakeExpense, RefuseOrder, RefuseExpense, FailExpense, At
  <2>6. Holds(h, c) => Holds(h, c)' /\ <<req[h].pc, req'[h].pc>> \in Forward
    BY <2>2, <2>5 DEF Holds, Forward
  <2> QED  BY <2>2, <2>4, <2>6
<1>7. CASE LoseClaim(h) \/ ThrowOrder(h) \/ FailRecordOrder(h) \/ CommitTurn(h) \/ FailUndo(h)
  <2>1. Finish(h) /\ failures' \in {failures, failures + 1} /\ restarts' = restarts
    BY <1>7 DEF LoseClaim, ThrowOrder, FailRecordOrder, CommitTurn, FailUndo, Abandon, Fail, counters
  <2>2. \A g \in Handlers \ {h} : req'[g] = req[g]
    BY <2>1 DEF Finish, Inv, TypeOK
  <2>3. case'[c].claim = case[c].claim /\ case'[c].entity = case[c].entity
    BY <1>1, <1>2, <1>7 DEF LoseClaim, ThrowOrder, FailRecordOrder, CommitTurn, FailUndo, Abandon, CaseRow
  <2>4. Unsettled(c)
    BY <1>2, <1>3, <2>1, <2>3 DEF Unsettled
  <2>5. ~Holds(h, c)
    <3>1. CASE FailUndo(h)
      <4>1. failures' = failures + 1 /\ req[h].pc = "undo"
        BY <3>1 DEF FailUndo, Abandon, Fail
      <4>2. ~(req[h].op = "expense" /\ req[h].case = c)
        BY <1>2, <1>3, <4>1 DEF Undoing
      <4> QED  BY <1>1, <1>2, <4>2 DEF Holds
    <3>2. CASE ThrowOrder(h) \/ FailRecordOrder(h)
      BY <1>1, <1>2, <3>2 DEF Holds, ThrowOrder, FailRecordOrder, At
    <3> QED  BY <1>7, <3>1, <3>2 DEF Holds, LoseClaim, CommitTurn, At
  <2> QED  BY <2>2, <2>4, <2>5
<1>8. CASE RecordOrder(h) \/ RecordExpense(h) \/ RecordCorrect(h)
  <2>1. req[h].pc = "made" /\ Record(h) /\ Finish(h) /\ UNCHANGED <<failures, restarts>>
    BY <1>8 DEF RecordOrder, RecordExpense, RecordCorrect, At, Record, counters
  <2>2. \A g \in Handlers \ {h} : req'[g] = req[g]
    BY <2>1 DEF Finish, Inv, TypeOK
  <2>3. c # req[h].case
    <3>1. c = req[h].case => case'[c].entity = req[h].row
      BY <1>1, <1>2, <2>1 DEF Record
    <3>2. req[h].row \in Rows
      BY <2>1 DEF Inv, Carries
    <3> QED  BY <1>3, <3>1, <3>2, CaseAssumption
  <2>4. case'[c] = case[c]
    BY <1>1, <1>2, <2>1, <2>3 DEF Record
  <2>5. Unsettled(c)
    BY <1>3, <2>1, <2>4 DEF Unsettled
  <2> QED  BY <2>2, <2>3, <2>5 DEF Holds
<1>9. CASE UndoOrder(h) \/ UndoExpense(h)
  <2>1. Finish(h) /\ UNCHANGED <<failures, restarts>>
    BY <1>9 DEF UndoOrder, UndoExpense, counters
  <2>2. \A g \in Handlers \ {h} : req'[g] = req[g]
    BY <2>1 DEF Finish, Inv, TypeOK
  <2>3. c # req[h].case
    <3>1. c = req[h].case /\ UndoExpense(h) => ~case'[c].claim
      BY <1>1, <1>2 DEF UndoExpense, CaseRow
    <3>2. UndoOrder(h) => req[h].case \in OrderCases
      BY <1>2 DEF UndoOrder, At
    <3> QED  BY <1>1, <1>3, <1>9, <3>1, <3>2
  <2>4. case'[c] = case[c]
    BY <1>1, <1>2, <1>9, <2>3 DEF UndoOrder, UndoExpense, CaseRow
  <2>5. Unsettled(c)
    BY <1>3, <2>1, <2>4 DEF Unsettled
  <2> QED  BY <2>2, <2>3, <2>5 DEF Holds
<1> QED  BY <1>5, <1>6, <1>7, <1>8, <1>9 DEF Serve

\* Other steps touch no request but to begin or to end it, and claim nothing.
LEMMA OthersWait ==
    ASSUME Inv, [Next]_vars, NEW c \in ExpenseCases, Unsettled(c)', NEW h \in Handlers, ~Serve(h),
           \A g \in Handlers : Serve(g) => req'[h] = req[h]
    PROVE  (Holds(h, c) => req'[h] = req[h])
<1>1. ASSUME NEW g \in Handlers, Arrive(g), Holds(h, c) PROVE req'[h] = req[h]
  <2>1. req[g].pc = "idle" /\ \A f \in Handlers \ {g} : req'[f] = req[f]
    BY <1>1 DEF Arrive, BeginOrder, BeginExpense, BeginTurn, BeginCorrect, Begin, Inv, TypeOK
  <2> QED  BY <1>1, <2>1 DEF Holds
<1>2. ~Restart
  BY DEF Restart, Unsettled, Inv, TypeOK
<1> QED  BY <1>1, <1>2 DEF Next, StartCase, Quiet, vars

\* Only a failure leads an expense case to its release.
LEMMA StepKeepsUndoing == Inv /\ Undoing /\ [Next]_vars => Undoing'
<1> SUFFICES ASSUME Inv, Undoing, [Next]_vars, NEW h \in Handlers,
                    req'[h].op = "expense", req'[h].pc = "undo", req'[h].case \in ExpenseCases
             PROVE  failures' > 0
  BY DEF Undoing
<1>1. failures \in Nat /\ failures' \in {failures, failures + 1}
  BY DEF Inv, TypeOK, Next, vars, Arrive, BeginOrder, BeginExpense, BeginTurn, BeginCorrect, Begin,
         Serve, ClaimForExecution, LoseClaim, MakeOrder, RefuseOrder, ThrowOrder, RecordOrder,
         FailRecordOrder, UndoOrder, MakeExpense, FailExpense, RefuseExpense, RecordExpense,
         FailRecordExpense, UndoExpense, FailUndo, RecordCorrect, CommitTurn, Make, Record, Abandon,
         Fail, counters, StartCase, Restart, Quiet
<1>2. CASE req'[h] = req[h]
  BY <1>1, <1>2 DEF Undoing
<1>3. ASSUME req'[h] # req[h] PROVE FailExpense(h) \/ FailRecordExpense(h)
  <2>1. Idle.pc = "idle"
    BY DEF Idle
  <2>2. ~Restart
    BY <2>1 DEF Restart
  <2>3. ASSUME NEW g \in Handlers, Arrive(g) PROVE FALSE
    BY <1>3, <2>3 DEF Arrive, BeginOrder, BeginExpense, BeginTurn, BeginCorrect, Begin, Inv, TypeOK
  <2>4. PICK g \in Handlers : Serve(g)
    BY <1>3, <2>2, <2>3 DEF Next, StartCase, Quiet, vars
  <2>5. CASE Finish(g)
    BY <1>3, <2>1, <2>5 DEF Finish, Inv, TypeOK
  <2>6. CASE ~Finish(g)
    <3>1. PICK pc \in {"claimed", "made", "undo"}, r \in Rows \cup {None} : Advance(g, pc, r)
      BY <2>4, <2>6 DEF Serve, ClaimForExecution, LoseClaim, MakeOrder, RefuseOrder, ThrowOrder, RecordOrder,
         FailRecordOrder, UndoOrder, MakeExpense, FailExpense, RefuseExpense, RecordExpense,
         FailRecordExpense, UndoExpense, FailUndo, RecordCorrect, CommitTurn, Make, Record, Abandon, Fresh
    <3>2. g = h /\ pc = "undo" /\ req[h].op = "expense" /\ req[h].case \in ExpenseCases
      BY <1>3, <3>1, Advancing
    <3>3. req'[g].pc = "undo"
      BY <3>2
    <3>4. ~ClaimForExecution(g)
      BY <3>3, Advancing DEF ClaimForExecution
    <3>5. ~MakeOrder(g) /\ ~MakeExpense(g)
      BY <3>3, Advancing DEF MakeOrder, MakeExpense, Make, Fresh
    <3>6. ~RefuseOrder(g) /\ ~RefuseExpense(g)
      BY <3>2, CaseAssumption DEF RefuseOrder, RefuseExpense, At
    <3> QED  BY <2>4, <2>6, <3>2, <3>4, <3>5, <3>6
         DEF Serve, LoseClaim, ThrowOrder, RecordOrder,
         FailRecordOrder, UndoOrder, RecordExpense,
         UndoExpense, FailUndo, RecordCorrect, CommitTurn, Record, Abandon
  <2> QED  BY <2>5, <2>6
<1>4. CASE FailExpense(h) \/ FailRecordExpense(h)
  BY <1>1, <1>4 DEF FailExpense, FailRecordExpense, Fail
<1> QED  BY <1>2, <1>3, <1>4

\* The request that holds an unsettled case goes from the claim to the row or the
\* release, never back, and its own step moves it.
LEMMA HolderGoesOn ==
    ASSUME Inv, Undoing, [Next]_vars, NEW c \in ExpenseCases, Unsettled(c)',
           NEW h \in Handlers, Holds(h, c)
    PROVE  /\ Holds(h, c)'
           /\ req'[h] = req[h] \/ <<req[h].pc, req'[h].pc>> \in Forward
           /\ Serve(h) => <<req[h].pc, req'[h].pc>> \in Forward
<1>1. CASE Serve(h)
  BY <1>1, ServesExpense
<1>2. CASE ~Serve(h)
  <2>1. \A g \in Handlers : Serve(g) => req'[h] = req[h]
    BY <1>2, ServesExpense
  <2>2. req'[h] = req[h]
    BY <1>2, <2>1, OthersWait
  <2> QED  BY <1>2, <2>2 DEF Holds
<1> QED  BY <1>1, <1>2

\* No step leaves an unsettled case without the request that holds it.
LEMMA StepKeepsAttended == Inv /\ Undoing /\ Attended /\ [Next]_vars => Attended'
<1> SUFFICES ASSUME Inv, Undoing, Attended, [Next]_vars, NEW c \in ExpenseCases, Unsettled(c)'
             PROVE  \E h \in Handlers : Holds(h, c)'
  BY DEF Attended
<1>1. CASE Unsettled(c)
  <2>1. PICK h \in Handlers : Holds(h, c)
    BY <1>1 DEF Attended
  <2> QED  BY <2>1, HolderGoesOn
<1>2. CASE ~Unsettled(c)
  <2>1. PICK h \in Handlers : Serve(h)
    <3>1. c \in Cases /\ case[c] \in CaseRow
      BY DEF Cases, Inv, TypeOK
    <3>2. ASSUME NEW h \in Handlers, Arrive(h) PROVE FALSE
      BY <1>2, <3>2 DEF Arrive, BeginOrder, BeginExpense, BeginTurn, BeginCorrect, Begin, Unsettled
    <3>3. ASSUME NEW d \in Cases, StartCase(d) PROVE FALSE
      BY <1>2, <3>1, <3>3 DEF StartCase, counters, Unsettled, CaseRow, Inv, TypeOK
    <3>4. ~Restart
      BY DEF Restart, Unsettled, Inv, TypeOK
    <3> QED  BY <1>2, <3>2, <3>3, <3>4 DEF Next, Quiet, vars, Unsettled
  <2> QED  BY <1>2, <2>1, ServesExpense
<1> QED  BY <1>1, <1>2

\* An expense case that is claimed without its expense is held by a request under way.
THEOREM SomebodyHasIt == Spec => [](Undoing /\ Attended)
<1>1. Init => Undoing /\ Attended
  BY DEF Init, Undoing, Attended, Idle, Unsettled, NoCase, Cases
<1> QED  BY <1>1, StepKeepsUndoing, StepKeepsAttended, Invariant, PTL DEF Spec

-----------------------------------------------------------------------------
(***************************************************************************)
(* Under the fairness of FairSpec: a request that holds an unsettled case  *)
(* can always go on (NobodyWaits), so Node takes it to the next statement  *)
(* until the case is settled.  ENABLED, WF and <> stand behind operators,  *)
(* which only the temporal steps expand.                                   *)
(***************************************************************************)
Executes(h, c, pc) == Unsettled(c) /\ Holds(h, c) /\ req[h].pc = pc

Ends(c) == <>~Unsettled(c)

Settles(h, c) == [](Unsettled(c) /\ Holds(h, c) => Ends(c))

Leaves(c) == Unsettled(c) ~> ~Unsettled(c)

Working == FairSpec /\ []NobodyWaits

\* Node takes the request that holds an unsettled case to its record or release, each
\* of its at most three statements because weak fairness takes a step that stays possible.
LEMMA HolderSettles ==
    ASSUME NEW h \in Handlers, NEW c \in ExpenseCases
    PROVE  Working => Settles(h, c)
<1> DEFINE claimed == Executes(h, c, "claimed")
           done == Executes(h, c, "made")
           undone == Executes(h, c, "undo")
<1>1. FairSpec => Spec /\ Diligent(h)
  BY DEF FairSpec
<1>2. NobodyWaits /\ Unsettled(c) /\ Holds(h, c) => CanGoOn(h)
  BY DEF NobodyWaits, Holds
<1>3. Unsettled(c) /\ Holds(h, c) <=> claimed \/ done \/ undone
  BY DEF Executes, Holds
<1>4. Inv /\ Undoing /\ [Next]_vars =>
        /\ claimed => claimed' \/ done' \/ undone' \/ ~Unsettled(c)'
        /\ done => done' \/ undone' \/ ~Unsettled(c)'
        /\ undone => undone' \/ ~Unsettled(c)'
  BY HolderGoesOn DEF Executes, Forward
<1>5. Inv /\ Undoing /\ <<Serve(h)>>_vars =>
        /\ claimed => done' \/ undone' \/ ~Unsettled(c)'
        /\ done => undone' \/ ~Unsettled(c)'
        /\ undone => ~Unsettled(c)'
  <2>1. Serve(h) => Next
    BY DEF Next
  <2> QED  BY <2>1, HolderGoesOn DEF Executes, Forward
<1>6. NobodyWaits => (claimed \/ done \/ undone => CanGoOn(h))
  BY <1>2, <1>3
<1> HIDE DEF claimed, done, undone
<1>7. []NobodyWaits => [](claimed \/ done \/ undone => CanGoOn(h))
  BY <1>6, PTL
<1>8. Spec => [](Inv /\ Undoing) /\ [][Next]_vars
  BY Invariant, SomebodyHasIt, PTL DEF Spec
<1>9. FairSpec /\ []NobodyWaits => [](Inv /\ Undoing) /\ [][Next]_vars /\ Diligent(h)
                                   /\ [](claimed \/ done \/ undone => CanGoOn(h))
  BY <1>1, <1>7, <1>8
<1>10. [](Inv /\ Undoing) /\ [][Next]_vars /\ Diligent(h) /\ [](claimed \/ done \/ undone => CanGoOn(h))
        => (undone ~> ~Unsettled(c))
  BY <1>4, <1>5, PTL DEF Diligent, CanGoOn
<1>11. [](Inv /\ Undoing) /\ [][Next]_vars /\ Diligent(h) /\ [](claimed \/ done \/ undone => CanGoOn(h))
        => (done ~> undone \/ ~Unsettled(c))
  BY <1>4, <1>5, PTL DEF Diligent, CanGoOn
<1>12. [](Inv /\ Undoing) /\ [][Next]_vars /\ Diligent(h) /\ [](claimed \/ done \/ undone => CanGoOn(h))
        => (claimed ~> done \/ undone \/ ~Unsettled(c))
  BY <1>4, <1>5, PTL DEF Diligent, CanGoOn
<1> QED  BY <1>3, <1>9, <1>10, <1>11, <1>12, PTL DEF Ends, Settles, Working

\* Whoever holds the case, it is settled.
LEMMA CaseSettles ==
    ASSUME NEW c \in ExpenseCases
    PROVE  Working => Leaves(c)
<1>1. Working => \A h \in Handlers : Settles(h, c)
  BY HolderSettles
<1>2. (\A h \in Handlers : Settles(h, c))
        => [](\A h \in Handlers : Unsettled(c) /\ Holds(h, c) => Ends(c))
  BY DEF Settles
<1>3. Attended /\ (\A h \in Handlers : Unsettled(c) /\ Holds(h, c) => Ends(c))
        => (Unsettled(c) => Ends(c))
  BY DEF Attended
<1> QED  BY <1>1, <1>2, <1>3, SomebodyHasIt, PTL DEF FairSpec, Working, Leaves, Ends

\* While no request waits for another, an expense case does not stay claimed without its
\* expense, for any number of cases and requests: executeFromWhatsApp records or
\* releases what it claimed, unless the release fails too or the process stops.
THEOREM ClaimsAreSettled == FairSpec /\ []NobodyWaits => ClaimIsSettled
<1>1. ASSUME NEW c \in ExpenseCases
      PROVE  FairSpec /\ []NobodyWaits =>
               (case[c].claim /\ case[c].entity = None ~>
                  \/ ~case[c].claim \/ case[c].entity # None
                  \/ failures > 1 \/ restarts > 0)
  <2>1. /\ Unsettled(c) => case[c].claim /\ case[c].entity = None
        /\ ~Unsettled(c) => \/ ~case[c].claim \/ case[c].entity # None
                            \/ failures > 1 \/ restarts > 0
    BY DEF Unsettled
  <2>2. Working => Leaves(c)
    BY CaseSettles
  <2> QED  BY <2>1, <2>2, PTL DEF Working, Leaves
<1> QED  BY <1>1 DEF ClaimIsSettled
=============================================================================
