---------------------------- MODULE CaseExecution ----------------------------
(***************************************************************************)
(* The cases of one WhatsApp conversation and the rows made from them: a   *)
(* person turns an order case into an order from the inbox, the agent      *)
(* turns an expense case into an expense or records a correction, and the  *)
(* turns of the conversation go on changing the cases meanwhile.           *)
(*                                                                         *)
(* No transaction spans an execution: the claim, the new row and the       *)
(* record on the case are committed one by one, any of them may fail, and  *)
(* the process may be restarted between two of them.                       *)
(***************************************************************************)
EXTENDS Integers, FiniteSets

CONSTANTS
    OrderCases,     \* ids of cases of type order
    ExpenseCases,   \* ids of cases of type expense
    Rows,           \* ids of orders and expenses
    Handlers,       \* requests in flight at the same time
    None,
    MaxRequests,    \* bounds of the model: requests served,
    MaxFailures,    \* statements and calls that fail,
    MaxRestarts     \* restarts of the process

Cases == OrderCases \cup ExpenseCases

ASSUME CaseAssumption ==
    /\ OrderCases \cap ExpenseCases = {}
    /\ None \notin Cases \cup Rows

\* Ids do not run out.
ASSUME IdsAssumption ==
    IsFiniteSet(Rows) /\ MaxRequests \in Nat /\ Cardinality(Rows) >= MaxRequests

VARIABLES
    case,           \* rows of NoraConversationCase
    made,           \* the case each order or expense was made from
    req,            \* the request each handler is serving
    served, failures, restarts

counters == <<served, failures, restarts>>
vars == <<case, made, req, served, failures, restarts>>
-----------------------------------------------------------------------------
\* `claim`: executedEntityType is not null.  `entity`: executedEntityId.
CaseRow ==
    [status : {"absent", "collecting_info", "ready_for_review", "executed"},
     claim : BOOLEAN, entity : Rows \cup {None}]

NoCase == [status |-> "absent", claim |-> FALSE, entity |-> None]

Request ==
    [op : {"none", "order", "expense", "correct", "turn"},
     pc : {"idle", "read", "claimed", "made", "undo"},
     case : Cases \cup {None}, row : Rows \cup {None}]

Idle == [op |-> "none", pc |-> "idle", case |-> None, row |-> None]

\* openNoraCaseStatuses
Open == {c \in Cases : case[c].status \in {"collecting_info", "ready_for_review"}}

Fresh == {r \in Rows : made[r] = None}

Begin(h, op, pc, c, r) ==
    /\ req[h].pc = "idle"
    /\ served < MaxRequests
    /\ req' = [req EXCEPT ![h] = [op |-> op, pc |-> pc, case |-> c, row |-> r]]
    /\ served' = served + 1
    /\ UNCHANGED <<case, made, failures, restarts>>

Advance(h, pc, r) == req' = [req EXCEPT ![h].pc = pc, ![h].row = r]

Finish(h) == req' = [req EXCEPT ![h] = Idle]

Fail == failures < MaxFailures /\ failures' = failures + 1 /\ UNCHANGED <<served, restarts>>

At(h, op, pc) == req[h].op = op /\ req[h].pc = pc
-----------------------------------------------------------------------------
(***************************************************************************)
(* Claiming                                                                *)
(***************************************************************************)

\* Mutant: the UPDATE forgets its condition.
Unclaimed_Always(c) == TRUE

\* WHERE executedEntityType IS NULL
Unclaimed(c) == ~case[c].claim

ClaimForExecution(h) ==
    /\ req[h].op \in {"order", "expense"} /\ req[h].pc = "read"
    /\ Unclaimed(req[h].case)
    /\ case' = [case EXCEPT ![req[h].case].claim = TRUE]
    /\ Advance(h, "claimed", None)
    /\ UNCHANGED <<made, counters>>

\* Somebody else has it: the answer is that it exists already.
LoseClaim(h) ==
    /\ req[h].op \in {"order", "expense"} /\ req[h].pc = "read"
    /\ ~Unclaimed(req[h].case)
    /\ Finish(h)
    /\ UNCHANGED <<case, made, counters>>

\* The row of the order or expense is committed.
Make(h) ==
    /\ \E r \in Fresh : /\ made' = [made EXCEPT ![r] = req[h].case]
                        /\ Advance(h, "made", r)
    /\ UNCHANGED <<case, counters>>

\* updateCase: executed, with the type and the id of what was made.
Record(h) ==
    /\ case' = [case EXCEPT ![req[h].case] =
                  [status |-> "executed", claim |-> TRUE, entity |-> req[h].row]]
    /\ Finish(h)
    /\ UNCHANGED <<made, counters>>

\* The request ends with an error and leaves the case as it is.
Abandon(h) ==
    /\ Fail
    /\ Finish(h)
    /\ UNCHANGED <<case, made>>
-----------------------------------------------------------------------------
(***************************************************************************)
(* An order from an order case (createOrderFromCase)                       *)
(***************************************************************************)
BeginOrder(h, c) ==
    /\ c \in OrderCases
    /\ ~case[c].claim /\ case[c].entity = None
    /\ case[c].status = "ready_for_review"
    /\ Begin(h, "order", "read", c, None)

MakeOrder(h) == At(h, "order", "claimed") /\ Make(h)

\* A question for the client, or a human review, instead of an order.
RefuseOrder(h) ==
    /\ At(h, "order", "claimed")
    /\ Advance(h, "undo", None)
    /\ UNCHANGED <<case, made, counters>>

\* process throws on a read outside its try.
ThrowOrder(h) == At(h, "order", "claimed") /\ Abandon(h)

RecordOrder(h) == At(h, "order", "made") /\ Record(h)

\* Mutant: an order that could not be recorded gives its claim back.
FailRecordOrder_Releases(h) ==
    /\ At(h, "order", "made")
    /\ Fail
    /\ case' = [case EXCEPT ![req[h].case].claim = FALSE]
    /\ Finish(h)
    /\ UNCHANGED made

FailRecordOrder(h) == At(h, "order", "made") /\ Abandon(h)

UndoOrder(h) ==
    /\ At(h, "order", "undo")
    /\ case' = [case EXCEPT ![req[h].case].claim = FALSE, ![req[h].case].entity = None]
    /\ Finish(h)
    /\ UNCHANGED <<made, counters>>

FailUndo(h) == req[h].op \in {"order", "expense"} /\ req[h].pc = "undo" /\ Abandon(h)
-----------------------------------------------------------------------------
(***************************************************************************)
(* An expense from the open case (executeFromWhatsApp)                     *)
(***************************************************************************)

\* findOpenCase looks at no type; which open case is the latest is left open.
BeginExpense(h, c) ==
    /\ c \in Open
    /\ case[c].entity = None
    /\ Begin(h, "expense", "read", c, None)

\* Only an expense case has a support to link.
MakeExpense(h) == At(h, "expense", "claimed") /\ req[h].case \in ExpenseCases /\ Make(h)

\* Mutant: the claim is not released.
FailExpense_KeepsClaim(h) == At(h, "expense", "claimed") /\ Abandon(h)

\* No photo, no media, or the row could not be created: on to the catch.
FailExpense(h) ==
    /\ At(h, "expense", "claimed") /\ req[h].case \in ExpenseCases
    /\ Fail
    /\ Advance(h, "undo", None)
    /\ UNCHANGED <<case, made>>

\* "Case has no support attachment to link", as no order case has: the same catch.
RefuseExpense(h) ==
    /\ At(h, "expense", "claimed") /\ req[h].case \in OrderCases
    /\ Advance(h, "undo", None)
    /\ UNCHANGED <<case, made, counters>>

RecordExpense(h) == At(h, "expense", "made") /\ Record(h)

\* The expense exists, its case could not be updated: the same catch.
FailRecordExpense(h) ==
    /\ At(h, "expense", "made")
    /\ Fail
    /\ Advance(h, "undo", None)
    /\ UNCHANGED <<case, made>>

UndoExpense(h) ==
    /\ At(h, "expense", "undo")
    /\ case' = [case EXCEPT ![req[h].case].claim = FALSE]
    /\ Finish(h)
    /\ UNCHANGED <<made, counters>>
-----------------------------------------------------------------------------
(***************************************************************************)
(* Corrections and turns                                                   *)
(***************************************************************************)

\* updateFromWhatsApp: the expense was updated, the open case is looked up ...
BeginCorrect(h, r, c) ==
    /\ made[r] \in ExpenseCases
    /\ c \in Open
    /\ Begin(h, "correct", "made", c, r)

\* ... and takes the corrected expense for its own.
RecordCorrect(h) == At(h, "correct", "made") /\ Record(h)

\* start_case
StartCase(c) ==
    /\ case[c].status = "absent"
    /\ \E status \in IF c \in OrderCases THEN {"collecting_info", "ready_for_review"}
                                         ELSE {"collecting_info"} :
         case' = [case EXCEPT ![c].status = status]
    /\ UNCHANGED <<made, req, counters>>

\* A turn takes the open case to the agent ...
BeginTurn(h, c) ==
    /\ c \in Open
    /\ Begin(h, "turn", "read", c, None)

\* ... and writes back what the agent says of an order with nothing missing, or
\* that the planner made an order of its own, from the message.
\* Turns that change only the data of a case leave this state as it is.
CommitTurn(h) ==
    /\ At(h, "turn", "read")
    /\ IF req[h].case \in OrderCases
       THEN \E status \in {"ready_for_review", "executed"} :
              case' = [case EXCEPT ![req[h].case].status = status]
       ELSE case' = case
    /\ Finish(h)
    /\ UNCHANGED <<made, counters>>

\* The process stops and starts again: nothing in flight survives.
Restart ==
    /\ restarts < MaxRestarts
    /\ \E h \in Handlers : req[h] # Idle
    /\ restarts' = restarts + 1
    /\ req' = [h \in Handlers |-> Idle]
    /\ UNCHANGED <<case, made, served, failures>>
-----------------------------------------------------------------------------
Init ==
    /\ case = [c \in Cases |-> NoCase]
    /\ made = [r \in Rows |-> None]
    /\ req = [h \in Handlers |-> Idle]
    /\ served = 0 /\ failures = 0 /\ restarts = 0

Arrive(h) ==
    \/ \E c \in Cases : BeginOrder(h, c) \/ BeginExpense(h, c) \/ BeginTurn(h, c)
    \/ \E c \in Cases, r \in Rows : BeginCorrect(h, r, c)

Serve(h) ==
    \/ ClaimForExecution(h) \/ LoseClaim(h)
    \/ MakeOrder(h) \/ RefuseOrder(h) \/ ThrowOrder(h)
    \/ RecordOrder(h) \/ FailRecordOrder(h) \/ UndoOrder(h)
    \/ MakeExpense(h) \/ FailExpense(h) \/ RefuseExpense(h)
    \/ RecordExpense(h) \/ FailRecordExpense(h) \/ UndoExpense(h)
    \/ FailUndo(h)
    \/ RecordCorrect(h) \/ CommitTurn(h)

\* Every request was answered and no message comes.
Quiet ==
    /\ \A h \in Handlers : req[h] = Idle
    /\ UNCHANGED vars

Next ==
    \/ \E h \in Handlers : Arrive(h) \/ Serve(h)
    \/ \E c \in Cases : StartCase(c)
    \/ Restart
    \/ Quiet

Spec == Init /\ [][Next]_vars

\* Node runs every handler to its end.
Diligent(h) == WF_vars(Serve(h))

FairSpec == Spec /\ \A h \in Handlers : Diligent(h)
-----------------------------------------------------------------------------
(***************************************************************************)
(* Properties                                                              *)
(***************************************************************************)
TypeOK ==
    /\ case \in [Cases -> CaseRow]
    /\ made \in [Rows -> Cases \cup {None}]
    /\ req \in [Handlers -> Request]
    /\ served \in Nat /\ failures \in Nat /\ restarts \in Nat

MadeFrom(c) == {r \in Rows : made[r] = c}

\* Between its claim and its record or release a handler holds the case.
Holds(h, c) ==
    /\ req[h].op \in {"order", "expense"}
    /\ req[h].pc \in {"claimed", "made", "undo"}
    /\ req[h].case = c

\* "Returns true only for the one caller that wins the race": two requests
\* never execute one case at the same time, though claims are given back and
\* corrections write the claim without asking for it.
ClaimIsExclusive ==
    \A c \in Cases, g, h \in Handlers : Holds(g, c) /\ Holds(h, c) => g = h

\* An order case gives one order whatever fails and whenever the process is
\* restarted, turns reopen it or requests are repeated; an expense case gives
\* one expense while nothing fails.
OneRowPerCase ==
    \A c \in Cases : c \in OrderCases \/ failures = 0 =>
        \A r, s \in MadeFrom(c) : r = s

CanGoOn(h) == ENABLED <<Serve(h)>>_vars

\* No request waits for another: each one under way has a step of its own, to an
\* answer or to a failure.  The guards of the actions give it: what ClaimIsSettled is
\* proved from.
NobodyWaits == \A h \in Handlers : req[h].pc # "idle" => CanGoOn(h)

\* "Everything after the claim must release the claim on failure": while the
\* process runs, an expense case does not stay claimed without its expense,
\* unless the release fails too.
ClaimIsSettled ==
    \A c \in ExpenseCases :
        case[c].claim /\ case[c].entity = None ~>
            \/ ~case[c].claim \/ case[c].entity # None
            \/ failures > 1 \/ restarts > 0
=============================================================================
