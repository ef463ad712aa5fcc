---------------------------- MODULE Inbox_proofs ----------------------------
(***************************************************************************)
(* Proofs about Inbox, for any number of messages, cases, people and       *)
(* areas.                                                                  *)
(***************************************************************************)
EXTENDS Inbox, TLAPS
-----------------------------------------------------------------------------
(***************************************************************************)
(* What is read and asked                                                  *)
(***************************************************************************)

\* A turn that read no case has none, and who accepts a case accepts one.
Read ==
    \A m \in Messages :
        /\ route[m].open = None => route[m].was = NoCase
        /\ route[m].pc = "booked" => route[m].was.type = "visit"
        /\ route[m].pc = "created" => route[m].was.type = "new_customer"

Asked == \A p \in People : req[p].op = "accept" => req[p].case \in Cases

\* Cases are never deleted and keep their type: what was read of a case, asked
\* for it, or hung from it, still is of that type.
Typed ==
    /\ \A m \in Messages : route[m].open # None =>
           /\ case[route[m].open].type # "absent"
           /\ route[m].was.type = case[route[m].open].type
    /\ \A p \in People : req[p].op = "accept" => case[req[p].case].type = "order"
    /\ \A c \in Cases : case[c].parent # None => case[case[c].parent].type # "absent"

TypeInv == TypeOK /\ Read /\ Asked /\ Typed

Pcs == {"none", "stored", "identified", "marked", "turn", "drafted", "plan", "candidate",
        "ordered", "executed", "booked", "created", "reply", "done"}

\* m goes on to one of pcs, with what it read or with nothing.
Moves(m, pcs) ==
    /\ route' \in [Messages -> Routing]
    /\ \A n \in Messages : n # m => route'[n] = route[n]
    /\ route'[m].pc \in pcs
    /\ \/ route'[m].open = route[m].open /\ route'[m].was = route[m].was
       \/ route'[m].open = None /\ route'[m].was = NoCase

LEMMA Constants ==
    /\ NewConv \in ConvRow /\ NoCase \in CaseRow /\ Unrouted \in Routing /\ Idle \in Request
    /\ NewConv.user = None /\ NewConv.role = None /\ NewConv.status = "nuevo"
    /\ NoCase.type = "absent" /\ NoCase.parent = None
    /\ Unrouted.pc = "none" /\ Unrouted.open = None /\ Unrouted.was = NoCase
    /\ Idle.op = "none" /\ Idle.pc = "idle"
<1>1. NewConv \in ConvRow /\ NewConv.user = None /\ NewConv.role = None
      /\ NewConv.status = "nuevo"
  BY DEF NewConv, ConvRow, Statuses
<1>2. NoCase \in CaseRow /\ NoCase.type = "absent" /\ NoCase.parent = None
  BY DEF NoCase, CaseRow
<1>3. Unrouted \in Routing /\ Unrouted.pc = "none" /\ Unrouted.open = None
      /\ Unrouted.was = NoCase
  BY <1>1, <1>2 DEF Unrouted, Routing
<1>4. Idle \in Request /\ Idle.op = "none" /\ Idle.pc = "idle"
  BY <1>1 DEF Idle, Request
<1>5. QED
  BY <1>1, <1>2, <1>3, <1>4

\* Each way of going on.
LEMMA GotoMoves ==
    ASSUME TypeOK, NEW m \in Messages, NEW pc \in Pcs, Goto(m, pc)
    PROVE  /\ Moves(m, {pc}) /\ route'[m].open = route[m].open /\ route'[m].was = route[m].was
           /\ route'[m].seen = route[m].seen
<1>1. route[m] \in Routing /\ DOMAIN route = Messages
  BY DEF TypeOK
<1> DEFINE r == [route[m] EXCEPT !.pc = pc]
<1>2. /\ r \in Routing /\ r.pc = pc /\ r.open = route[m].open /\ r.was = route[m].was
      /\ r.seen = route[m].seen
  BY <1>1 DEF Routing, Pcs
<1>3. route' = [route EXCEPT ![m] = r]
  BY DEF Goto
<1> HIDE DEF r
<1>4. QED
  BY <1>1, <1>2, <1>3 DEF Moves, TypeOK

LEMMA EndMoves ==
    ASSUME TypeOK, NEW m \in Messages, End(m)
    PROVE  Moves(m, {"done"})
<1> DEFINE r == [Unrouted EXCEPT !.pc = "done"]
<1>1. r \in Routing /\ r.pc = "done" /\ r.open = None /\ r.was = NoCase
  BY Constants DEF Routing
<1>2. route' = [route EXCEPT ![m] = r]
  BY DEF End
<1> HIDE DEF r
<1>3. QED
  BY <1>1, <1>2 DEF Moves, TypeOK

LEMMA ProceedMoves ==
    ASSUME TypeOK, NEW m \in Messages, NEW pc \in Pcs, NEW on \in {"agent", "last"},
           Proceed(m, pc, on)
    PROVE  Moves(m, {pc}) /\ route'[m].open = route[m].open /\ route'[m].was = route[m].was
<1>1. route[m] \in Routing /\ DOMAIN route = Messages
  BY DEF TypeOK
<1> DEFINE r == [route[m] EXCEPT !.pc = pc, !.on = on, !.seen = NewConv]
<1>2. r \in Routing /\ r.pc = pc /\ r.open = route[m].open /\ r.was = route[m].was
  BY <1>1, Constants DEF Routing, Pcs
<1>3. route' = [route EXCEPT ![m] = r]
  BY DEF Proceed
<1> HIDE DEF r
<1>4. QED
  BY <1>1, <1>2, <1>3 DEF Moves, TypeOK

LEMMA ReplyMoves ==
    ASSUME TypeOK, NEW m \in Messages, NEW on \in {"agent", "last"}, ReplyOn(m, on)
    PROVE  Moves(m, {"reply"})
<1>1. CASE on = "agent"
  BY <1>1, ProceedMoves DEF ReplyOn, Pcs
<1>2. CASE on # "agent"
  <2> DEFINE r == [Unrouted EXCEPT !.pc = "reply", !.on = on]
  <2>1. r \in Routing /\ r.pc = "reply" /\ r.open = None /\ r.was = NoCase
    BY Constants DEF Routing
  <2>2. route' = [route EXCEPT ![m] = r]
    BY <1>2 DEF ReplyOn
  <2> HIDE DEF r
  <2>3. QED
    BY <2>1, <2>2 DEF Moves, TypeOK
<1>3. QED
  BY <1>1, <1>2

\* A case is read: it is open, and no other than the one read becomes the turn's.
LEMMA OpenTurnMoves ==
    ASSUME TypeOK, NEW m \in Messages, OpenTurn(m)
    PROVE  /\ route' \in [Messages -> Routing]
           /\ \A n \in Messages : n # m => route'[n] = route[n]
           /\ route[m].pc = "marked" /\ route'[m].pc = "turn"
           /\ route'[m].open \in LatestOpen
           /\ route'[m].open \in Cases \cup {None}
           /\ route'[m].open \in Cases => Open(route'[m].open)
           /\ route'[m].was = IF route'[m].open = None THEN NoCase ELSE case[route'[m].open]
           /\ route'[m].as = route[m].as /\ route'[m].just = route[m].just
           /\ route'[m].seen = route[m].seen
<1>1. route[m] \in Routing /\ DOMAIN route = Messages
  BY DEF TypeOK
<1>2. PICK c \in LatestOpen :
        route' = [route EXCEPT ![m].pc = "turn", ![m].open = c,
                               ![m].was = IF c = None THEN NoCase ELSE case[c]]
  BY DEF OpenTurn
<1>3. (c = None \/ (c \in Cases /\ Open(c)))
  BY DEF LatestOpen
<1> DEFINE w == IF c = None THEN NoCase ELSE case[c]
<1>4. w \in CaseRow
  BY <1>3, Constants DEF TypeOK
<1> DEFINE r == [route[m] EXCEPT !.pc = "turn", !.open = c, !.was = w]
<1>5. route' = [route EXCEPT ![m] = r]
  BY <1>2
<1>6. w = IF c = None THEN NoCase ELSE case[c]
  OBVIOUS
<1> HIDE DEF w
<1>7. /\ r \in Routing /\ r.pc = "turn" /\ r.open = c /\ r.was = w
      /\ r.as = route[m].as /\ r.just = route[m].just /\ r.seen = route[m].seen
  BY <1>1, <1>3, <1>4 DEF Routing
<1> HIDE DEF r
<1>8. route' \in [Messages -> Routing] /\ route'[m] = r
      /\ \A n \in Messages : n # m => route'[n] = route[n]
  BY <1>1, <1>5, <1>7 DEF TypeOK
<1>9. QED
  BY <1>3, <1>6, <1>7, <1>8, PeopleAssumption DEF OpenTurn

LEMMA HandleMoves ==
    ASSUME TypeOK, NEW m \in Messages, Handle(m)
    PROVE  Moves(m, {"stored"}) /\ route[m].pc = "none" /\ route'[m].seen = conv
<1> DEFINE r == [Unrouted EXCEPT !.pc = "stored", !.seen = conv]
<1>1. r \in Routing /\ r.pc = "stored" /\ r.open = None /\ r.was = NoCase /\ r.seen = conv
  BY Constants DEF Routing, TypeOK
<1>2. route' = [route EXCEPT ![m] = r]
  BY DEF Handle
<1> HIDE DEF r
<1>3. QED
  BY <1>1, <1>2 DEF Moves, TypeOK, Handle, IndexAllows

LEMMA IdentifyMoves ==
    ASSUME TypeOK, NEW m \in Messages, Identify(m)
    PROVE  /\ Moves(m, {"identified", "marked"}) /\ route[m].pc = "stored"
           /\ route'[m].open = route[m].open /\ route'[m].was = route[m].was
           /\ route'[m].seen = route[m].seen
           /\ route'[m].pc = "identified" =>
                  route'[m].as = "desconocido" /\ route[m].seen.status = "nuevo"
           /\ sender = "cliente" => route'[m].as = "cliente" /\ ~route'[m].just
           /\ conv' \in ConvRow /\ conv'.role = conv.role /\ conv'.status = conv.status
           /\ conv'.user = conv.user
<1>1. route[m] \in Routing /\ DOMAIN route = Messages /\ sender \in Senders /\ conv \in ConvRow
  BY DEF TypeOK
<1>2. PICK nit \in BOOLEAN :
        LET as == WhoWrites(route[m].seen, nit)
        IN  /\ route' = [route EXCEPT ![m].pc = IF as = "desconocido" /\ route[m].seen.status = "nuevo"
                                                THEN "identified" ELSE "marked",
                                      ![m].as = as,
                                      ![m].just = (sender = "desconocido" /\ ~route[m].seen.known /\ nit)]
            /\ conv' = Linked(as)
  BY DEF Identify
<1> DEFINE as == WhoWrites(route[m].seen, nit)
           pc == IF as = "desconocido" /\ route[m].seen.status = "nuevo"
                 THEN "identified" ELSE "marked"
           just == (sender = "desconocido" /\ ~route[m].seen.known /\ nit)
           r == [route[m] EXCEPT !.pc = pc, !.as = as, !.just = just]
<1>3. /\ as \in {"cliente", "desconocido", "comercial"} /\ just \in BOOLEAN
      /\ sender = "cliente" => as = "cliente" /\ ~just
  BY <1>1, PeopleAssumption DEF WhoWrites
<1>4. /\ pc \in {"identified", "marked"}
      /\ pc = "identified" => as = "desconocido" /\ route[m].seen.status = "nuevo"
  OBVIOUS
<1>5. route' = [route EXCEPT ![m] = r] /\ conv' = Linked(as)
  BY <1>2
<1> HIDE DEF as, pc, just
<1>6. /\ r \in Routing /\ r.pc = pc /\ r.as = as /\ r.just = just
      /\ r.seen = route[m].seen /\ r.open = route[m].open /\ r.was = route[m].was
  BY <1>1, <1>3, <1>4 DEF Routing
<1>7. /\ conv' \in ConvRow /\ conv'.role = conv.role /\ conv'.status = conv.status
      /\ conv'.user = conv.user
  BY <1>1, <1>3, <1>5 DEF Linked, ConvRow
<1> HIDE DEF r
<1>8. QED
  BY <1>1, <1>3, <1>4, <1>5, <1>6, <1>7 DEF Moves, TypeOK, Identify

\* A row of a case is replaced, and becomes the one updated last.
LEMMA PutCaseRow ==
    ASSUME TypeOK, NEW c \in Cases, NEW row \in CaseRow, PutCase(c, row)
    PROVE  /\ case' \in [Cases -> CaseRow] /\ case'[c] = row
           /\ \A d \in Cases : d # c => case'[d] = case[d]
           /\ recent' \subseteq Cases \X Cases
BY DEF TypeOK, PutCase, Touch

LEMMA NewCaseRows ==
    /\ \A c \in Cases \cup {None} :
         LET row == [NoCase EXCEPT !.type = "new_customer", !.parent = c]
         IN  row \in CaseRow /\ row.type = "new_customer" /\ row.parent = c
    /\ \A type \in {"order", "visit", "new_customer"},
          status \in {"collecting_info", "ready_for_review"}, ready \in BOOLEAN :
         LET row == [NoCase EXCEPT !.type = type, !.status = status, !.ready = ready]
         IN  row \in CaseRow /\ row.type = type /\ row.parent = None /\ row.status = status
    /\ LET row == [NoCase EXCEPT !.type = "order", !.status = "ready_for_review"]
       IN  row \in CaseRow /\ row.type = "order" /\ row.parent = None
BY DEF CaseRow, NoCase

-----------------------------------------------------------------------------
(***************************************************************************)
(* What a step does to the routing of its message                          *)
(***************************************************************************)

\* The turn keeps what it read, drops it, or reads an open case.
Reads(m) ==
    \/ route'[m].open = route[m].open /\ route'[m].was = route[m].was
    \/ route'[m].open = None /\ route'[m].was = NoCase
    \/ /\ route'[m].open \in Cases /\ case[route'[m].open].type # "absent"
       /\ route'[m].was = case[route'[m].open]
       /\ UNCHANGED case

LEMMA RouteStepMoves ==
    ASSUME TypeInv, NEW m \in Messages, RouteStep(m)
    PROVE  /\ route' \in [Messages -> Routing]
           /\ \A n \in Messages : n # m => route'[n] = route[n]
           /\ route[m].pc \notin {"none", "done"} /\ route'[m].pc # "none"
           /\ Reads(m)
           /\ route'[m].pc = "booked" => route'[m].was.type = "visit"
           /\ route'[m].pc = "created" => route'[m].was.type = "new_customer"
<1> USE DEF TypeInv
<1> DEFINE Done == /\ Moves(m, Pcs \ {"none", "booked", "created"})
                   /\ route[m].pc \notin {"none", "done"}
<1>1. Done =>
        /\ route' \in [Messages -> Routing]
        /\ \A n \in Messages : n # m => route'[n] = route[n]
        /\ route[m].pc \notin {"none", "done"} /\ route'[m].pc # "none"
        /\ Reads(m)
        /\ route'[m].pc = "booked" => route'[m].was.type = "visit"
        /\ route'[m].pc = "created" => route'[m].was.type = "new_customer"
  BY DEF Moves, Reads
<1>2. ASSUME NEW pcs, Moves(m, pcs), pcs \subseteq Pcs \ {"none", "booked", "created"}
      PROVE  Moves(m, Pcs \ {"none", "booked", "created"})
  BY <1>2 DEF Moves
<1>3. CASE Identify(m)
  BY <1>3, <1>1, <1>2, IdentifyMoves DEF Pcs, Identify
<1>4. CASE OpenTurn(m)
  <2>1. Reads(m)
    BY <1>4, OpenTurnMoves DEF Reads, OpenTurn, Open, rows
  <2>2. QED
    BY <1>4, <2>1, OpenTurnMoves
<1>5. CASE BookVisit(m) \/ CloseCustomer(m)
  <2>1. \/ Moves(m, {"booked"}) /\ route[m].was.type = "visit"
        \/ Moves(m, {"created"}) /\ route[m].was.type = "new_customer"
    BY <1>5, GotoMoves DEF BookVisit, CloseCustomer, VisitTurn, Pcs
  <2>2. /\ route'[m].open = route[m].open /\ route'[m].was = route[m].was
        /\ route[m].pc = "turn"
    BY <1>5, GotoMoves DEF BookVisit, CloseCustomer, VisitTurn, Turn, Pcs
  <2>3. QED
    BY <2>1, <2>2 DEF Moves, Reads
<1>6. CASE MarkPending(m) \/ DraftOrder(m) \/ PlaceOrder(m) \/ MarkExecuted(m)
  <2>1. Moves(m, {"marked"}) \/ Moves(m, {"drafted"}) \/ Moves(m, {"ordered"}) \/ Moves(m, {"executed"})
    BY <1>6, GotoMoves DEF MarkPending, DraftOrder, PlaceOrder, MarkExecuted, Pcs
  <2>2. route[m].pc \notin {"none", "done"}
    BY <1>6 DEF MarkPending, DraftOrder, PlaceOrder, MarkExecuted, AgentTurn, Answerable, Turn
  <2>3. QED
    BY <1>1, <1>2, <2>1, <2>2 DEF Pcs
<1>7. CASE ThrowEarly(m) \/ ThrowLate(m) \/ Deliver(m) \/ KeepSilent(m) \/ PlannerReviews(m)
  <2>1. End(m) /\ route[m].pc \notin {"none", "done"}
    BY <1>7 DEF ThrowEarly, ThrowLate, Deliver, KeepSilent, PlannerReviews, Turn
  <2>2. QED
    BY <1>1, <1>2, <2>1, EndMoves DEF Pcs
<1>8. CASE Greet(m) \/ HandOff(m) \/ EndDraft(m) \/ AgentAnswers(m) \/ PlannerAnswers(m)
  <2>1. \E on \in {"agent", "last"} : ReplyOn(m, on)
    BY <1>8 DEF Greet, HandOff, EndDraft, AgentAnswers, PlannerAnswers
  <2>2. route[m].pc \notin {"none", "done"}
    BY <1>8 DEF Greet, HandOff, EndDraft, AgentAnswers, PlannerAnswers, AgentTurn, Answerable, Turn
  <2>3. QED
    BY <1>1, <1>2, <2>1, <2>2, ReplyMoves DEF Pcs
<1>9. CASE LogCreated(m) \/ StartCase(m) \/ UpdateCase(m) \/ OpenSubcase(m) \/ EditVisit(m)
           \/ CustomerForVisit(m) \/ RecordVisit(m) \/ GeneralAgent(m) \/ Bridge(m)
  <2>1. \E on \in {"agent", "last"} : ReplyOn(m, on)
    BY <1>9 DEF LogCreated, StartCase, UpdateCase, OpenSubcase, EditVisit, CustomerForVisit,
                RecordVisit, GeneralAgent, Bridge
  <2>2. route[m].pc \notin {"none", "done"}
    BY <1>9 DEF LogCreated, StartCase, UpdateCase, OpenSubcase, EditVisit, CustomerForVisit,
                RecordVisit, GeneralAgent, Bridge, VisitTurn, Turn
  <2>3. QED
    BY <1>1, <1>2, <2>1, <2>2, ReplyMoves DEF Pcs
<1>10. CASE FailReply(m) \/ AgentFails(m) \/ Plan(m)
  <2>1. End(m) \/ Proceed(m, "plan", "last")
    BY <1>10 DEF FailReply, AgentFails, Plan
  <2>2. route[m].pc \notin {"none", "done"}
    BY <1>10 DEF FailReply, AgentFails, Plan, AgentTurn, Answerable, Turn
  <2>3. QED
    BY <1>1, <1>2, <2>1, <2>2, EndMoves, ProceedMoves DEF Pcs
<1>11. CASE Escalate(m) \/ AskAboutOrder(m)
  <2>1. End(m) \/ ReplyOn(m, "last")
    BY <1>11 DEF Escalate, AskAboutOrder
  <2>2. route[m].pc \notin {"none", "done"}
    BY <1>11 DEF Escalate, AskAboutOrder, Turn
  <2>3. QED
    BY <1>1, <1>2, <2>1, <2>2, EndMoves, ReplyMoves DEF Pcs
<1>12. CASE Confirm(m)
  <2>1. End(m) \/ Goto(m, "candidate")
    BY <1>12 DEF Confirm
  <2>2. route[m].pc \notin {"none", "done"}
    BY <1>12 DEF Confirm
  <2>3. QED
    BY <1>1, <1>2, <2>1, <2>2, EndMoves, GotoMoves DEF Pcs
<1>13. QED
  BY <1>3, <1>4, <1>5, <1>6, <1>7, <1>8, <1>9, <1>10, <1>11, <1>12 DEF RouteStep
-----------------------------------------------------------------------------
(***************************************************************************)
(* What a step does to the cases                                           *)
(***************************************************************************)
Collects(c, d) ==
    case[d].type = "new_customer" /\ case[d].parent = c /\ case[d].status = "collecting_info"

\* A row of a case there is keeps its type and its parent, a new customer is not
\* collected again, and only the planner goes on with an order or a visit.
Edits(c, row) ==
    /\ PutCase(c, row)
    /\ case[c].type # "absent" /\ row.type = case[c].type /\ row.parent = case[c].parent
    /\ row.type = "new_customer" /\ row.status = "collecting_info" =>
           case[c].status = "collecting_info"
    /\ \/ row.status \in {case[c].status, "executed"} \/ row.type = "new_customer"
       \/ \E m \in Messages : route[m].pc = "plan" /\ route[m].open = c

\* A new case hangs from one there is, an order's only when none is collecting.
Adds(c, row) ==
    /\ PutCase(c, row)
    /\ case[c].type = "absent" /\ row.type # "absent"
    /\ row.parent # None => case[row.parent].type # "absent"
    /\ row.parent # None /\ case[row.parent].type = "order" =>
           \A d \in Cases : ~Collects(row.parent, d)

Writes ==
    \/ UNCHANGED <<case, recent>>
    \/ \E c \in Cases, row \in CaseRow : Edits(c, row) \/ Adds(c, row)

LEMMA RouteStepWrites ==
    ASSUME TypeInv, NEW m \in Messages, RouteStep(m)
    PROVE  Writes
<1> USE DEF TypeInv
<1> DEFINE o == route[m].open
<1>1. /\ case \in [Cases -> CaseRow] /\ route[m] \in Routing /\ o \in Cases \cup {None}
      /\ None \notin Cases
  BY PeopleAssumption DEF TypeOK, Routing
<1>a. ASSUME NEW c \in Cases, NEW row \in CaseRow, PutCase(c, row), case[c].type # "absent",
             row.type = case[c].type, row.parent = case[c].parent,
             row.type = "new_customer" /\ row.status = "collecting_info" =>
                 case[c].status = "collecting_info",
             \/ row.status \in {case[c].status, "executed"} \/ row.type = "new_customer"
             \/ \E k \in Messages : route[k].pc = "plan" /\ route[k].open = c
      PROVE  Writes
  BY <1>a DEF Writes, Edits
<1>b. ASSUME NEW c \in Cases, NEW row \in CaseRow, PutCase(c, row), case[c].type = "absent",
             row.type # "absent", row.parent # None => case[row.parent].type # "absent",
             row.parent # None /\ case[row.parent].type = "order" =>
                 \A d \in Cases : ~Collects(row.parent, d)
      PROVE  Writes
  BY <1>b DEF Writes, Adds
<1>2. CASE \/ Identify(m) \/ MarkPending(m) \/ OpenTurn(m) \/ ThrowEarly(m) \/ ThrowLate(m)
           \/ Deliver(m) \/ FailReply(m) \/ Greet(m) \/ KeepSilent(m) \/ Escalate(m)
           \/ HandOff(m) \/ EndDraft(m) \/ AgentAnswers(m) \/ AgentFails(m)
           \/ Plan(m) \/ PlannerAnswers(m) \/ PlannerReviews(m)
           \/ Confirm(m) \/ PlaceOrder(m) \/ AskAboutOrder(m) \/ LogCreated(m) \/ BookVisit(m)
           \/ GeneralAgent(m)
  <2>1. UNCHANGED <<case, recent>>
    BY <1>2 DEF Identify, MarkPending, OpenTurn, ThrowEarly, ThrowLate, Deliver, FailReply, Greet,
        KeepSilent, Escalate, HandOff, EndDraft, AgentAnswers, AgentFails, Plan, PlannerAnswers,
        PlannerReviews, Confirm, PlaceOrder, AskAboutOrder, LogCreated, BookVisit,
        GeneralAgent, rows
  <2>2. QED
    BY <2>1 DEF Writes
<1>3. CASE DraftOrder(m)
  <2>1. PICK c \in Cases : /\ case[c].type = "absent"
                           /\ PutCase(c, [NoCase EXCEPT !.type = "order", !.status = "ready_for_review"])
    BY <1>3 DEF DraftOrder, Fresh
  <2> DEFINE row == [NoCase EXCEPT !.type = "order", !.status = "ready_for_review"]
  <2>2. row \in CaseRow /\ row.type = "order" /\ row.parent = None
    BY NewCaseRows
  <2>3. PutCase(c, row)
    BY <2>1
  <2> HIDE DEF row
  <2>4. QED
    BY <1>b, <2>1, <2>2, <2>3
<1>4. CASE StartCase(m)
  <2>1. PICK c \in Fresh, type \in Startable(m) :
          \E status \in Collected(type), ready \in Prepared(type) :
            PutCase(c, [NoCase EXCEPT !.type = type, !.status = status, !.ready = ready])
    BY <1>4 DEF StartCase
  <2>2. PICK status \in Collected(type), ready \in Prepared(type) :
          PutCase(c, [NoCase EXCEPT !.type = type, !.status = status, !.ready = ready])
    BY <2>1
  <2>3. /\ type \in {"order", "visit", "new_customer"} /\ ready \in BOOLEAN
        /\ status \in {"collecting_info", "ready_for_review"}
        /\ c \in Cases /\ case[c].type = "absent"
    BY DEF Startable, Prepared, Collected, Fresh
  <2> DEFINE row == [NoCase EXCEPT !.type = type, !.status = status, !.ready = ready]
  <2>4. row \in CaseRow /\ row.type = type /\ row.parent = None
    BY <2>3 DEF CaseRow, NoCase
  <2>5. PutCase(c, row)
    BY <2>2
  <2> HIDE DEF row
  <2>6. QED
    BY <1>b, <2>3, <2>4, <2>5
<1>5. CASE OpenSubcase(m)
  <2>1. CASE Subcases(o) # {}
    BY <1>5, <2>1 DEF OpenSubcase, Writes
  <2>2. CASE Subcases(o) = {}
    <3>1. PICK d \in Cases : /\ case[d].type = "absent"
                             /\ PutCase(d, [NoCase EXCEPT !.type = "new_customer", !.parent = o])
      BY <1>5, <2>2 DEF OpenSubcase, Fresh
    <3>2. \A e \in Cases : ~Collects(o, e)
      BY <2>2 DEF Subcases, Collects, Open
    <3>3. o # None => case[o].type # "absent"
      BY DEF Typed
    <3> DEFINE row == [NoCase EXCEPT !.type = "new_customer", !.parent = o]
    <3>4. row \in CaseRow /\ row.type = "new_customer" /\ row.parent = o
      BY <1>1, NewCaseRows
    <3>5. PutCase(d, row)
      BY <3>1
    <3> HIDE DEF o, row
    <3>6. QED
      BY <1>b, <3>1, <3>2, <3>3, <3>4, <3>5
  <2>3. QED
    BY <2>1, <2>2
<1>6. CASE CustomerForVisit(m)
  <2>1. PICK d \in Cases : /\ case[d].type = "absent"
                           /\ PutCase(d, [NoCase EXCEPT !.type = "new_customer", !.parent = o])
    BY <1>6 DEF CustomerForVisit, Fresh
  <2>2. o # None /\ case[o].type = "visit"
    BY <1>6, Constants DEF CustomerForVisit, VisitTurn, Typed, Read
  <2> DEFINE row == [NoCase EXCEPT !.type = "new_customer", !.parent = o]
  <2>3. row \in CaseRow /\ row.type = "new_customer" /\ row.parent = o
    BY <1>1, NewCaseRows
  <2>4. PutCase(d, row)
    BY <2>1
  <2> HIDE DEF o, row
  <2>5. QED
    BY <1>b, <2>1, <2>2, <2>3, <2>4
<1>7. CASE EditVisit(m) \/ RecordVisit(m)
  <2>1. o \in Cases /\ case[o].type = "visit" /\ case[o] \in CaseRow
    BY <1>1, <1>7, Constants DEF EditVisit, RecordVisit, VisitTurn, Typed, Read
  <2>2. PICK row : /\ PutCase(o, row)
                   /\ \/ \E ready \in BOOLEAN : row = [case[o] EXCEPT !.ready = ready]
                      \/ row = [case[o] EXCEPT !.status = "executed", !.claim = TRUE]
    BY <1>7 DEF EditVisit, RecordVisit
  <2> HIDE DEF o
  <2>3. /\ row \in CaseRow /\ row.type = case[o].type /\ row.parent = case[o].parent
        /\ row.status \in {case[o].status, "executed"}
    BY <2>1, <2>2 DEF CaseRow
  <2>4. QED
    BY <1>a, <2>1, <2>2, <2>3
<1>8. CASE MarkExecuted(m)
  <2>1. CASE UNCHANGED <<case, recent>>
    BY <2>1 DEF Writes
  <2>2. CASE \E c \in Cases : /\ case[c].type = "order"
                              /\ PutCase(c, [case[c] EXCEPT !.status = "executed"])
    <3>1. PICK c \in Cases : /\ case[c].type = "order"
                             /\ PutCase(c, [case[c] EXCEPT !.status = "executed"])
      BY <2>2
    <3> DEFINE row == [case[c] EXCEPT !.status = "executed"]
    <3>2. /\ row \in CaseRow /\ row.type = case[c].type /\ row.parent = case[c].parent
          /\ row.status = "executed" /\ PutCase(c, row)
      BY <1>1, <3>1 DEF CaseRow
    <3> HIDE DEF row
    <3>3. QED
      BY <1>a, <3>1, <3>2
  <2>3. QED
    BY <1>8, <2>1, <2>2 DEF MarkExecuted, LatestOpen
<1>9. CASE UpdateCase(m)
  <2>1. o \in Cases /\ case[o].type # "absent" /\ case[o] \in CaseRow
    BY <1>1, <1>9 DEF UpdateCase, Typed
  <2>2. PICK status \in {case[o].status, "ready_for_review", "collecting_info"}, ready \in BOOLEAN :
          /\ PutCase(o, [case[o] EXCEPT !.status = status, !.ready = ready])
          /\ case[o].type = "new_customer" => status \in {case[o].status, "ready_for_review"}
    <3>1. case[o] = [case[o] EXCEPT !.ready = case[o].ready] /\ case[o].ready \in BOOLEAN
      BY <2>1 DEF CaseRow
    <3>2. \A s : [case[o] EXCEPT !.status = s]
                   = [case[o] EXCEPT !.status = s, !.ready = case[o].ready]
      BY <2>1 DEF CaseRow
    <3>3. QED
      BY <1>9, <3>1, <3>2 DEF UpdateCase, Prepared
  <2> DEFINE row == [case[o] EXCEPT !.status = status, !.ready = ready]
  <2>3. /\ row \in CaseRow /\ row.type = case[o].type /\ row.parent = case[o].parent
        /\ row.status = status
    BY <2>1, <2>2 DEF CaseRow
  <2>4. PutCase(o, row) /\ route[m].pc = "plan" /\ route[m].open = o
    BY <1>9, <2>2 DEF UpdateCase
  <2> HIDE DEF o, row
  <2>5. QED
    BY <1>a, <2>1, <2>2, <2>3, <2>4
<1>10. CASE CloseCustomer(m)
  <2>1. o \in Cases /\ case[o].type # "absent" /\ case[o] \in CaseRow
    BY <1>1, <1>10, Constants DEF CloseCustomer, Typed, Read
  <2> DEFINE row == [case[o] EXCEPT !.status = "executed"]
  <2>2. PutCase(o, row)
    BY <1>10 DEF CloseCustomer
  <2> HIDE DEF o
  <2>3. /\ row \in CaseRow /\ row.type = case[o].type /\ row.parent = case[o].parent
        /\ row.status = "executed"
    BY <2>1 DEF CaseRow
  <2> HIDE DEF row
  <2>4. QED
    BY <1>a, <2>1, <2>2, <2>3
<1>11. CASE Bridge(m)
  <2> DEFINE v == case[o].parent
  <2>1. CASE UNCHANGED <<case, recent>>
    BY <2>1 DEF Writes
  <2>2. CASE v # None /\ case[v].type = "visit"
             /\ \E ready \in BOOLEAN : PutCase(v, [case[v] EXCEPT !.ready = ready])
    <3>1. o \in Cases /\ v \in Cases /\ case[v].type = "visit" /\ case[v] \in CaseRow
      BY <1>1, <1>11, <2>2, Constants DEF Bridge, Read, CaseRow
    <3>2. PICK ready \in BOOLEAN : PutCase(v, [case[v] EXCEPT !.ready = ready])
      BY <2>2
    <3> DEFINE row == [case[v] EXCEPT !.ready = ready]
    <3>3. PutCase(v, row)
      BY <3>2
    <3> HIDE DEF v
    <3>4. /\ row \in CaseRow /\ row.type = case[v].type /\ row.parent = case[v].parent
          /\ row.status = case[v].status
      BY <3>1, <3>2 DEF CaseRow
    <3> HIDE DEF row
    <3>5. QED
      BY <1>a, <3>1, <3>3, <3>4
  <2>3. QED
    BY <1>11, <2>1, <2>2 DEF Bridge
<1>12. QED
  BY <1>2, <1>3, <1>4, <1>5, <1>6, <1>7, <1>8, <1>9, <1>10, <1>11
     DEF RouteStep

LEMMA AnswerWrites ==
    ASSUME TypeInv, NEW p \in People, Answer(p)
    PROVE  Writes
<1> USE DEF TypeInv
<1>1. CASE EndUpdate(p) \/ MakeOrder(p) \/ RefuseOrder(p) \/ ReleaseConversation(p) \/ FailRequest(p)
  BY <1>1 DEF EndUpdate, MakeOrder, RefuseOrder, ReleaseConversation, FailRequest, Writes, rows
<1>2. ASSUME NEW c \in Cases, case[c].type = "order",
             \/ \E b \in BOOLEAN : PutCase(c, [case[c] EXCEPT !.claim = b])
             \/ PutCase(c, [case[c] EXCEPT !.status = "executed", !.claim = TRUE])
      PROVE  Writes
  <2>1. PICK row :
          /\ PutCase(c, row)
          /\ \/ \E b \in BOOLEAN : row = [case[c] EXCEPT !.claim = b]
             \/ row = [case[c] EXCEPT !.status = "executed", !.claim = TRUE]
    BY <1>2
  <2>2. case[c] \in CaseRow
    BY DEF TypeOK
  <2>3. /\ row \in CaseRow /\ row.type = "order" /\ row.parent = case[c].parent
        /\ row.status \in {case[c].status, "executed"}
    BY <1>2, <2>1, <2>2 DEF CaseRow
  <2>4. QED
    BY <1>2, <2>1, <2>3 DEF Writes, Edits
<1>3. CASE ClaimCase(p) \/ UndoClaim(p) \/ RecordOrder(p)
  <2> DEFINE c == req[p].case
  <2>1. c \in Cases /\ case[c].type = "order"
    BY <1>3 DEF ClaimCase, UndoClaim, RecordOrder, Accepting, Typed, Asked
  <2>2. \/ UNCHANGED <<case, recent>>
        \/ \E b \in BOOLEAN : PutCase(c, [case[c] EXCEPT !.claim = b])
        \/ PutCase(c, [case[c] EXCEPT !.status = "executed", !.claim = TRUE])
    BY <1>3 DEF ClaimCase, UndoClaim, RecordOrder
  <2> HIDE DEF c
  <2>3. QED
    BY <1>2, <2>1, <2>2 DEF Writes
<1>4. QED
  BY <1>1, <1>3 DEF Answer

\* What p asks for, or the rest of it.
Asks(p) ==
    /\ req' \in [People -> Request]
    /\ \A q \in People : q # p => req'[q] = req[q]
    /\ req'[p].op = "accept" => req'[p].case \in Cases /\ case[req'[p].case].type = "order"

LEMMA BeginAsks ==
    ASSUME TypeInv, NEW p \in People,
           NEW op \in {"claim", "update", "accept"}, NEW sets \in SUBSET Columns,
           NEW to \in ConvRow, NEW c \in Cases \cup {None}, Begin(p, op, sets, to, c)
    PROVE  /\ req' \in [People -> Request]
           /\ \A q \in People : q # p => req'[q] = req[q]
           /\ req'[p].op = op /\ req'[p].pc = "read" /\ req'[p].case = c
BY DEF TypeInv, TypeOK, Begin, Request

\* What updateConversation is asked for is a row, as its owner is one who attends.
LEMMA AskingRow ==
    ASSUME NEW u \in Updates, "user" \in u.asked /\ u.user # None => RoleOf[u.user] \in Roles
    PROVE  Sets(u) \in SUBSET Columns /\ Asking(u) \in ConvRow
<1>1. /\ u.asked \subseteq Columns /\ u.status \in Statuses /\ u.role \in Roles
      /\ u.user \in People \cup {None}
  BY UpdatesAssumption
<1>2. Sets(u) \in SUBSET Columns
  BY <1>1 DEF Sets, Columns
<1>3. Asking(u) \in ConvRow
  BY <1>1 DEF Asking, NewConv, ConvRow, Statuses
<1>4. QED
  BY <1>2, <1>3

LEMMA StepAsks ==
    ASSUME TypeInv, NEW p \in People, NEW pc \in {"read", "claimed", "made", "undo", "recorded"},
           Step(p, pc)
    PROVE  /\ Asks(p)
           /\ req'[p].op = req[p].op /\ req'[p].pc = pc /\ req'[p].case = req[p].case
<1>1. req[p] \in Request /\ DOMAIN req = People
  BY DEF TypeInv, TypeOK
<1> DEFINE r == [req[p] EXCEPT !.pc = pc]
<1>2. /\ r \in Request /\ r.op = req[p].op /\ r.pc = pc /\ r.case = req[p].case
  BY <1>1 DEF Request
<1>3. req' = [req EXCEPT ![p] = r]
  BY DEF Step
<1> HIDE DEF r
<1>4. req' \in [People -> Request] /\ req'[p] = r /\ \A q \in People : q # p => req'[q] = req[q]
  BY <1>1, <1>2, <1>3 DEF TypeInv, TypeOK
<1>5. QED
  BY <1>2, <1>4 DEF Asks, TypeInv, Asked, Typed

LEMMA IdleAsks ==
    ASSUME TypeInv, NEW p \in People, req' = [req EXCEPT ![p] = Idle]
    PROVE  Asks(p) /\ req'[p] = Idle
<1>1. req' \in [People -> Request] /\ req'[p] = Idle /\ \A q \in People : q # p => req'[q] = req[q]
  BY Constants DEF TypeInv, TypeOK
<1>2. QED
  BY <1>1, Constants DEF Asks

LEMMA RequestAsks ==
    ASSUME TypeInv, NEW p \in People, Ask(p) \/ Answer(p)
    PROVE  Asks(p) /\ UNCHANGED route
<1> USE DEF TypeInv
<1>1. CASE BeginClaim(p)
  <2>1. /\ [NewConv EXCEPT !.user = p, !.status = "en_gestion"] \in ConvRow
        /\ {"status", "user"} \in SUBSET Columns
    BY DEF NewConv, ConvRow, Statuses, Columns
  <2>2. QED
    BY <1>1, <2>1, BeginAsks DEF BeginClaim, Asks, Begin
<1>2. ASSUME NEW u \in Updates, BeginUpdate(p, u)
      PROVE  Asks(p) /\ UNCHANGED route
  BY <1>2, AskingRow, BeginAsks DEF BeginUpdate, Asks, Begin
<1>3. ASSUME NEW c \in Cases, BeginAccept(p, c)
      PROVE  Asks(p) /\ UNCHANGED route
  BY <1>3, BeginAsks, Constants DEF BeginAccept, Asks, Begin
<1>4. CASE EndUpdate(p) \/ UndoClaim(p) \/ ReleaseConversation(p) \/ FailRequest(p)
  BY <1>4, IdleAsks DEF EndUpdate, UndoClaim, ReleaseConversation, FailRequest
<1>5. CASE ClaimCase(p) \/ MakeOrder(p) \/ RefuseOrder(p) \/ RecordOrder(p)
  <2>1. UNCHANGED route
    BY <1>5 DEF ClaimCase, MakeOrder, RefuseOrder, RecordOrder
  <2>2. \/ req' = [req EXCEPT ![p] = Idle]
        \/ \E pc \in {"read", "claimed", "made", "undo", "recorded"} : Step(p, pc)
    BY <1>5 DEF ClaimCase, MakeOrder, RefuseOrder, RecordOrder
  <2>3. QED
    BY <2>1, <2>2, IdleAsks, StepAsks
<1>8. QED
  BY <1>1, <1>2, <1>3, <1>4, <1>3, <1>4, <1>5 DEF Ask, Answer

-----------------------------------------------------------------------------
(***************************************************************************)
(* Types                                                                   *)
(***************************************************************************)
RestOK ==
    /\ sender \in Senders /\ conv \in ConvRow
    /\ orders \subseteq [case : Cases \cup {None}, by : Messages \cup People]
    /\ visits \subseteq [case : Cases \cup {None}, by : Messages \cup People]
    /\ logged \subseteq Messages
    /\ sent \in [Messages -> Nat]
    /\ failures \in Nat /\ served \in Nat
    /\ overlap \in BOOLEAN /\ promised \in BOOLEAN /\ attended \subseteq Messages

LEMMA RouteStepRest ==
    ASSUME TypeInv, NEW m \in Messages, RouteStep(m)
    PROVE  RestOK'
<1> USE DEF TypeInv
<1>1. RestOK /\ route[m] \in Routing /\ conv \in ConvRow
  BY DEF TypeOK, RestOK
<1>2. CASE \/ OpenTurn(m) \/ Greet(m) \/ KeepSilent(m) \/ AgentAnswers(m) \/ Plan(m)
           \/ PlannerAnswers(m) \/ PlannerReviews(m) \/ Confirm(m) \/ AskAboutOrder(m)
           \/ DraftOrder(m) \/ MarkExecuted(m) \/ StartCase(m) \/ UpdateCase(m) \/ OpenSubcase(m)
           \/ EditVisit(m) \/ CustomerForVisit(m) \/ RecordVisit(m) \/ GeneralAgent(m)
           \/ CloseCustomer(m) \/ Bridge(m)
  <2>1. UNCHANGED <<sender, conv, made, sent, counters, history>>
    BY <1>2 DEF OpenTurn, Greet, KeepSilent, AgentAnswers, Plan, PlannerAnswers, PlannerReviews,
        Confirm, AskAboutOrder, DraftOrder, MarkExecuted, StartCase, UpdateCase, OpenSubcase,
        EditVisit, CustomerForVisit, RecordVisit, GeneralAgent, CloseCustomer, Bridge, rows
  <2>2. QED
    BY <1>1, <2>1 DEF RestOK, made, counters, history
<1>3. CASE ThrowEarly(m) \/ ThrowLate(m) \/ AgentFails(m)
  BY <1>1, <1>3 DEF ThrowEarly, ThrowLate, AgentFails, Fail, RestOK, rows, made, history
<1>4. CASE Deliver(m) \/ FailReply(m)
  <2>1. sent' \in [Messages -> Nat]
    BY <1>1, <1>4 DEF Deliver, FailReply, RestOK
  <2>2. QED
    BY <1>1, <1>4, <2>1 DEF Deliver, FailReply, Fail, RestOK, rows, made, history, counters
<1>5. CASE Identify(m)
  BY <1>1, <1>5, IdentifyMoves DEF Identify, RestOK, made, counters, history
<1>6. ASSUME NEW row \in ConvRow, Write(row)
      PROVE  conv' \in ConvRow /\ attended' \subseteq Messages
  BY <1>1, <1>6 DEF Write, RestOK
<1>7. CASE MarkPending(m)
  <2>1. [conv EXCEPT !.status = "pendiente"] \in ConvRow
    BY <1>1 DEF ConvRow, Statuses
  <2>2. QED
    BY <1>1, <1>6, <1>7, <2>1 DEF MarkPending, RestOK, made, counters
<1>8. CASE Escalate(m)
  <2>1. [conv EXCEPT !.role = "comercial", !.status = "pendiente"] \in ConvRow
    BY <1>1, PeopleAssumption DEF ConvRow, Statuses
  <2>2. conv' \in ConvRow /\ attended' \subseteq Messages /\ promised' \in BOOLEAN
    BY <1>1, <1>6, <1>8, <2>1 DEF Escalate, RestOK
  <2>3. QED
    BY <1>1, <1>8, <2>2 DEF Escalate, RestOK, made, counters
<1>9. CASE HandOff(m)
  <2>1. PICK role \in Roles :
          Write([conv EXCEPT !.role = role, !.status = "pendiente", !.user = None])
    BY <1>9 DEF HandOff
  <2>2. [conv EXCEPT !.role = role, !.status = "pendiente", !.user = None] \in ConvRow
    BY <1>1 DEF ConvRow, Statuses
  <2>3. QED
    BY <1>1, <1>6, <1>9, <2>1, <2>2 DEF HandOff, RestOK, made, counters
<1>10. CASE EndDraft(m)
  <2>1. [conv EXCEPT !.role = "comercial", !.status = "resuelto", !.user = None] \in ConvRow
    BY <1>1, PeopleAssumption DEF ConvRow, Statuses
  <2>2. QED
    BY <1>1, <1>6, <1>10, <2>1 DEF EndDraft, RestOK, made, counters
<1>11. CASE PlaceOrder(m) \/ BookVisit(m)
  <2>1. [case |-> route[m].open, by |-> m] \in [case : Cases \cup {None}, by : Messages \cup People]
    BY <1>1 DEF Routing
  <2>2. QED
    BY <1>1, <1>11, <2>1 DEF PlaceOrder, BookVisit, RestOK, rows, counters, history
<1>12. CASE LogCreated(m)
  BY <1>1, <1>12 DEF LogCreated, RestOK, rows, counters, history
<1>13. QED
  BY <1>2, <1>3, <1>4, <1>5, <1>7, <1>8, <1>9, <1>10, <1>11, <1>12 DEF RouteStep

\* What a person writes.
LEMMA WrittenRow ==
    ASSUME TypeInv, NEW p \in People
    PROVE  Written(p) \in ConvRow
<1>1. conv \in ConvRow /\ req[p].to \in ConvRow
  BY DEF TypeInv, TypeOK, Request
<1>2. QED
  BY <1>1 DEF Written, ConvRow

LEMMA RequestRest ==
    ASSUME TypeInv, NEW p \in People, Ask(p) \/ Answer(p)
    PROVE  RestOK'
<1> USE DEF TypeInv
<1>1. RestOK /\ req[p] \in Request /\ conv \in ConvRow
  BY DEF TypeOK, RestOK
<1>2. CASE Ask(p)
  <2>1. PICK op, sets, to, c : Begin(p, op, sets, to, c)
    BY <1>2 DEF Ask, BeginClaim, BeginUpdate, BeginAccept
  <2>2. QED
    BY <1>1, <2>1 DEF Begin, Overlaps, RestOK, rows, made
<1>3. CASE EndUpdate(p)
  BY <1>1, <1>3, WrittenRow DEF EndUpdate, Write, RestOK, made, counters
<1>4. CASE ClaimCase(p) \/ RefuseOrder(p) \/ UndoClaim(p) \/ RecordOrder(p)
  <2>1. UNCHANGED <<sender, conv, made, sent, counters, history>>
    BY <1>4 DEF ClaimCase, RefuseOrder, UndoClaim, RecordOrder, rows
  <2>2. QED
    BY <1>1, <2>1 DEF RestOK, made, counters, history
<1>5. CASE MakeOrder(p)
  <2>1. [case |-> req[p].case, by |-> p] \in [case : Cases \cup {None}, by : Messages \cup People]
    BY <1>1 DEF Request
  <2>2. QED
    BY <1>1, <1>5, <2>1 DEF MakeOrder, RestOK, rows, counters, history
<1>6. CASE ReleaseConversation(p)
  <2>1. [conv EXCEPT !.role = None, !.user = None, !.status = "resuelto"] \in ConvRow
    BY <1>1 DEF ConvRow, Statuses
  <2>2. QED
    BY <1>1, <1>6, <2>1 DEF ReleaseConversation, Write, RestOK, made, counters
<1>7. CASE FailRequest(p)
  BY <1>1, <1>7 DEF FailRequest, Fail, RestOK, rows, made, history
<1>8. QED
  BY <1>2, <1>3, <1>4, <1>5, <1>6, <1>7 DEF Answer

LEMMA WritesKeepTypes ==
    ASSUME TypeInv, Writes
    PROVE  /\ case' \in [Cases -> CaseRow] /\ recent' \subseteq Cases \X Cases
           /\ \A c \in Cases : case[c].type # "absent" => case'[c].type = case[c].type
           /\ \A c \in Cases : case'[c].parent # None => case'[case'[c].parent].type # "absent"
<1>1. CASE UNCHANGED <<case, recent>>
  BY <1>1 DEF TypeInv, TypeOK, Typed
<1>2. ASSUME NEW c \in Cases, NEW row \in CaseRow, Edits(c, row) \/ Adds(c, row)
      PROVE  /\ case' \in [Cases -> CaseRow] /\ recent' \subseteq Cases \X Cases
             /\ \A d \in Cases : case[d].type # "absent" => case'[d].type = case[d].type
             /\ \A d \in Cases : case'[d].parent # None => case'[case'[d].parent].type # "absent"
  <2>1. /\ case' \in [Cases -> CaseRow] /\ case'[c] = row /\ recent' \subseteq Cases \X Cases
        /\ \A d \in Cases : d # c => case'[d] = case[d]
    BY <1>2, PutCaseRow DEF TypeInv, Edits, Adds
  <2>2. ASSUME NEW d \in Cases, case[d].type # "absent"
        PROVE  case'[d].type = case[d].type
    BY <1>2, <2>1, <2>2 DEF Edits, Adds
  <2>3. ASSUME NEW d \in Cases, case'[d].parent # None
        PROVE  case'[case'[d].parent].type # "absent"
    <3>1. case'[d].parent \in Cases
      BY <2>1, <2>3 DEF CaseRow
    <3>2. case[case'[d].parent].type # "absent"
      BY <1>2, <2>1, <2>3 DEF Edits, Adds, TypeInv, Typed
    <3>3. QED
      BY <2>2, <3>1, <3>2
  <2>4. QED
    BY <2>1, <2>2, <2>3
<1>3. QED
  BY <1>1, <1>2 DEF Writes

LEMMA NextWrites ==
    ASSUME TypeInv, [Next]_vars
    PROVE  Writes
<1>1. ASSUME NEW p \in People, Ask(p)
      PROVE  Writes
  BY <1>1 DEF Ask, BeginClaim, BeginUpdate, BeginAccept, Begin, rows, Writes
<1>2. CASE (\E m \in Messages : Handle(m)) \/ Restart \/ UNCHANGED vars
  BY <1>2 DEF Handle, Restart, vars, rows, Writes
<1>3. QED
  BY <1>1, <1>2, RouteStepWrites, AnswerWrites DEF Next, Quiet

LEMMA TypeInit == Init => TypeInv
<1> SUFFICES ASSUME Init PROVE TypeInv
  OBVIOUS
<1>1. TypeOK
  BY Constants DEF Init, TypeOK
<1>2. \A m \in Messages : route[m] = Unrouted
  BY DEF Init
<1>3. \A p \in People : req[p] = Idle
  BY DEF Init
<1>4. \A c \in Cases : case[c] = NoCase
  BY DEF Init
<1>5. Read /\ Asked /\ Typed
  BY <1>2, <1>3, <1>4, Constants DEF Read, Asked, Typed
<1>6. QED
  BY <1>1, <1>5 DEF TypeInv

LEMMA TypeStep == TypeInv /\ [Next]_vars => TypeInv'
<1> SUFFICES ASSUME TypeInv, [Next]_vars PROVE TypeInv'
  OBVIOUS
<1>1. ASSUME NEW m \in Messages, RouteStep(m) PROVE TypeInv'
  <2>1. UNCHANGED req
    BY <1>1 DEF RouteStep, Identify, MarkPending, OpenTurn, ThrowEarly, ThrowLate, Deliver,
        FailReply, Greet, KeepSilent, Escalate, HandOff, DraftOrder, EndDraft, AgentAnswers,
        AgentFails, Plan, PlannerAnswers, PlannerReviews, Confirm, PlaceOrder, AskAboutOrder,
        MarkExecuted, LogCreated, StartCase, UpdateCase, OpenSubcase, EditVisit,
        CustomerForVisit, BookVisit, RecordVisit, GeneralAgent, CloseCustomer, Bridge
  <2>2. /\ case' \in [Cases -> CaseRow] /\ recent' \subseteq Cases \X Cases
        /\ \A c \in Cases : case[c].type # "absent" => case'[c].type = case[c].type
        /\ \A c \in Cases : case'[c].parent # None => case'[case'[c].parent].type # "absent"
    BY NextWrites, WritesKeepTypes
  <2>3. TypeOK'
    BY <1>1, <2>1, <2>2, RouteStepRest, RouteStepMoves DEF TypeInv, TypeOK, RestOK
  <2>4. Read'
    BY <1>1, RouteStepMoves, PeopleAssumption DEF TypeInv, Read, Reads
  <2>5. Asked'
    BY <2>1 DEF TypeInv, Asked
  <2>6. ASSUME NEW n \in Messages, route'[n].open # None
        PROVE  /\ case'[route'[n].open].type # "absent"
               /\ route'[n].was.type = case'[route'[n].open].type
    <3>1. route'[n].open \in Cases
      BY <2>3, <2>6 DEF TypeOK, Routing
    <3>2. CASE n # m \/ (route'[m].open = route[m].open /\ route'[m].was = route[m].was)
      BY <1>1, <2>2, <2>6, <3>1, <3>2, RouteStepMoves DEF TypeInv, Typed
    <3>3. CASE n = m /\ route'[m].was = case[route'[m].open] /\ UNCHANGED case
      BY <1>1, <2>2, <2>6, <3>1, <3>3, RouteStepMoves DEF Reads, TypeInv, Typed
    <3>4. QED
      BY <1>1, <2>6, <3>2, <3>3, RouteStepMoves DEF Reads
  <2>7. Typed'
    BY <2>1, <2>2, <2>6 DEF TypeInv, Typed, Asked
  <2>8. QED
    BY <2>3, <2>4, <2>5, <2>7 DEF TypeInv
<1>2. ASSUME NEW p \in People, Ask(p) \/ Answer(p) PROVE TypeInv'
  <2>2. /\ case' \in [Cases -> CaseRow] /\ recent' \subseteq Cases \X Cases
        /\ \A c \in Cases : case[c].type # "absent" => case'[c].type = case[c].type
        /\ \A c \in Cases : case'[c].parent # None => case'[case'[c].parent].type # "absent"
    BY NextWrites, WritesKeepTypes
  <2>3. Asks(p) /\ UNCHANGED route
    BY <1>2, RequestAsks
  <2>4. TypeOK'
    BY <1>2, <2>2, <2>3, RequestRest DEF Asks, TypeInv, TypeOK, RestOK
  <2>5. Read' /\ Asked'
    BY <2>3 DEF Asks, TypeInv, Read, Asked
  <2>6. ASSUME NEW n \in Messages, route'[n].open # None
        PROVE  /\ case'[route'[n].open].type # "absent"
               /\ route'[n].was.type = case'[route'[n].open].type
    <3>1. route[n].open \in Cases
      BY <2>3, <2>6 DEF TypeInv, TypeOK, Routing
    <3>2. QED
      BY <2>2, <2>3, <2>6, <3>1 DEF TypeInv, Typed
  <2>7. ASSUME NEW q \in People, req'[q].op = "accept"
        PROVE  case'[req'[q].case].type = "order"
    <3>1. req'[q].case \in Cases /\ case[req'[q].case].type = "order"
      BY <2>3, <2>7 DEF Asks, TypeInv, Asked, Typed
    <3>2. QED
      BY <2>2, <3>1
  <2>8. QED
    BY <2>2, <2>4, <2>5, <2>6, <2>7 DEF TypeInv, Typed
<1>3. ASSUME NEW m \in Messages, Handle(m) PROVE TypeInv'
  <2>1. Moves(m, {"stored"}) /\ UNCHANGED <<case, recent, req>>
    BY <1>3, HandleMoves DEF TypeInv, Handle, rows
  <2>2. RestOK'
    BY <1>3 DEF Handle, Overlaps, RestOK, TypeInv, TypeOK, rows, made, counters
  <2>3. TypeOK'
    BY <2>1, <2>2 DEF Moves, RestOK, TypeInv, TypeOK
  <2>4. Read' /\ Asked' /\ Typed'
    BY <2>1 DEF Moves, TypeInv, Read, Asked, Typed
  <2>5. QED
    BY <2>3, <2>4 DEF TypeInv
<1>4. CASE Restart
  <2> DEFINE r == [Unrouted EXCEPT !.pc = "done"]
  <2>1. r \in Routing /\ r.pc = "done" /\ r.open = None /\ r.was = NoCase
    BY Constants DEF Routing
  <2>2. route' = [m \in Messages |-> IF m \in InFlight THEN r ELSE route[m]]
    BY <1>4 DEF Restart
  <2> HIDE DEF r
  <2>3. /\ route' \in [Messages -> Routing] /\ req' = [p \in People |-> Idle]
        /\ \A m \in Messages : route'[m] = r \/ route'[m] = route[m]
    BY <1>4, <2>1, <2>2 DEF Restart, TypeInv, TypeOK
  <2>4. TypeOK' /\ UNCHANGED case
    BY <1>4, <2>3, Constants DEF Restart, Fail, TypeInv, TypeOK, rows, made, history
  <2>5. Read' /\ Asked' /\ Typed'
    BY <2>1, <2>3, <2>4, Constants DEF TypeInv, Read, Asked, Typed
  <2>6. QED
    BY <2>4, <2>5 DEF TypeInv
<1>5. CASE UNCHANGED vars
  BY <1>5 DEF vars, rows, made, counters, history, TypeInv, TypeOK, Read, Asked, Typed
<1>6. QED
  BY <1>1, <1>2, <1>3, <1>4, <1>5 DEF Next, Quiet

LEMMA AlwaysTyped == Spec => []TypeInv
BY TypeInit, TypeStep, PTL DEF Spec

\* A row of a conversation, of a case, of a routing and of a request keeps its
\* type in every step of the webhook and of the inbox.
THEOREM TypeCorrect == Spec => []TypeOK
<1>1. TypeInv => TypeOK
  BY DEF TypeInv
<1>2. QED
  BY <1>1, AlwaysTyped, PTL

-----------------------------------------------------------------------------
(***************************************************************************)
(* The new customer of an order is collected once                          *)
(***************************************************************************)
OneCollects ==
    \A c, d, e \in Cases :
        case[c].type = "order" /\ Collects(c, d) /\ Collects(c, e) => d = e

LEMMA CollectStep == TypeInv /\ OneCollects /\ [Next]_vars => OneCollects'
<1> SUFFICES ASSUME TypeInv, OneCollects, Writes PROVE OneCollects'
  BY NextWrites
<1>1. CASE UNCHANGED <<case, recent>>
  BY <1>1 DEF OneCollects, Collects
<1>2. ASSUME NEW c \in Cases, NEW row \in CaseRow, Edits(c, row) \/ Adds(c, row)
      PROVE  OneCollects'
  <2>1. case'[c] = row /\ \A d \in Cases : d # c => case'[d] = case[d]
    BY <1>2, PutCaseRow DEF TypeInv, Edits, Adds
  <2>2. CASE Edits(c, row)
    <3>1. ASSUME NEW o \in Cases, NEW d \in Cases, case'[o].type = "order", Collects(o, d)'
          PROVE  case[o].type = "order" /\ Collects(o, d)
      BY <2>1, <2>2, <3>1 DEF Edits, Collects
    <3>2. QED
      BY <3>1 DEF OneCollects
  <2>3. CASE Adds(c, row)
    <3>1. ASSUME NEW o \in Cases, NEW d \in Cases, d # c, case'[o].type = "order", Collects(o, d)'
          PROVE  case[o].type = "order" /\ Collects(o, d)
      <4>1. case[d].parent = o /\ case[d].type = "new_customer" /\ case[o].type # "absent"
        BY <2>1, <3>1, PeopleAssumption DEF Collects, TypeInv, Typed
      <4>2. QED
        BY <2>1, <2>3, <3>1, <4>1 DEF Adds, Collects
    <3>2. ASSUME NEW o \in Cases, NEW d \in Cases, d # c, case'[o].type = "order",
                 Collects(o, d)', Collects(o, c)'
          PROVE  FALSE
      BY <2>1, <2>3, <3>1, <3>2, PeopleAssumption DEF Adds, Collects
    <3>3. QED
      BY <3>1, <3>2 DEF OneCollects
  <2>4. QED
    BY <1>2, <2>2, <2>3
<1>3. QED
  BY <1>1, <1>2 DEF Writes

\* Whatever the number of turns at a time, an order case has one new customer that
\* is being collected: the row of the order case is locked while one is looked for.
THEOREM OneCollecting == Spec => []OneCustomerCollecting
<1>1. Init => OneCollects
  BY Constants DEF Init, OneCollects, Collects
<1>2. OneCollects => OneCustomerCollecting
  BY DEF OneCollects, OneCustomerCollecting, Collects, Subcases
<1>3. QED
  BY <1>1, <1>2, CollectStep, AlwaysTyped, PTL DEF Spec
-----------------------------------------------------------------------------
(***************************************************************************)
(* Replies                                                                 *)
(***************************************************************************)

\* No reply before a message came, and none before its turn ended unless a call
\* of it failed.
Answered ==
    /\ \A m \in Messages : route[m].pc = "none" => sent[m] = 0
    /\ failures = 0 =>
         \A m \in Messages : sent[m] <= 1 /\ (route[m].pc # "done" => sent[m] = 0)

\* What every step of a routing leaves alone.
LEMMA RouteStepFrame ==
    ASSUME TypeInv, NEW m \in Messages, RouteStep(m)
    PROVE  /\ UNCHANGED <<sender, req, served, overlap>>
           /\ attended' \subseteq attended
           /\ \/ UNCHANGED <<sent, failures>>
              \/ /\ failures' = failures + 1
                 /\ \A n \in Messages : n # m => sent'[n] = sent[n]
              \/ Deliver(m)
<1>1. CASE \/ OpenTurn(m) \/ Greet(m) \/ KeepSilent(m) \/ AgentAnswers(m) \/ Plan(m)
           \/ PlannerAnswers(m) \/ PlannerReviews(m) \/ Confirm(m) \/ AskAboutOrder(m)
           \/ DraftOrder(m) \/ MarkExecuted(m) \/ StartCase(m) \/ UpdateCase(m) \/ OpenSubcase(m)
           \/ EditVisit(m) \/ CustomerForVisit(m) \/ RecordVisit(m) \/ GeneralAgent(m)
           \/ CloseCustomer(m) \/ Bridge(m)
           \/ Identify(m) \/ PlaceOrder(m) \/ LogCreated(m) \/ BookVisit(m)
  BY <1>1 DEF OpenTurn, Greet, KeepSilent, AgentAnswers, Plan, PlannerAnswers, PlannerReviews,
        Confirm, AskAboutOrder, DraftOrder, MarkExecuted, StartCase, UpdateCase, OpenSubcase,
        EditVisit, CustomerForVisit, RecordVisit, GeneralAgent, CloseCustomer, Bridge, Identify,
        PlaceOrder, LogCreated, BookVisit, rows, made, counters, history
<1>2. CASE ThrowEarly(m) \/ ThrowLate(m) \/ AgentFails(m)
  BY <1>2 DEF ThrowEarly, ThrowLate, AgentFails, Fail, history
<1>3. CASE FailReply(m)
  BY <1>3 DEF FailReply, Fail, history, TypeInv, TypeOK
<1>4. CASE Deliver(m)
  BY <1>4 DEF Deliver, counters, history
<1>5. CASE MarkPending(m) \/ Escalate(m) \/ HandOff(m) \/ EndDraft(m)
  BY <1>5 DEF MarkPending, Escalate, HandOff, EndDraft, Write, counters
<1>6. QED
  BY <1>1, <1>2, <1>3, <1>4, <1>5 DEF RouteStep

\* What every step of a person leaves alone.
LEMMA RequestFrame ==
    ASSUME TypeInv, NEW p \in People, Ask(p) \/ Answer(p)
    PROVE  UNCHANGED <<sender, route, sent>> /\ attended' \subseteq attended
           /\ failures' \in {failures, failures + 1}
<1>1. CASE Ask(p)
  BY <1>1 DEF Ask, BeginClaim, BeginUpdate, BeginAccept, Begin
<1>2. CASE Answer(p)
  BY <1>2 DEF Answer, EndUpdate, ClaimCase, MakeOrder, RefuseOrder, UndoClaim, RecordOrder,
        ReleaseConversation, FailRequest, Fail, Write, counters, history
<1>3. QED
  BY <1>1, <1>2

LEMMA RestartFrame ==
    ASSUME TypeInv, Restart
    PROVE  /\ UNCHANGED <<sender, rows, made, sent, history>> /\ failures' = failures + 1
           /\ \A m \in Messages : IF m \in InFlight THEN route'[m].pc = "done"
                                                    ELSE route'[m] = route[m]
           /\ InFlight' = {} /\ Busy' = {} /\ \A p \in People : req'[p] = Idle
<1> DEFINE r == [Unrouted EXCEPT !.pc = "done"]
<1>1. r.pc = "done"
  BY Constants DEF Routing
<1>2. route' = [m \in Messages |-> IF m \in InFlight THEN r ELSE route[m]]
  BY DEF Restart
<1> HIDE DEF r
<1>3. \A m \in Messages : IF m \in InFlight THEN route'[m].pc = "done" ELSE route'[m] = route[m]
  BY <1>1, <1>2
<1>4. InFlight' = {}
  BY <1>3 DEF InFlight
<1>5. QED
  BY <1>3, <1>4 DEF Restart, Fail, Busy

LEMMA AnsweredStep == TypeInv /\ Answered /\ [Next]_vars => Answered'
<1> SUFFICES ASSUME TypeInv, Answered, [Next]_vars PROVE Answered'
  OBVIOUS
<1>1. sent \in [Messages -> Nat] /\ failures \in Nat
  BY DEF TypeInv, TypeOK
<1>2. ASSUME NEW m \in Messages, RouteStep(m) PROVE Answered'
  <2>1. /\ \A n \in Messages : n # m => route'[n] = route[n]
        /\ route[m].pc \notin {"none", "done"} /\ route'[m].pc # "none"
    BY <1>2, RouteStepMoves
  <2>2. CASE UNCHANGED <<sent, failures>>
    BY <2>1, <2>2 DEF Answered
  <2>3. CASE failures' = failures + 1 /\ \A n \in Messages : n # m => sent'[n] = sent[n]
    BY <1>1, <2>1, <2>3 DEF Answered
  <2>4. CASE Deliver(m)
    <3>1. /\ sent'[m] = sent[m] + 1 /\ failures' = failures
          /\ \A n \in Messages : n # m => sent'[n] = sent[n]
      BY <1>1, <2>4 DEF Deliver, counters
    <3>2. route'[m].pc = "done"
      BY <2>4, EndMoves DEF Deliver, Moves, TypeInv
    <3>3. QED
      BY <1>1, <2>1, <3>1, <3>2 DEF Answered
  <2>5. QED
    BY <1>2, <2>2, <2>3, <2>4, RouteStepFrame
<1>3. ASSUME NEW m \in Messages, Handle(m) PROVE Answered'
  <2>1. Moves(m, {"stored"}) /\ route[m].pc = "none" /\ UNCHANGED <<sent, failures>>
    BY <1>3, HandleMoves DEF TypeInv, Handle, counters
  <2>2. QED
    BY <1>1, <2>1 DEF Answered, Moves
<1>4. ASSUME NEW p \in People, Ask(p) \/ Answer(p) PROVE Answered'
  BY <1>1, <1>4, RequestFrame DEF Answered
<1>5. CASE Restart
  BY <1>1, <1>5, RestartFrame DEF Answered
<1>6. CASE UNCHANGED vars
  BY <1>6 DEF vars, counters, Answered
<1>7. QED
  BY <1>2, <1>3, <1>4, <1>5, <1>6 DEF Next, Quiet

LEMMA AlwaysAnswered == Spec => []Answered
<1>1. Init => Answered
  BY Constants DEF Init, Answered
<1>2. QED
  BY <1>1, AnsweredStep, AlwaysTyped, PTL DEF Spec

\* A message has one reply at most while no call fails, though Kapso delivers it
\* again, agents give way to the planner and routings overlap.
THEOREM AnsweredOnce == Spec => []OneReplyPerMessage
<1>1. Answered => OneReplyPerMessage
  BY DEF Answered, OneReplyPerMessage
<1>2. QED
  BY <1>1, AlwaysAnswered, PTL

-----------------------------------------------------------------------------
(***************************************************************************)
(* A person in charge                                                      *)
(***************************************************************************)

\* Who has the client's phone is the client, and was not identified just now.
FromClient ==
    sender = "cliente" =>
        \A m \in Messages :
            /\ route[m].pc # "identified"
            /\ route[m].pc \in {"marked", "turn"} => route[m].as = "cliente" /\ ~route[m].just

\* A message a person is in charge of was read with that person in the row.
Kept ==
    sender = "cliente" =>
        \A m \in attended :
            /\ sent[m] = 0
            /\ route[m].pc \in {"stored", "marked", "turn", "done"}
            /\ route[m].pc # "done" => Attended(route[m].seen)

Early == {"stored", "identified", "marked", "turn"}

LEMMA EarlySteps ==
    ASSUME TypeInv, NEW m \in Messages, RouteStep(m), route'[m].pc \in Early
    PROVE  Identify(m) \/ MarkPending(m) \/ OpenTurn(m)
<1> USE DEF TypeInv
<1>1. ASSUME NEW pc \in {"drafted", "plan", "candidate", "ordered", "executed", "booked",
                     "created"}, Goto(m, pc)
      PROVE  FALSE
  BY <1>1, GotoMoves DEF Moves, Early, Pcs
<1>2. ASSUME End(m) PROVE FALSE
  BY <1>2, EndMoves DEF Moves, Early
<1>3. ASSUME NEW on \in {"agent", "last"}, ReplyOn(m, on) \/ Proceed(m, "plan", on) PROVE FALSE
  BY <1>3, ReplyMoves, ProceedMoves DEF Moves, Early, Pcs
<1>4. QED
  BY <1>1, <1>2, <1>3 DEF RouteStep, ThrowEarly, ThrowLate, Deliver,
        FailReply, Greet, KeepSilent, Escalate, HandOff, DraftOrder, EndDraft, AgentAnswers,
        AgentFails, Plan, PlannerAnswers, PlannerReviews, Confirm, PlaceOrder, AskAboutOrder,
        MarkExecuted, LogCreated, StartCase, UpdateCase, OpenSubcase, EditVisit,
        CustomerForVisit, BookVisit, RecordVisit, GeneralAgent, CloseCustomer, Bridge

LEMMA FromClientStep == TypeInv /\ FromClient /\ [Next]_vars => FromClient'
<1> SUFFICES ASSUME TypeInv, FromClient, [Next]_vars, sender' = "cliente"
             PROVE  \A m \in Messages :
                      /\ route'[m].pc # "identified"
                      /\ route'[m].pc \in {"marked", "turn"} =>
                             route'[m].as = "cliente" /\ ~route'[m].just
  BY DEF FromClient
<1> DEFINE Good(r) == /\ r.pc # "identified"
                      /\ r.pc \in {"marked", "turn"} => r.as = "cliente" /\ ~r.just
<1>1. ASSUME NEW m \in Messages, RouteStep(m) PROVE \A n \in Messages : Good(route'[n])
  <2>1. sender = "cliente" /\ \A n \in Messages : n # m => route'[n] = route[n]
    BY <1>1, RouteStepMoves, RouteStepFrame
  <2>2. Good(route'[m])
    <3>1. CASE Identify(m)
      BY <2>1, <3>1, IdentifyMoves DEF TypeInv
    <3>2. CASE MarkPending(m)
      BY <2>1, <3>2 DEF FromClient, MarkPending
    <3>3. CASE OpenTurn(m)
      BY <2>1, <3>3, OpenTurnMoves DEF TypeInv, FromClient
    <3>4. CASE route'[m].pc \notin Early
      BY <3>4 DEF Early
    <3>5. QED
      BY <1>1, <3>1, <3>2, <3>3, <3>4, EarlySteps
  <2>3. QED
    BY <2>1, <2>2 DEF FromClient
<1>2. ASSUME NEW m \in Messages, Handle(m) PROVE \A n \in Messages : Good(route'[n])
  BY <1>2, HandleMoves DEF Handle, TypeInv, Moves, FromClient
<1>3. ASSUME NEW p \in People, Ask(p) \/ Answer(p) PROVE \A n \in Messages : Good(route'[n])
  BY <1>3, RequestFrame DEF FromClient
<1>4. CASE Restart
  BY <1>4, RestartFrame DEF FromClient
<1>5. CASE UNCHANGED vars
  BY <1>5 DEF vars, FromClient
<1>6. QED
  BY <1>1, <1>2, <1>3, <1>4, <1>5 DEF Next, Quiet

\* What the routing of a message a person is in charge of may do.
LEMMA KeptSteps ==
    ASSUME TypeInv, FromClient, Kept, sender = "cliente",
           NEW m \in attended, RouteStep(m)
    PROVE  Identify(m) \/ OpenTurn(m) \/ (End(m) /\ UNCHANGED sent)
<1> USE DEF TypeInv
<1>1. m \in Messages /\ route[m].pc \in {"stored", "marked", "turn", "done"}
      /\ (route[m].pc # "done" => Attended(route[m].seen))
      /\ (route[m].pc = "turn" => route[m].as = "cliente" /\ ~route[m].just)
  BY DEF TypeOK, FromClient, Kept
<1>2. CASE \/ Greet(m) \/ Escalate(m) \/ HandOff(m) \/ DraftOrder(m) \/ AgentAnswers(m)
           \/ AgentFails(m) \/ Plan(m) \/ EditVisit(m) \/ CustomerForVisit(m) \/ BookVisit(m)
           \/ GeneralAgent(m) \/ CloseCustomer(m) \/ EndDraft(m)
  BY <1>1, <1>2 DEF Greet, Escalate, HandOff, DraftOrder, AgentAnswers, AgentFails, Plan,
        EditVisit, CustomerForVisit, BookVisit, GeneralAgent, CloseCustomer, EndDraft, AgentTurn,
        Answerable, VisitTurn, Turn, Silent
<1>3. CASE \/ MarkPending(m) \/ Deliver(m) \/ FailReply(m) \/ PlannerAnswers(m)
           \/ PlannerReviews(m) \/ Confirm(m) \/ PlaceOrder(m) \/ AskAboutOrder(m)
           \/ MarkExecuted(m) \/ LogCreated(m) \/ StartCase(m) \/ UpdateCase(m)
           \/ OpenSubcase(m) \/ RecordVisit(m) \/ Bridge(m)
  BY <1>1, <1>3 DEF MarkPending, Deliver, FailReply, PlannerAnswers, PlannerReviews, Confirm,
        PlaceOrder, AskAboutOrder, MarkExecuted, LogCreated, StartCase, UpdateCase, OpenSubcase,
        RecordVisit, Bridge
<1>4. CASE ThrowEarly(m) \/ ThrowLate(m) \/ KeepSilent(m)
  BY <1>4 DEF ThrowEarly, ThrowLate, KeepSilent
<1>5. QED
  BY <1>2, <1>3, <1>4 DEF RouteStep

LEMMA KeptStep == TypeInv /\ Answered /\ FromClient /\ Kept /\ [Next]_vars => Kept'
<1> SUFFICES ASSUME TypeInv, Answered, FromClient, Kept, [Next]_vars, sender' = "cliente",
                    NEW n \in attended'
             PROVE  /\ sent'[n] = 0
                    /\ route'[n].pc \in {"stored", "marked", "turn", "done"}
                    /\ route'[n].pc # "done" => Attended(route'[n].seen)
  BY DEF Kept
<1> DEFINE Good == /\ sent'[n] = 0
                   /\ route'[n].pc \in {"stored", "marked", "turn", "done"}
                   /\ route'[n].pc # "done" => Attended(route'[n].seen)
<1>1. ASSUME NEW m \in Messages, RouteStep(m) PROVE Good
  <2>1. /\ sender = "cliente" /\ n \in attended /\ n \in Messages
        /\ n # m => route'[n] = route[n]
    BY <1>1, RouteStepMoves, RouteStepFrame DEF TypeInv, TypeOK
  <2>2. CASE n # m
    <3>1. sent'[n] = sent[n]
      BY <1>1, <2>1, <2>2, RouteStepFrame DEF Deliver, TypeInv, TypeOK
    <3>2. QED
      BY <2>1, <2>2, <3>1 DEF Kept
  <2>3. CASE n = m /\ Identify(n)
    <3>1. /\ route[n].pc = "stored" /\ route'[n].seen = route[n].seen
          /\ route'[n].pc \in {"identified", "marked"}
          /\ route'[n].pc = "identified" => route'[n].as = "desconocido"
          /\ route'[n].as = "cliente"
      BY <2>1, <2>3, IdentifyMoves DEF TypeInv, Moves
    <3>2. UNCHANGED sent
      BY <2>3 DEF Identify
    <3>3. QED
      BY <2>1, <3>1, <3>2 DEF Kept
  <2>4. CASE n = m /\ OpenTurn(n)
    BY <2>1, <2>4, OpenTurnMoves DEF Kept, TypeInv, OpenTurn, Attended
  <2>5. CASE n = m /\ End(n) /\ UNCHANGED sent
    BY <2>1, <2>5, EndMoves DEF Kept, TypeInv, Moves
  <2>6. QED
    BY <1>1, <2>1, <2>2, <2>3, <2>4, <2>5, KeptSteps
<1>2. ASSUME NEW m \in Messages, Handle(m) PROVE Good
  <2>1. /\ sender = "cliente" /\ UNCHANGED sent
        /\ n \in attended \/ (n = m /\ Attended(conv))
    BY <1>2 DEF Handle
  <2>2. Moves(m, {"stored"}) /\ route[m].pc = "none" /\ route'[m].seen = conv
    BY <1>2, HandleMoves DEF TypeInv
  <2>3. CASE n = m
    <3>1. n \notin attended
      BY <2>1, <2>2, <2>3 DEF Kept
    <3>2. QED
      BY <2>1, <2>2, <2>3, <3>1 DEF Answered, Moves, Attended
  <2>4. CASE n # m
    BY <2>1, <2>2, <2>4 DEF Kept, Moves, TypeInv, TypeOK
  <2>5. QED
    BY <2>3, <2>4
<1>3. ASSUME NEW p \in People, Ask(p) \/ Answer(p) PROVE Good
  BY <1>3, RequestFrame DEF Kept
<1>4. CASE Restart
  BY <1>4, RestartFrame DEF Kept, TypeInv, TypeOK, history
<1>5. CASE UNCHANGED vars
  BY <1>5 DEF vars, history, Kept
<1>6. QED
  BY <1>1, <1>2, <1>3, <1>4, <1>5 DEF Next, Quiet

\* Nora does not answer a client's message that came while a person was in charge,
\* and has been since, however the routings and the people interleave.
THEOREM NoraIsSilent == Spec => []HumanIsNotTalkedOver
<1>1. Init => FromClient /\ Kept
  BY Constants DEF Init, FromClient, Kept
<1>2. Kept => HumanIsNotTalkedOver
  BY DEF Kept, HumanIsNotTalkedOver
<1>3. QED
  BY <1>1, <1>2, FromClientStep, KeptStep, AlwaysAnswered, AlwaysTyped, PTL DEF Spec
-----------------------------------------------------------------------------
(***************************************************************************)
(* One handler at a time                                                   *)
(***************************************************************************)
OneAtATime ==
    ~overlap =>
        /\ \A m, n \in InFlight : m = n
        /\ \A p, q \in Busy : p = q
        /\ InFlight = {} \/ Busy = {}

\* A second handler begins only with an overlap.
LEMMA FirstMessage ==
    ASSUME NEW m \in Messages, Handle(m), ~overlap'
    PROVE  ~overlap /\ InFlight = {} /\ Busy = {}
BY DEF Handle, Overlaps

LEMMA FirstRequest ==
    ASSUME NEW p \in People, Ask(p), ~overlap'
    PROVE  ~overlap /\ InFlight = {} /\ Busy = {}
BY DEF Ask, BeginClaim, BeginUpdate, BeginAccept, Begin, Overlaps

LEMMA AnswerFrame ==
    ASSUME TypeInv, NEW p \in People, Answer(p)
    PROVE  p \in Busy /\ UNCHANGED overlap
BY Constants DEF Answer, EndUpdate, ClaimCase, MakeOrder, RefuseOrder, UndoClaim, RecordOrder,
    ReleaseConversation, FailRequest, Accepting, history, Busy

LEMMA OneAtATimeStep == TypeInv /\ OneAtATime /\ [Next]_vars => OneAtATime'
<1> SUFFICES ASSUME TypeInv, OneAtATime, [Next]_vars, ~overlap'
             PROVE  /\ \A m, n \in InFlight' : m = n
                    /\ \A p, q \in Busy' : p = q
                    /\ InFlight' = {} \/ Busy' = {}
  BY DEF OneAtATime
<1>1. ASSUME NEW m \in Messages, RouteStep(m)
      PROVE  InFlight' \subseteq InFlight /\ Busy' = Busy /\ ~overlap
  BY <1>1, RouteStepMoves, RouteStepFrame DEF InFlight, Busy
<1>2. ASSUME NEW m \in Messages, Handle(m)
      PROVE  InFlight' \subseteq {m} /\ Busy' = {}
  BY <1>2, FirstMessage, HandleMoves DEF TypeInv, Moves, InFlight, Busy, Handle
<1>3. ASSUME NEW p \in People, Ask(p)
      PROVE  InFlight' = {} /\ Busy' \subseteq {p}
  BY <1>3, FirstRequest, RequestAsks DEF Asks, InFlight, Busy
<1>4. ASSUME NEW p \in People, Answer(p)
      PROVE  InFlight' = InFlight /\ Busy' \subseteq Busy /\ ~overlap
  BY <1>4, AnswerFrame, RequestAsks DEF Asks, InFlight, Busy
<1>5. CASE Restart
  BY <1>5, RestartFrame
<1>6. CASE UNCHANGED vars
  BY <1>6 DEF vars, history, OneAtATime, InFlight, Busy
<1>7. QED
  BY <1>1, <1>2, <1>3, <1>4, <1>5, <1>6 DEF Next, Quiet, OneAtATime

LEMMA AlwaysOneAtATime == Spec => []OneAtATime
<1>1. Init => OneAtATime
  BY Constants DEF Init, OneAtATime, InFlight, Busy
<1>2. QED
  BY <1>1, OneAtATimeStep, AlwaysTyped, PTL DEF Spec
-----------------------------------------------------------------------------
(***************************************************************************)
(* The promise of a person                                                 *)
(***************************************************************************)

\* The row waits in an area, and so it was read by the message on its way to a
\* turn; no draft is about to resolve it.
Waits ==
    promised /\ ~overlap =>
        /\ conv.role # None /\ conv.status = "pendiente"
        /\ \A m \in Messages :
             /\ route[m].pc \in Early =>
                    route[m].seen.role # None /\ route[m].seen.status = "pendiente"
             /\ route[m].pc # "drafted"

LEMMA DraftSteps ==
    ASSUME TypeInv, NEW m \in Messages, RouteStep(m), route'[m].pc = "drafted"
    PROVE  DraftOrder(m)
<1> USE DEF TypeInv
<1>1. ASSUME NEW pc \in {"marked", "plan", "candidate", "ordered", "executed", "booked",
                     "created"}, Goto(m, pc)
      PROVE  FALSE
  BY <1>1, GotoMoves DEF Moves, Pcs
<1>2. ASSUME End(m) PROVE FALSE
  BY <1>2, EndMoves DEF Moves
<1>3. ASSUME NEW on \in {"agent", "last"}, ReplyOn(m, on) \/ Proceed(m, "plan", on) PROVE FALSE
  BY <1>3, ReplyMoves, ProceedMoves DEF Moves, Pcs
<1>4. ASSUME Identify(m) \/ OpenTurn(m) PROVE FALSE
  BY <1>4, IdentifyMoves, OpenTurnMoves DEF Moves
<1>5. QED
  BY <1>1, <1>2, <1>3, <1>4 DEF RouteStep, MarkPending, ThrowEarly, ThrowLate, Deliver,
        FailReply, Greet, KeepSilent, Escalate, HandOff, EndDraft, AgentAnswers,
        AgentFails, Plan, PlannerAnswers, PlannerReviews, Confirm, PlaceOrder, AskAboutOrder,
        MarkExecuted, LogCreated, StartCase, UpdateCase, OpenSubcase, EditVisit,
        CustomerForVisit, BookVisit, RecordVisit, GeneralAgent, CloseCustomer, Bridge

\* What a routing does to a conversation that waits.
LEMMA WaitingSteps ==
    ASSUME TypeInv, Waits, NEW m \in Messages, RouteStep(m), promised', ~overlap
    PROVE  /\ conv'.role # None /\ conv'.status = "pendiente"
           /\ ~promised => Escalate(m) \/ HandOff(m)
<1>1. conv \in ConvRow /\ None \notin Roles /\ "comercial" \in Roles
  BY PeopleAssumption DEF TypeInv, TypeOK
<1>2. CASE \/ ThrowEarly(m) \/ ThrowLate(m) \/ Deliver(m) \/ FailReply(m) \/ AgentFails(m)
           \/ OpenTurn(m) \/ Greet(m) \/ KeepSilent(m) \/ AgentAnswers(m) \/ Plan(m)
           \/ PlannerAnswers(m) \/ PlannerReviews(m) \/ Confirm(m) \/ AskAboutOrder(m)
           \/ DraftOrder(m) \/ MarkExecuted(m) \/ StartCase(m) \/ UpdateCase(m) \/ OpenSubcase(m)
           \/ EditVisit(m) \/ CustomerForVisit(m) \/ RecordVisit(m) \/ GeneralAgent(m)
           \/ CloseCustomer(m) \/ Bridge(m)
           \/ PlaceOrder(m) \/ LogCreated(m) \/ BookVisit(m)
  <2>1. UNCHANGED <<conv, promised>>
    BY <1>2 DEF ThrowEarly, ThrowLate, Deliver, FailReply, AgentFails, OpenTurn, Greet, KeepSilent,
        AgentAnswers, Plan, PlannerAnswers, PlannerReviews,
        Confirm, AskAboutOrder, DraftOrder, MarkExecuted, StartCase, UpdateCase, OpenSubcase,
        EditVisit, CustomerForVisit, RecordVisit, GeneralAgent, CloseCustomer, Bridge, PlaceOrder,
        LogCreated, BookVisit, rows, history
  <2>2. QED
    BY <2>1 DEF Waits
<1>3. CASE Identify(m)
  BY <1>3, IdentifyMoves DEF Identify, history, TypeInv, Waits
<1>4. CASE MarkPending(m)
  BY <1>1, <1>4 DEF MarkPending, Write, Waits, ConvRow
<1>5. CASE Escalate(m)
  <2>1. CASE UNCHANGED <<conv, promised>>
    BY <1>5, <2>1 DEF Waits
  <2>2. CASE conv' = [conv EXCEPT !.role = "comercial", !.status = "pendiente"]
    BY <1>1, <1>5, <2>2 DEF ConvRow
  <2>3. QED
    BY <1>5, <2>1, <2>2 DEF Escalate, Write
<1>6. CASE HandOff(m)
  <2>1. PICK role \in Roles :
          conv' = [conv EXCEPT !.role = role, !.status = "pendiente", !.user = None]
    BY <1>6 DEF HandOff, Write
  <2>2. QED
    BY <1>1, <1>6, <2>1 DEF ConvRow
<1>7. CASE EndDraft(m)
  BY <1>7 DEF EndDraft, Waits
<1>8. QED
  BY <1>2, <1>3, <1>4, <1>5, <1>6, <1>7 DEF RouteStep

LEMMA WaitsStep == TypeInv /\ OneAtATime /\ Waits /\ [Next]_vars => Waits'
<1> SUFFICES ASSUME TypeInv, OneAtATime, Waits, [Next]_vars, promised', ~overlap'
             PROVE  /\ conv'.role # None /\ conv'.status = "pendiente"
                    /\ \A m \in Messages :
                         /\ route'[m].pc \in Early =>
                                route'[m].seen.role # None /\ route'[m].seen.status = "pendiente"
                         /\ route'[m].pc # "drafted"
  BY DEF Waits
<1> DEFINE Goal == /\ conv'.role # None /\ conv'.status = "pendiente"
                   /\ \A m \in Messages :
                         /\ route'[m].pc \in Early =>
                                route'[m].seen.role # None /\ route'[m].seen.status = "pendiente"
                         /\ route'[m].pc # "drafted"
<1>1. ASSUME NEW m \in Messages, RouteStep(m) PROVE Goal
  <2>1. /\ ~overlap /\ \A n \in Messages : n # m => route'[n] = route[n]
        /\ m \in InFlight
    BY <1>1, RouteStepMoves, RouteStepFrame DEF InFlight
  <2>2. \A n \in Messages : n # m => route[n].pc \in {"none", "done"}
    BY <2>1 DEF OneAtATime, InFlight
  <2>3. ASSUME route'[m].pc \in Early
        PROVE  route'[m].seen.role # None /\ route'[m].seen.status = "pendiente"
    <3>1. Identify(m) \/ MarkPending(m) \/ OpenTurn(m)
      BY <1>1, <2>3, EarlySteps
    <3>2. promised
      BY <3>1 DEF Identify, MarkPending, OpenTurn, history
    <3>3. route[m].pc \in Early /\ route'[m].seen = route[m].seen
      BY <3>1, IdentifyMoves, OpenTurnMoves, GotoMoves DEF TypeInv, Early, MarkPending, Pcs
    <3>4. QED
      BY <2>1, <3>2, <3>3 DEF Waits
  <2>4. ASSUME route'[m].pc = "drafted"
        PROVE  FALSE
    <3>1. DraftOrder(m)
      BY <1>1, <2>4, DraftSteps
    <3>2. promised /\ route[m].pc = "turn" /\ ~Attended(route[m].seen)
      BY <3>1 DEF DraftOrder, history, AgentTurn, Answerable, Turn, Silent
    <3>3. QED
      BY <2>1, <3>2 DEF Waits, Early, Attended
  <2>5. QED
    BY <1>1, <2>1, <2>2, <2>3, <2>4, WaitingSteps DEF Early
<1>2. ASSUME NEW m \in Messages, Handle(m) PROVE Goal
  <2>1. ~overlap /\ InFlight = {} /\ promised /\ UNCHANGED conv
    BY <1>2, FirstMessage DEF Handle, rows
  <2>2. Moves(m, {"stored"}) /\ route'[m].seen = conv
    BY <1>2, HandleMoves DEF TypeInv
  <2>3. \A n \in Messages : n # m => route'[n].pc \in {"none", "done"}
    BY <2>1, <2>2 DEF Moves, InFlight
  <2>4. QED
    BY <2>1, <2>2, <2>3 DEF Moves, Waits, Early
<1>3. ASSUME NEW p \in People, Ask(p) PROVE Goal
  <2>1. ~overlap /\ UNCHANGED <<conv, promised, route>>
    BY <1>3, FirstRequest DEF Ask, BeginClaim, BeginUpdate, BeginAccept,
        Begin, rows
  <2>2. QED
    BY <2>1 DEF Waits
<1>4. ASSUME NEW p \in People, Answer(p) PROVE Goal
  <2>1. ~EndUpdate(p) /\ ~ReleaseConversation(p)
    BY DEF EndUpdate, ReleaseConversation
  <2>2. UNCHANGED <<conv, promised>>
    <3>1. CASE MakeOrder(p) \/ RefuseOrder(p) \/ FailRequest(p)
      BY <3>1 DEF MakeOrder, RefuseOrder, FailRequest, rows, history
    <3>2. CASE ClaimCase(p) \/ UndoClaim(p) \/ RecordOrder(p)
      BY <3>2 DEF ClaimCase, UndoClaim, RecordOrder, history
    <3>3. QED
      BY <1>4, <2>1, <3>1, <3>2 DEF Answer
  <2>3. ~overlap /\ UNCHANGED route
    BY <1>4, AnswerFrame, RequestFrame
  <2>4. QED
    BY <2>2, <2>3 DEF Waits
<1>5. CASE Restart
  BY <1>5, RestartFrame DEF Waits, rows, history, Early
<1>6. CASE UNCHANGED vars
  BY <1>6 DEF vars, rows, history, Waits
<1>7. QED
  BY <1>1, <1>2, <1>3, <1>4, <1>5, <1>6 DEF Next, Quiet

\* A client who was told that a person will answer waits in the inbox of an area
\* until one acts, whatever he writes and whatever fails, one message at a time.
THEOREM PromiseKept == Spec => []PromiseIsKept
<1>1. Init => Waits
  BY DEF Init, Waits
<1>2. Waits => PromiseIsKept
  BY DEF Waits, PromiseIsKept
<1>3. QED
  BY <1>1, <1>2, WaitsStep, AlwaysOneAtATime, AlwaysTyped, PTL DEF Spec

-----------------------------------------------------------------------------
(***************************************************************************)
(* The results of a case                                                   *)
(***************************************************************************)

\* No two cases were each updated after the other.
Uncrossed == \A c, d \in Cases : ~(<<c, d>> \in recent /\ <<d, c>> \in recent)

LEMMA UncrossedStep == TypeInv /\ Uncrossed /\ [Next]_vars => Uncrossed'
<1> SUFFICES ASSUME TypeInv, Uncrossed, Writes PROVE Uncrossed'
  BY NextWrites
<1>1. ASSUME NEW c \in Cases, Touch(c) PROVE Uncrossed'
  <2>1. ASSUME NEW d \in Cases, NEW e \in Cases, <<d, e>> \in recent'
        PROVE  d # c /\ (e = c \/ <<d, e>> \in recent)
    BY <1>1, <2>1 DEF Touch
  <2>2. ASSUME NEW d \in Cases, NEW e \in Cases, <<d, e>> \in recent', <<e, d>> \in recent'
        PROVE  FALSE
    BY <2>1, <2>2 DEF Uncrossed
  <2>3. QED
    BY <2>2 DEF Uncrossed
<1>2. QED
  BY <1>1 DEF Writes, Edits, Adds, PutCase, Uncrossed

LEMMA LatestUnique ==
    ASSUME Uncrossed, NEW c \in LatestOpen, NEW d \in LatestOpen
    PROVE  c = d
BY DEF LatestOpen, Uncrossed

\* While one handler is at work and nothing fails, the case a turn read still is the
\* one updated last, as it was read; a candidate is of an order that was complete.
Current ==
    Alone =>
        \A m \in Messages :
            /\ route[m].pc \in {"turn", "plan", "candidate", "ordered"} =>
                 /\ route[m].open \in LatestOpen
                 /\ route[m].open # None => route[m].was = case[route[m].open]
            /\ route[m].pc \in {"candidate", "ordered"} =>
                 route[m].was.type = "order" /\ route[m].was.status = "ready_for_review"

\* ... and the case a person accepts still waits for its review.
Reviewed ==
    Alone =>
        \A p \in People :
            req[p].op = "accept" /\ req[p].pc \in {"read", "claimed"} =>
                case[req[p].case].status = "ready_for_review"

LEMMA AloneBefore ==
    ASSUME TypeInv, [Next]_vars, Alone'
    PROVE  Alone /\ ~overlap' /\ ~overlap /\ UNCHANGED failures /\ ~Restart
<1>1. failures \in Nat /\ ~overlap' /\ failures' = 0
  BY DEF TypeInv, TypeOK, Alone
<1>2. ASSUME NEW m \in Messages, RouteStep(m) PROVE ~overlap /\ failures = 0
  BY <1>1, <1>2, RouteStepFrame DEF Deliver, counters
<1>3. ASSUME NEW m \in Messages, Handle(m) PROVE ~overlap /\ failures = 0
  BY <1>1, <1>3, FirstMessage DEF Handle, counters
<1>4. ASSUME NEW p \in People, Ask(p) PROVE ~overlap /\ failures = 0
  BY <1>1, <1>4, FirstRequest, RequestFrame
<1>5. ASSUME NEW p \in People, Answer(p) PROVE ~overlap /\ failures = 0
  BY <1>1, <1>5, AnswerFrame, RequestFrame
<1>6. ASSUME Restart PROVE FALSE
  BY <1>1, <1>6 DEF Restart, Fail
<1>7. ASSUME UNCHANGED vars PROVE ~overlap /\ failures = 0
  BY <1>1, <1>7 DEF vars, counters, history
<1>8. ~overlap /\ failures = 0
  BY <1>2, <1>3, <1>4, <1>5, <1>6, <1>7 DEF Next, Quiet
<1>9. QED
  BY <1>1, <1>6, <1>8 DEF Alone

\* When it is alone at work, nobody else is.
LEMMA AloneRouting ==
    ASSUME TypeInv, OneAtATime, ~overlap, NEW m \in Messages, RouteStep(m)
    PROVE  /\ \A n \in Messages : n # m =>
                  route[n].pc \in {"none", "done"} /\ route'[n].pc \in {"none", "done"}
           /\ \A p \in People : req[p] = Idle
BY RouteStepMoves DEF OneAtATime, InFlight, Busy

LEMMA AloneAnswering ==
    ASSUME TypeInv, OneAtATime, ~overlap, NEW p \in People, Answer(p)
    PROVE  /\ \A n \in Messages : route[n].pc \in {"none", "done"}
           /\ \A q \in People : q # p => req[q] = Idle /\ req'[q] = Idle
BY AnswerFrame, RequestAsks DEF OneAtATime, InFlight, Busy, Asks

LEMMA AloneBeginning ==
    ASSUME TypeInv, InFlight = {}, Busy = {}
    PROVE  /\ \A n \in Messages : route[n].pc \in {"none", "done"}
           /\ \A q \in People : req[q] = Idle
BY DEF InFlight, Busy

LEMMA MiddleSteps ==
    ASSUME TypeInv, NEW m \in Messages, RouteStep(m), UNCHANGED failures
    PROVE  /\ route'[m].pc = "turn" => OpenTurn(m)
           /\ route'[m].pc = "plan" => Plan(m)
           /\ route'[m].pc = "candidate" => Confirm(m)
           /\ route'[m].pc = "ordered" => PlaceOrder(m)
           /\ route'[m].pc = "booked" => BookVisit(m)
<1> USE DEF TypeInv
<1> DEFINE Middle == {"turn", "plan", "candidate", "ordered", "booked"}
<1>1. ASSUME NEW pc \in Pcs, Goto(m, pc)
      PROVE  route'[m].pc = pc
  BY <1>1, GotoMoves DEF Moves
<1>2. ASSUME End(m) PROVE route'[m].pc \notin Middle
  BY <1>2, EndMoves DEF Moves
<1>3. ASSUME NEW on \in {"agent", "last"}, ReplyOn(m, on) PROVE route'[m].pc \notin Middle
  BY <1>3, ReplyMoves DEF Moves
<1>4. CASE Identify(m) \/ OpenTurn(m)
  BY <1>4, IdentifyMoves, OpenTurnMoves DEF Moves
<1>5. CASE Plan(m)
  BY <1>5, ProceedMoves DEF Plan, Moves, Pcs
<1>6. ~ThrowEarly(m) /\ ~ThrowLate(m) /\ ~FailReply(m) /\ ~AgentFails(m)
  BY DEF ThrowEarly, ThrowLate, FailReply, AgentFails, Fail, TypeOK
<1>7. CASE MarkPending(m) \/ DraftOrder(m) \/ PlaceOrder(m) \/ MarkExecuted(m) \/ BookVisit(m)
           \/ CloseCustomer(m)
  BY <1>1, <1>7 DEF MarkPending, DraftOrder, PlaceOrder, MarkExecuted, BookVisit, CloseCustomer,
        Pcs
<1>8. CASE Confirm(m)
  BY <1>1, <1>2, <1>8 DEF Confirm, Pcs
<1>9. CASE \/ Deliver(m) \/ Greet(m) \/ KeepSilent(m) \/ Escalate(m) \/ HandOff(m) \/ EndDraft(m)
           \/ AgentAnswers(m) \/ PlannerAnswers(m) \/ PlannerReviews(m) \/ AskAboutOrder(m)
           \/ LogCreated(m) \/ StartCase(m) \/ UpdateCase(m) \/ OpenSubcase(m) \/ EditVisit(m)
           \/ CustomerForVisit(m) \/ RecordVisit(m) \/ GeneralAgent(m) \/ Bridge(m)
  <2>1. End(m) \/ \E on \in {"agent", "last"} : ReplyOn(m, on)
    BY <1>9 DEF Deliver, Greet, KeepSilent, Escalate, HandOff, EndDraft, AgentAnswers,
        PlannerAnswers, PlannerReviews, AskAboutOrder, LogCreated, StartCase, UpdateCase,
        OpenSubcase, EditVisit, CustomerForVisit, RecordVisit, GeneralAgent, Bridge
  <2>2. QED
    BY <1>2, <1>3, <2>1
<1>10. QED
  BY <1>4, <1>5, <1>6, <1>7, <1>8, <1>9 DEF RouteStep

LEMMA CurrentStep == TypeInv /\ OneAtATime /\ Current /\ [Next]_vars => Current'
<1> SUFFICES ASSUME TypeInv, OneAtATime, Current, [Next]_vars, Alone', NEW n \in Messages,
                    route'[n].pc \in {"turn", "plan", "candidate", "ordered"}
             PROVE  /\ route'[n].open \in LatestOpen'
                    /\ route'[n].open # None => route'[n].was = case'[route'[n].open]
                    /\ route'[n].pc \in {"candidate", "ordered"} =>
                         route'[n].was.type = "order" /\ route'[n].was.status = "ready_for_review"
  BY DEF Current
<1>0. Alone /\ ~overlap' /\ ~overlap /\ UNCHANGED failures /\ ~Restart
  BY AloneBefore
<1> DEFINE Good == /\ route'[n].open \in LatestOpen'
                   /\ route'[n].open # None => route'[n].was = case'[route'[n].open]
                   /\ route'[n].pc \in {"candidate", "ordered"} =>
                         route'[n].was.type = "order" /\ route'[n].was.status = "ready_for_review"
<1>1. ASSUME UNCHANGED <<case, recent>>
      PROVE  LatestOpen' = LatestOpen
  BY <1>1 DEF LatestOpen, Open
<1>2. ASSUME NEW m \in Messages, RouteStep(m) PROVE Good
  <2>1. n = m
    BY <1>0, <1>2, AloneRouting
  <2>2. OpenTurn(n) \/ Plan(n) \/ Confirm(n) \/ PlaceOrder(n)
    BY <1>0, <1>2, <2>1, MiddleSteps
  <2>3. UNCHANGED <<case, recent>> /\ LatestOpen' = LatestOpen
    BY <1>1, <2>2 DEF OpenTurn, Plan, Confirm, PlaceOrder, rows
  <2>4. CASE OpenTurn(n)
    BY <2>3, <2>4, OpenTurnMoves DEF TypeInv
  <2>5. CASE Plan(n)
    <3>1. /\ route[n].pc = "turn" /\ route'[n].pc = "plan"
          /\ route'[n].open = route[n].open /\ route'[n].was = route[n].was
      BY <2>5, ProceedMoves DEF TypeInv, Plan, Answerable, Turn, Moves, Pcs
    <3>2. QED
      BY <1>0, <2>3, <3>1 DEF Current
  <2>6. CASE Confirm(n) \/ PlaceOrder(n)
    <3>1. Goto(n, "candidate") \/ Goto(n, "ordered")
      BY <2>6, EndMoves DEF TypeInv, Confirm, PlaceOrder, Moves
    <3>2. route'[n].open = route[n].open /\ route'[n].was = route[n].was
      BY <3>1, GotoMoves DEF TypeInv, Pcs
    <3>3. /\ route[n].pc \in {"plan", "candidate"}
          /\ route[n].pc = "plan" =>
               route[n].was.type = "order" /\ route[n].was.status = "ready_for_review"
      BY <2>6 DEF Confirm, PlaceOrder
    <3>4. QED
      BY <1>0, <2>3, <3>2, <3>3 DEF Current
  <2>7. QED
    BY <2>2, <2>4, <2>5, <2>6
<1>3. ASSUME NEW m \in Messages, Handle(m) PROVE FALSE
  <2>1. \A k \in Messages : route[k].pc \in {"none", "done"}
    BY <1>0, <1>3, FirstMessage, AloneBeginning
  <2>2. QED
    BY <1>3, <2>1, HandleMoves DEF TypeInv, Moves
<1>4. ASSUME NEW p \in People, Ask(p) PROVE FALSE
  BY <1>0, <1>4, FirstRequest, AloneBeginning, RequestFrame
<1>5. ASSUME NEW p \in People, Answer(p) PROVE FALSE
  BY <1>0, <1>5, AloneAnswering, RequestFrame
<1>6. CASE UNCHANGED vars
  <2>1. UNCHANGED <<case, recent, route>>
    BY <1>6 DEF vars, rows
  <2>2. QED
    BY <1>0, <1>1, <2>1 DEF Current
<1>7. QED
  BY <1>0, <1>2, <1>3, <1>4, <1>5, <1>6 DEF Next, Quiet

LEMMA ReviewedStep == TypeInv /\ OneAtATime /\ Reviewed /\ [Next]_vars => Reviewed'
<1> SUFFICES ASSUME TypeInv, OneAtATime, Reviewed, [Next]_vars, Alone', NEW q \in People,
                    req'[q].op = "accept", req'[q].pc \in {"read", "claimed"}
             PROVE  case'[req'[q].case].status = "ready_for_review"
  BY DEF Reviewed
<1> DEFINE Good == case'[req'[q].case].status = "ready_for_review"
<1>0. Alone /\ ~overlap' /\ ~overlap /\ UNCHANGED failures /\ ~Restart
  BY AloneBefore
<1>1. ASSUME NEW m \in Messages, RouteStep(m) PROVE FALSE
  BY <1>0, <1>1, AloneRouting, RouteStepFrame, Constants
<1>2. ASSUME NEW m \in Messages, Handle(m) PROVE FALSE
  BY <1>0, <1>2, FirstMessage, AloneBeginning, Constants DEF Handle
<1>3. ASSUME NEW p \in People, Ask(p) PROVE Good
  <2>1. \A k \in People : req[k] = Idle
    BY <1>0, <1>3, FirstRequest, AloneBeginning
  <2>2. q = p
    BY <1>3, <2>1, RequestAsks, Constants DEF Asks
  <2>3. ASSUME NEW op \in {"claim", "update"}, NEW sets, NEW to, NEW c,
               Begin(p, op, sets, to, c)
        PROVE  FALSE
    BY <2>2, <2>3 DEF Begin, TypeInv, TypeOK
  <2>4. PICK c \in Cases : BeginAccept(p, c)
    BY <1>3, <2>3 DEF Ask, BeginClaim, BeginUpdate
  <2>5. req'[p].case = c /\ UNCHANGED case
    BY <2>4 DEF BeginAccept, Begin, TypeInv, TypeOK, rows
  <2>6. QED
    BY <2>2, <2>4, <2>5 DEF BeginAccept
<1>4. ASSUME NEW p \in People, Answer(p) PROVE Good
  <2>1. q = p
    BY <1>0, <1>4, AloneAnswering, Constants
  <2>2. req'[p] # Idle
    BY <2>1, Constants
  <2>3. ~EndUpdate(p) /\ ~UndoClaim(p) /\ ~ReleaseConversation(p) /\ ~FailRequest(p)
    BY <2>2, IdleAsks DEF EndUpdate, UndoClaim, ReleaseConversation, FailRequest
  <2>4. ~MakeOrder(p) /\ ~RefuseOrder(p) /\ ~RecordOrder(p)
    BY <2>1, StepAsks DEF MakeOrder, RefuseOrder, RecordOrder
  <2>5. /\ ClaimCase(p) /\ Step(p, "claimed")
        /\ PutCase(req[p].case, [case[req[p].case] EXCEPT !.claim = TRUE])
    BY <1>4, <2>2, <2>3, <2>4, IdleAsks DEF Answer, ClaimCase
  <2> DEFINE c == req[p].case
             row == [case[c] EXCEPT !.claim = TRUE]
  <2>6. c \in Cases /\ case[c] \in CaseRow /\ case[c].status = "ready_for_review"
    BY <1>0, <2>5 DEF ClaimCase, Accepting, TypeInv, TypeOK, Asked, Reviewed
  <2>7. PutCase(c, row) /\ req'[p].case = c
    BY <2>5, StepAsks
  <2> HIDE DEF c
  <2>8. row \in CaseRow /\ row.status = "ready_for_review"
    BY <2>6 DEF CaseRow
  <2> HIDE DEF row
  <2>9. QED
    BY <2>1, <2>6, <2>7, <2>8, PutCaseRow DEF TypeInv
<1>5. CASE UNCHANGED vars
  BY <1>0, <1>5 DEF vars, rows, Reviewed
<1>6. QED
  BY <1>0, <1>1, <1>2, <1>3, <1>4, <1>5 DEF Next, Quiet

\* An order that was made and that its case does not know of yet; a visit.
Ordering(c) ==
    \/ \E m \in Messages : route[m].pc = "ordered" /\ route[m].open = c
    \/ \E p \in People : Accepting(p, "made") /\ req[p].case = c

Booking(c) == \E m \in Messages : route[m].pc = "booked" /\ route[m].open = c

\* A case with an order or with a visit was executed, or is about to be.
Due ==
    Alone =>
        /\ \A r \in orders : /\ r.case \in Cases /\ case[r.case].type = "order"
                             /\ case[r.case].status = "executed" \/ Ordering(r.case)
        /\ \A r \in visits : /\ r.case \in Cases /\ case[r.case].type = "visit"
                             /\ case[r.case].status = "executed" \/ Booking(r.case)
        /\ \A r, s \in orders : r.case = s.case => r = s
        /\ \A r, s \in visits : r.case = s.case => r = s

\* Nobody reopens a case that gave its order or its visit.
LEMMA ExecutedStays ==
    ASSUME TypeInv, Current, Alone, [Next]_vars, NEW c \in Cases,
           case[c].type \in {"order", "visit"}, case[c].status = "executed"
    PROVE  case'[c].type = case[c].type /\ case'[c].status = "executed"
<1>1. case'[c].type = case[c].type
  BY NextWrites, WritesKeepTypes
<1>2. ASSUME NEW d \in Cases, NEW row \in CaseRow, Edits(d, row)
      PROVE  case'[c].status = "executed"
  <2>1. case'[d] = row /\ \A e \in Cases : e # d => case'[e] = case[e]
    BY <1>2, PutCaseRow DEF TypeInv, Edits
  <2>2. ~ \E m \in Messages : route[m].pc = "plan" /\ route[m].open = c
    BY PeopleAssumption DEF Current, LatestOpen, Open
  <2>3. QED
    BY <1>1, <1>2, <2>1, <2>2 DEF Edits
<1>3. ASSUME NEW d \in Cases, NEW row \in CaseRow, Adds(d, row)
      PROVE  case'[c].status = "executed"
  BY <1>3, PutCaseRow DEF TypeInv, Adds
<1>4. QED
  BY <1>1, <1>2, <1>3, NextWrites DEF Writes

\* What is about to be recorded is recorded next.
LEMMA OrderingStep ==
    ASSUME TypeInv, OneAtATime, Uncrossed, Current, [Next]_vars, Alone', NEW c \in Cases,
           Ordering(c)
    PROVE  Ordering(c)' \/ case'[c].status = "executed"
<1>1. Alone /\ ~overlap' /\ ~overlap /\ UNCHANGED failures /\ ~Restart
  BY AloneBefore
<1>2. ASSUME NEW m \in Messages, RouteStep(m)
      PROVE  case'[c].status = "executed"
  <2>1. route[m].pc = "ordered" /\ route[m].open = c
    BY <1>1, <1>2, AloneRouting, Constants DEF Ordering, Accepting
  <2>2. ~ThrowLate(m)
    BY <1>1 DEF ThrowLate, Fail, TypeInv, TypeOK
  <2>3. MarkExecuted(m)
    BY <1>2, <2>1, <2>2 DEF RouteStep, Identify, MarkPending, OpenTurn, ThrowEarly, Deliver,
        FailReply, Greet, KeepSilent, Escalate, HandOff, DraftOrder, EndDraft, AgentAnswers,
        AgentFails, Plan, PlannerAnswers, PlannerReviews, Confirm, PlaceOrder, AskAboutOrder,
        LogCreated, StartCase, UpdateCase, OpenSubcase, EditVisit,
        CustomerForVisit, BookVisit, RecordVisit, GeneralAgent, CloseCustomer, Bridge, AgentTurn,
        Answerable, VisitTurn, Turn
  <2>4. c \in LatestOpen /\ case[c].type = "order" /\ c # None
    BY <1>1, <2>1, PeopleAssumption DEF Current, TypeInv, Typed
  <2>5. PutCase(c, [case[c] EXCEPT !.status = "executed"])
    BY <2>3, <2>4, LatestUnique DEF MarkExecuted
  <2> DEFINE row == [case[c] EXCEPT !.status = "executed"]
  <2>6. row \in CaseRow /\ row.status = "executed"
    BY DEF CaseRow, TypeInv, TypeOK
  <2>7. PutCase(c, row)
    BY <2>5
  <2> HIDE DEF row
  <2>8. QED
    BY <2>6, <2>7, PutCaseRow DEF TypeInv
<1>3. ASSUME NEW m \in Messages, Handle(m) PROVE FALSE
  BY <1>1, <1>3, FirstMessage, AloneBeginning, Constants DEF Ordering, Accepting
<1>4. ASSUME NEW p \in People, Ask(p) PROVE FALSE
  BY <1>1, <1>4, FirstRequest, AloneBeginning, Constants DEF Ordering, Accepting
<1>5. ASSUME NEW p \in People, Answer(p)
      PROVE  case'[c].status = "executed"
  <2>1. Accepting(p, "made") /\ req[p].case = c
    BY <1>1, <1>5, AloneAnswering, Constants DEF Ordering, Accepting
  <2>2. ~FailRequest(p)
    BY <1>1 DEF FailRequest, Fail, TypeInv, TypeOK
  <2>3. RecordOrder(p)
    BY <1>5, <2>1, <2>2 DEF Answer, EndUpdate, ClaimCase, MakeOrder, RefuseOrder, UndoClaim,
        ReleaseConversation, Accepting
  <2> DEFINE row == [case[c] EXCEPT !.status = "executed", !.claim = TRUE]
  <2>4. row \in CaseRow /\ row.status = "executed"
    BY DEF CaseRow, TypeInv, TypeOK
  <2>5. PutCase(c, row)
    BY <2>1, <2>3 DEF RecordOrder
  <2> HIDE DEF row
  <2>6. QED
    BY <2>4, <2>5, PutCaseRow DEF TypeInv
<1>6. CASE UNCHANGED vars
  BY <1>6 DEF vars, Ordering, Accepting
<1>7. QED
  BY <1>1, <1>2, <1>3, <1>4, <1>5, <1>6 DEF Next, Quiet

LEMMA BookingStep ==
    ASSUME TypeInv, OneAtATime, [Next]_vars, Alone', NEW c \in Cases, Booking(c)
    PROVE  Booking(c)' \/ case'[c].status = "executed"
<1>1. Alone /\ ~overlap' /\ ~overlap /\ UNCHANGED failures /\ ~Restart
  BY AloneBefore
<1>2. ASSUME NEW m \in Messages, RouteStep(m)
      PROVE  case'[c].status = "executed"
  <2>1. route[m].pc = "booked" /\ route[m].open = c
    BY <1>1, <1>2, AloneRouting DEF Booking
  <2>2. ~ThrowLate(m)
    BY <1>1 DEF ThrowLate, Fail, TypeInv, TypeOK
  <2>3. RecordVisit(m)
    BY <1>2, <2>1, <2>2 DEF RouteStep, Identify, MarkPending, OpenTurn, ThrowEarly, Deliver,
        FailReply, Greet, KeepSilent, Escalate, HandOff, DraftOrder, EndDraft, AgentAnswers,
        AgentFails, Plan, PlannerAnswers, PlannerReviews, Confirm, PlaceOrder, AskAboutOrder,
        MarkExecuted, LogCreated, StartCase, UpdateCase, OpenSubcase, EditVisit,
        CustomerForVisit, BookVisit, GeneralAgent, CloseCustomer, Bridge, AgentTurn, Answerable,
        VisitTurn, Turn
  <2> DEFINE row == [case[c] EXCEPT !.status = "executed", !.claim = TRUE]
  <2>4. row \in CaseRow /\ row.status = "executed"
    BY DEF CaseRow, TypeInv, TypeOK
  <2>5. PutCase(c, row)
    BY <2>1, <2>3 DEF RecordVisit
  <2> HIDE DEF row
  <2>6. QED
    BY <2>4, <2>5, PutCaseRow DEF TypeInv
<1>3. ASSUME NEW m \in Messages, Handle(m) PROVE FALSE
  BY <1>1, <1>3, FirstMessage, AloneBeginning DEF Booking
<1>4. ASSUME NEW p \in People, Ask(p) PROVE FALSE
  BY <1>1, <1>4, FirstRequest, AloneBeginning DEF Booking
<1>5. ASSUME NEW p \in People, Answer(p) PROVE FALSE
  BY <1>1, <1>5, AloneAnswering DEF Booking
<1>6. CASE UNCHANGED vars
  BY <1>6 DEF vars, Booking
<1>7. QED
  BY <1>1, <1>2, <1>3, <1>4, <1>5, <1>6 DEF Next, Quiet

\* The results there are stay due.
LEMMA DueKept ==
    ASSUME TypeInv, OneAtATime, Uncrossed, Current, Due, [Next]_vars, Alone'
    PROVE  /\ \A r \in orders : /\ r.case \in Cases /\ case'[r.case].type = "order"
                                /\ case'[r.case].status = "executed" \/ Ordering(r.case)'
           /\ \A r \in visits : /\ r.case \in Cases /\ case'[r.case].type = "visit"
                                /\ case'[r.case].status = "executed" \/ Booking(r.case)'
           /\ \A r, s \in orders : r.case = s.case => r = s
           /\ \A r, s \in visits : r.case = s.case => r = s
<1>1. Alone
  BY AloneBefore
<1>2. /\ \A r \in orders : /\ r.case \in Cases /\ case[r.case].type = "order"
                           /\ case[r.case].status = "executed" \/ Ordering(r.case)
      /\ \A r \in visits : /\ r.case \in Cases /\ case[r.case].type = "visit"
                           /\ case[r.case].status = "executed" \/ Booking(r.case)
      /\ \A r, s \in orders : r.case = s.case => r = s
      /\ \A r, s \in visits : r.case = s.case => r = s
  BY <1>1 DEF Due
<1>3. \A c \in Cases : case[c].type # "absent" => case'[c].type = case[c].type
  BY NextWrites, WritesKeepTypes
<1>4. ASSUME NEW c \in Cases, case[c].type \in {"order", "visit"}, case[c].status = "executed"
      PROVE  case'[c].status = "executed"
  BY <1>1, <1>4, ExecutedStays
<1>5. \A r \in orders : /\ r.case \in Cases /\ case'[r.case].type = "order"
                        /\ case'[r.case].status = "executed" \/ Ordering(r.case)'
  <2> SUFFICES ASSUME NEW r \in orders
               PROVE  /\ r.case \in Cases /\ case'[r.case].type = "order"
                      /\ case'[r.case].status = "executed" \/ Ordering(r.case)'
    OBVIOUS
  <2>1. PICK c \in Cases : c = r.case
    BY <1>2
  <2>2. case[c].type = "order" /\ (case[c].status = "executed" \/ Ordering(c))
    BY <1>2, <2>1
  <2>3. case'[c].status = "executed" \/ Ordering(c)'
    BY <1>4, <2>2, OrderingStep
  <2>4. QED
    BY <1>3, <2>1, <2>2, <2>3
<1>6. \A r \in visits : /\ r.case \in Cases /\ case'[r.case].type = "visit"
                        /\ case'[r.case].status = "executed" \/ Booking(r.case)'
  <2> SUFFICES ASSUME NEW r \in visits
               PROVE  /\ r.case \in Cases /\ case'[r.case].type = "visit"
                      /\ case'[r.case].status = "executed" \/ Booking(r.case)'
    OBVIOUS
  <2>1. PICK c \in Cases : c = r.case
    BY <1>2
  <2>2. case[c].type = "visit" /\ (case[c].status = "executed" \/ Booking(c))
    BY <1>2, <2>1
  <2>3. case'[c].status = "executed" \/ Booking(c)'
    BY <1>4, <2>2, BookingStep
  <2>4. QED
    BY <1>3, <2>1, <2>2, <2>3
<1>7. QED
  BY <1>2, <1>5, <1>6

\* A result is of a case that had none: it was open, and what is not recorded yet
\* belongs to the one handler at work.
LEMMA NewOrder ==
    ASSUME TypeInv, OneAtATime, Current, Reviewed, Due, [Next]_vars, Alone'
    PROVE  /\ \A m \in Messages : PlaceOrder(m) =>
                /\ route[m].open \in Cases /\ case[route[m].open].type = "order"
                /\ \A r \in orders : r.case # route[m].open
           /\ \A p \in People : MakeOrder(p) =>
                \A r \in orders : r.case # req[p].case
           /\ \A m \in Messages : BookVisit(m) =>
                /\ route[m].open \in Cases /\ case[route[m].open].type = "visit"
                /\ \A r \in visits : r.case # route[m].open
<1>1. Alone /\ ~overlap
  BY AloneBefore
<1>2. ASSUME NEW m \in Messages, PlaceOrder(m)
      PROVE  /\ route[m].open \in Cases /\ case[route[m].open].type = "order"
             /\ \A r \in orders : r.case # route[m].open
  <2> DEFINE o == route[m].open
  <2>1. route[m].pc = "candidate" /\ RouteStep(m)
    BY <1>2 DEF PlaceOrder, RouteStep
  <2>2. o \in Cases /\ case[o].type = "order" /\ case[o].status = "ready_for_review"
    BY <1>1, <2>1, Constants DEF Current, TypeInv, TypeOK, Routing, Read
  <2>3. ~Ordering(o)
    BY <1>1, <2>1, AloneRouting, Constants DEF Ordering, Accepting
  <2>4. QED
    BY <1>1, <2>2, <2>3 DEF Due
<1>3. ASSUME NEW p \in People, MakeOrder(p)
      PROVE  \A r \in orders : r.case # req[p].case
  <2> DEFINE c == req[p].case
  <2>1. Accepting(p, "claimed") /\ Answer(p)
    BY <1>3 DEF MakeOrder, Answer
  <2>2. case[c].status = "ready_for_review"
    BY <1>1, <2>1 DEF Accepting, Reviewed
  <2>3. ~Ordering(c)
    BY <1>1, <2>1, AloneAnswering, Constants DEF Ordering, Accepting
  <2>4. QED
    BY <1>1, <2>2, <2>3 DEF Due
<1>4. ASSUME NEW m \in Messages, BookVisit(m)
      PROVE  /\ route[m].open \in Cases /\ case[route[m].open].type = "visit"
             /\ \A r \in visits : r.case # route[m].open
  <2> DEFINE o == route[m].open
  <2>1. route[m].pc = "turn" /\ route[m].was.type = "visit" /\ RouteStep(m)
    BY <1>4 DEF BookVisit, VisitTurn, Turn, RouteStep
  <2>2. o \in Cases /\ case[o].type = "visit"
    BY <2>1, Constants DEF TypeInv, TypeOK, Routing, Read, Typed
  <2>3. case[o].status # "executed"
    BY <1>1, <2>1, <2>2, PeopleAssumption DEF Current, LatestOpen, Open
  <2>4. ~Booking(o)
    BY <1>1, <2>1, AloneRouting DEF Booking
  <2>5. QED
    BY <1>1, <2>2, <2>3, <2>4 DEF Due
<1>5. QED
  BY <1>2, <1>3, <1>4

LEMMA DueStep ==
    TypeInv /\ OneAtATime /\ Uncrossed /\ Current /\ Reviewed /\ Due /\ [Next]_vars => Due'
<1> SUFFICES ASSUME TypeInv, OneAtATime, Uncrossed, Current, Reviewed, Due, [Next]_vars, Alone'
             PROVE  Due'
  BY DEF Due
<1>1. CASE UNCHANGED <<orders, visits>>
  BY <1>1, DueKept DEF Due
<1>2. ASSUME NEW c \in Cases, NEW by, orders' = orders \cup {[case |-> c, by |-> by]},
             UNCHANGED visits, case'[c].type = "order", Ordering(c)',
             \A r \in orders : r.case # c
      PROVE  Due'
  BY <1>2, DueKept DEF Due
<1>3. ASSUME NEW c \in Cases, NEW by, visits' = visits \cup {[case |-> c, by |-> by]},
             UNCHANGED orders, case'[c].type = "visit", Booking(c)',
             \A r \in visits : r.case # c
      PROVE  Due'
  BY <1>3, DueKept DEF Due
<1>4. ASSUME NEW m \in Messages, PlaceOrder(m) PROVE Due'
  <2>1. route'[m].pc = "ordered" /\ route'[m].open = route[m].open /\ UNCHANGED <<case, visits>>
    BY <1>4, GotoMoves DEF PlaceOrder, TypeInv, Moves, Pcs, rows
  <2>2. Ordering(route[m].open)'
    BY <2>1 DEF Ordering
  <2>3. QED
    BY <1>2, <1>4, <2>1, <2>2, NewOrder DEF PlaceOrder
<1>5. ASSUME NEW p \in People, MakeOrder(p) PROVE Due'
  <2>1. /\ req'[p].op = "accept" /\ req'[p].pc = "made" /\ req'[p].case = req[p].case
        /\ UNCHANGED <<case, visits>>
    BY <1>5, StepAsks DEF MakeOrder, Accepting, rows
  <2>2. Ordering(req[p].case)'
    BY <2>1 DEF Ordering, Accepting
  <2>3. req[p].case \in Cases /\ case[req[p].case].type = "order"
    BY <1>5 DEF MakeOrder, Accepting, TypeInv, Asked, Typed
  <2>4. QED
    BY <1>2, <1>5, <2>1, <2>2, <2>3, NewOrder DEF MakeOrder
<1>6. ASSUME NEW m \in Messages, BookVisit(m) PROVE Due'
  <2>1. PICK o \in Cases : /\ o = route[m].open /\ case[o].type = "visit"
                           /\ \A r \in visits : r.case # o
    BY <1>6, NewOrder
  <2>2. /\ route'[m].pc = "booked" /\ route'[m].open = o /\ UNCHANGED <<case, orders>>
        /\ visits' = visits \cup {[case |-> o, by |-> m]}
    BY <1>6, <2>1, GotoMoves DEF BookVisit, TypeInv, Moves, Pcs, rows
  <2>3. Booking(o)'
    BY <2>2 DEF Booking
  <2>4. QED
    BY <1>3, <2>1, <2>2, <2>3
<1>7. QED
  <2>1. ASSUME NEW m \in Messages, RouteStep(m), ~PlaceOrder(m), ~BookVisit(m)
        PROVE  UNCHANGED <<orders, visits>>
    BY <2>1 DEF RouteStep, Identify, MarkPending, OpenTurn, ThrowEarly, ThrowLate, Deliver,
        FailReply, Greet, KeepSilent, Escalate, HandOff, DraftOrder, EndDraft, AgentAnswers,
        AgentFails, Plan, PlannerAnswers, PlannerReviews, Confirm, AskAboutOrder,
        MarkExecuted, LogCreated, StartCase, UpdateCase, OpenSubcase, EditVisit,
        CustomerForVisit, RecordVisit, GeneralAgent, CloseCustomer, Bridge, made
  <2>2. ASSUME NEW p \in People, Ask(p) \/ Answer(p), ~MakeOrder(p)
        PROVE  UNCHANGED <<orders, visits>>
    BY <2>2 DEF Ask, BeginClaim, BeginUpdate, BeginAccept, Begin,
        Answer, EndUpdate, ClaimCase, RefuseOrder, UndoClaim, RecordOrder,
        ReleaseConversation, FailRequest, made
  <2>3. CASE (\E m \in Messages : Handle(m)) \/ Restart \/ UNCHANGED vars
    BY <1>1, <2>3 DEF Handle, Restart, vars, made
  <2>4. QED
    BY <1>1, <1>4, <1>5, <1>6, <2>1, <2>2, <2>3 DEF Next, Quiet

\* While messages and people come one at a time and nothing fails, a case gives one
\* order or one visit: the case that is confirmed or accepted is the open one that
\* was read, and to record its result closes it for good.
THEOREM CaseGivesOne == Spec => []OneResultPerCase
<1>1. Init => Uncrossed /\ Current /\ Reviewed /\ Due
  BY Constants DEF Init, Uncrossed, Current, Reviewed, Due
<1>2. Due => OneResultPerCase
  BY DEF Due, OneResultPerCase, Of
<1>3. QED
  BY <1>1, <1>2, UncrossedStep, CurrentStep, ReviewedStep, DueStep, AlwaysOneAtATime,
     AlwaysTyped, PTL DEF Spec
=============================================================================
