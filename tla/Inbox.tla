------------------------------- MODULE Inbox -------------------------------
(***************************************************************************)
(* One WhatsApp conversation: the webhook stores a message and then routes *)
(* it, several messages at a time; every await of the routing is a step,   *)
(* and what it read before, the row of the conversation and the open case, *)
(* may have changed since.  Meanwhile the people of the inbox take the     *)
(* conversation, move it, close it, and make orders from its cases.        *)
(*                                                                         *)
(* Turns of an expense case are those of CaseExecution.                    *)
(***************************************************************************)
EXTENDS Naturals, FiniteSets

CONSTANTS
    Messages,       \* kapsoMessageId of the messages of the conversation
    Cases,          \* ids of its cases, in the order they are given
    People,         \* users of the inbox
    Roles,          \* UNICANAL_AGENT_ROLES
    RoleOf,         \* role of each user, "supervisor" for those who see it all
    Senders,        \* what resolveSenderByPhone may say of the number
    None,
    Updates,        \* what updateConversation is asked for in this instance
    MaxInFlight,    \* bounds of the model: messages routed at the same time,
    MaxFailures,    \* statements and calls that fail, and restarts of the process,
    MaxRequests     \* requests of the people

ASSUME PeopleAssumption ==
    /\ RoleOf \in [People -> Roles \cup {"supervisor"}]
    /\ "comercial" \in Roles /\ "supervisor" \notin Roles
    /\ None \notin Roles /\ None \notin People /\ None \notin Cases
    /\ Senders \subseteq {"cliente", "desconocido", "comercial"}
    /\ People \cap Messages = {} /\ Cases \subseteq Nat

Statuses == {"nuevo", "pendiente", "en_gestion", "resuelto"}

Columns == {"status", "role", "user"}

\* A status, an area or an owner, or several of them: `asked` says which.
ASSUME UpdatesAssumption ==
    Updates \subseteq [asked : SUBSET Columns, status : Statuses, role : Roles,
                      user : People \cup {None}]

VARIABLES
    sender,         \* whose phone it is
    conv,           \* the row of WhatsAppConversation
    case,           \* rows of NoraConversationCase
    recent,         \* ... by updatedAt: <<d, c>> when c was updated after d
    route,          \* the routing of each message
    req,            \* the request each user is waiting for
    orders, visits, \* rows made, with the case and who made them
    logged,         \* messages whose log says that an order was created
    sent,           \* replies of Nora that reached the phone, for each message
    failures, served,
    overlap,        \* history: two handlers were at work at the same time
    attended,       \* history: messages a person has been in charge of since they came
    promised        \* history: the client was told that a person will answer

rows == <<conv, case, recent>>
made == <<orders, visits, logged>>
history == <<overlap, attended, promised>>
counters == <<failures, served>>
vars == <<sender, rows, route, req, made, sent, counters, history>>
-----------------------------------------------------------------------------
ConvRow ==
    [status : Statuses,
     role : Roles \cup {None}, user : People \cup {None},
     known : BOOLEAN]            \* customerId is set

NewConv == [status |-> "nuevo", role |-> None, user |-> None, known |-> FALSE]

\* `ready`: a visit with customer, date and summary.
CaseRow ==
    [type : {"absent", "order", "visit", "new_customer"},
     status : {"collecting_info", "ready_for_review", "executed"},
     claim : BOOLEAN, ready : BOOLEAN, parent : Cases \cup {None}]

NoCase == [type |-> "absent", status |-> "collecting_info", claim |-> FALSE,
           ready |-> FALSE, parent |-> None]

\* `seen`: the row as the webhook's transaction returned it.  `as`: who writes.
\* `open`, `was`: the open case as findOpenCase read it.  `on`: whether a reply
\* that fails is tried again, as that of an agent is, by the planner.
Routing ==
    [pc : {"none", "stored", "identified", "marked", "turn", "drafted", "plan", "candidate",
           "ordered", "executed", "booked", "created", "reply", "done"},
     seen : ConvRow, as : {"cliente", "desconocido", "comercial"}, just : BOOLEAN,
     open : Cases \cup {None}, was : CaseRow, on : {"agent", "last"}]

Unrouted == [pc |-> "none", seen |-> NewConv, as |-> "desconocido", just |-> FALSE,
             open |-> None, was |-> NoCase, on |-> "last"]

\* `sets`: the columns of the conversation it writes, and `to` what to.
Request ==
    [op : {"none", "claim", "update", "accept"},
     pc : {"idle", "read", "claimed", "made", "undo", "recorded"},
     sets : SUBSET Columns, to : ConvRow, case : Cases \cup {None}]

Idle == [op |-> "none", pc |-> "idle", sets |-> {}, to |-> NewConv, case |-> None]

InFlight == {m \in Messages : route[m].pc \notin {"none", "done"}}

Busy == {p \in People : req[p] # Idle}

\* Two handlers at once: a second one begins before the first has ended.
Overlaps == overlap' = (overlap \/ InFlight # {} \/ Busy # {})

Open(c) == case[c].type # "absent" /\ case[c].status \in {"collecting_info", "ready_for_review"}

\* Ids are given in their order.
Fresh ==
    {c \in Cases : case[c].type = "absent" /\ \A d \in Cases : case[d].type = "absent" => c <= d}

\* findOpenCase: the one updated last.
LatestOpen ==
    LET open == {c \in Cases : Open(c)}
    IN  IF open = {} THEN {None} ELSE {c \in open : \A d \in open \ {c} : <<d, c>> \in recent}

Touch(c) == recent' = {x \in recent : x[1] # c /\ x[2] # c} \cup ((Cases \ {c}) \X {c})

PutCase(c, row) == case' = [case EXCEPT ![c] = row] /\ Touch(c)

Goto(m, pc) == route' = [route EXCEPT ![m].pc = pc]

End(m) == route' = [route EXCEPT ![m] = [Unrouted EXCEPT !.pc = "done"]]

\* A turn goes on, and does not look at the row of the conversation again.
Proceed(m, pc, on) ==
    route' = [route EXCEPT ![m].pc = pc, ![m].on = on, ![m].seen = NewConv]

\* Only the planner needs what was read, after an agent whose reply failed.
ReplyOn(m, on) ==
    IF on = "agent" THEN Proceed(m, "reply", on)
                    ELSE route' = [route EXCEPT ![m] = [Unrouted EXCEPT !.pc = "reply", !.on = on]]

\* A person is in charge: the rule of the inbox.
Attended(row) ==
    (row.role # None \/ row.user # None) /\ row.status \in {"pendiente", "en_gestion"}

\* Who has been in charge of a message stays so only while the row says so.
Write(row) ==
    /\ conv' = row
    /\ attended' = IF Attended(row) THEN attended ELSE {}

Fail == failures < MaxFailures /\ failures' = failures + 1 /\ UNCHANGED served
-----------------------------------------------------------------------------
(***************************************************************************)
(* The webhook                                                             *)
(***************************************************************************)

\* Mutant: a message delivered again is stored and routed again.
IndexAllows_NoIndex(m) == route[m].pc \in {"none", "done"}

\* kapsoMessageId is unique: Kapso may deliver a message again, also one whose
\* routing was lost, and gets an error.
IndexAllows(m) == route[m].pc = "none"

Handle(m) ==
    /\ IndexAllows(m)
    /\ Cardinality(InFlight) < MaxInFlight
    /\ route' = [route EXCEPT ![m] = [Unrouted EXCEPT !.pc = "stored", !.seen = conv]]
    /\ attended' = IF Attended(conv) THEN attended \cup {m} ELSE attended
    /\ Overlaps
    /\ UNCHANGED <<sender, rows, req, made, sent, counters, promised>>

\* An unknown number is the client it was linked to, or the one whose NIT it names.
WhoWrites(seen, nit) ==
    IF sender = "desconocido" /\ (seen.known \/ nit) THEN "cliente" ELSE sender

\* updateConversationIdentity
Linked(as) == CASE as = "cliente"   -> [conv EXCEPT !.known = TRUE]
                [] as = "comercial" -> [conv EXCEPT !.known = FALSE]
                [] OTHER -> conv

Identify(m) ==
    LET seen == route[m].seen IN
    /\ route[m].pc = "stored"
    /\ \E nit \in BOOLEAN :
         LET as == WhoWrites(seen, nit)
         IN  /\ route' = [route EXCEPT ![m].pc = IF as = "desconocido" /\ seen.status = "nuevo"
                                                 THEN "identified" ELSE "marked",
                                       ![m].as = as,
                                       ![m].just = (sender = "desconocido" /\ ~seen.known /\ nit)]
             /\ conv' = Linked(as)
    /\ UNCHANGED <<sender, case, recent, req, made, sent, counters, history>>

\* A new conversation of an unknown number waits for its NIT.
MarkPending(m) ==
    /\ route[m].pc = "identified"
    /\ Goto(m, "marked")
    /\ Write([conv EXCEPT !.status = "pendiente"])
    /\ UNCHANGED <<sender, case, recent, req, made, sent, counters, overlap, promised>>

\* The log is created, the context and the open case are read.
OpenTurn(m) ==
    /\ route[m].pc = "marked"
    /\ \E c \in LatestOpen :
         route' = [route EXCEPT ![m].pc = "turn", ![m].open = c,
                                ![m].was = IF c = None THEN NoCase ELSE case[c]]
    /\ UNCHANGED <<sender, rows, req, made, sent, counters, history>>

\* Up to here an error goes back to the webhook, and nobody routes the message again.
ThrowEarly(m) ==
    /\ route[m].pc \in {"stored", "identified", "marked"}
    /\ Fail
    /\ End(m)
    /\ UNCHANGED <<sender, rows, req, made, sent, history>>

\* From here the outer catch records it in the log.
ThrowLate(m) ==
    /\ route[m].pc \in {"turn", "plan", "candidate", "ordered", "executed", "booked"}
    /\ Fail
    /\ End(m)
    /\ UNCHANGED <<sender, rows, req, made, sent, history>>
-----------------------------------------------------------------------------
(***************************************************************************)
(* Replies (sendAgentReply)                                                *)
(***************************************************************************)
Deliver(m) ==
    /\ route[m].pc = "reply"
    /\ sent' = [sent EXCEPT ![m] = @ + 1]
    /\ End(m)
    /\ UNCHANGED <<sender, rows, req, made, counters, history>>

\* The provider refuses it, or it was delivered and its row could not be set
\* to sent: an agent's turn begins anew with the planner.
FailReply(m) ==
    /\ route[m].pc = "reply"
    /\ Fail
    /\ \E delivered \in {0, 1} : sent' = [sent EXCEPT ![m] = @ + delivered]
    /\ IF route[m].on = "agent" THEN Proceed(m, "plan", "last") ELSE End(m)
    /\ UNCHANGED <<sender, rows, req, made, history>>
-----------------------------------------------------------------------------
(***************************************************************************)
(* A turn of a client or of an unknown number                              *)
(***************************************************************************)
Turn(m, as) == route[m].pc = "turn" /\ route[m].as = as

Greet(m) ==
    /\ Turn(m, "cliente") /\ route[m].just
    /\ ReplyOn(m, "last")
    /\ UNCHANGED <<sender, rows, req, made, sent, counters, history>>

\* Mutant: only what waits in an inbox keeps Nora silent.
Silent_Pending(m) == Attended(route[m].seen) /\ route[m].seen.status = "pendiente"

\* The rule of the inbox looks at the row the webhook returned.
Silent(m) == Attended(route[m].seen)

KeepSilent(m) ==
    /\ Turn(m, "cliente") /\ ~route[m].just /\ Silent(m)
    /\ End(m)
    /\ UNCHANGED <<sender, rows, req, made, sent, counters, history>>

Answerable(m) == Turn(m, "cliente") /\ ~route[m].just /\ ~Silent(m)

\* A NIT nobody has, or the fourth message without one.
Escalate(m) ==
    LET seen == route[m].seen IN
    /\ Turn(m, "desconocido") /\ seen.status # "nuevo"
    /\ IF seen.role = None /\ seen.user = None
       THEN /\ Write([conv EXCEPT !.role = "comercial", !.status = "pendiente"])
            /\ promised' = TRUE
            /\ ReplyOn(m, "last")
       ELSE End(m) /\ UNCHANGED <<conv, attended, promised>>
    /\ UNCHANGED <<sender, case, recent, req, made, sent, counters, overlap>>

\* The customer agent: no open case, as it was read.
AgentTurn(m) == Answerable(m) /\ route[m].open = None

\* Mutant: the handoff keeps the status of the conversation.
HandOff_KeepsStatus(m) ==
    /\ AgentTurn(m)
    /\ \E role \in Roles : Write([conv EXCEPT !.role = role, !.user = None])
    /\ promised' = TRUE
    /\ ReplyOn(m, "agent")
    /\ UNCHANGED <<sender, case, recent, req, made, sent, counters, overlap>>

\* To the area it names, or to comercial for an order without lines.
HandOff(m) ==
    /\ AgentTurn(m)
    /\ \E role \in Roles :
         Write([conv EXCEPT !.role = role, !.status = "pendiente", !.user = None])
    /\ promised' = TRUE
    /\ ReplyOn(m, "agent")
    /\ UNCHANGED <<sender, case, recent, req, made, sent, counters, overlap>>

\* armar_pedido: the case ...
DraftOrder(m) ==
    /\ AgentTurn(m)
    /\ \E c \in Fresh :
         PutCase(c, [NoCase EXCEPT !.type = "order", !.status = "ready_for_review"])
    /\ Goto(m, "drafted")
    /\ UNCHANGED <<sender, conv, req, made, sent, counters, history>>

\* ... and then the conversation: of the area, with nothing to wait for.
EndDraft(m) ==
    /\ route[m].pc = "drafted"
    /\ Write([conv EXCEPT !.role = "comercial", !.status = "resuelto", !.user = None])
    /\ ReplyOn(m, "agent")
    /\ UNCHANGED <<sender, case, recent, req, made, sent, counters, overlap, promised>>

AgentAnswers(m) ==
    /\ AgentTurn(m)
    /\ ReplyOn(m, "agent")
    /\ UNCHANGED <<sender, rows, req, made, sent, counters, history>>

\* An agent fails, or a statement of its turn does: on to the planner.
AgentFails(m) ==
    /\ AgentTurn(m) \/ route[m].pc \in {"drafted", "created"}
    /\ Fail
    /\ Proceed(m, "plan", "last")
    /\ UNCHANGED <<sender, rows, req, made, sent, history>>
-----------------------------------------------------------------------------
(***************************************************************************)
(* The planner (requestNoraRoute): the way of every turn nothing else took *)
(***************************************************************************)
Plan(m) ==
    /\ Answerable(m) \/ Turn(m, "comercial") \/ Turn(m, "desconocido")
    /\ Proceed(m, "plan", "last")
    /\ UNCHANGED <<sender, rows, req, made, sent, counters, history>>

\* A question, a greeting, the request of a NIT.
PlannerAnswers(m) ==
    /\ route[m].pc = "plan"
    /\ ReplyOn(m, "last")
    /\ UNCHANGED <<sender, rows, req, made, sent, counters, history>>

\* requires_human_review: a proposal in the log and no reply.
PlannerReviews(m) ==
    /\ route[m].pc = "plan" /\ route[m].as # "desconocido"
    /\ End(m)
    /\ UNCHANGED <<sender, rows, req, made, sent, counters, history>>

\* findExistingAutomatedOrder: an order of the conversation, and a log that says so.
AutomatedOrder == orders # {} /\ logged # {}

\* "si" to an order case that was complete when the turn began: the router sends
\* an order_candidate.
Confirm(m) ==
    /\ route[m].pc = "plan" /\ route[m].as # "desconocido"
    /\ route[m].was.type = "order" /\ route[m].was.status = "ready_for_review"
    /\ IF AutomatedOrder THEN End(m) ELSE Goto(m, "candidate")
    /\ UNCHANGED <<sender, rows, req, made, sent, counters, history>>

\* orderAutomation.process: created ...
PlaceOrder(m) ==
    /\ route[m].pc = "candidate"
    /\ orders' = orders \cup {[case |-> route[m].open, by |-> m]}
    /\ Goto(m, "ordered")
    /\ UNCHANGED <<sender, rows, req, visits, logged, sent, counters, history>>

\* ... or a question, or a review by a person.
AskAboutOrder(m) ==
    /\ route[m].pc = "candidate"
    /\ ReplyOn(m, "last") \/ End(m)
    /\ UNCHANGED <<sender, rows, req, made, sent, counters, history>>

\* Mutant: the case is left open.
MarkExecuted_Forgets(m) ==
    /\ route[m].pc = "ordered"
    /\ Goto(m, "executed")
    /\ UNCHANGED <<sender, rows, req, made, sent, counters, history>>

\* The open case is looked up again; only its status is written.
MarkExecuted(m) ==
    /\ route[m].pc = "ordered"
    /\ Goto(m, "executed")
    /\ \E c \in LatestOpen :
         IF c # None /\ case[c].type = "order"
         THEN PutCase(c, [case[c] EXCEPT !.status = "executed"])
         ELSE UNCHANGED <<case, recent>>
    /\ UNCHANGED <<sender, conv, req, made, sent, counters, history>>

LogCreated(m) ==
    /\ route[m].pc = "executed"
    /\ logged' = logged \cup {m}
    /\ ReplyOn(m, "last")
    /\ UNCHANGED <<sender, rows, req, orders, visits, sent, counters, history>>

\* What a message may start, by who writes it and what was open: a visit and a
\* customer are gone on with, and only platform users have them.
Startable(m) ==
    CASE route[m].was.type \in {"visit", "new_customer"} -> {}
      [] route[m].as = "comercial" -> {"order", "visit", "new_customer"} \ {route[m].was.type}
      [] OTHER -> {"order"} \ {route[m].was.type}

\* prepareVisitCaseReply: complete when nothing is missing and one customer matches.
Prepared(type) == IF type = "visit" THEN BOOLEAN ELSE {FALSE}

\* Complete orders and customers wait for a review.
Collected(type) ==
    IF type = "visit" THEN {"collecting_info"} ELSE {"collecting_info", "ready_for_review"}

StartCase(m) ==
    /\ route[m].pc = "plan" /\ route[m].as # "desconocido"
    /\ \E c \in Fresh, type \in Startable(m) :
         \E status \in Collected(type), ready \in Prepared(type) :
           PutCase(c, [NoCase EXCEPT !.type = type, !.status = status, !.ready = ready])
    /\ ReplyOn(m, "last")
    /\ UNCHANGED <<sender, conv, req, made, sent, counters, history>>

\* update_case: by id, whatever became of the case since it was read.
UpdateCase(m) ==
    LET c == route[m].open IN
    /\ route[m].pc = "plan" /\ route[m].as # "desconocido"
    /\ c # None
    /\ \/ /\ case[c].type = "order" /\ route[m].was.status = "collecting_info"
          /\ PutCase(c, [case[c] EXCEPT !.status = "ready_for_review"])
       \/ /\ case[c].type = "new_customer"
          /\ \E status \in {case[c].status, "ready_for_review"} :
               PutCase(c, [case[c] EXCEPT !.status = status])
       \/ /\ case[c].type = "visit"
          /\ \E ready \in Prepared("visit") :
               PutCase(c, [case[c] EXCEPT !.status = "collecting_info", !.ready = ready])
    /\ ReplyOn(m, "last")
    /\ UNCHANGED <<sender, conv, req, made, sent, counters, history>>

Subcases(c) == {d \in Cases : case[d].type = "new_customer" /\ case[d].parent = c /\ Open(d)}

\* Mutant: nobody looks for one that is open already.
OpenSubcase_Always(m) ==
    /\ route[m].pc = "plan" /\ route[m].as # "desconocido" /\ route[m].was.type = "order"
    /\ \E d \in Fresh :
         PutCase(d, [NoCase EXCEPT !.type = "new_customer", !.parent = route[m].open])
    /\ ReplyOn(m, "last")
    /\ UNCHANGED <<sender, conv, req, made, sent, counters, history>>

\* create_new_customer_subcase, with the order case locked.
OpenSubcase(m) ==
    /\ route[m].pc = "plan" /\ route[m].as # "desconocido" /\ route[m].was.type = "order"
    /\ IF Subcases(route[m].open) # {}
       THEN UNCHANGED <<case, recent>>
       ELSE \E d \in Fresh :
              PutCase(d, [NoCase EXCEPT !.type = "new_customer", !.parent = route[m].open])
    /\ ReplyOn(m, "last")
    /\ UNCHANGED <<sender, conv, req, made, sent, counters, history>>
-----------------------------------------------------------------------------
(***************************************************************************)
(* A turn of a platform user: visits (handleVisitCaseTurn) and customers   *)
(***************************************************************************)
VisitTurn(m) == Turn(m, "comercial") /\ route[m].was.type = "visit"

\* Begun again, none of the list, or a customer chosen from it.
EditVisit(m) ==
    /\ VisitTurn(m)
    /\ \E ready \in BOOLEAN :
         PutCase(route[m].open, [case[route[m].open] EXCEPT !.ready = ready])
    /\ ReplyOn(m, "last")
    /\ UNCHANGED <<sender, conv, req, made, sent, counters, history>>

\* "crear cliente": a subcase of the visit, with no look at those there are.
CustomerForVisit(m) ==
    /\ VisitTurn(m)
    /\ \E d \in Fresh :
         PutCase(d, [NoCase EXCEPT !.type = "new_customer", !.parent = route[m].open])
    /\ ReplyOn(m, "last")
    /\ UNCHANGED <<sender, conv, req, made, sent, counters, history>>

\* "si": from the data that was read, and without a claim.
BookVisit(m) ==
    /\ VisitTurn(m) /\ route[m].was.ready
    /\ visits' = visits \cup {[case |-> route[m].open, by |-> m]}
    /\ Goto(m, "booked")
    /\ UNCHANGED <<sender, rows, req, orders, logged, sent, counters, history>>

RecordVisit(m) ==
    /\ route[m].pc = "booked"
    /\ PutCase(route[m].open, [case[route[m].open] EXCEPT !.status = "executed", !.claim = TRUE])
    /\ ReplyOn(m, "last")
    /\ UNCHANGED <<sender, conv, req, made, sent, counters, history>>

\* The general agent works through the tools of the API.  It has the turns with
\* nothing open, those of a new customer, and those that ask to delete a visit or
\* to edit something, whatever is open.
GeneralAgent(m) ==
    /\ Turn(m, "comercial")
    /\ ReplyOn(m, "agent")
    /\ UNCHANGED <<sender, rows, req, made, sent, counters, history>>

\* Its tools made what the case of a new customer was open for.
CloseCustomer(m) ==
    LET c == route[m].open IN
    /\ Turn(m, "comercial") /\ route[m].was.type = "new_customer"
    /\ PutCase(c, [case[c] EXCEPT !.status = "executed"])
    /\ Goto(m, "created")
    /\ UNCHANGED <<sender, conv, req, made, sent, counters, history>>

\* bridgeNewCustomerToParentVisit: if it is a customer and was needed for a visit,
\* whatever became of the visit.
Bridge(m) ==
    LET visit == case[route[m].open].parent IN
    /\ route[m].pc = "created"
    /\ \/ UNCHANGED <<case, recent>>
       \/ /\ visit # None /\ case[visit].type = "visit"
          /\ \E ready \in BOOLEAN : PutCase(visit, [case[visit] EXCEPT !.ready = ready])
    /\ ReplyOn(m, "agent")
    /\ UNCHANGED <<sender, conv, req, made, sent, counters, history>>
-----------------------------------------------------------------------------
(***************************************************************************)
(* The people of the inbox                                                 *)
(***************************************************************************)
Supervisor(p) == RoleOf[p] = "supervisor"

\* assertCanAccess
CanAccess(p) == Supervisor(p) \/ conv.role = RoleOf[p] \/ conv.user = p

\* assertCanReassign
CanReassign(p) == Supervisor(p) \/ conv.user = p

Begin(p, op, sets, to, c) ==
    /\ req[p] = Idle /\ served < MaxRequests
    /\ \E m \in Messages : route[m].pc # "none"    \* the conversation exists
    /\ req' = [req EXCEPT ![p] = [op |-> op, pc |-> "read", sets |-> sets, to |-> to,
                                  case |-> c]]
    /\ served' = served + 1
    /\ Overlaps
    /\ UNCHANGED <<sender, rows, route, made, sent, failures, attended, promised>>

\* claimConversation: the assignee is looked at here and written without a condition.
BeginClaim(p) ==
    /\ Supervisor(p) \/ conv.role = RoleOf[p]
    /\ conv.user \in {None, p}
    /\ Begin(p, "claim", {"status", "user"},
             [NewConv EXCEPT !.user = p, !.status = "en_gestion"], None)

\* An area is a handoff, and the area follows the owner.
Sets(u) ==
    u.asked \cup (IF "role" \in u.asked THEN {"status", "user"} ELSE {})
            \cup (IF "user" \in u.asked /\ u.user # None THEN {"role"} ELSE {})

Asking(u) ==
    [NewConv EXCEPT
       !.status = IF "status" \in u.asked THEN u.status
                  ELSE IF "role" \in u.asked THEN "pendiente" ELSE @,
       !.role = IF "user" \in u.asked /\ u.user # None THEN RoleOf[u.user]
                ELSE IF "role" \in u.asked THEN u.role ELSE @,
       !.user = IF "user" \in u.asked THEN u.user ELSE @]

\* Mutant: whether the user attends is not asked.
BeginUpdate_Anyone(p, u) ==
    /\ CanAccess(p)
    /\ u.asked \cap {"role", "user"} # {} => CanReassign(p)
    /\ Begin(p, "update", Sets(u), Asking(u), None)

\* updateConversation: an owner is a user who attends, or nobody.
BeginUpdate(p, u) ==
    /\ CanAccess(p)
    /\ u.asked \cap {"role", "user"} # {} => CanReassign(p)
    /\ "user" \in u.asked /\ u.user # None => RoleOf[u.user] \in Roles
    /\ Begin(p, "update", Sets(u), Asking(u), None)

\* Only the columns of the request are written.
Written(p) ==
    LET to == req[p].to
        sets == req[p].sets
    IN  [conv EXCEPT !.status = IF "status" \in sets THEN to.status ELSE @,
                     !.role = IF "role" \in sets THEN to.role ELSE @,
                     !.user = IF "user" \in sets THEN to.user ELSE @]

EndUpdate(p) ==
    /\ req[p].op \in {"claim", "update"}
    /\ Write(Written(p))
    /\ promised' = FALSE
    /\ req' = [req EXCEPT ![p] = Idle]
    /\ UNCHANGED <<sender, case, recent, route, made, sent, counters, overlap>>

\* createOrderFromCase
BeginAccept(p, c) ==
    /\ CanAccess(p)
    /\ case[c].type = "order" /\ case[c].status = "ready_for_review" /\ ~case[c].claim
    /\ Begin(p, "accept", {}, NewConv, c)

Accepting(p, pc) == req[p].op = "accept" /\ req[p].pc = pc

Step(p, pc) == req' = [req EXCEPT ![p].pc = pc]

ClaimCase(p) ==
    LET c == req[p].case IN
    /\ Accepting(p, "read")
    /\ IF case[c].claim
       THEN req' = [req EXCEPT ![p] = Idle] /\ UNCHANGED <<case, recent>>
       ELSE Step(p, "claimed") /\ PutCase(c, [case[c] EXCEPT !.claim = TRUE])
    /\ UNCHANGED <<sender, conv, route, made, sent, counters, history>>

MakeOrder(p) ==
    /\ Accepting(p, "claimed")
    /\ orders' = orders \cup {[case |-> req[p].case, by |-> p]}
    /\ Step(p, "made")
    /\ UNCHANGED <<sender, rows, route, visits, logged, sent, counters, history>>

\* A datum is missing: the claim is given back.
RefuseOrder(p) ==
    /\ Accepting(p, "claimed")
    /\ Step(p, "undo")
    /\ UNCHANGED <<sender, rows, route, made, sent, counters, history>>

UndoClaim(p) ==
    /\ Accepting(p, "undo")
    /\ PutCase(req[p].case, [case[req[p].case] EXCEPT !.claim = FALSE])
    /\ req' = [req EXCEPT ![p] = Idle]
    /\ UNCHANGED <<sender, conv, route, made, sent, counters, history>>

RecordOrder(p) ==
    /\ Accepting(p, "made")
    /\ PutCase(req[p].case, [case[req[p].case] EXCEPT !.status = "executed", !.claim = TRUE])
    /\ Step(p, "recorded")
    /\ UNCHANGED <<sender, conv, route, made, sent, counters, history>>

\* The conversation goes back to Nora.
ReleaseConversation(p) ==
    /\ Accepting(p, "recorded")
    /\ Write([conv EXCEPT !.role = None, !.user = None, !.status = "resuelto"])
    /\ promised' = FALSE
    /\ req' = [req EXCEPT ![p] = Idle]
    /\ UNCHANGED <<sender, case, recent, route, made, sent, counters, overlap>>

FailRequest(p) ==
    /\ req[p] # Idle
    /\ Fail
    /\ req' = [req EXCEPT ![p] = Idle]
    /\ UNCHANGED <<sender, rows, route, made, sent, history>>
-----------------------------------------------------------------------------
\* Nothing in flight survives a restart, and nobody routes what was stored.
Restart ==
    /\ InFlight # {} \/ Busy # {}
    /\ Fail
    /\ route' = [m \in Messages |-> IF m \in InFlight THEN [Unrouted EXCEPT !.pc = "done"] ELSE route[m]]
    /\ req' = [p \in People |-> Idle]
    /\ UNCHANGED <<sender, rows, made, sent, history>>

\* Nothing is in flight, and no message and no request comes.
Quiet == InFlight = {} /\ Busy = {} /\ UNCHANGED vars

Init ==
    /\ sender \in Senders
    /\ conv = NewConv
    /\ case = [c \in Cases |-> NoCase]
    /\ recent = {}
    /\ route = [m \in Messages |-> Unrouted]
    /\ req = [p \in People |-> Idle]
    /\ orders = {} /\ visits = {} /\ logged = {}
    /\ sent = [m \in Messages |-> 0]
    /\ failures = 0 /\ served = 0
    /\ overlap = FALSE /\ attended = {} /\ promised = FALSE

RouteStep(m) ==
    \/ Identify(m) \/ MarkPending(m) \/ OpenTurn(m) \/ ThrowEarly(m) \/ ThrowLate(m)
    \/ Deliver(m) \/ FailReply(m)
    \/ Greet(m) \/ KeepSilent(m) \/ Escalate(m)
    \/ HandOff(m) \/ DraftOrder(m) \/ EndDraft(m) \/ AgentAnswers(m) \/ AgentFails(m)
    \/ Plan(m) \/ PlannerAnswers(m) \/ PlannerReviews(m)
    \/ Confirm(m) \/ PlaceOrder(m) \/ AskAboutOrder(m) \/ MarkExecuted(m) \/ LogCreated(m)
    \/ StartCase(m) \/ UpdateCase(m) \/ OpenSubcase(m)
    \/ EditVisit(m) \/ CustomerForVisit(m) \/ BookVisit(m) \/ RecordVisit(m)
    \/ GeneralAgent(m) \/ CloseCustomer(m) \/ Bridge(m)

Ask(p) ==
    \/ BeginClaim(p)
    \/ \E u \in Updates : BeginUpdate(p, u)
    \/ \E c \in Cases : BeginAccept(p, c)

Answer(p) ==
    \/ EndUpdate(p)
    \/ ClaimCase(p) \/ MakeOrder(p) \/ RefuseOrder(p) \/ UndoClaim(p)
    \/ RecordOrder(p) \/ ReleaseConversation(p)
    \/ FailRequest(p)

Next ==
    \/ \E m \in Messages : Handle(m) \/ RouteStep(m)
    \/ \E p \in People : Ask(p) \/ Answer(p)
    \/ Restart
    \/ Quiet

Spec == Init /\ [][Next]_vars
-----------------------------------------------------------------------------
(***************************************************************************)
(* Properties                                                              *)
(***************************************************************************)
TypeOK ==
    /\ sender \in Senders
    /\ conv \in ConvRow
    /\ case \in [Cases -> CaseRow]
    /\ recent \subseteq Cases \X Cases
    /\ route \in [Messages -> Routing]
    /\ req \in [People -> Request]
    /\ orders \subseteq [case : Cases \cup {None}, by : Messages \cup People]
    /\ visits \subseteq [case : Cases \cup {None}, by : Messages \cup People]
    /\ logged \subseteq Messages
    /\ sent \in [Messages -> Nat]
    /\ failures \in Nat /\ served \in Nat
    /\ overlap \in BOOLEAN /\ promised \in BOOLEAN /\ attended \subseteq Messages

Alone == ~overlap /\ failures = 0

Of(rows_, c) == {r \in rows_ : r.case = c}

\* "does not create duplicate orders when Nora retries the same order candidate":
\* while messages and people come one at a time and nothing fails, a case gives one
\* order or one visit, whoever asks for it and however often it is confirmed, edited
\* or read again: the client's "si" through the planner, or a person of the inbox.
OneResultPerCase ==
    Alone => \A c \in Cases :
                 /\ \A r, s \in Of(orders, c) : r = s
                 /\ \A r, s \in Of(visits, c) : r = s

\* A message is answered once at most, though it is delivered again, agents give
\* way to the planner and routings overlap, unless a call of its turn failed.
OneReplyPerMessage == failures = 0 => \A m \in Messages : sent[m] <= 1

\* "does not run the customer agent when the conversation is already assigned to
\* a human": Nora does not answer a client's message that came while a person was
\* in charge, and has been since.
HumanIsNotTalkedOver ==
    sender = "cliente" => \A m \in attended : sent[m] = 0

\* A client who was promised a person waits in the inbox of an area until one
\* acts, whatever else he writes, while his messages are routed one at a time.
PromiseIsKept ==
    promised /\ ~overlap => conv.role # None /\ conv.status = "pendiente"

\* The new customer of an order case is asked for in one case, with any number of
\* turns at a time: the row of the order case is locked while one is looked for.
OneCustomerCollecting ==
    \A c \in Cases : case[c].type = "order" =>
        \A d, e \in {d \in Subcases(c) : case[d].status = "collecting_info"} : d = e
=============================================================================
