----------------------------- MODULE NoticePush -----------------------------
(***************************************************************************)
(* The notices of the bell on their way to the telephone.  The rows of     *)
(* Notification with no pushedAt are an outbox; every five minutes a run   *)
(* takes a batch of them, the oldest first, and marks each before it calls *)
(* the provider.  A slow run, or another replica of the API, may overlap   *)
(* with the next; notices go on being inserted, and go with their user.    *)
(*                                                                         *)
(* Ids are numbers in the order of createdAt.  A notice is young while it  *)
(* is within PUSH_MAX_AGE_MINUTES; a run tells by the row it read.         *)
(***************************************************************************)
EXTENDS Outbox, FiniteSets

CONSTANTS
    Runs,         \* runs of the cron that may be under way at a time
    Inactive,     \* notices of users who left
    MaxFailures   \* bound of the model: statements that fail, answers lost, restarts

ASSUME InactiveAssumption == Inactive \subseteq Notices

VARIABLES
    notice,     \* rows of Notification
    run,        \* runs of push
    message,    \* rows of WhatsAppMessage, of each notice
    failures

vars == <<notice, run, message, failures, overlap, delivered>>
-----------------------------------------------------------------------------
NoticeRow == [status : {"absent", "there", "gone"}, pushed : BOOLEAN, young : BOOLEAN]

Rested == [pc |-> "rest", todo |-> {}]

\* `todo`: what findMany read and the run has not done with.
Run == [pc : {"rest", "mark", "send", "dispatch", "record", "reject"},
        todo : SUBSET [n : Notices, young : BOOLEAN]]

DeliveryStatus == {"queued", "sent", "failed"}

Pending == {n \in Notices : notice[n].status = "there" /\ ~notice[n].pushed}

\* orderBy createdAt, take.
FirstBatch == {n \in Pending : Cardinality({m \in Pending : m < n}) < Batch}

Under(r) == run[r].pc # "rest"

First(todo) == CHOOSE x \in todo : \A y \in todo : x.n <= y.n

\* The notice the loop is at.
At(r) == First(run[r].todo)

Go(r, pc) == run' = [run EXCEPT ![r].pc = pc]

\* The loop goes on with the next notice, or the run ends.
Proceed(r) ==
    run' = [run EXCEPT ![r] = IF @.todo = {At(r)} THEN Rested
                              ELSE [pc |-> "mark", todo |-> @.todo \ {At(r)}]]

Fail == failures < MaxFailures /\ failures' = failures + 1
-----------------------------------------------------------------------------
(***************************************************************************)
(* The bell                                                                *)
(***************************************************************************)

\* emit
Insert(n) ==
    /\ notice[n].status = "absent"
    /\ \A m \in Notices : m < n => notice[m].status # "absent"
    /\ notice' = [notice EXCEPT ![n] = [status |-> "there", pushed |-> FALSE, young |-> TRUE]]
    /\ UNCHANGED <<run, message, failures, overlap, delivered>>

\* Time passes: what is older is old first.
Age(n) ==
    /\ notice[n].status = "there" /\ notice[n].young
    /\ \A m \in Notices : m < n => ~notice[m].young
    /\ notice' = [notice EXCEPT ![n].young = FALSE]
    /\ UNCHANGED <<run, message, failures, overlap, delivered>>

\* UsersService.remove: ON DELETE CASCADE.
Remove(n) ==
    /\ notice[n].status = "there"
    /\ notice' = [notice EXCEPT ![n] = [@ EXCEPT !.status = "gone", !.young = FALSE]]
    /\ UNCHANGED <<run, message, failures, overlap, delivered>>
-----------------------------------------------------------------------------
(***************************************************************************)
(* A run                                                                   *)
(***************************************************************************)
FindPending(r) ==
    /\ ~Under(r)
    /\ FirstBatch # {}
    /\ run' = [run EXCEPT ![r] = [pc |-> "mark",
                                  todo |-> {[n |-> n, young |-> notice[n].young] : n \in FirstBatch}]]
    /\ overlap' = (overlap \/ \E q \in Runs : Under(q))
    /\ UNCHANGED <<notice, message, failures, delivered>>

\* Mutant: what is not worth sending is skipped before it is marked.
Mark_SkipFirst(r) ==
    LET x == At(r) IN
    /\ run[r].pc = "mark"
    /\ notice[x.n].status = "there"
    /\ IF x.n \in Inactive \/ ~x.young
       THEN Proceed(r) /\ UNCHANGED notice
       ELSE Go(r, "send") /\ notice' = [notice EXCEPT ![x.n].pushed = TRUE]
    /\ UNCHANGED <<message, failures, overlap, delivered>>

\* pushedAt first, whoever marked it meanwhile; what is too old or belongs to a
\* user who left is marked and not sent.
Mark(r) ==
    LET x == At(r) IN
    /\ run[r].pc = "mark"
    /\ notice[x.n].status = "there"
    /\ notice' = [notice EXCEPT ![x.n].pushed = TRUE]
    /\ IF x.n \in Inactive \/ ~x.young THEN Proceed(r) ELSE Go(r, "send")
    /\ UNCHANGED <<message, failures, overlap, delivered>>

\* The update of a row that went throws, and there is nothing around it: the run ends.
MarkThrows(r) ==
    /\ run[r].pc = "mark"
    /\ notice[At(r).n].status = "gone"
    /\ run' = [run EXCEPT ![r] = Rested]
    /\ UNCHANGED <<notice, message, failures, overlap, delivered>>

\* conversationForUser, and the message in the conversation as queued.
Queue(r) ==
    LET n == At(r).n IN
    /\ run[r].pc = "send"
    /\ message' = [message EXCEPT ![n] = @ \cup {[by |-> r, status |-> "queued"]}]
    /\ Go(r, "dispatch")
    /\ UNCHANGED <<notice, failures, overlap, delivered>>

\* conversationForUser: no telephone, no account.
NoConversation(r) ==
    /\ run[r].pc = "send"
    /\ Proceed(r)
    /\ UNCHANGED <<notice, message, failures, overlap, delivered>>

\* sendViaKapsoTemplate: the provider takes it.
Deliver(r) ==
    /\ run[r].pc = "dispatch"
    /\ delivered' = [delivered EXCEPT ![At(r).n] = @ + 1]
    /\ Go(r, "record")
    /\ UNCHANGED <<notice, message, failures, overlap>>

\* It refuses it: a template that is not approved, a number that does not exist.
Refused(r) ==
    /\ run[r].pc = "dispatch"
    /\ Go(r, "reject")
    /\ UNCHANGED <<notice, message, failures, overlap, delivered>>

\* It takes it and the answer does not come.
LoseAnswer(r) ==
    /\ run[r].pc = "dispatch"
    /\ Fail
    /\ delivered' = [delivered EXCEPT ![At(r).n] = @ + 1]
    /\ Go(r, "reject")
    /\ UNCHANGED <<notice, message, overlap>>

Record(r, status) ==
    message' = [message EXCEPT ![At(r).n] =
        {IF m.by = r /\ m.status = "queued" THEN [m EXCEPT !.status = status] ELSE m : m \in @}]

RecordSent(r) ==
    /\ run[r].pc = "record"
    /\ Record(r, "sent")
    /\ Proceed(r)
    /\ UNCHANGED <<notice, failures, overlap, delivered>>

\* Mutant: the mark is taken back, so that the next run tries again.
RecordFailed_Retry(r) ==
    /\ run[r].pc = "reject"
    /\ Record(r, "failed")
    /\ notice' = [notice EXCEPT ![At(r).n].pushed = FALSE]
    /\ Proceed(r)
    /\ UNCHANGED <<failures, overlap, delivered>>

\* The catch of persistAndDispatch; push logs what it throws and goes on.
RecordFailed(r) ==
    /\ run[r].pc = "reject"
    /\ Record(r, "failed")
    /\ Proceed(r)
    /\ UNCHANGED <<notice, failures, overlap, delivered>>

\* A statement of the message fails: push logs it and goes on.
StatementFails(r) ==
    /\ run[r].pc \in {"send", "record", "reject"}
    /\ Fail
    /\ Proceed(r)
    /\ UNCHANGED <<notice, message, overlap, delivered>>

\* The mark fails, or the process stops: what is left waits for another run.
Stop(r) ==
    /\ Under(r)
    /\ Fail
    /\ run' = [run EXCEPT ![r] = Rested]
    /\ UNCHANGED <<notice, message, overlap, delivered>>
-----------------------------------------------------------------------------
Init ==
    /\ notice = [n \in Notices |-> [status |-> "absent", pushed |-> FALSE, young |-> FALSE]]
    /\ run = [r \in Runs |-> Rested]
    /\ message = [n \in Notices |-> {}]
    /\ failures = 0
    /\ overlap = FALSE
    /\ delivered = [n \in Notices |-> 0]

Continue(r) ==
    \/ Mark(r) \/ MarkThrows(r) \/ Queue(r) \/ NoConversation(r)
    \/ Deliver(r) \/ Refused(r) \/ RecordSent(r) \/ RecordFailed(r)

\* Nothing is pending and nothing more happens.
Quiet == (\A r \in Runs : ~Under(r)) /\ UNCHANGED vars

Next ==
    \/ \E n \in Notices : Insert(n) \/ Age(n) \/ Remove(n)
    \/ \E r \in Runs : FindPending(r) \/ Continue(r) \/ LoseAnswer(r) \/ StatementFails(r) \/ Stop(r)
    \/ Quiet

\* Node takes a run on to its end, and the cron comes round again.
Fairness == \A r \in Runs : WF_vars(Continue(r)) /\ WF_vars(FindPending(r))

Spec == Init /\ [][Next]_vars /\ Fairness
-----------------------------------------------------------------------------
(***************************************************************************)
(* Properties                                                              *)
(***************************************************************************)
TypeOK ==
    /\ notice \in [Notices -> NoticeRow]
    /\ run \in [Runs -> Run]
    /\ message \in [Notices -> SUBSET [by : Runs, status : DeliveryStatus]]
    /\ failures \in Nat /\ overlap \in BOOLEAN
    /\ delivered \in [Notices -> Nat]

\* No notice stays in the outbox, though those before it are refused, are too old,
\* belong to nobody or end the run in which they are met.
OutboxDrains ==
    \A n \in Notices : [](n \in Pending => <>(n \notin Pending))
=============================================================================
