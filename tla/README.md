# Norgtech: a verification project

Norgtech is the commercial platform of a distributor: a NestJS API over Postgres
(`apps/api`), a Next.js web application (`apps/web`), and Nora, an agent service
in Python (`agents/nora`) that talks to sellers and clients over WhatsApp and in
the web chat. The API is the only writer of the business tables. It runs every
request as an asynchronous handler; handlers of one process interleave at every
`await`, several processes may run, and what keeps them apart is Postgres under
READ COMMITTED: row locks, conditional updates, unique indexes and nothing else.

This directory holds TLA+ models of the parts where that matters, the TLC runs
that check them on small instances and the TLAPS proofs of what holds for every
instance.

| module | what it models | run by | proved in |
| --- | --- | --- | --- |
| `OrderToCash` | orders, invoices, billing requests and the credit limit of a customer | credit, workflow | `OrderToCash_proofs` |
| `InvoiceSettlement` | one invoice while it is collected, and the commissions of its payments | settle_ledger, settle_balance | `InvoiceSettlement_proofs` |
| `CommissionLedger` | what the commissions promise: the abstract specification of the former | settle_ledger | `InvoiceSettlement_proofs` |
| `CaseExecution` | WhatsApp cases turned into orders and expenses | cases | `CaseExecution_proofs` |
| `Inbox` | one WhatsApp conversation: webhook, routing of messages, turns of Nora, the people of the inbox | inbox | `Inbox_proofs` |
| `VisitNotices` | the cron jobs that announce visits, and the purge of the bell | notices | `VisitNotices_proofs` |
| `NoticePush` | the notices of the bell on their way to the telephone | push | `VisitNotices_proofs` |
| `Outbox` | what the outbox of the bell promises of the telephone | push | `VisitNotices_proofs` |
| `SpecialPriceLists` | revisions of special prices, their review, and the price that applies | prices | `SpecialPriceLists_proofs` |
| `NoraTurns` | the turns of the web chat: sessions, locks, connections, threads | turns, turns_evicts | `NoraTurns_proofs` |
| `SalesDesk` | visits, tasks, opportunities and expenses: statuses and what goes with them | desk | `SalesDesk_proofs` |
| `StatusTable` | what a table of transitions promises: the abstract specification of the former | desk | `SalesDesk_proofs` |
| `Sums` | sums of money over rows | with the others | `OrderToCash_proofs`, `InvoiceSettlement_proofs` |

`MC*` modules add only the symmetry sets and the constants of the instances.
`PROJECT.json` maps every definition to the lines it stands for.

## 1. Inventory

Paths are below `apps/api/src/modules` unless they start with `agents`.

### Orders, billing and money

**Orders** (`orders/orders.service.ts`). State: the order row (status, approval,
total, guide) and its lines, each priced or waiting to be resolved. Operations:
`create`, `approveOrder`, `rejectOrder`, `updateStatus`, `updateLogistics`,
`resolveOrderItem`, `createInvoiceFromOrder`, `createBillingRequest`. The status
moves on a straight line (`recibido`, `orden_facturacion`, `facturado`,
`despachado`, `en_transito`, `entregado`), and the review is a second, independent
column. Most operations read the order first, check it, and write by id without
condition: what was read may be stale at the commit. Correct when committed credit
is never lost or taken back, and an order has at most one active invoice.

**Credit** (`credit/credit.service.ts`). Keeps no state: `assertCreditLimit` locks
the customer row with `SELECT ... FOR UPDATE`, sums open invoices and the orders
past `recibido` without active invoice, and refuses what does not fit. Called inside
the transactions of approve, advance, resolve and both ways of invoicing; `create`
calls it outside. Correct when concurrent requests never pass the limit together.

**Billing requests** (`billing-requests/`). A row per request, `pendiente` until it
is processed or rejected; processing one advances its order.

**Invoices, payments and returns** (`invoices/`, `returns/`). The invoice row carries
totals (`totalPaid`, `creditNoteTotal`) and a status computed from them. A payment
and a credit note read the row outside their transaction and write sums of what
they read. Correct when the columns agree with the rows, when an invoice is closed
only if covered, and when an annulled one stays annulled.

**Commissions** (`commissions/`). A payment causes one, a credit note reverses a
proportional part of all those of the invoice, oldest first, and the direction
liquidates them. Locks: `FOR UPDATE` on the commission rows, a conditional update
for the liquidation. Correct when no more is reversed than was caused, and each is
paid once and only with something left.

### WhatsApp

**Cases** (`whatsapp/nora-case.service.ts`, `nora-expense-execution.service.ts`,
`nora-routing.service.ts`, `whatsapp.service.ts`, `whatsapp-order-automation.service.ts`).
A case collects what a conversation says about one order, expense, visit or new
customer. A person or the planner turns an order case into an order; a turn turns an
expense case into an expense or corrects one, and a visit case into a visit. The claim is
a conditional update of one column; the row made from the case and the record of it on
the case are committed apart, and any step may fail or be the last one before a restart.
Correct when a case gives one row and is not left claimed for ever.

**Conversations, messages, webhook** (`whatsapp.service.ts`, `kapso-webhook.service.ts`,
`nora-routing.service.ts`). The conversation row says its status, its area and its owner.
The webhook commits an inbound message, unique by the id of the provider, and then routes
it: by whose number it is, by whether a person is in charge, by what an agent, the planner
or the open case makes of it. Routing takes minutes and works with rows it read at its
start. People claim the conversation, move it to an area, give it to somebody, close it;
they read first and write without condition. Correct when a message is answered once, when
Nora is silent while a person is in charge, and when a client who was promised a person
is waiting where people look.

**Push** (`whatsapp-notifications.cron.ts`). Takes the notices of the bell to the
telephone every five minutes: marked first, sent after, never retried. Correct when a notice
is one message at most and the outbox drains.

### Agenda and field work

**Visits** (`visits/`), **follow-up tasks** (`follow-up-tasks/`), **opportunities**
(`opportunities/`) and **commercial expenses** (`commercial-expenses/`). Four tables with a
status and a table of allowed transitions; handlers read the row, check the table and write
under the condition that the status has not moved. Around it: `completedAt`, `closedAt` and
the reason of a loss; the support of an expense, uploaded before its transaction and deleted
if that fails; the notice of its resolution, in the transaction of the review; the case
that asks its submitter for a correction, after it; and the removal of a visit, refused while
reports or expenses refer to it. Correct when rows keep to their table and everything around
goes with the outcome.

**Notifications** (`notifications/`). Two cron jobs insert notices, idempotent by a
unique `dedupeKey`: upcoming visits every 15 minutes with two hours of lookahead, and
overdue visits, tasks and goals every day with 90 days of lookback; the daily one then
purges what was read 60 days ago. Correct when every visit is told in time, once per
time it is given, though runs are missed, visits are moved and notices are purged.

### Prices

**Special price lists** (`price-lists/special-price-lists.service.ts`): revisions that
are drafted, submitted, approved or rejected; the active one gives the price of each
customer and presentation it covers, over the lists of its owner. Statuses are read before
the transaction and written without a condition; partial unique indexes allow one active
item of a combination and one active revision of a list. Correct when one price applies,
when it is one that was reviewed, and when drafts change nothing.

**Price lists** and **pricing**: rows edited one at a time, and a read-only resolution of a
price. **Quotes** (`quotes/`): any status after any other, and a billing request that is not
claimed.

### Nora

**The agent service** (`agents/nora`). A turn of the web chat belongs to a session of one
user; sessions last 24 hours, 5000 at most, in memory or in Postgres. Two turns of a session
are kept apart by a lock: an `asyncio.Lock` from a bounded table, or an advisory lock of a
connection that the turn keeps until it ends. The graph loads the thread of the session, calls
the model and its tools and writes checkpoints through the same pool of connections. Correct
when one turn of a session runs at a time, an answered turn stays in the thread, and a session
has one owner; and when a pool at its limit lets somebody go on.

### The rest

Customers, segments, zones, companies, products, goals and users are master data,
written one row at a time. Reports, analytics, dashboard, search and calculators only
read. Audit rows are written in the transaction of what they record and are read by no
handler. The web application sends requests and keeps nothing the API reads.

### How they interact

Approve, advance, resolve and invoice call the credit check; invoices change the status
of orders; billing requests as well (`OrderToCash` has them together). Payments and credit
notes call the commissions in their own transaction (`InvoiceSettlement`). Turns and people
execute cases, which create orders, visits and expenses (`CaseExecution`, `Inbox`). Reviews of
expenses write notices and open cases (`SalesDesk`); visits that come near emit notices
(`VisitNotices`), which the push takes to WhatsApp (`NoticePush`). `PROJECT.json` lists what can
go wrong in each ("hazards"), at the line where it bites, with the property that would notice.

## 2. The models

All of them cut a handler where another one can come in: after what it read and before
what it commits. What it read is kept in the record of its request; what it writes is
built from that, and from the row as it is only where the statement is (`increment`, a
condition on the update, a read inside the transaction). A request may also end anywhere
without a trace, by a rollback, or leave what it had committed behind, by a failure or a
restart.

### OrderToCash

Actors are handlers; `req[h]` is the request one is serving, with what it read:

- `Begin<Op>`: the reads before the first write, and the early returns (`seen` and
  `amount` hold what was read);
- `TakeLock` / `RefuseCredit`: `assertCreditLimit`. Lock, limit and exposure are one
  step: other writers that would raise the exposure need the same lock, and the two
  sums are statements of the same transaction;
- `Commit<Op>`: the writes, visible at once, built from what was read and, where the
  code updates by id without a condition, from nothing else;
- `Rollback`: any request may end without a trace, for whatever reason.

`UpdateLogistics` reads nothing it writes and is one step. `MarkBilling` is the update
of the billing row that holds it until the commit. A row that refers to the customer
takes a key-share lock on its row, so the insertions of `CommitCreate` and
`CommitBilling` wait for a `FOR UPDATE` (`CustomerKeyFree`). The unique index of active
invoices is `IndexAllows`; violating it rolls back (`RefuseDuplicate`). The retry of an
invoice number is a `Rollback` followed by a new `Begin`.

One customer is enough because limit, lock and exposure belong to one. Its limit is
constant. Money is in whole units; the tolerances of a peso that the services use when
they compare totals are left out. `resolveOrderItem` holds its line and sums those it can
see. `approval` of a new order is whatever the request says: the web form sends two of the
values, the API accepts all.

`drifted` is history: it becomes true when one of the writes nobody checks raises the
exposure (an invoice reopened by a stale status, an annulled invoice that hands back a
dearer order, an approval of a total read before a line was priced). `CreditWithinLimit`
says that nothing else does.

`OnlyStaleWritesGoBack` is what the design of the process says of statuses, as far as the code
keeps it: whatever interleaves, a request leaves an order at least where that request had read it.
A request that decides by a status the order has left behind takes it back: an invoice created late
writes `facturado` over `despachado`. The model has this write, and the property says that none
but such a stale one goes back.

### InvoiceSettlement and CommissionLedger

One invoice and the requests on it: `pay`, `return`, `status`, `liquidate`. Payments and
returns keep in `seen` the row as they read it before the transaction. The transaction of
a return has an update of the invoice first (`HoldInvoice`) and waits for the commission
rows after, which `markPaid` holds (`HoldCommission`), so the two can meet in either order;
a payment has nothing to wait for after its update and commits in one step. Amounts are
cents. Percentages are hundredths of one per cent, any of 0 to `Whole`, as the column keeps two
decimals. `createReversals` divides an accrued amount by its percentage to find what is left of its
base, a quotient that need not be a whole number of cents: `Scale` cuts the cent into as many pieces
as make it exact, where decimal.js keeps twenty digits. `Rounded` is the half-up rounding of the code, `Piece` its walk over the rows with
its cap and its early end. `order` is the place by `createdAt`: rows are created in the
order in which their payments commit.

`CommissionLedger` says what a seller may count on, with no invoice, credit note or lock
in it. `KeepsLedger` is the refinement: `caused` are the rows that exist, `net` is
`amount - reversedAmount`, `payouts` counts how often `markPaid` said yes.

### CaseExecution

The cases of one conversation, the rows made from them (`made[r]` is the case of row `r`)
and the requests in flight. `ClaimForExecution` is the conditional update, `Make` the
commit of the order or expense, `Record` the update of the case, `Undo*` the release. Every
statement may fail (`Fail...`, `ThrowOrder`, within `MaxFailures`) and go where the code's
catch goes: for orders, a failed record leaves the claim; for expenses every failure after
the claim releases it, so that after a failure an expense may be made twice (hence
`Guarded`). `Restart` forgets every request in flight. `BeginExpense` and
`BeginCorrect` look for the open case of the conversation without regard to its type, as
`findOpenCase` does; which of two open cases is the latest is left open. Turns
(`BeginTurn`, `CommitTurn`) write a status computed from a case read long before.

### Inbox

One conversation. `Handle` is the webhook: the transaction that inserts the message under
its unique id and touches the conversation; a redelivery, also after a restart, finds the id
taken. Then `route[m]` is the routing of message `m`, at one of its awaits: who is writing
(`Identify`), the status of the conversation (`MarkPending`), the open case (`OpenTurn`), an
agent or the planner, and what follows from what it decides (a handover to an area, a draft, an
order, a visit, a new case, a subcase for a new customer, a reply). `seen`, `open` and `was` are
the rows as it read them, and are what it goes on with. The decisions of agents and planner are
arbitrary among those the code accepts. `GeneralAgent` may answer any turn of a comercial: the code
enters it with no case, with a case of a new customer, and with any other one when the message reads
as the removal of a visit or the edit of a record. When the tools of the agent made what a case of a
new customer was open for, the case is closed (`CloseCustomer`) and the visit it was needed for is
looked at again (`Bridge`), one statement after the other. An agent whose reply fails gives way to the planner
(`on`), which is how a message could be answered twice. People (`req[p]`) claim, change
status, area and owner, any of them together in one request (`BeginUpdate`; only the columns it
names are written), and accept an order case: claim, order, record, release. `recent` has the
pairs of cases of which one was updated after the other, and `LatestOpen` the open cases that no
open one comes after: what `findOpenCase` may find.

`overlap`, `attended` and `promised` are history. Two of the promises hold only while messages
and people come one at a time: with two routings at once the planner's order and that of a
person are both made (`PlaceOrder` takes no claim), a visit case is confirmed twice, and a
conversation that was handed to an area is resolved by the other message. The repository
states them for one message after the other, and so do `OneResultPerCase` and `PromiseIsKept`.
`HumanIsNotTalkedOver` is about a message that came when a person was already in charge: one
that was being routed when somebody took the conversation is still answered.

### VisitNotices

A clock, one row per visit, the notices of the bell and the two jobs. A job is due when
its period comes round, sees the visits of its window in one query (`StartSweep`), and
inserts one notice at a time (`Emit`), while visits are scheduled, moved, settled and
removed and notices read. `Miss` is a run that never happened or that a failed statement
ended: what it had not told yet is left for the next run. A sweep ends within the tick in
which it starts. A tick has no length of its own: an instance keeps the order of the
code's periods (an interval shorter than its lookahead, a retention shorter than the
lookback) and not their ratios, and the proofs hold for all that satisfy
`LookaheadAssumption` and `DaysAssumption`, those of the code among them.

`since`, `rung` and `again` are history: since when a visit has the time it has, which
keys were ever inserted, and which were inserted again after a purge. An overdue visit may
be: its notice, read and purged within the lookback, leaves its key free, and it rings once
more. The comment on `EmitInput` (`notifications.service.ts:24-26`) wants one notice per
overdue entity; a retention of 60 days under a lookback of 90 does not keep that when a visit
stays unsettled for as long, so the model states the promise for upcoming visits only.

### NoticePush

The rows of `Notification` with no `pushedAt` are the outbox. A run reads the oldest `Batch`
of them, with their age (`FindPending`), and for each in turn marks it (`Mark`), puts a message
in the conversation (`Queue`), calls the provider, and records what it answered. The provider
takes the message, refuses it, or takes it and does not answer (`LoseAnswer`); statements fail,
processes stop, notices grow old and go with their user. Two runs may be under way, of two
processes or of one that is slow: both then read the same rows and both send, so
`OneMessagePerNotice` is stated for runs that do not overlap, which the comment it quotes takes
for granted. It speaks only of what was delivered and whether runs overlapped, and stands in
`Outbox`, whose state is those two and nothing of the runs.

### SpecialPriceLists

The lists of one comercial. A revision has a status, the flag of the active one, a price for
some of the combinations of customer and presentation (`items`) and the combinations whose item
is active (`on`). Requests keep the revision as it was read (`was`). An approval has three steps:
`FindActive` looks up the revision it replaces and holds nothing; `SwitchOff` has the statements that
switch rows of others off and hold them from then on; `CommitApprove` switches its own on under the
indexes (`IndexAllows`). The lookup may be old when the second step comes: the items switched off are
those of the revision that was found, the revision switched off is the one that is active by then. The
statements of the second step are one: each holds what it writes until the commit, nobody reads what
is not committed, and what one of them reads no other of them writes. What another list switches on
in between is left on, and meets the unique index (`Fail`); what an edit changes in between is what
`was.items` is compared with. `off` and `gone` are the rows
held; other writes of them wait (`ItemsFree`, `RowFree`). Editing deletes and creates items, by
id, whatever the status has become.

`stale` is history: a write was decided by a status that had changed, or an approval
switched on items that were edited after it switched off those they displace. With it, an approved
revision can be edited and its new items apply at the next reactivation: the code checks the
status only before the transaction. `OneSpecialPrice` holds with it too.

### NoraTurns

Both backends, chosen in `Init`. A turn finds or creates the row of its session, evicts what
is over the limit, checks the owner, takes its lock, loads the thread, acts, saves checkpoints
and leaves. With Postgres each worker has a pool of connections: a turn keeps one for its lock
(`Keeping`) and needs another for a moment to load and to save, which is how a pool fills with
turns that wait for each other until `PoolTimeout`. In memory there is one worker and no await
from the purge of the sessions to the lock (`ArriveLocal`); the table of locks forgets the
least recently asked one when it is full, held or not. `LoseConn` is a connection that drops
with the lock in it; `Restart` ends the turns of a worker, and in memory everything. `ClientLeaves`
is the client of a stream that goes: the loop over the events ends and its `finally` releases the
lock, while the task of the graph is still there and may write one more checkpoint (`LateSave`) until
it is collected (`Collected`). `ReadSession` is the reading of a session, which keeps it alive, or
removes it when it has expired: that one row in Postgres, all expired ones in memory. Its two
statements are one step, which needs a free connection of some worker. `Routes` says which workers
may be given a turn, and `MaxEvents` bounds failures, departures, restarts and readings together.

`broken` are the sessions whose lock or memory was lost so, or which have a checkpoint on its way from
a turn that holds no lock any more; `loose` the turns whose session was
removed under them: what the promises exclude, and nothing else. Time is `clock`, one more for
every arrival or read; what has expired is any set of rows that is older than the rest
(`Expired`).

### SalesDesk and StatusTable

The rows of four tables, each with its transitions. `Begin*` reads a row and checks the table;
`Commit*` writes if the status is still the one read (`Unmoved`), and answers with a conflict if
not. The support of an expense is uploaded first and its row is created after; `DropSupport` is
the deletion that follows a failure and may fail as well. A review writes the notice of the
resolution in its transaction and, if it asks for a correction, opens the case after it
(`AskCorrection`), to submitters the code can reach: `Reachable` has those with a telephone when
there is a WhatsApp account to write from, and neither changes during a run. `BeginRemoveVisit` counts
reports and expenses; the removal is a later statement, and the database sets the reference of what was
attached in between to null. No document says what that race should end in, and no property does. A
report is refused for a visit that was not held, and written after that check without another
(`BeginReport`, `CommitReport`); `ReportsOfHeldVisits` says that no report is ever of a visit that was
not, which rests on the table: nothing leaves `completada`, and no status is written over it by a request
that had read an earlier one.

`StatusTable` has a row that moves along its table, says something, and goes. What it says
changes only with the moves that write it or while its status admits an edit. `KeepsTables` is
the refinement, with the four tables put together.


## 3. The runs

| run | instance | what it shows |
| --- | --- | --- |
| credit | two orders, two invoices, a limit of 3, three requests two at a time, all operations that move credit | the exposure stays within the limit unless an unchecked write raised it; one active invoice per order |
| workflow | one order of two lines, an invoice and a billing request, a limit of 2, four requests two at a time, fair | every request is answered, whatever it waits for; an order goes back only by a write decided by a status it had left |
| settle_ledger | two payments and two returns, a percentage of 37,5 and amounts whose shares fall on half a cent, all operations, five requests two at a time | types; refinement of the ledger; columns backed by rows; closed means covered; reversal matches accrual |
| settle_balance | *violation* | of two payments in flight one is lost from the balance |
| cases | an order case and an expense case, four requests two at a time, two failures, a restart, fair | exclusive claims; one row per case; a claim is settled |
| notices | one visit with two possible times, three changes, one missed run, twelve ticks | types; an upcoming visit is told in time, and once for each time it is given; an overdue visit rings |
| inbox | three messages two at a time, three cases, a person of the area and a supervisor with one request, one failure or restart | types; one result per case; one reply per message; silence while a person is in charge; a promise of a person is kept; one new customer collected |
| prices | two lists, two combinations, three revisions, six requests two at a time, with failures | one special price; only reviewed prices; nothing inactive in the way of another list; only decisions change prices |
| turns | three turns, two sessions, two users, two workers of two connections or one in memory, room for one session and one lock, one failure, departure, restart or reading, fair | one turn at a time; no answered turn lost; one owner; every turn is answered |
| turns_evicts | *violation* | a session is created in a full table, and it is the one removed |
| desk | a visit, a task, an opportunity, an expense and a report, six requests two at a time, one failure | refinement of the tables; dates, reasons, notices, supports and corrections go with outcomes; a report is of a visit that was held |
| push | three notices, one of nobody, a batch of two, two runs that may overlap, one failure, fair | one message per notice; the outbox drains |

Why the bounds are enough. The races of these services are of two requests: one that
read, and one that commits in between; a third adds the state they start from. Every run
has two handlers (or messages, workers, runs) and enough requests for a row to be created,
changed and changed again; `settle_ledger`, `prices` and `desk` have five or six, because their
invariants need a longer history (two payments, two credit notes, a liquidation; a revision that
is approved, revised, edited and approved beside another list; an expense that is sent back,
corrected, and reviewed again). Orders may start in a later status (`StartStatuses`), and a price
list as approved, as a finished history leaves them, so that requests are not spent on getting
there. Limits and prices are chosen so that two cheap orders fit and two dear ones do not. Payments
and percentage are such that commissions fall on half a cent, so that the roundings differ. In `notices` the times are the first that lie beyond the
lookahead, one at a sweep and one between two; the clock runs on for long enough for a notice to
be told, read, purged and its visit moved back. In `turns` pool, sessions and locks are at their
limits from the second turn on, and a third is there to meet what the first two leave: `MCRoutes`
gives the first and the third to one worker and the second to another, so that turns meet both in a
pool and across two. In `push`
the batch is smaller than the outbox.

History variables are read by no guard.

Symmetry is used where a run has no liveness property and ids are interchangeable.

**Fairness.** `workflow` assumes that Node takes every handler to its end and that Postgres
grants row locks in the order of their queue; a handler that waits for the customer row
sees it free and taken again many times, so this is strong fairness of `Serve(h)`. `cases`
assumes weak fairness of `Serve(h)`: no step waits for a lock. `push` assumes weak fairness of
the steps of a run and that the cron comes round again, as `@Cron` schedules it. Nothing is
assumed of arrivals, rollbacks, failures or restarts. The promises of `VisitNotices` are bounded
by the clock and so are invariants. `turns` assumes strong fairness of the steps of a turn
(`Proceed`): a turn that waits for a connection or for a lock is in the queue of the pool, of Postgres
or of `asyncio`, and gets it after those before it. Where all connections of a pool are held by turns
that wait, nobody before it ever leaves; what ends that is the timeout of the pool, ten seconds,
for which weak fairness is assumed (`PoolTimeout`). Nothing is assumed of the timeout of the lock, of
failures or of clients that leave, so `EveryTurnAnswered` says that the pool's timeout alone undoes the
wait of turns for each other.

### What disagrees with its documentation

The two violation runs are disagreements between the code and a comment of the repository;
`findings` in `PROJECT.json` quotes both. `totalPaid` and `creditNoteTotal` would be right if they
were incremented in the database; the eviction of sessions in Postgres, if it ordered by the most
recent first.

Elsewhere the models show interleavings that no run sets against a document, and the properties
are stated so as to say exactly what is left: the writes that set `drifted` and `stale`, a second
expense after a failed record, runs of the push that overlap, a removal of a visit raced by a
report, orders of the planner and of a person from one case, locks that were lost and turns whose client left,
an order sent back by a late invoice.

## 4. The proofs

Every theorem but two is of the form `Spec => []Inv`, `Spec => [][A]_vars` or `Spec => Abstract!Spec`, for
every value of the constants that the named assumptions allow: finite sets of rows (sums are taken
over them), amounts that are naturals, `None` that is no id, percentages of 0 to 100 with two decimals, kinds of
rows that are disjoint, and, for visits, windows that are longer than what may be missed.

**OrderToCash_proofs.** `Invariant` is the inductive invariant: types; what a request in
flight knows of its rows (it names a row of its kind, the row it will insert is free, no two
requests insert the same); that a handler is past its credit check exactly when it holds the
customer row; one active invoice per order; and, for the holder, that what it was granted
still fits (`CoveredInv`). This last one is why the lock suffices: until the holder commits,
no other step adds to the exposure without setting `drifted`. Each commit is shown to raise the
exposure by no more than the amount granted, with lemmas about sums
with one row changed. From it: `TypeCorrect`, `CreditSafe`, `InvoiceUnique`, and `OnlyStaleGoBack`:
each commit that writes a status computes it from the one its request had read, and never an earlier
one (`StatusWrites`), so a status goes back only when the order has moved since.

`AllAnswered` is a liveness theorem, `FairSpec /\ []WaitsOnlyForRows => EveryRequestAnswered`. A
request that holds the customer row, or a billing row, is past all waiting (`Blocked` is about
requests that have only read), so it can go on for as long as it is there, and fairness takes it to
its end: the lock is free again and again. While it is free nobody waits for it, so a request that is
never answered could go on again and again, and strong fairness of its own steps ends it. One holder
of each billing row at a time (`OneMarker`) is what makes the billing row free again too. That each
handler is reached by the fairness of all is a temporal step over quantifiers, and ENABLED is
beyond the provers: both stand behind named operators (`Diligent`, `CanGoOn`), and what is
left of ENABLED is the hypothesis `[]WaitsOnlyForRows`: a request that waits for no row lock has a
step. The guards of the module give it, a refusal for what is not a commit; it is no property of its own,
only what a prover of ENABLED would add, and `workflow` checks the conclusion without it.

**InvoiceSettlement_proofs.** The invariant relates each column to the rows behind it and to
what requests in flight have read: a stale total is at most the sum of rows that exist,
as rows are never deleted. `PieceBound` bounds the pieces of a reversal by the rows they are
taken from. From it: `TypeCorrect` (no reversal exceeds what was caused), `ColumnsBacked`,
`ClosedIsCovered`, and `ImplementsLedger`: initial states map to initial states and every
step to a step of `CommissionLedger` or to a stutter.

`ReversalsMatch` is for any one percentage above 0 and up to 100 with two decimals, with every
rounding, and is about what a credit note takes from any number of commissions that earlier ones
have already taken from. It needs a second invariant, `RatedInv`: every commission is its base by a
percentage in force, rounded, and no two rows have the same place. The walk over the rows takes all it
was to take (`TakenInOrder`: rank the coins of the rows by their place, the ranks are an interval, and
those up to what is to be taken are what the walk takes); so the columns grow by `ToReverse`
(`ReversedByReturn`). Each row is within half a cent of the percentage of what is left of its base, and
so the sums are within half a cent for each row (`SpreadBounds`, by counting: what holds of the rows in
whole multiples holds of the sums, `TotalScaled`). `Close` is the arithmetic that is left: the
proportional part of what is caused, and the percentage of the credit note, differ by no more than half
of one cent for each row and another for their own rounding.

**CaseExecution_proofs.** `Sealed`: a case with a row that is not to be released (an order
case, or an expense case while nothing failed) stays claimed, and nobody but the maker of the
row executes it. From it and the conditional claim: `ClaimSafe`, `RowUnique`.

`SomebodyHasIt` is about the other direction: an expense case that is claimed without its expense is
held by a request that is executing it or undoing its failure (`Attended`; a release always follows
a failure, `Undoing`), unless the release failed as well or the process stopped. It gives `ClaimsAreSettled`, the second liveness theorem,
`FairSpec /\ []NobodyWaits => ClaimIsSettled`: whoever holds the case takes a step under weak fairness,
each step brings it to the next statement, to its end or to the undoing, and there are few of those.
The hypothesis is again the part about ENABLED, and the run `cases` checks the conclusion without it.

**VisitNotices_proofs.** `Inv`: a sweep tells only of times within the lookahead, so a notice of
an upcoming visit is neither made nor read earlier than that, and as the retention is no shorter it
is not purged before its time. Hence `ToldOnce`. `Timely` is about the other direction. A
time that is still to be told is told at the next run that is not missed (`OnTime`: the run comes
before the time, with a period to spare for each run that may still be missed), and a sweep under
way has told or is going to tell all its window held (`Seen`). A missed run takes one period and one
of the runs that may be missed, so the balance stands, and a window as long as all of them
(`LookaheadAssumption`, `DaysAssumption`) gives `UpcomingVisitsAreTold` and `OverdueVisitsRing`.

The second half of the module is about `NoticePush`: a run has each notice once and is at the oldest
of them (`Todo`), a notice with no row is not marked (`Unmarked`); and, while runs have not overlapped,
there is one (`Alone`), it has marked what it is sending (`Marked`), and what was delivered is marked
and in nobody's hands but for the record of the answer (`Once`). Runs read rows with no mark, so
nothing is taken twice: `OneMessage`. `OldestGoFirst` holds with runs that overlap too: what waits in
the outbox and is no newer than something a run has to do, the run has to do as well (`Passed`), as a
batch is all there is up to its newest notice (`FindTakesOldest`), ids are given in order (`Ordered`),
and what a run leaves is marked (`Marked`). So no run is at a notice while an older one waits.

**Inbox_proofs.** `TypeInv` says that cases keep their type, and that what routings and people have
read of one is still of it (`Typed`). The five promises have an invariant each. `OneCollects`: the
subcase of a new customer is looked for and created in one step, and no case is opened again as one of
those. `Answered`: nothing is sent before the end of a routing while no call has failed, and a
redelivery finds the message routed. `FromClient` and `Kept`: the routing of a client's message never
becomes that of somebody else, and one that came while a person was in charge sees that at each of
its awaits. `OneAtATime` and `Waits`: with one routing or one person under way, what the routing read
of a conversation that was promised is what the conversation is. `Current`, `Reviewed` and `Due` are
the longest: one message or person at a time with nothing failing, the case a routing has read is
still the latest open one and as it was (`Uncrossed`: no two cases are each later than the other),
the case a person has claimed is still under review, and an order or a visit is of a case that is executed or is being recorded by whoever made
it. From them: `OneCollecting`, `AnsweredOnce`, `NoraIsSilent`, `PromiseKept`, `CaseGivesOne`.

**SpecialPriceLists_proofs.** The invariant is what the indexes keep (one active revision of a list,
one active item of a combination), what requests in flight carry from their reads, and
`KeptAsReviewed`: while no write was decided by a status that had changed, an approved revision has
the items it was approved with. From it: `AtMostOnePrice`, `PricesWereReviewed`. `Clean` adds what
stands: items are active in approved, active revisions of active lists alone (`Standing`), which
needs that an approval under way holds every item of the revisions it replaces, and nothing beyond
those and what its own items displace (`Held`: the reason why other writes of these rows must wait).
That takes more, as the revision to replace is looked up before anything is held. `Traced`: a list has
one revision under review at most, the one after the active revision (`Lineage`); another approval of
the list would have to be of that same one, and decided by a status it has lost. So while what it
approves is under review, what an approval found is still the active revision (`StillFound`).
From it: `NothingInTheWay` and, as prices are then the items that are on, `PricesDecided`.

**NoraTurns_proofs.** Four facts about each turn. `Locked`: while nothing was lost, a turn that
waits or runs refers to the one lock its session has now, whichever the backend; so two turns that
are past it exclude each other (`TurnsTakeTurns`). `Threaded`: what a turn loaded is the thread
still, but for what it wrote, because nobody else is inside; so its checkpoint takes nothing away
(`AnsweredTurnsStay`). `Owned`: the owner a turn read is the owner of the row for as long as the
row lasts, as nothing changes the owner of a row (`OwnersOnly`). `Shape` says whose a turn in flight
is. A turn whose client left has no lock and is nobody's rival: its session is `broken` from then on.

**SalesDesk_proofs.** `RowFine` says which statuses, dates and reasons a row may show; `Static`, what
a request carries by what it read (a move of the table, and the row it will write); `Dynamic`, how
that stands to the rows now (an expense about to be created is nobody else's; the visit of a report on
its way is still one that was held, or gone). Each commit then moves its
row along the table. From it: the five invariants of `desk` (`ReportsAreSound` among them, that reports
are of visits that were held), and `ImplementsTables`.

**Sums** are cardinalities of sets of coins, not folds: so they are within reach of the library's
theorems about cardinalities, without induction over data. The lemmas about them come first in the
two modules that need them: what a row adds and takes away, sums of two amounts row by row, multiples,
parts, and the walk over the rows in their order.

Only model-checked: `OutboxDrains`, whose argument is an induction over the notices before one, and
`EveryTurnAnswered`, which rests on the number of turns before one in three queues. The types of `OrderToCash`,
`CaseExecution` and `NoraTurns` are proved (`TypeCorrect`) and no longer among the runs.
`BalanceIsExact` and `KeepsTheRecent` are the two that the code does not keep.

## 5. Not modelled, and why

- Snapshots of names, exports, lists and reports: they write nothing that another handler
  reads.
- Who may call what: the models enumerate the calls that the roles let through.
- A commit whose acknowledgement is lost: the client would repeat the request, which the
  models allow anyway (`LoseAnswer` has it for the provider of messages, who cannot tell).
- `ReversalMatchesAccrual` is stated with one percentage only; with several the code spreads
  a reversal over rows of different percentages, and no comment says what is right.
- `updateLogistics` may clear the guide between the check for `en_transito` and its commit.
  The model has that interleaving; no document says what should happen.
- A deployment that has a database and still asks for local locks (`NORA_LOCAL_LOCKS=1`), and two
  sessions whose ids have the same `hashtext` (they would only wait for each other).
- Linking a conversation to a customer or a contact by hand: which customer it is of decides what a case
  is filled in with and how a client who has just been identified is greeted, not who answers.
- The customers of visits, expenses and opportunities, which are references nothing here reads.
- The supports of payments, whose upload and deletion have the shape of those of expenses.
- The sweeps of tasks and goals, which have the shape of that of overdue visits, and the notices of
  orders and customers, one insertion each.
- Quotes, price lists, pricing, goals, customers, products, users, audit, reports and calculators:
  one statement on one row, or reads; the web application: it keeps no state the API reads. Together
  they are most of the lines of the repository.

## 6. Plan

1. *Done*: `OrderToCash`, `InvoiceSettlement` with `CommissionLedger`, `CaseExecution`, `VisitNotices`.
2. *Done*: `NoticePush`, `SpecialPriceLists`, `Inbox`, `NoraTurns`, `SalesDesk` with `StatusTable`.
3. *Done*: the proofs of all of them, of every safety property the passing runs check,
   and of two of the four liveness properties.
4. `Quotes`: a billing request made from a closed quote, with nothing that says that one was made;
   composed with the billing requests of `OrderToCash`.
5. `Inbox` with the turns of `CaseExecution` in it, rather than as arbitrary steps beside it.
6. Proofs of what 4 and 5 add; and that `OneResultPerCase` of the composed module follows from the
   claims of `CaseExecution` where those are taken.
