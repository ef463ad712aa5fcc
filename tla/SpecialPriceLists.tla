------------------------- MODULE SpecialPriceLists -------------------------
(***************************************************************************)
(* The special price lists of one comercial: revisions that are drafted,   *)
(* sent for review and approved, and the one revision of a list whose      *)
(* prices apply.  Every handler reads the list and the status of the       *)
(* revision, and writes in a transaction that does not look at them again; *)
(* approving and reactivating take several statements of READ COMMITTED.   *)
(*                                                                         *)
(* Lists of another comercial share no row with these.                     *)
(***************************************************************************)
EXTENDS Naturals, FiniteSets

CONSTANTS
    Lists, Combos,  \* a combo is a customer with a presentation
    Prices, None,
    MaxRevision,    \* bounds of the model: revisions of a list,
    Handlers,       \* requests served at the same time,
    MaxRequests     \* requests in all

ASSUME PricesAssumption == None \notin Prices /\ MaxRevision \in Nat \ {0} /\ MaxRequests \in Nat

VARIABLES
    list,           \* SpecialPriceList.active
    rev,            \* rows of SpecialPriceListRevision, with their items
    req,            \* the request each handler serves
    reviewed,       \* history: the prices of a revision when it was approved
    stale,          \* history: a write was decided by a status, or an approval
                    \* switched off what items covered, that had changed
    served

vars == <<list, rev, req, reviewed, stale, served>>
-----------------------------------------------------------------------------
Revisions == 1 .. MaxRevision

\* The items of a revision: a price for some of the combos.
Items == [Combos -> Prices \cup {None}]

NoItems == [k \in Combos |-> None]

Covered(items) == {k \in Combos : items[k] # None}

\* `on`: the combos whose item is active.
Revision ==
    [status : {"absent", "borrador", "en_revision", "aprobada", "rechazada"},
     active : BOOLEAN, items : Items, on : SUBSET Combos]

Absent == [status |-> "absent", active |-> FALSE, items |-> NoItems, on |-> {}]

\* `was`: the row as it was read.  `found`: the revision an approval is to replace, as
\* it was looked up.  `off`, `gone`: the items and the revisions a transaction has
\* switched off, whose rows it holds.
Request ==
    [op : {"none", "revise", "edit", "submit", "approve", "reject", "deactivate", "reactivate"},
     pc : {"idle", "begun", "found", "off"},
     list : Lists \cup {None}, n : Revisions \cup {0}, was : Revision, items : Items,
     found : SUBSET Revisions,
     off : SUBSET (Lists \X Revisions \X Combos), gone : SUBSET Revisions]

Idle ==
    [op |-> "none", pc |-> "idle", list |-> None, n |-> 0, was |-> Absent, items |-> NoItems,
     found |-> {}, off |-> {}, gone |-> {}]

Active(l) == {n \in Revisions : rev[l][n].active}

Exists(l) == rev[l][1].status # "absent"

Begin(h, op, l, n, items) ==
    /\ req[h] = Idle /\ served < MaxRequests
    /\ served' = served + 1
    /\ req' = [req EXCEPT ![h] =
         [Idle EXCEPT !.op = op, !.pc = "begun", !.list = l, !.n = n, !.items = items,
                      !.was = IF n = 0 THEN Absent ELSE rev[l][n]]]
    /\ UNCHANGED <<list, rev, reviewed, stale>>

\* An answer, or an exception: a transaction that has not committed leaves no trace.
End(h) == req' = [req EXCEPT ![h] = Idle]

\* A write waits while another transaction holds one of its rows.
ItemsFree(h, items) == \A g \in Handlers \ {h} : req[g].off \cap items = {}

RowFree(h, l, n) == \A g \in Handlers \ {h} : req[g].list = l => n \notin req[g].gone

ItemsOf(l, n) == {l} \X {n} \X Combos

Changed(h) ==
    LET r == req[h] IN
    r.n # 0 /\ <<rev[r.list][r.n].status, rev[r.list][r.n].active>> # <<r.was.status, r.was.active>>

MarkStale(h) == stale' = (stale \/ Changed(h))

\* Mutant: the migration without its partial indexes.
IndexAllows_NoIndex(rows) == rows = rows

\* One active item for a combo of the comercial, one active revision for a list.
IndexAllows(rows) ==
    /\ \A l, m \in Lists, i, j \in Revisions :
         <<l, i>> # <<m, j>> => rows[l][i].on \cap rows[m][j].on = {}
    /\ \A l \in Lists, i, j \in Revisions : rows[l][i].active /\ rows[l][j].active => i = j
-----------------------------------------------------------------------------
(***************************************************************************)
(* create, createRevision                                                  *)
(***************************************************************************)
Create(l, items) ==
    /\ ~Exists(l) /\ Covered(items) # {}
    /\ served < MaxRequests /\ served' = served + 1
    /\ rev' = [rev EXCEPT ![l][1] = [Absent EXCEPT !.status = "en_revision", !.items = items]]
    /\ list' = [list EXCEPT ![l] = TRUE]
    /\ UNCHANGED <<req, reviewed, stale>>

\* A copy of the active revision, read before the transaction.
BeginRevise(h, l) == \E n \in Active(l) : Begin(h, "revise", l, n, rev[l][n].items)

\* The number after that of the active revision, unique in the list.
NextRevision(l, n) == {m \in Revisions : m = n + 1 /\ rev[l][m].status = "absent"}

CommitRevise(h) ==
    LET r == req[h] IN
    /\ r.op = "revise"
    /\ \E m \in NextRevision(r.list, r.n) :
         rev' = [rev EXCEPT ![r.list][m] = [Absent EXCEPT !.status = "borrador", !.items = r.items]]
    /\ MarkStale(h) /\ End(h)
    /\ UNCHANGED <<list, reviewed, served>>
-----------------------------------------------------------------------------
(***************************************************************************)
(* updateRevision, submitRevision                                          *)
(***************************************************************************)
Correctable(status) == status \in {"borrador", "rechazada"}

\* Mutant: an approved revision is edited in place.
Editable_Approved(role, r) ==
    r.status # "absent" /\ (role = "comercial" => Correctable(r.status) \/ r.active)

Editable(role, r) ==
    /\ r.status \notin {"absent", "aprobada"} /\ ~r.active
    /\ role = "comercial" => Correctable(r.status)

BeginEdit(h, l, n, items) ==
    /\ \E role \in {"comercial", "director_comercial"} : Editable(role, rev[l][n])
    /\ Covered(items) # {}
    /\ Begin(h, "edit", l, n, items)

\* The items are deleted and created again, inactive.
Edited(row, items) == [row EXCEPT !.items = items, !.on = {}]

\* Whatever the status is now.
CommitEdit(h) ==
    LET r == req[h] IN
    /\ r.op = "edit"
    /\ ItemsFree(h, ItemsOf(r.list, r.n))
    /\ rev' = [rev EXCEPT ![r.list][r.n] = Edited(@, r.items)]
    /\ MarkStale(h) /\ End(h)
    /\ UNCHANGED <<list, reviewed, served>>

BeginSubmit(h, l, n) ==
    /\ Correctable(rev[l][n].status) /\ ~rev[l][n].active
    /\ Begin(h, "submit", l, n, NoItems)

CommitSubmit(h) ==
    LET r == req[h] IN
    /\ r.op = "submit"
    /\ RowFree(h, r.list, r.n)
    /\ rev' = [rev EXCEPT ![r.list][r.n].status = "en_revision", ![r.list][r.n].active = FALSE]
    /\ MarkStale(h) /\ End(h)
    /\ UNCHANGED <<list, reviewed, served>>
-----------------------------------------------------------------------------
(***************************************************************************)
(* updateApproval                                                          *)
(***************************************************************************)

\* Mutant: what was reviewed already is reviewed again.
Reviewable_Any(r) == r.status \in {"en_revision", "aprobada", "rechazada"}

Reviewable(r) == r.status = "en_revision"

BeginReview(h, l, n) ==
    /\ Reviewable(rev[l][n])
    /\ \E op \in {"approve", "reject"} : Begin(h, op, l, n, NoItems)

CommitReject(h) ==
    LET r == req[h] IN
    /\ r.op = "reject"
    /\ RowFree(h, r.list, r.n)
    /\ rev' = [rev EXCEPT ![r.list][r.n].status = "rechazada", ![r.list][r.n].active = FALSE]
    /\ MarkStale(h) /\ End(h)
    /\ UNCHANGED <<list, reviewed, served>>

ItemRows == {x \in Lists \X Revisions \X Combos : rev[x[1]][x[2]].items[x[3]] # None}

On == {x \in ItemRows : x[3] \in rev[x[1]][x[2]].on}

\* The active revision is looked up first, and no row is held for it.
FindActive(h) ==
    LET r == req[h] IN
    /\ r.op = "approve" /\ r.pc = "begun"
    /\ req' = [req EXCEPT ![h].pc = "found", ![h].found = Active(r.list)]
    /\ UNCHANGED <<list, rev, reviewed, stale, served>>

\* Mutant: the items of the revision that is replaced are left alone.
Replaced_Same(l, n, found) == {x \in On : x[3] \in Covered(rev[l][n].items)}

\* The items of the revision that was found, active or not, and whatever is active
\* for a combo of the new one.
Replaced(l, n, found) ==
    {x \in ItemRows : x[1] = l /\ x[2] \in found}
        \cup {x \in On : x[3] \in Covered(rev[l][n].items)}

\* The revision that is active by now and those items, one statement after another:
\* each holds what it has written, and what one of them reads no other writes.
SwitchOff(h) ==
    LET r == req[h]
        off == Replaced(r.list, r.n, r.found) IN
    /\ r.op = "approve" /\ r.pc = "found"
    /\ ItemsFree(h, off) /\ \A n \in Active(r.list) : RowFree(h, r.list, n)
    /\ req' = [req EXCEPT ![h].pc = "off", ![h].off = off, ![h].gone = Active(r.list),
                          ![h].was.items = rev[r.list][r.n].items]
    /\ UNCHANGED <<list, rev, reviewed, stale, served>>

\* The items as they are now become active, those switched off are not.
Approved(r) ==
    [l \in Lists |-> [n \in Revisions |->
        LET row == rev[l][n] IN
        IF <<l, n>> = <<r.list, r.n>>
        THEN [row EXCEPT !.status = "aprobada", !.active = TRUE, !.on = Covered(row.items)]
        ELSE [row EXCEPT !.on = {k \in @ : <<l, n, k>> \notin r.off},
                         !.active = @ /\ ~(l = r.list /\ n \in r.gone)]]]

CommitApprove(h) ==
    LET r == req[h] IN
    /\ r.op = "approve" /\ r.pc = "off"
    /\ RowFree(h, r.list, r.n) /\ ItemsFree(h, ItemsOf(r.list, r.n))
    /\ IndexAllows(Approved(r))
    /\ rev' = Approved(r)
    /\ list' = [list EXCEPT ![r.list] = TRUE]
    /\ reviewed' = [reviewed EXCEPT ![r.list][r.n] = rev[r.list][r.n].items]
    /\ stale' = (stale \/ Changed(h) \/ rev[r.list][r.n].items # r.was.items)
    /\ End(h)
    /\ UNCHANGED served
-----------------------------------------------------------------------------
(***************************************************************************)
(* updateList: both read the active revision within their transaction      *)
(***************************************************************************)
ActiveOrNone(l) == IF Active(l) = {} THEN {0} ELSE Active(l)

SwitchedOff(row) == [row EXCEPT !.on = {}]

BeginDeactivate(h, l) ==
    /\ Exists(l)
    /\ \E n \in ActiveOrNone(l) : Begin(h, "deactivate", l, n, NoItems)

CommitDeactivate(h) ==
    LET r == req[h] IN
    /\ r.op = "deactivate"
    /\ r.n # 0 => ItemsFree(h, ItemsOf(r.list, r.n))
    /\ rev' = IF r.n = 0 THEN rev ELSE [rev EXCEPT ![r.list][r.n] = SwitchedOff(@)]
    /\ list' = [list EXCEPT ![r.list] = FALSE]
    /\ stale' = (stale \/ r.n \notin ActiveOrNone(r.list))
    /\ End(h)
    /\ UNCHANGED <<reviewed, served>>

\* Refused when another revision has an active item for one of its combos.
BeginReactivate(h, l) ==
    /\ Exists(l)
    /\ \E n \in ActiveOrNone(l) :
         /\ n # 0 => \A x \in On : x[3] \in Covered(rev[l][n].items) => <<x[1], x[2]>> = <<l, n>>
         /\ Begin(h, "reactivate", l, n, NoItems)

Reactivated(r) ==
    IF r.n = 0 THEN rev ELSE [rev EXCEPT ![r.list][r.n].on = Covered(rev[r.list][r.n].items)]

CommitReactivate(h) ==
    LET r == req[h] IN
    /\ r.op = "reactivate"
    /\ r.n # 0 => ItemsFree(h, ItemsOf(r.list, r.n))
    /\ IndexAllows(Reactivated(r))
    /\ rev' = Reactivated(r)
    /\ list' = [list EXCEPT ![r.list] = TRUE]
    /\ stale' = (stale \/ r.n \notin ActiveOrNone(r.list))
    /\ End(h)
    /\ UNCHANGED <<reviewed, served>>

\* A unique index, a deadlock Postgres breaks, a lost connection.
Fail(h) == req[h] # Idle /\ End(h) /\ UNCHANGED <<list, rev, reviewed, stale, served>>
-----------------------------------------------------------------------------
\* A list that is not there yet, or one whose first revision applies.
Init ==
    /\ \E published \in {{}} \cup {{l} : l \in Lists}, items \in Items :
         /\ Covered(items) # {}
         /\ list = [l \in Lists |-> l \in published]
         /\ rev = [l \in Lists |-> [n \in Revisions |->
               IF n = 1 /\ l \in published
               THEN [status |-> "aprobada", active |-> TRUE, items |-> items, on |-> Covered(items)]
               ELSE Absent]]
         /\ reviewed = [l \in Lists |-> [n \in Revisions |-> rev[l][n].items]]
    /\ req = [h \in Handlers |-> Idle]
    /\ stale = FALSE /\ served = 0

Ask(h) ==
    \E l \in Lists :
        \/ BeginRevise(h, l) \/ BeginDeactivate(h, l) \/ BeginReactivate(h, l)
        \/ \E n \in Revisions :
             \/ BeginSubmit(h, l, n) \/ BeginReview(h, l, n)
             \/ \E items \in Items : BeginEdit(h, l, n, items)

Answer(h) ==
    \/ CommitRevise(h) \/ CommitEdit(h) \/ CommitSubmit(h)
    \/ CommitReject(h) \/ FindActive(h) \/ SwitchOff(h) \/ CommitApprove(h)
    \/ CommitDeactivate(h) \/ CommitReactivate(h) \/ Fail(h)

\* Nobody asks for more.
Quiet == (\A h \in Handlers : req[h] = Idle) /\ UNCHANGED vars

Next ==
    \/ \E l \in Lists, items \in Items : Create(l, items)
    \/ \E h \in Handlers : Ask(h) \/ Answer(h)
    \/ Quiet

Spec == Init /\ [][Next]_vars
-----------------------------------------------------------------------------
(***************************************************************************)
(* Properties                                                              *)
(***************************************************************************)
TypeOK ==
    /\ list \in [Lists -> BOOLEAN]
    /\ rev \in [Lists -> [Revisions -> Revision]]
    /\ \A l \in Lists, n \in Revisions : rev[l][n].on \subseteq Covered(rev[l][n].items)
    /\ req \in [Handlers -> Request]
    /\ reviewed \in [Lists -> [Revisions -> Items]]
    /\ stale \in BOOLEAN
    /\ served \in 0 .. MaxRequests

\* PricingService.resolveSpecialPrice: the revisions that give a combo its price.
InForce(k) ==
    {x \in Lists \X Revisions :
        /\ k \in rev[x[1]][x[2]].on /\ rev[x[1]][x[2]].active
        /\ rev[x[1]][x[2]].status = "aprobada" /\ list[x[1]]}

PricesOf(k) == {rev[x[1]][x[2]].items[k] : x \in InForce(k)}

\* "solo puede haber un precio especial aprobado activo por propietario + cliente +
\* presentacion": whatever overlaps, resolveSpecialPrice finds one item at most.
OneSpecialPrice == \A k \in Combos : Cardinality(InForce(k)) <= 1

\* "Solo una version aprobada puede participar en pricing": the price that applies
\* is the one that was approved, unless a write was decided by an old status.
OnlyReviewedPrices ==
    ~stale => \A k \in Combos : \A x \in InForce(k) :
                 rev[x[1]][x[2]].items[k] = reviewed[x[1]][x[2]][k]

\* An active item belongs to the active, approved revision of an active list: no
\* price that does not apply stands in the way of another (updateList refuses to
\* reactivate a list one of whose combos has an active item elsewhere).
NothingStandsInTheWay ==
    ~stale => \A x \in On : <<x[1], x[2]>> \in InForce(x[3])

\* "La version aprobada continua aplicandose mientras la nueva version esta en
\* revision", "las otras combinaciones de la lista no cambian": a price changes when
\* a list is switched, or when a revision of it or of the list it replaces is
\* approved; a draft, an edit, a submission or a rejection changes none.
Decides(k, h) ==
    /\ req'[h] = Idle
    /\ \/ req[h].op \in {"deactivate", "reactivate"}
       \/ /\ req[h].op = "approve"
          /\ \E n \in {req[h].n} \cup Active(req[h].list) : k \in Covered(rev[req[h].list][n].items)

PricesChangeByDecision ==
    [][\A k \in Combos : PricesOf(k)' = PricesOf(k) \/ stale' \/ \E h \in Handlers : Decides(k, h)]_vars
=============================================================================
