---------------------- MODULE SpecialPriceLists_proofs ----------------------
(***************************************************************************)
(* For any lists, combos, prices, revisions and requests: one special      *)
(* price applies to a combo; and, unless a write was decided by an old     *)
(* status, it is the one that was approved, nothing that does not apply    *)
(* is in its way, and it changes only by a decision.                       *)
(*                                                                         *)
(* Items are switched on under the unique indexes and off by everybody;    *)
(* the items of an approved revision are written by its approval alone,    *)
(* since an edit that did not see it approved is marked as stale.          *)
(***************************************************************************)
EXTENDS SpecialPriceLists, FiniteSetTheorems, TLAPS

\* What a request in flight carries.
Carries ==
    \A h \in Handlers :
        /\ req[h].op # "none" => req[h].list \in Lists
        /\ req[h].op \in {"revise", "edit", "submit", "approve", "reject"} => req[h].n \in Revisions
        /\ req[h].op = "edit" => req[h].was.status # "aprobada"

\* An approved revision has the items it was approved with.
KeptAsReviewed ==
    ~stale => \A l \in Lists, n \in Revisions :
                 rev[l][n].status = "aprobada" => rev[l][n].items = reviewed[l][n]

Inv == TypeOK /\ IndexAllows(rev) /\ Carries /\ KeptAsReviewed
-----------------------------------------------------------------------------
LEMMA RevisionsFact == 1 \in Revisions /\ 0 \notin Revisions
BY PricesAssumption DEF Revisions

LEMMA AbsentFact ==
    /\ Absent \in Revision /\ NoItems \in Items /\ Idle \in Request
    /\ Absent.on = {} /\ Absent.active = FALSE /\ Absent.status = "absent"
    /\ Idle.op = "none" /\ Idle.pc = "idle"
<1>1. NoItems \in Items
  BY DEF NoItems, Items
<1>2. Absent \in Revision
  BY <1>1 DEF Absent, Revision
<1> QED  BY <1>1, <1>2 DEF Absent, Idle, Request

LEMMA CoveredFact == \A items : Covered(items) \subseteq Combos
BY DEF Covered

\* What switches nothing on keeps the indexes.
LEMMA ShrinkKeeps ==
    ASSUME Inv, rev' \in [Lists -> [Revisions -> Revision]],
           \A l \in Lists, n \in Revisions :
               /\ rev'[l][n].on \subseteq rev[l][n].on
               /\ rev'[l][n].active => rev[l][n].active
    PROVE  IndexAllows(rev')
<1>1. IndexAllows(rev)
  BY DEF Inv
<1>2. ASSUME NEW l \in Lists, NEW m \in Lists, NEW i \in Revisions, NEW j \in Revisions, <<l, i>> # <<m, j>>
      PROVE  rev'[l][i].on \cap rev'[m][j].on = {}
  <2>1. rev[l][i].on \cap rev[m][j].on = {}
    BY <1>1, <1>2 DEF IndexAllows
  <2> QED  BY <2>1
<1>3. ASSUME NEW l \in Lists, NEW i \in Revisions, NEW j \in Revisions, rev'[l][i].active, rev'[l][j].active
      PROVE  i = j
  BY <1>1, <1>3 DEF IndexAllows
<1> QED  BY <1>2, <1>3 DEF IndexAllows

\* A request that begins or ends and leaves the lists alone.
LEMMA ReqKeeps ==
    ASSUME Inv, NEW h \in Handlers, NEW r \in Request, req' = [req EXCEPT ![h] = r],
           UNCHANGED <<list, rev, reviewed, stale>>, served' \in 0 .. MaxRequests,
           r.op # "none" => r.list \in Lists,
           r.op \in {"revise", "edit", "submit", "approve", "reject"} => r.n \in Revisions,
           r.op = "edit" => r.was.status # "aprobada"
    PROVE  Inv'
<1>1. TypeOK'
  BY DEF Inv, TypeOK, Covered
<1>2. Carries'
  BY DEF Inv, TypeOK, Carries
<1>3. IndexAllows(rev)' /\ KeptAsReviewed'
  BY DEF Inv, IndexAllows, KeptAsReviewed
<1> QED  BY <1>1, <1>2, <1>3 DEF Inv

LEMMA EndFact ==
    ASSUME Inv, NEW h \in Handlers, End(h)
    PROVE  req' \in [Handlers -> Request] /\ Carries'
<1>1. req' = [req EXCEPT ![h] = Idle]
  BY DEF End
<1>2. req' \in [Handlers -> Request]
  BY <1>1, AbsentFact DEF Inv, TypeOK
<1> QED  BY <1>1, <1>2, AbsentFact DEF Inv, TypeOK, Carries

\* A write to one row that switches nothing on and approves nothing.
LEMMA RowKeeps ==
    ASSUME Inv, NEW l \in Lists, NEW n \in Revisions, NEW x \in Revision,
           rev' = [rev EXCEPT ![l][n] = x],
           x.on \subseteq rev[l][n].on, x.active => rev[l][n].active, x.on \subseteq Covered(x.items),
           req' \in [Handlers -> Request], Carries',
           list' \in [Lists -> BOOLEAN], reviewed' = reviewed, stale' \in BOOLEAN, stale => stale',
           served' \in 0 .. MaxRequests,
           ~stale' /\ x.status = "aprobada" => rev[l][n].status = "aprobada" /\ x.items = rev[l][n].items
    PROVE  Inv'
<1>1. /\ rev' \in [Lists -> [Revisions -> Revision]]
      /\ rev'[l][n] = x
      /\ \A m \in Lists, i \in Revisions : m # l \/ i # n => rev'[m][i] = rev[m][i]
  <2>1. rev \in [Lists -> [Revisions -> Revision]]
    BY DEF Inv, TypeOK
  <2>2. rev' = [rev EXCEPT ![l] = [rev[l] EXCEPT ![n] = x]]
    BY <2>1
  <2>3. [rev[l] EXCEPT ![n] = x] \in [Revisions -> Revision]
    BY <2>1
  <2> QED  BY <2>1, <2>2, <2>3
<1>2. TypeOK'
  <2>1. ASSUME NEW m \in Lists, NEW i \in Revisions
        PROVE  rev'[m][i].on \subseteq Covered(rev'[m][i].items)
    BY <1>1 DEF Inv, TypeOK
  <2> QED  BY <1>1, <2>1 DEF Inv, TypeOK, Covered
<1>3. IndexAllows(rev)'
  <2>1. ASSUME NEW m \in Lists, NEW i \in Revisions
        PROVE  rev'[m][i].on \subseteq rev[m][i].on /\ (rev'[m][i].active => rev[m][i].active)
    BY <1>1
  <2> QED  BY <1>1, <2>1, ShrinkKeeps
<1>4. KeptAsReviewed'
  <2> SUFFICES ASSUME ~stale', NEW m \in Lists, NEW i \in Revisions, rev'[m][i].status = "aprobada"
               PROVE  rev'[m][i].items = reviewed'[m][i]
    BY DEF KeptAsReviewed
  <2>1. CASE m = l /\ i = n
    BY <1>1, <2>1 DEF Inv, KeptAsReviewed
  <2>2. CASE m # l \/ i # n
    BY <1>1, <2>2 DEF Inv, KeptAsReviewed
  <2> QED  BY <2>1, <2>2
<1> QED  BY <1>2, <1>3, <1>4 DEF Inv

LEMMA InitInv == Init => Inv
<1> SUFFICES ASSUME Init PROVE Inv
  OBVIOUS
<1> PICK published \in {{}} \cup {{l} : l \in Lists}, items \in Items :
      /\ Covered(items) # {}
      /\ list = [l \in Lists |-> l \in published]
      /\ rev = [l \in Lists |-> [n \in Revisions |->
            IF n = 1 /\ l \in published
            THEN [status |-> "aprobada", active |-> TRUE, items |-> items, on |-> Covered(items)]
            ELSE Absent]]
      /\ reviewed = [l \in Lists |-> [n \in Revisions |-> rev[l][n].items]]
  BY DEF Init
<1> DEFINE First == [status |-> "aprobada", active |-> TRUE, items |-> items, on |-> Covered(items)]
<1>1. First \in Revision /\ First.on \subseteq Covered(First.items)
  BY CoveredFact DEF Revision
<1>2. \A l \in Lists, n \in Revisions :
        rev[l][n] = IF n = 1 /\ l \in published THEN First ELSE Absent
  OBVIOUS
<1>3. TypeOK
  <2>1. rev \in [Lists -> [Revisions -> Revision]]
    BY <1>1, AbsentFact
  <2>2. \A l \in Lists, n \in Revisions : rev[l][n].on \subseteq Covered(rev[l][n].items)
    BY <1>1, <1>2, AbsentFact
  <2>3. reviewed \in [Lists -> [Revisions -> Items]]
    BY <2>1 DEF Revision
  <2>4. list \in [Lists -> BOOLEAN]
    OBVIOUS
  <2>5. req \in [Handlers -> Request]
    BY AbsentFact DEF Init
  <2>6. stale \in BOOLEAN
    BY DEF Init
  <2>7. served \in 0 .. MaxRequests
    BY PricesAssumption DEF Init
  <2> QED  BY <2>1, <2>2, <2>3, <2>4, <2>5, <2>6, <2>7 DEF TypeOK
<1>4. IndexAllows(rev)
  <2>1. \A l, m \in Lists : l \in published /\ m \in published => l = m
    OBVIOUS
  <2>2. \A l \in Lists, n \in Revisions : rev[l][n].on # {} \/ rev[l][n].active => n = 1 /\ l \in published
    BY <1>2, AbsentFact
  <2>3. ASSUME NEW l \in Lists, NEW m \in Lists, NEW i \in Revisions, NEW j \in Revisions, <<l, i>> # <<m, j>>
        PROVE  rev[l][i].on \cap rev[m][j].on = {}
    BY <2>1, <2>2, <2>3
  <2>4. \A l \in Lists, i, j \in Revisions : rev[l][i].active /\ rev[l][j].active => i = j
    BY <2>2
  <2> QED  BY <2>3, <2>4 DEF IndexAllows
<1>5. Carries /\ KeptAsReviewed
  BY AbsentFact DEF Init, Carries, KeptAsReviewed
<1> QED  BY <1>3, <1>4, <1>5 DEF Inv
-----------------------------------------------------------------------------
(***************************************************************************)
(* Requests                                                                *)
(***************************************************************************)
LEMMA CreateKeeps ==
    ASSUME Inv, NEW l \in Lists, NEW items \in Items, Create(l, items)
    PROVE  Inv'
<1> DEFINE X == [Absent EXCEPT !.status = "en_revision", !.items = items]
<1>1. X \in Revision /\ X.on = {} /\ X.active = FALSE /\ X.status = "en_revision"
  BY DEF Absent, Revision
<1>2. rev' = [rev EXCEPT ![l][1] = X]
  BY DEF Create
<1>3. req' \in [Handlers -> Request] /\ Carries'
  BY DEF Create, Inv, TypeOK, Carries
<1>4. list' \in [Lists -> BOOLEAN] /\ served' \in 0 .. MaxRequests
  BY PricesAssumption DEF Create, Inv, TypeOK
<1> HIDE DEF X
<1> QED  BY <1>1, <1>2, <1>3, <1>4, RevisionsFact, RowKeeps DEF Create, Inv, TypeOK

LEMMA BeginKeeps ==
    ASSUME Inv, NEW h \in Handlers, NEW op \in {"revise", "edit", "submit", "approve", "reject",
                                                "deactivate", "reactivate"},
           NEW l \in Lists, NEW n \in Revisions \cup {0}, NEW items \in Items,
           Begin(h, op, l, n, items),
           op \in {"revise", "edit", "submit", "approve", "reject"} => n \in Revisions,
           op = "edit" => rev[l][n].status # "aprobada"
    PROVE  Inv'
<1> DEFINE Was == IF n = 0 THEN Absent ELSE rev[l][n]
           R == [Idle EXCEPT !.op = op, !.pc = "begun", !.list = l, !.n = n, !.items = items, !.was = Was]
<1>1. Was \in Revision
  BY AbsentFact DEF Inv, TypeOK
<1>2. R \in Request /\ R.op = op /\ R.list = l /\ R.n = n /\ R.was = Was
  BY <1>1 DEF Idle, Request
<1>3. req' = [req EXCEPT ![h] = R] /\ UNCHANGED <<list, rev, reviewed, stale>>
  BY DEF Begin
<1>4. served' \in 0 .. MaxRequests
  BY PricesAssumption DEF Begin, Inv, TypeOK
<1>5. op = "edit" => R.was.status # "aprobada"
  BY <1>2, RevisionsFact
<1> HIDE DEF R
<1> QED  BY <1>2, <1>3, <1>4, <1>5, ReqKeeps

LEMMA AskKeeps ==
    ASSUME Inv, NEW h \in Handlers, Ask(h)
    PROVE  Inv'
<1> PICK l \in Lists :
      \/ BeginRevise(h, l) \/ BeginDeactivate(h, l) \/ BeginReactivate(h, l)
      \/ \E n \in Revisions :
           \/ BeginSubmit(h, l, n) \/ BeginReview(h, l, n)
           \/ \E items \in Items : BeginEdit(h, l, n, items)
  BY DEF Ask
<1>1. Active(l) \subseteq Revisions /\ ActiveOrNone(l) \subseteq Revisions \cup {0}
  BY DEF Active, ActiveOrNone
<1>2. \A n \in Revisions : rev[l][n].items \in Items
  BY DEF Inv, TypeOK, Revision
<1>3. CASE BeginRevise(h, l)
  BY <1>1, <1>2, <1>3, BeginKeeps DEF BeginRevise
<1>4. CASE BeginDeactivate(h, l) \/ BeginReactivate(h, l)
  BY <1>1, <1>4, AbsentFact, BeginKeeps DEF BeginDeactivate, BeginReactivate
<1>5. CASE \E n \in Revisions : BeginSubmit(h, l, n) \/ BeginReview(h, l, n)
  BY <1>5, AbsentFact, BeginKeeps DEF BeginSubmit, BeginReview
<1>6. CASE \E n \in Revisions, items \in Items : BeginEdit(h, l, n, items)
  <2> PICK n \in Revisions, items \in Items : BeginEdit(h, l, n, items)
    BY <1>6
  <2>1. rev[l][n].status # "aprobada"
    BY DEF BeginEdit, Editable
  <2> QED  BY <2>1, BeginKeeps DEF BeginEdit
<1> QED  BY <1>3, <1>4, <1>5, <1>6

\* A row that moved is not the row that was read.
LEMMA UnchangedFact ==
    ASSUME Inv, NEW h \in Handlers, req[h].n \in Revisions, MarkStale(h), ~stale'
    PROVE  ~stale /\ rev[req[h].list][req[h].n].status = req[h].was.status
BY RevisionsFact DEF MarkStale, Changed, Inv, TypeOK

LEMMA CommitReviseKeeps ==
    ASSUME Inv, NEW h \in Handlers, CommitRevise(h)
    PROVE  Inv'
<1> DEFINE l == req[h].list
           X == [Absent EXCEPT !.status = "borrador", !.items = req[h].items]
<1>1. PICK m \in NextRevision(l, req[h].n) : rev' = [rev EXCEPT ![l][m] = X]
  BY DEF CommitRevise
<1>2. l \in Lists /\ m \in Revisions
  BY DEF CommitRevise, Inv, Carries, NextRevision
<1>3. X \in Revision /\ X.on = {} /\ X.active = FALSE /\ X.status = "borrador"
  BY DEF Absent, Revision, Inv, TypeOK, Request
<1>4. req' \in [Handlers -> Request] /\ Carries'
  BY EndFact DEF CommitRevise
<1>5. list' \in [Lists -> BOOLEAN] /\ reviewed' = reviewed /\ served' \in 0 .. MaxRequests
      /\ stale' \in BOOLEAN /\ (stale => stale')
  BY DEF CommitRevise, MarkStale, Changed, Inv, TypeOK
<1> HIDE DEF l, X
<1> QED  BY <1>1, <1>2, <1>3, <1>4, <1>5, RowKeeps

\* A commit to the row of the request, of what it was before or what it is now.
LEMMA CommitKeeps ==
    ASSUME Inv, NEW h \in Handlers, req[h].list \in Lists, req[h].n \in Revisions, NEW x \in Revision,
           rev' = [rev EXCEPT ![req[h].list][req[h].n] = x],
           x.on \subseteq rev[req[h].list][req[h].n].on,
           x.active => rev[req[h].list][req[h].n].active,
           x.on \subseteq Covered(x.items),
           MarkStale(h), End(h), UNCHANGED <<list, reviewed, served>>,
           x.status = "aprobada" => req[h].op = "edit" /\ x.status = rev[req[h].list][req[h].n].status
    PROVE  Inv'
<1> DEFINE l == req[h].list
           n == req[h].n
<1>1. l \in Lists /\ n \in Revisions
  OBVIOUS
<1>2. req' \in [Handlers -> Request] /\ Carries'
  BY EndFact
<1>3. list' \in [Lists -> BOOLEAN] /\ reviewed' = reviewed /\ served' \in 0 .. MaxRequests
      /\ stale' \in BOOLEAN /\ (stale => stale')
  BY DEF MarkStale, Changed, Inv, TypeOK
<1>4. ~(~stale' /\ x.status = "aprobada")
  <2> SUFFICES ASSUME ~stale', x.status = "aprobada" PROVE FALSE
    OBVIOUS
  <2>1. rev[l][n].status = req[h].was.status
    BY UnchangedFact
  <2>2. req[h].was.status # "aprobada"
    BY DEF Inv, Carries
  <2> QED  BY <2>1, <2>2
<1>5. rev' = [rev EXCEPT ![l][n] = x] /\ x.on \subseteq rev[l][n].on /\ (x.active => rev[l][n].active)
  OBVIOUS
<1> HIDE DEF l, n
<1> QED  BY <1>1, <1>2, <1>3, <1>4, <1>5, RowKeeps

LEMMA CommitEditKeeps ==
    ASSUME Inv, NEW h \in Handlers, CommitEdit(h)
    PROVE  Inv'
<1>1. req[h].list \in Lists /\ req[h].n \in Revisions /\ req[h].items \in Items
  BY DEF CommitEdit, Inv, Carries, TypeOK, Request
<1> DEFINE Y == rev[req[h].list][req[h].n]
           X == Edited(Y, req[h].items)
<1>2. Y \in Revision
  BY <1>1 DEF Inv, TypeOK
<1>3. X \in Revision /\ X.on = {} /\ X.active = Y.active /\ X.status = Y.status
  BY <1>1, <1>2 DEF Edited, Revision
<1>4. rev' = [rev EXCEPT ![req[h].list][req[h].n] = X]
  BY DEF CommitEdit
<1> HIDE DEF X
<1> QED  BY <1>1, <1>3, <1>4, CommitKeeps DEF CommitEdit

LEMMA CommitSubmitKeeps ==
    ASSUME Inv, NEW h \in Handlers, CommitSubmit(h) \/ CommitReject(h)
    PROVE  Inv'
<1>1. req[h].list \in Lists /\ req[h].n \in Revisions
  BY DEF CommitSubmit, CommitReject, Inv, Carries
<1>2. PICK status \in {"en_revision", "rechazada"} :
        rev' = [rev EXCEPT ![req[h].list][req[h].n].status = status, ![req[h].list][req[h].n].active = FALSE]
  BY DEF CommitSubmit, CommitReject
<1> DEFINE Y == rev[req[h].list][req[h].n]
           X == [Y EXCEPT !.status = status, !.active = FALSE]
<1>3. Y \in Revision /\ Y.on \subseteq Covered(Y.items)
  BY <1>1 DEF Inv, TypeOK
<1>4. X \in Revision /\ X.on = Y.on /\ X.items = Y.items /\ X.active = FALSE /\ X.status = status
  BY <1>3 DEF Revision
<1>5. rev' = [rev EXCEPT ![req[h].list][req[h].n] = X]
  BY <1>1, <1>2, <1>3 DEF Inv, TypeOK, Revision
<1> HIDE DEF X
<1> QED  BY <1>1, <1>3, <1>4, <1>5, CommitKeeps DEF CommitSubmit, CommitReject

\* Any commit that does not approve new items, once its rows obey the indexes.
LEMMA SwitchKeeps ==
    ASSUME Inv, NEW h \in Handlers, End(h),
           rev' \in [Lists -> [Revisions -> Revision]],
           \A l \in Lists, n \in Revisions :
              /\ rev'[l][n].on \subseteq Covered(rev'[l][n].items)
              /\ rev'[l][n].items = rev[l][n].items /\ rev'[l][n].status = rev[l][n].status,
           IndexAllows(rev'), list' \in [Lists -> BOOLEAN], stale' \in BOOLEAN, stale => stale',
           UNCHANGED <<reviewed, served>>
    PROVE  Inv'
<1>1. req' \in [Handlers -> Request] /\ Carries'
  BY EndFact
<1>2. TypeOK'
  BY <1>1 DEF Inv, TypeOK, Covered
<1>3. KeptAsReviewed'
  BY DEF Inv, KeptAsReviewed
<1>4. IndexAllows(rev)'
  BY DEF IndexAllows
<1> QED  BY <1>1, <1>2, <1>3, <1>4 DEF Inv

LEMMA DeactivateKeeps ==
    ASSUME Inv, NEW h \in Handlers, CommitDeactivate(h)
    PROVE  Inv'
<1> DEFINE l == req[h].list
           n == req[h].n
<1>1. l \in Lists /\ n \in Revisions \cup {0}
  BY DEF CommitDeactivate, Inv, Carries, TypeOK, Request
<1>2. End(h) /\ list' \in [Lists -> BOOLEAN] /\ UNCHANGED <<reviewed, served>>
  BY DEF CommitDeactivate, Inv, TypeOK
<1>3. stale' \in BOOLEAN /\ (stale => stale')
  BY DEF CommitDeactivate, Inv, TypeOK
<1>4. CASE n = 0
  <2>1. rev' = rev
    BY <1>4 DEF CommitDeactivate
  <2>2. IndexAllows(rev')
    BY <2>1 DEF Inv
  <2> QED  BY <1>2, <1>3, <2>1, <2>2, SwitchKeeps DEF Inv, TypeOK
<1>5. CASE n # 0
  <2> DEFINE Y == rev[l][n]
             X == SwitchedOff(Y)
  <2>1. n \in Revisions
    BY <1>1, <1>5
  <2>2. Y \in Revision /\ rev \in [Lists -> [Revisions -> Revision]]
    BY <1>1, <2>1 DEF Inv, TypeOK
  <2>3. X \in Revision /\ X.on = {} /\ X.items = Y.items /\ X.status = Y.status /\ X.active = Y.active
    BY <2>2 DEF SwitchedOff, Revision
  <2>4. rev' = [rev EXCEPT ![l][n] = X]
    BY <1>5 DEF CommitDeactivate
  <2>5. req' \in [Handlers -> Request] /\ Carries'
    BY <1>2, EndFact
  <2>6. reviewed' = reviewed /\ served' \in 0 .. MaxRequests
    BY <1>2 DEF Inv, TypeOK
  <2>7. X.on \subseteq Y.on /\ (X.active => Y.active) /\ X.on \subseteq Covered(X.items)
    BY <2>3
  <2> HIDE DEF X, l, n
  <2> QED  BY <1>1, <1>2, <1>3, <2>1, <2>3, <2>4, <2>5, <2>6, <2>7, RowKeeps
<1> QED  BY <1>1, <1>4, <1>5

LEMMA ReactivateKeeps ==
    ASSUME Inv, NEW h \in Handlers, CommitReactivate(h)
    PROVE  Inv'
<1> DEFINE l == req[h].list
           n == req[h].n
<1>1. l \in Lists /\ n \in Revisions \cup {0}
  BY DEF CommitReactivate, Inv, Carries, TypeOK, Request
<1>2. End(h) /\ list' \in [Lists -> BOOLEAN] /\ UNCHANGED <<reviewed, served>>
  BY DEF CommitReactivate, Inv, TypeOK
<1>3. stale' \in BOOLEAN /\ (stale => stale')
  BY DEF CommitReactivate, Inv, TypeOK
<1>4. IndexAllows(rev')
  BY DEF CommitReactivate
<1>5. rev \in [Lists -> [Revisions -> Revision]]
      /\ \A m \in Lists, i \in Revisions : rev[m][i].on \subseteq Covered(rev[m][i].items)
  BY DEF Inv, TypeOK
<1>6. CASE n = 0
  <2>1. rev' = rev
    BY <1>6 DEF CommitReactivate, Reactivated
  <2> QED  BY <1>2, <1>3, <1>4, <1>5, <2>1, SwitchKeeps
<1>7. CASE n # 0
  <2> DEFINE Y == rev[l][n]
             X == [Y EXCEPT !.on = Covered(Y.items)]
  <2>1. n \in Revisions
    BY <1>1, <1>7
  <2>2. Y \in Revision
    BY <1>1, <1>5, <2>1
  <2>3. X \in Revision /\ X.on = Covered(Y.items) /\ X.items = Y.items /\ X.status = Y.status
    BY <2>2, CoveredFact DEF Revision
  <2>4. rev' = [rev EXCEPT ![l] = [rev[l] EXCEPT ![n] = X]]
    BY <1>1, <1>5, <1>7, <2>1 DEF CommitReactivate, Reactivated
  <2> HIDE DEF X
  <2>5. [rev[l] EXCEPT ![n] = X] \in [Revisions -> Revision]
    BY <1>1, <1>5, <2>3
  <2>6. rev' \in [Lists -> [Revisions -> Revision]]
    BY <1>5, <2>4, <2>5
  <2>7. ASSUME NEW m \in Lists, NEW i \in Revisions
        PROVE  /\ rev'[m][i].on \subseteq Covered(rev'[m][i].items)
               /\ rev'[m][i].items = rev[m][i].items /\ rev'[m][i].status = rev[m][i].status
    <3>1. CASE m = l /\ i = n
      BY <1>1, <1>5, <2>1, <2>3, <2>4, <3>1
    <3>2. CASE m # l \/ i # n
      BY <1>1, <1>5, <2>4, <3>2
    <3> QED  BY <3>1, <3>2
  <2> QED  BY <1>2, <1>3, <1>4, <2>6, <2>7, SwitchKeeps
<1> QED  BY <1>6, <1>7

LEMMA FindActiveFact ==
    ASSUME Inv, NEW h \in Handlers, FindActive(h)
    PROVE  \E R \in Request :
             /\ req' = [req EXCEPT ![h] = R]
             /\ R.op = "approve" /\ R.pc = "found" /\ R.found = Active(R.list)
             /\ R.list = req[h].list /\ R.n = req[h].n /\ R.was = req[h].was
<1> DEFINE old == req[h]
           R == [old EXCEPT !.pc = "found", !.found = Active(old.list)]
<1>1. old \in Request /\ old.op = "approve" /\ Active(old.list) \subseteq Revisions
  BY DEF FindActive, Inv, TypeOK, Active
<1>2. /\ R \in Request /\ R.op = "approve" /\ R.list = old.list /\ R.n = old.n /\ R.was = old.was
      /\ R.pc = "found" /\ R.found = Active(old.list)
  BY <1>1 DEF Request
<1>3. req' = [req EXCEPT ![h] = R]
  BY <1>1 DEF FindActive, Inv, TypeOK
<1> HIDE DEF R
<1> QED  BY <1>2, <1>3

LEMMA FindActiveKeeps ==
    ASSUME Inv, NEW h \in Handlers, FindActive(h)
    PROVE  Inv'
<1>1. PICK R \in Request : /\ req' = [req EXCEPT ![h] = R]
                           /\ R.op = "approve" /\ R.list = req[h].list /\ R.n = req[h].n
  BY FindActiveFact
<1>2. req[h].list \in Lists /\ req[h].n \in Revisions
  BY DEF FindActive, Inv, Carries
<1>3. UNCHANGED <<list, rev, reviewed, stale>> /\ served' \in 0 .. MaxRequests
  BY DEF FindActive, Inv, TypeOK
<1> QED  BY <1>1, <1>2, <1>3, ReqKeeps

LEMMA SwitchOffFact ==
    ASSUME Inv, NEW h \in Handlers, SwitchOff(h)
    PROVE  \E R \in Request :
             /\ req' = [req EXCEPT ![h] = R]
             /\ R.op = "approve" /\ R.pc = "off" /\ R.list = req[h].list /\ R.n = req[h].n
             /\ R.off = Replaced(R.list, R.n, R.found) /\ R.gone = Active(R.list) /\ R.found = req[h].found
             /\ R.was.status = req[h].was.status /\ R.was.items = rev[R.list][R.n].items
<1> DEFINE old == req[h]
           Off == Replaced(old.list, old.n, old.found)
           W == [old.was EXCEPT !.items = rev[old.list][old.n].items]
           R == [old EXCEPT !.pc = "off", !.off = Off, !.gone = Active(old.list), !.was = W]
<1>1. old \in Request /\ old.op = "approve" /\ old.list \in Lists /\ old.n \in Revisions
  BY DEF SwitchOff, Inv, Carries, TypeOK
<1>2. rev[old.list][old.n].items \in Items
  BY <1>1 DEF Inv, TypeOK, Revision
<1>3. Off \subseteq Lists \X Revisions \X Combos /\ Active(old.list) \subseteq Revisions
  BY DEF Replaced, On, ItemRows, Active
<1>4. W \in Revision /\ W.items = rev[old.list][old.n].items /\ W.status = old.was.status
  BY <1>1, <1>2 DEF Request, Revision
<1>5. /\ R \in Request /\ R.op = "approve" /\ R.list = old.list /\ R.n = old.n
      /\ R.off = Off /\ R.gone = Active(old.list) /\ R.was = W /\ R.pc = "off" /\ R.found = old.found
  <2> HIDE DEF Off, W
  <2> QED  BY <1>1, <1>3, <1>4 DEF Request
<1>6. req' = [req EXCEPT ![h] = R]
  <2>1. req \in [Handlers -> Request]
    BY DEF Inv, TypeOK
  <2>2. req' = [req EXCEPT ![h].pc = "off", ![h].off = Off, ![h].gone = Active(old.list),
                           ![h].was.items = rev[old.list][old.n].items]
    BY DEF SwitchOff
  <2> HIDE DEF Off
  <2> QED  BY <2>1, <2>2 DEF Request
<1> HIDE DEF R, W
<1> QED  BY <1>4, <1>5, <1>6

LEMMA SwitchOffKeeps ==
    ASSUME Inv, NEW h \in Handlers, SwitchOff(h)
    PROVE  Inv'
<1>1. PICK R \in Request : /\ req' = [req EXCEPT ![h] = R]
                           /\ R.op = "approve" /\ R.list = req[h].list /\ R.n = req[h].n
  BY SwitchOffFact
<1>2. req[h].list \in Lists /\ req[h].n \in Revisions
  BY DEF SwitchOff, Inv, Carries
<1>3. UNCHANGED <<list, rev, reviewed, stale>> /\ served' \in 0 .. MaxRequests
  BY DEF SwitchOff, Inv, TypeOK
<1> QED  BY <1>1, <1>2, <1>3, ReqKeeps

\* The rows of an approval: those of the revision, and those switched off.
LEMMA ApproveKeeps ==
    ASSUME Inv, NEW h \in Handlers, CommitApprove(h)
    PROVE  Inv'
<1> DEFINE r == req[h]
           l == r.list
           n == r.n
<1>1. r \in Request /\ l \in Lists /\ n \in Revisions
  BY DEF CommitApprove, Inv, Carries, TypeOK
<1>2. rev \in [Lists -> [Revisions -> Revision]]
      /\ \A m \in Lists, i \in Revisions : rev[m][i].on \subseteq Covered(rev[m][i].items)
  BY DEF Inv, TypeOK
<1> DEFINE New(m, i) == IF <<m, i>> = <<l, n>>
                        THEN [rev[m][i] EXCEPT !.status = "aprobada", !.active = TRUE,
                                               !.on = Covered(rev[m][i].items)]
                        ELSE [rev[m][i] EXCEPT !.on = {k \in rev[m][i].on : <<m, i, k>> \notin r.off},
                                               !.active = rev[m][i].active /\ ~(m = l /\ i \in r.gone)]
<1>3. rev' = [m \in Lists |-> [i \in Revisions |-> New(m, i)]]
  <2>1. ASSUME NEW m \in Lists, NEW i \in Revisions
        PROVE  Approved(r)[m][i] = New(m, i)
    BY <1>2 DEF Approved, Revision
  <2> HIDE DEF New
  <2>2. Approved(r) = [m \in Lists |-> [i \in Revisions |-> Approved(r)[m][i]]]
    BY DEF Approved
  <2>3. rev' = Approved(r)
    BY DEF CommitApprove
  <2>4. [m \in Lists |-> [i \in Revisions |-> Approved(r)[m][i]]]
          = [m \in Lists |-> [i \in Revisions |-> New(m, i)]]
    BY <2>1
  <2> QED  BY <2>2, <2>3, <2>4
<1>4. ASSUME NEW m \in Lists, NEW i \in Revisions
      PROVE  /\ New(m, i) \in Revision
             /\ New(m, i).on \subseteq Covered(New(m, i).items)
             /\ New(m, i).items = rev[m][i].items
             /\ <<m, i>> # <<l, n>> => New(m, i).status = rev[m][i].status
  <2>1. rev[m][i] \in Revision /\ rev[m][i].on \subseteq Covered(rev[m][i].items)
    BY <1>2
  <2>2. CASE <<m, i>> = <<l, n>>
    BY <2>1, <2>2, CoveredFact DEF Revision
  <2>3. CASE <<m, i>> # <<l, n>>
    BY <2>1, <2>3 DEF Revision
  <2> QED  BY <2>2, <2>3
<1>5. \A m \in Lists, i \in Revisions : rev'[m][i] = New(m, i)
  <2> HIDE DEF New
  <2> QED  BY <1>3
<1>6. rev' \in [Lists -> [Revisions -> Revision]]
  <2> HIDE DEF New
  <2> QED  BY <1>3, <1>4
<1>7. End(h) /\ list' \in [Lists -> BOOLEAN] /\ served' = served
  BY DEF CommitApprove, Inv, TypeOK
<1>8. reviewed' = [reviewed EXCEPT ![l][n] = rev[l][n].items]
  BY DEF CommitApprove
<1>9. stale' \in BOOLEAN /\ (stale => stale')
  BY DEF CommitApprove, Inv, TypeOK
<1>10. IndexAllows(rev')
  BY DEF CommitApprove
<1>11. req' \in [Handlers -> Request] /\ Carries'
  BY <1>7, EndFact
<1>12. reviewed \in [Lists -> [Revisions -> Items]] /\ served \in 0 .. MaxRequests
  BY DEF Inv, TypeOK
<1>13. reviewed' \in [Lists -> [Revisions -> Items]]
  <2>1. rev[l][n].items \in Items
    BY <1>1, <1>2 DEF Revision
  <2> QED  BY <1>1, <1>8, <1>12, <2>1
<1>14. \A m \in Lists, i \in Revisions : rev'[m][i].on \subseteq Covered(rev'[m][i].items)
  <2> HIDE DEF New
  <2> QED  BY <1>4, <1>5
<1>15. TypeOK'
  BY <1>6, <1>7, <1>9, <1>11, <1>12, <1>13, <1>14 DEF TypeOK, Covered
<1>16. KeptAsReviewed'
  <2> SUFFICES ASSUME ~stale', NEW m \in Lists, NEW i \in Revisions, rev'[m][i].status = "aprobada"
               PROVE  rev'[m][i].items = reviewed'[m][i]
    BY DEF KeptAsReviewed
  <2>1. rev'[m][i].items = rev[m][i].items
        /\ (<<m, i>> # <<l, n>> => rev'[m][i].status = rev[m][i].status)
    <3> HIDE DEF New, l, n
    <3> QED  BY <1>4, <1>5
  <2>2. CASE <<m, i>> = <<l, n>>
    BY <1>1, <1>8, <1>12, <2>1, <2>2
  <2>3. CASE <<m, i>> # <<l, n>>
    BY <1>1, <1>8, <1>9, <1>12, <2>1, <2>3 DEF Inv, KeptAsReviewed
  <2> QED  BY <2>2, <2>3
<1>17. IndexAllows(rev)'
  BY <1>10 DEF IndexAllows
<1> QED  BY <1>15, <1>11, <1>16, <1>17 DEF Inv

LEMMA AnswerKeeps ==
    ASSUME Inv, NEW h \in Handlers, Answer(h)
    PROVE  Inv'
<1>1. CASE Fail(h)
  BY <1>1, AbsentFact, ReqKeeps DEF Fail, End, Inv, TypeOK
<1> QED
  BY <1>1, CommitReviseKeeps, CommitEditKeeps, CommitSubmitKeeps, SwitchOffKeeps, ApproveKeeps,
     DeactivateKeeps, ReactivateKeeps, FindActiveKeeps
  DEF Answer

LEMMA NextKeeps == Inv /\ [Next]_vars => Inv'
<1> SUFFICES ASSUME Inv, [Next]_vars PROVE Inv'
  OBVIOUS
<1>1. CASE \E l \in Lists, items \in Items : Create(l, items)
  BY <1>1, CreateKeeps
<1>2. CASE \E h \in Handlers : Ask(h) \/ Answer(h)
  BY <1>2, AskKeeps, AnswerKeeps
<1>3. CASE UNCHANGED vars
  BY <1>3 DEF vars, Inv, TypeOK, IndexAllows, Carries, KeptAsReviewed, Covered
<1> QED  BY <1>1, <1>2, <1>3 DEF Next, Quiet
-----------------------------------------------------------------------------
\* The indexes, what requests carry and what was approved hold in every state.
THEOREM Invariant == Spec => []Inv
BY InitInv, NextKeeps, PTL DEF Spec

\* Every variable of the special lists keeps its type, and an active item is an
\* item, whatever requests overlap.
THEOREM TypeCorrect == Spec => []TypeOK
<1>1. Inv => TypeOK
  BY DEF Inv
<1> QED  BY <1>1, Invariant, PTL

\* resolveSpecialPrice finds at most one price for a customer and a presentation:
\* the partial indexes keep it so, whatever the handlers decided from.
THEOREM AtMostOnePrice == Spec => []OneSpecialPrice
<1>1. Inv => OneSpecialPrice
  <2> SUFFICES ASSUME Inv, NEW k \in Combos PROVE Cardinality(InForce(k)) <= 1
    BY DEF OneSpecialPrice
  <2>1. \A x, y \in InForce(k) : x = y
    <3> SUFFICES ASSUME NEW x \in InForce(k), NEW y \in InForce(k), x # y PROVE FALSE
      OBVIOUS
    <3>1. /\ x \in Lists \X Revisions /\ y \in Lists \X Revisions
          /\ k \in rev[x[1]][x[2]].on /\ k \in rev[y[1]][y[2]].on
      BY DEF InForce
    <3>2. x[1] \in Lists /\ x[2] \in Revisions /\ y[1] \in Lists /\ y[2] \in Revisions
          /\ <<x[1], x[2]>> # <<y[1], y[2]>>
      BY <3>1
    <3>3. rev[x[1]][x[2]].on \cap rev[y[1]][y[2]].on = {}
      BY <3>2 DEF Inv, IndexAllows
    <3> QED  BY <3>1, <3>3
  <2>2. CASE InForce(k) = {}
    BY <2>2, FS_EmptySet
  <2>3. CASE InForce(k) # {}
    <3> PICK x \in InForce(k) : TRUE
      BY <2>3
    <3>1. InForce(k) = {x}
      BY <2>1
    <3> QED  BY <3>1, FS_Singleton
  <2> QED  BY <2>2, <2>3
<1> QED  BY <1>1, Invariant, PTL

\* The price that applies is the one that was reviewed, as long as no request was
\* decided by a status that had changed.
THEOREM PricesWereReviewed == Spec => []OnlyReviewedPrices
<1>1. Inv => OnlyReviewedPrices
  <2> SUFFICES ASSUME Inv, ~stale, NEW k \in Combos, NEW x \in InForce(k)
               PROVE  rev[x[1]][x[2]].items[k] = reviewed[x[1]][x[2]][k]
    BY DEF OnlyReviewedPrices
  <2>1. x[1] \in Lists /\ x[2] \in Revisions /\ rev[x[1]][x[2]].status = "aprobada"
    BY DEF InForce
  <2>2. rev[x[1]][x[2]].items = reviewed[x[1]][x[2]]
    BY <2>1 DEF Inv, KeptAsReviewed
  <2> QED  BY <2>2
<1> QED  BY <1>1, Invariant, PTL
-----------------------------------------------------------------------------
(***************************************************************************)
(* What stands                                                             *)
(*                                                                         *)
(* As long as no write was decided by an old status, what is switched on   *)
(* applies: so the prices in force are the items that are on, and change   *)
(* when those do.                                                          *)
(***************************************************************************)

\* A revision covers something, and one that is active is there.
Filled ==
    \A l \in Lists, n \in Revisions :
        /\ rev[l][n].status # "absent" => Covered(rev[l][n].items) # {}
        /\ rev[l][n].active => rev[l][n].status # "absent"

\* What a request was told when it began.
Named ==
    \A h \in Handlers :
        /\ req[h].op \in {"edit", "submit", "approve", "reject"} =>
             rev[req[h].list][req[h].n].status # "absent"
        /\ req[h].op \in {"submit", "reject"} => req[h].was.status # "aprobada"
        /\ req[h].op \in {"revise", "edit"} => Covered(req[h].items) # {}

Standing ==
    ~stale => \A l \in Lists, n \in Revisions :
                /\ rev[l][n].on # {} => rev[l][n].active /\ list[l]
                /\ rev[l][n].active => rev[l][n].status = "aprobada"

\* An approval under way holds the revisions it replaces; with all their items, if
\* they are the ones it found, and otherwise only what its own items displace.
Held(h) ==
    LET r == req[h] IN
    r.pc = "off" =>
        /\ r.op = "approve"
        /\ r.gone = r.found =>
             /\ \A n \in r.gone :
                  /\ rev[r.list][n].active
                  /\ \A k \in Covered(rev[r.list][n].items) : <<r.list, n, k>> \in r.off
             /\ \A x \in r.off :
                  \/ x[3] \in Covered(r.was.items)
                  \/ x[1] = r.list /\ x[2] \in r.gone /\ x[3] \in Covered(rev[r.list][x[2]].items)
        /\ \A g \in Handlers \ {h} :
             req[g].pc = "off" /\ req[g].list = r.list => req[g].gone \cap r.gone = {}

Clean == Filled /\ Named /\ Standing /\ \A h \in Handlers : Held(h)

LEMMA InitClean == Init => Clean
<1> SUFFICES ASSUME Init PROVE Clean
  OBVIOUS
<1> PICK published \in {{}} \cup {{l} : l \in Lists}, items \in Items :
      /\ Covered(items) # {}
      /\ list = [l \in Lists |-> l \in published]
      /\ rev = [l \in Lists |-> [n \in Revisions |->
            IF n = 1 /\ l \in published
            THEN [status |-> "aprobada", active |-> TRUE, items |-> items, on |-> Covered(items)]
            ELSE Absent]]
  BY DEF Init
<1> DEFINE First == [status |-> "aprobada", active |-> TRUE, items |-> items, on |-> Covered(items)]
<1>1. \A l \in Lists, n \in Revisions : (rev[l][n] = First /\ l \in published) \/ rev[l][n] = Absent
  OBVIOUS
<1>2. First.status = "aprobada" /\ First.active = TRUE /\ First.items = items /\ First.on = Covered(items)
  OBVIOUS
<1>3. \A l \in Lists : l \in published => list[l]
  OBVIOUS
<1> HIDE DEF First
<1>4. Filled /\ Standing
  BY <1>1, <1>2, <1>3, AbsentFact DEF Filled, Standing
<1>5. \A h \in Handlers : req[h] = Idle
  BY DEF Init
<1>6. Named /\ \A h \in Handlers : Held(h)
  BY <1>5, AbsentFact DEF Named, Held
<1> QED  BY <1>4, <1>6 DEF Clean
-----------------------------------------------------------------------------
\* Requests end, or wait with what they have.
RequestsGoOn == \A g \in Handlers : req'[g] = req[g] \/ req'[g] = Idle

RowsGoOn == \A l \in Lists, n \in Revisions : rev[l][n].status # "absent" => rev'[l][n].status # "absent"

\* Nobody else writes what an approval holds.
HeldRows ==
    \A g \in Handlers, n \in Revisions :
        req'[g].pc = "off" /\ n \in req[g].gone /\ req[g].gone = req[g].found =>
            /\ rev'[req[g].list][n].items = rev[req[g].list][n].items
            /\ rev'[req[g].list][n].active

LEMMA GoneFact ==
    ASSUME Inv, NEW g \in Handlers
    PROVE  /\ req[g].gone \subseteq Revisions
           /\ req[g].op # "none" => req[g].list \in Lists
           /\ req[g].op = "approve" => req[g].n \in Revisions
           /\ req[g].off \subseteq Lists \X Revisions \X Combos
BY DEF Inv, TypeOK, Request, Carries

LEMMA CleanKeeps ==
    ASSUME Inv, Inv', Clean, RequestsGoOn, RowsGoOn, HeldRows, Filled', Standing'
    PROVE  Clean'
<1>1. Named'
  <2> SUFFICES ASSUME NEW h \in Handlers
               PROVE  /\ req'[h].op \in {"edit", "submit", "approve", "reject"} =>
                           rev'[req'[h].list][req'[h].n].status # "absent"
                      /\ req'[h].op \in {"submit", "reject"} => req'[h].was.status # "aprobada"
                      /\ req'[h].op \in {"revise", "edit"} => Covered(req'[h].items) # {}
    BY DEF Named, Covered
  <2>1. CASE req'[h] = Idle
    BY <2>1, AbsentFact
  <2>2. CASE req'[h] = req[h]
    <3>1. req[h].op \in {"edit", "submit", "approve", "reject"} => req[h].list \in Lists /\ req[h].n \in Revisions
      BY DEF Inv, Carries
    <3> QED  BY <2>2, <3>1 DEF Clean, Named, RowsGoOn
  <2> QED  BY <2>1, <2>2 DEF RequestsGoOn
<1>2. ASSUME NEW h \in Handlers PROVE Held(h)'
  <2> SUFFICES ASSUME req'[h].pc = "off" PROVE Held(h)'
    BY DEF Held
  <2>1. req'[h] = req[h]
    BY AbsentFact DEF RequestsGoOn
  <2>2. Held(h) /\ req[h].gone \subseteq Revisions
    BY GoneFact DEF Clean
  <2>3. \A g \in Handlers : req'[g].pc = "off" => req'[g] = req[g]
    BY AbsentFact DEF RequestsGoOn
  <2>4. req[h].op = "approve" /\ \A g \in Handlers \ {h} :
           req'[g].pc = "off" /\ req'[g].list = req[h].list => req'[g].gone \cap req[h].gone = {}
    BY <2>1, <2>2, <2>3 DEF Held
  <2>5. ASSUME req[h].gone = req[h].found
        PROVE  /\ \A n \in req[h].gone :
                    /\ rev'[req[h].list][n].active
                    /\ \A k \in Covered(rev'[req[h].list][n].items) : <<req[h].list, n, k>> \in req[h].off
               /\ \A x \in req[h].off :
                    \/ x[3] \in Covered(req[h].was.items)
                    \/ x[1] = req[h].list /\ x[2] \in req[h].gone
                         /\ x[3] \in Covered(rev'[req[h].list][x[2]].items)
    <3>1. \A n \in req[h].gone : /\ rev'[req[h].list][n].items = rev[req[h].list][n].items
                                 /\ rev'[req[h].list][n].active
      BY <2>2, <2>5 DEF HeldRows
    <3>2. ASSUME NEW n \in req[h].gone
          PROVE  /\ rev'[req[h].list][n].active
                 /\ Covered(rev'[req[h].list][n].items) = Covered(rev[req[h].list][n].items)
      BY <3>1 DEF Covered
    <3>3. \A n \in req[h].gone : \A k \in Covered(rev[req[h].list][n].items) : <<req[h].list, n, k>> \in req[h].off
      BY <2>1, <2>2, <2>5 DEF Held
    <3>4. ASSUME NEW x \in req[h].off
          PROVE  \/ x[3] \in Covered(req[h].was.items)
                 \/ x[1] = req[h].list /\ x[2] \in req[h].gone
                      /\ x[3] \in Covered(rev'[req[h].list][x[2]].items)
      BY <2>1, <2>2, <2>5, <3>2 DEF Held
    <3> QED  BY <3>2, <3>3, <3>4
  <2> QED  BY <2>1, <2>4, <2>5 DEF Held, Covered
<1> QED  BY <1>1, <1>2 DEF Clean

\* A write that waits for the rows it writes meets none that an approval holds.
LEMMA WaitsFact ==
    ASSUME Inv, Clean, NEW h, NEW g \in Handlers \ {h}, NEW l \in Lists, NEW n \in Revisions,
           req[g].pc = "off", req[g].gone = req[g].found, req[g].list = l,
           RowFree(h, l, n) \/ ItemsFree(h, ItemsOf(l, n)) \/ ~rev[l][n].active
    PROVE  n \notin req[g].gone
<1> SUFFICES ASSUME n \in req[g].gone PROVE FALSE
  OBVIOUS
<1>1. Held(g) /\ rev[l][n].active
  BY DEF Clean, Held
<1>2. Covered(rev[l][n].items) # {}
  BY <1>1 DEF Clean, Filled
<1>3. PICK k \in Covered(rev[l][n].items) : <<l, n, k>> \in req[g].off
  BY <1>1, <1>2 DEF Held
<1>4. <<l, n, k>> \in ItemsOf(l, n)
  BY <1>3 DEF ItemsOf, Covered
<1> QED  BY <1>1, <1>3, <1>4 DEF RowFree, ItemsFree

\* A write to one row.
OneRow(l, n, x) ==
    /\ rev'[l][n] = x
    /\ \A m \in Lists, i \in Revisions : m # l \/ i # n => rev'[m][i] = rev[m][i]

LEMMA RowFact ==
    ASSUME Inv, NEW l \in Lists, NEW n \in Revisions, NEW x, rev' = [rev EXCEPT ![l][n] = x]
    PROVE  OneRow(l, n, x)
<1>1. rev \in [Lists -> [Revisions -> Revision]]
  BY DEF Inv, TypeOK
<1> DEFINE row == [rev[l] EXCEPT ![n] = x]
<1>2. rev' = [rev EXCEPT ![l] = row]
  BY <1>1
<1>3. row[n] = x /\ \A i \in Revisions : i # n => row[i] = rev[l][i]
  BY <1>1
<1>4. DOMAIN rev = Lists
  BY <1>1
<1> HIDE DEF row
<1>5. rev'[l] = row /\ \A m \in Lists : m # l => rev'[m] = rev[m]
  BY <1>2, <1>4
<1>6. ASSUME NEW m \in Lists, NEW i \in Revisions, m # l \/ i # n PROVE rev'[m][i] = rev[m][i]
  <2>1. CASE m = l
    BY <1>3, <1>5, <1>6, <2>1
  <2>2. CASE m # l
    BY <1>5, <2>2
  <2> QED  BY <2>1, <2>2
<1>7. rev'[l][n] = x
  BY <1>3, <1>5
<1> QED  BY <1>6, <1>7 DEF OneRow

\* A commit that writes one row.
LEMMA RowClean ==
    ASSUME Inv, Inv', Clean, NEW h, NEW l \in Lists, NEW n \in Revisions, NEW x,
           rev' = [rev EXCEPT ![l][n] = x],
           RequestsGoOn, req'[h].pc # "off" \/ ~rev[l][n].active,
           RowFree(h, l, n) \/ ItemsFree(h, ItemsOf(l, n)) \/ ~rev[l][n].active,
           x.status # "absent", Covered(x.items) # {}, stale => stale',
           ~stale' => /\ x.on # {} => x.active /\ list'[l]
                      /\ x.active => x.status = "aprobada"
                      /\ \A m \in Lists, i \in Revisions :
                           (m # l \/ i # n) /\ rev[m][i].on # {} => list'[m]
    PROVE  Clean'
<1>1. rev'[l][n] = x /\ \A m \in Lists, i \in Revisions : m # l \/ i # n => rev'[m][i] = rev[m][i]
  <2>1. OneRow(l, n, x)
    BY RowFact
  <2> QED  BY <2>1 DEF OneRow
<1>2. RowsGoOn
  BY <1>1 DEF RowsGoOn
<1>3. Filled'
  <2>1. ASSUME NEW m \in Lists, NEW i \in Revisions
        PROVE  /\ rev'[m][i].status # "absent" => Covered(rev'[m][i].items) # {}
               /\ rev'[m][i].active => rev'[m][i].status # "absent"
    BY <1>1 DEF Clean, Filled
  <2> QED  BY <2>1 DEF Filled, Covered
<1>4. Standing'
  <2> SUFFICES ASSUME ~stale', NEW m \in Lists, NEW i \in Revisions
               PROVE  /\ rev'[m][i].on # {} => rev'[m][i].active /\ list'[m]
                      /\ rev'[m][i].active => rev'[m][i].status = "aprobada"
    BY DEF Standing
  <2>1. CASE m = l /\ i = n
    BY <1>1, <2>1
  <2>2. CASE m # l \/ i # n
    BY <1>1, <2>2 DEF Clean, Standing
  <2> QED  BY <2>1, <2>2
<1>5. HeldRows
  <2> SUFFICES ASSUME NEW g \in Handlers, NEW i \in Revisions, req'[g].pc = "off", i \in req[g].gone,
                      req[g].gone = req[g].found
               PROVE  /\ rev'[req[g].list][i].items = rev[req[g].list][i].items
                      /\ rev'[req[g].list][i].active
    BY DEF HeldRows
  <2>1. req[g].pc = "off" /\ Held(g)
    BY AbsentFact DEF RequestsGoOn, Clean
  <2>2. req[g].list \in Lists /\ rev[req[g].list][i].active
    BY <2>1, AbsentFact, GoneFact DEF Held
  <2>3. req[g].list # l \/ i # n
    <3>1. CASE g = h
      BY <2>2, <3>1
    <3>2. CASE g # h
      BY <2>1, <3>2, WaitsFact
    <3> QED  BY <3>1, <3>2
  <2> QED  BY <1>1, <2>2, <2>3
<1> QED  BY <1>2, <1>3, <1>4, <1>5, CleanKeeps

-----------------------------------------------------------------------------
\* A request that begins, or goes on, and leaves the rows alone.
LEMMA ReqClean ==
    ASSUME Inv, Clean, NEW h \in Handlers, NEW r \in Request, req' = [req EXCEPT ![h] = r],
           UNCHANGED <<list, rev, stale>>,
           r.op \in {"edit", "submit", "approve", "reject"} => rev[r.list][r.n].status # "absent",
           r.op \in {"submit", "reject"} => r.was.status # "aprobada",
           r.op \in {"revise", "edit"} => Covered(r.items) # {},
           Held(h)',
           r.pc = "off" => \A g \in Handlers \ {h} : req[g].list = r.list => req[g].gone \cap r.gone = {}
    PROVE  Clean'
<1>1. req'[h] = r /\ \A g \in Handlers \ {h} : req'[g] = req[g]
  BY DEF Inv, TypeOK
<1>2. Filled' /\ Standing'
  BY DEF Clean, Filled, Standing, Covered
<1>3. Named'
  <2> SUFFICES ASSUME NEW g \in Handlers
               PROVE  /\ req'[g].op \in {"edit", "submit", "approve", "reject"} =>
                           rev'[req'[g].list][req'[g].n].status # "absent"
                      /\ req'[g].op \in {"submit", "reject"} => req'[g].was.status # "aprobada"
                      /\ req'[g].op \in {"revise", "edit"} => Covered(req'[g].items) # {}
    BY DEF Named, Covered
  <2>1. CASE g = h
    BY <1>1, <2>1
  <2>2. CASE g # h
    BY <1>1, <2>2 DEF Clean, Named
  <2> QED  BY <2>1, <2>2
<1>4. ASSUME NEW g \in Handlers \ {h} PROVE Held(g)'
  <2>1. req'[g] = req[g] /\ Held(g) /\ rev' = rev
    BY <1>1 DEF Clean
  <2>2. ASSUME req[g].pc = "off", NEW f \in Handlers \ {g}, req'[f].pc = "off", req'[f].list = req[g].list
        PROVE  req'[f].gone \cap req[g].gone = {}
    <3>1. CASE f = h
      BY <1>1, <2>1, <2>2, <3>1
    <3>2. CASE f # h
      BY <1>1, <2>1, <2>2, <3>2 DEF Held
    <3> QED  BY <3>1, <3>2
  <2> QED  BY <2>1, <2>2 DEF Held, Covered
<1> QED  BY <1>2, <1>3, <1>4 DEF Clean

LEMMA BeginClean ==
    ASSUME Inv, Clean, NEW h \in Handlers, NEW op \in {"revise", "edit", "submit", "approve", "reject",
                                                       "deactivate", "reactivate"},
           NEW l \in Lists, NEW n \in Revisions \cup {0}, NEW items \in Items,
           Begin(h, op, l, n, items),
           op \in {"revise", "edit", "submit", "approve", "reject"} => n \in Revisions,
           op \in {"edit", "submit", "approve", "reject"} => rev[l][n].status # "absent",
           op \in {"submit", "reject"} => rev[l][n].status # "aprobada",
           op \in {"revise", "edit"} => Covered(items) # {}
    PROVE  Clean'
<1> DEFINE Was == IF n = 0 THEN Absent ELSE rev[l][n]
           R == [Idle EXCEPT !.op = op, !.pc = "begun", !.list = l, !.n = n, !.items = items, !.was = Was]
<1>1. Was \in Revision
  BY AbsentFact DEF Inv, TypeOK
<1>2. R \in Request /\ R.op = op /\ R.pc = "begun" /\ R.list = l /\ R.n = n /\ R.was = Was /\ R.items = items
  BY <1>1 DEF Idle, Request
<1>3. req' = [req EXCEPT ![h] = R] /\ UNCHANGED <<list, rev, stale>>
  BY DEF Begin
<1>4. n \in Revisions => Was = rev[l][n]
  BY RevisionsFact
<1> HIDE DEF R, Was
<1>5. req'[h] = R
  BY <1>3 DEF Inv, TypeOK
<1>6. Held(h)'
  BY <1>2, <1>5 DEF Held
<1> QED  BY <1>2, <1>3, <1>4, <1>6, ReqClean

LEMMA AskClean ==
    ASSUME Inv, Clean, NEW h \in Handlers, Ask(h)
    PROVE  Clean'
<1> PICK l \in Lists :
      \/ BeginRevise(h, l) \/ BeginDeactivate(h, l) \/ BeginReactivate(h, l)
      \/ \E n \in Revisions :
           \/ BeginSubmit(h, l, n) \/ BeginReview(h, l, n)
           \/ \E items \in Items : BeginEdit(h, l, n, items)
  BY DEF Ask
<1>1. Active(l) \subseteq Revisions /\ ActiveOrNone(l) \subseteq Revisions \cup {0}
  BY DEF Active, ActiveOrNone
<1>2. \A n \in Revisions : rev[l][n].items \in Items
  BY DEF Inv, TypeOK, Revision
<1>3. CASE BeginRevise(h, l)
  <2> PICK n \in Active(l) : Begin(h, "revise", l, n, rev[l][n].items)
    BY <1>3 DEF BeginRevise
  <2>1. n \in Revisions /\ Covered(rev[l][n].items) # {}
    BY DEF Active, Clean, Filled
  <2> QED  BY <1>2, <2>1, BeginClean
<1>4. CASE BeginDeactivate(h, l) \/ BeginReactivate(h, l)
  BY <1>1, <1>4, AbsentFact, BeginClean DEF BeginDeactivate, BeginReactivate
<1>5. CASE \E n \in Revisions : BeginSubmit(h, l, n) \/ BeginReview(h, l, n)
  BY <1>5, AbsentFact, BeginClean DEF BeginSubmit, BeginReview, Correctable, Reviewable
<1>6. CASE \E n \in Revisions, items \in Items : BeginEdit(h, l, n, items)
  BY <1>6, BeginClean DEF BeginEdit, Editable
<1> QED  BY <1>3, <1>4, <1>5, <1>6

LEMMA FindActiveClean ==
    ASSUME Inv, Clean, NEW h \in Handlers, FindActive(h)
    PROVE  Clean'
<1>1. PICK R \in Request :
        /\ req' = [req EXCEPT ![h] = R]
        /\ R.op = "approve" /\ R.pc = "found" /\ R.list = req[h].list /\ R.n = req[h].n
  BY FindActiveFact
<1>2. rev[R.list][R.n].status # "absent" /\ UNCHANGED <<list, rev, stale>>
  BY <1>1 DEF Clean, Named, FindActive
<1>3. req'[h] = R
  BY <1>1 DEF Inv, TypeOK
<1>4. Held(h)'
  BY <1>1, <1>3 DEF Held
<1> QED  BY <1>1, <1>2, <1>4, ReqClean

LEMMA SwitchOffClean ==
    ASSUME Inv, Clean, NEW h \in Handlers, SwitchOff(h)
    PROVE  Clean'
<1>1. PICK R \in Request :
        /\ req' = [req EXCEPT ![h] = R]
        /\ R.op = "approve" /\ R.pc = "off" /\ R.list = req[h].list /\ R.n = req[h].n
        /\ R.off = Replaced(R.list, R.n, R.found) /\ R.gone = Active(R.list)
        /\ R.was.items = rev[R.list][R.n].items
  BY SwitchOffFact
<1>2. R.list \in Lists /\ R.n \in Revisions
  BY <1>1 DEF SwitchOff, Inv, Carries
<1>3. UNCHANGED <<list, rev, stale>> /\ rev[R.list][R.n].status # "absent"
  BY <1>1 DEF SwitchOff, Clean, Named
<1>4. \A g \in Handlers \ {h} : req[g].list = R.list => req[g].gone \cap R.gone = {}
  BY <1>1 DEF SwitchOff, RowFree
<1>5. req'[h] = R /\ \A g \in Handlers \ {h} : req'[g] = req[g]
  BY <1>1 DEF Inv, TypeOK
<1>6. Held(h)'
  <2>1. ASSUME R.gone = R.found, NEW n \in R.gone
        PROVE  /\ rev[R.list][n].active
               /\ \A k \in Covered(rev[R.list][n].items) : <<R.list, n, k>> \in R.off
    <3>1. n \in Revisions /\ rev[R.list][n].active /\ n \in R.found
      BY <1>1, <2>1 DEF Active
    <3>2. ASSUME NEW k \in Covered(rev[R.list][n].items) PROVE <<R.list, n, k>> \in R.off
      BY <1>1, <1>2, <3>1, <3>2 DEF Replaced, ItemRows, Covered
    <3> QED  BY <3>1, <3>2
  <2>2. ASSUME R.gone = R.found, NEW x \in R.off
        PROVE  \/ x[3] \in Covered(R.was.items)
               \/ x[1] = R.list /\ x[2] \in R.gone /\ x[3] \in Covered(rev[R.list][x[2]].items)
    BY <1>1, <2>2 DEF Replaced, ItemRows, Covered
  <2>3. \A g \in Handlers \ {h} :
          req'[g].pc = "off" /\ req'[g].list = R.list => req'[g].gone \cap R.gone = {}
    BY <1>4, <1>5
  <2> DEFINE r == req'[h]
  <2>4. r.gone = r.found =>
             \A n \in r.gone : /\ rev'[r.list][n].active
                               /\ \A k \in Covered(rev'[r.list][n].items) : <<r.list, n, k>> \in r.off
    BY <1>3, <1>5, <2>1
  <2>5. r.gone = r.found =>
             \A x \in r.off :
                  \/ x[3] \in Covered(r.was.items)
                  \/ x[1] = r.list /\ x[2] \in r.gone /\ x[3] \in Covered(rev'[r.list][x[2]].items)
    BY <1>3, <1>5, <2>2
  <2>6. r.op = "approve" /\ \A g \in Handlers \ {h} :
          req'[g].pc = "off" /\ req'[g].list = r.list => req'[g].gone \cap r.gone = {}
    BY <1>1, <1>5, <2>3
  <2> QED  BY <2>4, <2>5, <2>6 DEF Held, Covered
<1> QED  BY <1>1, <1>3, <1>4, <1>6, ReqClean

-----------------------------------------------------------------------------
LEMMA EndsFact ==
    ASSUME Inv, NEW h \in Handlers, End(h)
    PROVE  RequestsGoOn /\ req'[h] = Idle
BY DEF End, RequestsGoOn, Inv, TypeOK

LEMMA CreateClean ==
    ASSUME Inv, Inv', Clean, NEW l \in Lists, NEW items \in Items, Create(l, items)
    PROVE  Clean'
<1> DEFINE X == [Absent EXCEPT !.status = "en_revision", !.items = items]
<1>1. X.on = {} /\ X.active = FALSE /\ X.status = "en_revision" /\ X.items = items
  BY DEF Absent
<1>2. rev' = [rev EXCEPT ![l][1] = X]
  BY DEF Create
<1>3. ~rev[l][1].active
  BY RevisionsFact DEF Create, Exists, Clean, Filled
<1>4. RequestsGoOn /\ stale' = stale /\ Covered(items) # {}
  BY DEF Create, RequestsGoOn
<1>5. \A m \in Lists : list[m] => list'[m]
  BY DEF Create, Inv, TypeOK
<1>6. ~stale' => \A m \in Lists, i \in Revisions : rev[m][i].on # {} => list'[m]
  BY <1>4, <1>5 DEF Clean, Standing
<1> HIDE DEF X
<1> QED  BY <1>1, <1>2, <1>3, <1>4, <1>6, RevisionsFact, RowClean

LEMMA ReviseClean ==
    ASSUME Inv, Inv', Clean, NEW h \in Handlers, CommitRevise(h)
    PROVE  Clean'
<1> DEFINE l == req[h].list
           X == [Absent EXCEPT !.status = "borrador", !.items = req[h].items]
<1>1. PICK m \in NextRevision(l, req[h].n) : rev' = [rev EXCEPT ![l][m] = X]
  BY DEF CommitRevise
<1>2. l \in Lists /\ m \in Revisions /\ rev[l][m].status = "absent"
  BY DEF CommitRevise, Inv, Carries, NextRevision
<1>3. X.on = {} /\ X.active = FALSE /\ X.status = "borrador" /\ X.items = req[h].items
  BY DEF Absent
<1>4. Covered(req[h].items) # {} /\ ~rev[l][m].active
  BY <1>2 DEF Clean, Named, Filled, CommitRevise
<1>5. RequestsGoOn /\ (stale => stale') /\ list' = list
  BY EndsFact DEF CommitRevise, MarkStale
<1>6. ~stale' => \A j \in Lists, i \in Revisions : rev[j][i].on # {} => list'[j]
  BY <1>5 DEF Clean, Standing
<1> HIDE DEF X, l
<1> QED  BY <1>1, <1>2, <1>3, <1>4, <1>5, <1>6, RowClean

LEMMA EditClean ==
    ASSUME Inv, Inv', Clean, NEW h \in Handlers, CommitEdit(h)
    PROVE  Clean'
<1> DEFINE l == req[h].list
           n == req[h].n
           Y == rev[l][n]
           X == Edited(Y, req[h].items)
<1>1. l \in Lists /\ n \in Revisions /\ Y \in Revision
  BY DEF CommitEdit, Inv, Carries, TypeOK
<1>2. X.on = {} /\ X.active = Y.active /\ X.status = Y.status /\ X.items = req[h].items
  BY <1>1 DEF Edited, Revision
<1>3. rev' = [rev EXCEPT ![l][n] = X]
  BY DEF CommitEdit
<1>4. Covered(req[h].items) # {} /\ Y.status # "absent"
  BY DEF Clean, Named, CommitEdit
<1>5. RequestsGoOn /\ req'[h] = Idle /\ (stale => stale') /\ list' = list /\ ItemsFree(h, ItemsOf(l, n))
  BY EndsFact DEF CommitEdit, MarkStale
<1>6. ~stale' => \A j \in Lists, i \in Revisions :
                    /\ rev[j][i].on # {} => list'[j]
                    /\ rev[j][i].active => rev[j][i].status = "aprobada"
  BY <1>5 DEF Clean, Standing
<1>7. req'[h].pc # "off"
  BY <1>5, AbsentFact
<1> HIDE DEF X, Y, l, n
<1>8. ~stale' => (X.active => X.status = "aprobada")
  BY <1>1, <1>2, <1>6 DEF Y
<1> QED  BY <1>1, <1>2, <1>3, <1>4, <1>5, <1>6, <1>7, <1>8, RowClean

LEMMA SubmitClean ==
    ASSUME Inv, Inv', Clean, NEW h \in Handlers, CommitSubmit(h) \/ CommitReject(h)
    PROVE  Clean'
<1> DEFINE l == req[h].list
           n == req[h].n
           Y == rev[l][n]
<1>1. l \in Lists /\ n \in Revisions /\ Y \in Revision
  BY DEF CommitSubmit, CommitReject, Inv, Carries, TypeOK
<1>2. PICK status \in {"en_revision", "rechazada"} :
        rev' = [rev EXCEPT ![l][n].status = status, ![l][n].active = FALSE]
  BY DEF CommitSubmit, CommitReject
<1> DEFINE X == [Y EXCEPT !.status = status, !.active = FALSE]
<1>3. X.on = Y.on /\ X.items = Y.items /\ X.active = FALSE /\ X.status = status
  BY <1>1 DEF Revision
<1>4. rev' = [rev EXCEPT ![l][n] = X]
  <2>1. rev \in [Lists -> [Revisions -> Revision]]
    BY DEF Inv, TypeOK
  <2> HIDE DEF l, n
  <2> QED  BY <1>1, <1>2, <2>1 DEF Revision
<1>5. RequestsGoOn /\ req'[h] = Idle /\ (stale => stale') /\ list' = list /\ RowFree(h, l, n)
  BY EndsFact DEF CommitSubmit, CommitReject, MarkStale
<1>6. req'[h].pc # "off"
  BY <1>5, AbsentFact
<1>7. Y.status # "absent" /\ Covered(Y.items) # {}
  BY <1>1 DEF Clean, Named, Filled, CommitSubmit, CommitReject
<1>8. ~stale' => Y.on = {}
  <2> SUFFICES ASSUME ~stale' PROVE Y.on = {}
    OBVIOUS
  <2>1. MarkStale(h)
    BY DEF CommitSubmit, CommitReject
  <2>2. ~stale /\ Y.status = req[h].was.status
    BY <1>1, <2>1, UnchangedFact
  <2>3. req[h].was.status # "aprobada"
    BY DEF Clean, Named, CommitSubmit, CommitReject
  <2> QED  BY <1>1, <2>2, <2>3 DEF Clean, Standing
<1>9. ~stale' => \A j \in Lists, i \in Revisions : rev[j][i].on # {} => list'[j]
  BY <1>5 DEF Clean, Standing
<1> HIDE DEF X, Y, l, n
<1> QED  BY <1>1, <1>3, <1>4, <1>5, <1>6, <1>7, <1>8, <1>9, RowClean

\* A commit that leaves prices, statuses and the active revisions alone.
LEMMA SwitchClean ==
    ASSUME Inv, Inv', Clean, RequestsGoOn, Standing',
           \A l \in Lists, n \in Revisions :
              /\ rev'[l][n].items = rev[l][n].items /\ rev'[l][n].status = rev[l][n].status
              /\ rev'[l][n].active = rev[l][n].active
    PROVE  Clean'
<1>1. Filled'
  BY DEF Clean, Filled, Covered
<1>2. RowsGoOn
  BY DEF RowsGoOn
<1>3. HeldRows
  <2> SUFFICES ASSUME NEW g \in Handlers, NEW i \in Revisions, req'[g].pc = "off", i \in req[g].gone,
                      req[g].gone = req[g].found
               PROVE  /\ rev'[req[g].list][i].items = rev[req[g].list][i].items
                      /\ rev'[req[g].list][i].active
    BY DEF HeldRows
  <2>1. req[g].pc = "off" /\ Held(g)
    BY AbsentFact DEF RequestsGoOn, Clean
  <2>2. req[g].list \in Lists /\ rev[req[g].list][i].active
    BY <2>1, AbsentFact, GoneFact DEF Held
  <2> QED  BY <2>2
<1> QED  BY <1>1, <1>2, <1>3, CleanKeeps

LEMMA SwitchFact ==
    ASSUME Inv, NEW h \in Handlers, CommitDeactivate(h) \/ CommitReactivate(h)
    PROVE  /\ req[h].list \in Lists /\ req[h].n \in Revisions \cup {0}
           /\ \A m \in Lists, i \in Revisions :
                /\ rev'[m][i].items = rev[m][i].items /\ rev'[m][i].status = rev[m][i].status
                /\ rev'[m][i].active = rev[m][i].active
                /\ rev'[m][i].on = rev[m][i].on \/ (m = req[h].list /\ i = req[h].n)
           /\ CommitDeactivate(h) /\ req[h].n # 0 => rev'[req[h].list][req[h].n].on = {}
<1> DEFINE l == req[h].list
           n == req[h].n
<1>1. l \in Lists /\ n \in Revisions \cup {0}
  BY DEF CommitDeactivate, CommitReactivate, Inv, Carries, TypeOK, Request
<1>2. rev \in [Lists -> [Revisions -> Revision]]
  BY DEF Inv, TypeOK
<1>3. CASE n = 0
  BY <1>1, <1>3 DEF CommitDeactivate, CommitReactivate, Reactivated
<1>4. CASE n # 0
  <2> DEFINE Y == rev[l][n]
  <2>1. n \in Revisions /\ Y \in Revision
    BY <1>1, <1>2, <1>4
  <2>2. PICK on \in SUBSET Combos : /\ rev' = [rev EXCEPT ![l][n] = [Y EXCEPT !.on = on]]
                                    /\ CommitDeactivate(h) => on = {}
    <3>1. CommitDeactivate(h) => rev' = [rev EXCEPT ![l][n] = [Y EXCEPT !.on = {}]]
      BY <1>4 DEF CommitDeactivate, SwitchedOff
    <3>2. CommitReactivate(h) => rev' = [rev EXCEPT ![l][n] = [Y EXCEPT !.on = Covered(Y.items)]]
      <4>1. CommitReactivate(h) => rev' = [rev EXCEPT ![l][n].on = Covered(rev[l][n].items)]
        BY <1>4 DEF CommitReactivate, Reactivated
      <4> HIDE DEF l, n
      <4> QED  BY <1>1, <1>2, <2>1, <4>1 DEF Revision
    <3>3. CASE CommitDeactivate(h)
      BY <3>1, <3>3
    <3>4. CASE ~CommitDeactivate(h)
      BY <3>2, <3>4, CoveredFact
    <3> QED  BY <3>3, <3>4
  <2> DEFINE X == [Y EXCEPT !.on = on]
  <2>3. X.on = on /\ X.items = Y.items /\ X.status = Y.status /\ X.active = Y.active /\ X \in Revision
    BY <2>1 DEF Revision
  <2>4. rev' = [rev EXCEPT ![l] = [rev[l] EXCEPT ![n] = X]]
    BY <1>1, <1>2, <2>1, <2>2
  <2> HIDE DEF X, l, n
  <2>5. rev'[l][n] = X /\ \A m \in Lists, i \in Revisions : m # l \/ i # n => rev'[m][i] = rev[m][i]
    BY <1>1, <1>2, <2>1, <2>3, <2>4
  <2>6. ASSUME NEW m \in Lists, NEW i \in Revisions
        PROVE  /\ rev'[m][i].items = rev[m][i].items /\ rev'[m][i].status = rev[m][i].status
               /\ rev'[m][i].active = rev[m][i].active
               /\ rev'[m][i].on = rev[m][i].on \/ (m = l /\ i = n)
    <3>1. CASE m = l /\ i = n
      BY <2>3, <2>5, <3>1
    <3>2. CASE m # l \/ i # n
      BY <2>5, <3>2
    <3> QED  BY <3>1, <3>2
  <2> QED  BY <1>1, <2>2, <2>3, <2>5, <2>6 DEF l, n
<1> QED  BY <1>3, <1>4

LEMMA SwitchListClean ==
    ASSUME Inv, Inv', Clean, NEW h \in Handlers, CommitDeactivate(h) \/ CommitReactivate(h)
    PROVE  Clean'
<1>1. RequestsGoOn
  BY EndsFact DEF CommitDeactivate, CommitReactivate
<1>2. Standing'
  <2> SUFFICES ASSUME ~stale', NEW m \in Lists, NEW i \in Revisions
               PROVE  /\ rev'[m][i].on # {} => rev'[m][i].active /\ list'[m]
                      /\ rev'[m][i].active => rev'[m][i].status = "aprobada"
    BY DEF Standing
  <2> PICK l \in Lists, n \in Revisions \cup {0} : l = req[h].list /\ n = req[h].n
    BY SwitchFact
  <2>1. ~stale /\ n \in ActiveOrNone(l)
    BY DEF CommitDeactivate, CommitReactivate
  <2>2. \A j \in Revisions : rev[l][j].active => n = j
    BY <2>1, RevisionsFact DEF Inv, IndexAllows, Active, ActiveOrNone
  <2>3. n # 0 => n \in Revisions /\ rev[l][n].active
    BY <2>1, RevisionsFact DEF Active, ActiveOrNone
  <2>4. /\ rev[m][i].on # {} => rev[m][i].active /\ list[m]
        /\ rev[m][i].active => rev[m][i].status = "aprobada"
    BY <2>1 DEF Clean, Standing
  <2>5. CASE m = l /\ i = n
    <3>1. rev[m][i].active
      BY <2>3, <2>5, RevisionsFact
    <3>2. CASE CommitDeactivate(h)
      BY <2>4, <2>5, <3>2, RevisionsFact, SwitchFact
    <3>3. CASE CommitReactivate(h)
      <4>1. list'[l]
        BY <3>3 DEF CommitReactivate, Inv, TypeOK
      <4> QED  BY <2>4, <2>5, <3>1, <4>1, SwitchFact
    <3> QED  BY <3>2, <3>3
  <2>6. CASE m # l \/ i # n
    <3>1. /\ rev'[m][i].on = rev[m][i].on /\ rev'[m][i].active = rev[m][i].active
          /\ rev'[m][i].status = rev[m][i].status
      BY <2>6, SwitchFact
    <3>2. rev[m][i].on # {} => m # l
      BY <2>2, <2>4, <2>6
    <3>3. m # l => list'[m] = list[m]
      BY DEF CommitDeactivate, CommitReactivate, Inv, TypeOK
    <3> QED  BY <2>4, <3>1, <3>2, <3>3
  <2> QED  BY <2>5, <2>6
<1> QED  BY <1>1, <1>2, SwitchFact, SwitchClean

\* The rows of an approval.
LEMMA ApprovedFact ==
    ASSUME Inv, NEW h \in Handlers, CommitApprove(h)
    PROVE  /\ req[h].list \in Lists /\ req[h].n \in Revisions
           /\ \A m \in Lists, i \in Revisions :
                /\ rev'[m][i].items = rev[m][i].items
                /\ <<m, i>> = <<req[h].list, req[h].n>> =>
                     /\ rev'[m][i].status = "aprobada" /\ rev'[m][i].active
                     /\ rev'[m][i].on = Covered(rev[m][i].items)
                /\ <<m, i>> # <<req[h].list, req[h].n>> =>
                     /\ rev'[m][i].status = rev[m][i].status
                     /\ rev'[m][i].active = (rev[m][i].active /\ ~(m = req[h].list /\ i \in req[h].gone))
                     /\ rev'[m][i].on = {k \in rev[m][i].on : <<m, i, k>> \notin req[h].off}
<1>1. req[h].list \in Lists /\ req[h].n \in Revisions
  BY DEF CommitApprove, Inv, Carries
<1> DEFINE r == req[h]
<1>2. rev' = Approved(r)
  BY DEF CommitApprove
<1>3. ASSUME NEW m \in Lists, NEW i \in Revisions
      PROVE  /\ Approved(r)[m][i].items = rev[m][i].items
             /\ <<m, i>> = <<r.list, r.n>> =>
                  /\ Approved(r)[m][i].status = "aprobada" /\ Approved(r)[m][i].active
                  /\ Approved(r)[m][i].on = Covered(rev[m][i].items)
             /\ <<m, i>> # <<r.list, r.n>> =>
                  /\ Approved(r)[m][i].status = rev[m][i].status
                  /\ Approved(r)[m][i].active = (rev[m][i].active /\ ~(m = r.list /\ i \in r.gone))
                  /\ Approved(r)[m][i].on = {k \in rev[m][i].on : <<m, i, k>> \notin r.off}
  <2>1. rev[m][i] \in Revision
    BY DEF Inv, TypeOK
  <2> HIDE DEF r
  <2> DEFINE Y == rev[m][i]
             New == IF <<m, i>> = <<r.list, r.n>>
                    THEN [Y EXCEPT !.status = "aprobada", !.active = TRUE, !.on = Covered(Y.items)]
                    ELSE [Y EXCEPT !.on = {k \in Y.on : <<m, i, k>> \notin r.off},
                                   !.active = Y.active /\ ~(m = r.list /\ i \in r.gone)]
  <2>2. Approved(r)[m][i] = New
    BY <2>1 DEF Approved, Revision
  <2>3. CASE <<m, i>> = <<r.list, r.n>>
    <3>1. New = [Y EXCEPT !.status = "aprobada", !.active = TRUE, !.on = Covered(Y.items)]
      BY <2>3
    <3> HIDE DEF New
    <3> QED  BY <2>1, <2>2, <2>3, <3>1 DEF Revision
  <2>4. CASE <<m, i>> # <<r.list, r.n>>
    <3>1. New = [Y EXCEPT !.on = {k \in Y.on : <<m, i, k>> \notin r.off},
                          !.active = Y.active /\ ~(m = r.list /\ i \in r.gone)]
      BY <2>4
    <3> HIDE DEF New
    <3> QED  BY <2>1, <2>2, <2>4, <3>1 DEF Revision
  <2> QED  BY <2>3, <2>4
<1> HIDE DEF r
<1> QED  BY <1>1, <1>2, <1>3 DEF r

-----------------------------------------------------------------------------
(***************************************************************************)
(* The revision an approval found is the one it switches off: the only     *)
(* revision under review in a list is the one after the active revision,   *)
(* so no other approval of the list comes in between.                      *)
(***************************************************************************)
Pending(row) == row.status \in {"borrador", "en_revision", "rechazada"}

\* A list that is not there has no revision; another has one under review at most.
Lineage ==
    ~stale => \A l \in Lists, n \in Revisions :
        /\ ~Exists(l) => rev[l][n].status = "absent"
        /\ Pending(rev[l][n]) =>
             \A m \in Revisions : /\ Pending(rev[l][m]) => m = n
                                  /\ rev[l][m].active => n = m + 1

Told ==
    \A h \in Handlers :
        /\ req[h].op = "approve" => req[h].was.status = "en_revision"
        /\ req[h].op = "revise" => req[h].was.active

\* While what it approves is still under review.
StillFound ==
    ~stale => \A h \in Handlers :
        req[h].op = "approve" /\ Pending(rev[req[h].list][req[h].n]) =>
            /\ req[h].pc = "found" => req[h].found = Active(req[h].list)
            /\ req[h].pc = "off" => req[h].gone = req[h].found

Traced == Lineage /\ Told /\ StillFound

LEMMA InitTraced == Init => Traced
<1> SUFFICES ASSUME Init PROVE Traced
  OBVIOUS
<1>1. \A h \in Handlers : req[h] = Idle
  BY DEF Init
<1>2. \A l \in Lists, n \in Revisions :
        /\ rev[l][n].status \in {"aprobada", "absent"}
        /\ rev[l][n].status # "absent" => n = 1
  BY AbsentFact DEF Init
<1>3. Lineage
  BY <1>2, RevisionsFact DEF Lineage, Pending, Exists
<1> QED  BY <1>1, <1>3, AbsentFact DEF Traced, Told, StillFound

\* Requests that end leave it as it is, if what is under review in a list only ends
\* and the active revision of a list where something is stays the same.
LEMMA TracedKeeps ==
    ASSUME Inv, Clean, Traced, RequestsGoOn, stale => stale', Lineage',
           ~stale' => \A l \in Lists, n \in Revisions :
               rev[l][n].status # "absent" /\ Pending(rev'[l][n]) =>
                   Pending(rev[l][n]) /\ \A m \in Revisions : rev'[l][m].active = rev[l][m].active
    PROVE  Traced'
<1>1. Told'
  <2> SUFFICES ASSUME NEW h \in Handlers
               PROVE  /\ req'[h].op = "approve" => req'[h].was.status = "en_revision"
                      /\ req'[h].op = "revise" => req'[h].was.active
    BY DEF Told
  <2> QED  BY AbsentFact DEF Traced, Told, RequestsGoOn
<1>2. StillFound'
  <2> SUFFICES ASSUME ~stale', NEW h \in Handlers, req'[h].op = "approve",
                      Pending(rev'[req'[h].list][req'[h].n])
               PROVE  /\ req'[h].pc = "found" => req'[h].found = {m \in Revisions : rev'[req'[h].list][m].active}
                      /\ req'[h].pc = "off" => req'[h].gone = req'[h].found
    BY DEF StillFound, Pending, Active
  <2>1. req'[h] = req[h]
    BY AbsentFact DEF RequestsGoOn
  <2> PICK l \in Lists, n \in Revisions : l = req[h].list /\ n = req[h].n
    BY <2>1 DEF Inv, Carries
  <2>2. rev[l][n].status # "absent"
    BY <2>1 DEF Clean, Named
  <2>3. Pending(rev[l][n]) /\ \A m \in Revisions : rev'[l][m].active = rev[l][m].active
    BY <2>1, <2>2
  <2>4. {m \in Revisions : rev'[l][m].active} = Active(l)
    BY <2>3 DEF Active
  <2> QED  BY <2>1, <2>3, <2>4 DEF Traced, StillFound
<1> QED  BY <1>1, <1>2 DEF Traced

\* A write that keeps what is there, what is under review and what is active.
LEMMA SameTraced ==
    ASSUME Inv, Clean, Traced, RequestsGoOn, stale => stale',
           ~stale' => \A l \in Lists, n \in Revisions :
               /\ rev'[l][n].status = "absent" <=> rev[l][n].status = "absent"
               /\ Pending(rev'[l][n]) => Pending(rev[l][n])
               /\ rev'[l][n].active = rev[l][n].active
    PROVE  Traced'
<1>1. Lineage'
  <2> SUFFICES ASSUME ~stale', NEW l \in Lists, NEW n \in Revisions
               PROVE  /\ ~Exists(l)' => rev'[l][n].status = "absent"
                      /\ Pending(rev'[l][n]) =>
                           \A m \in Revisions : /\ Pending(rev'[l][m]) => m = n
                                                /\ rev'[l][m].active => n = m + 1
    BY DEF Lineage, Pending
  <2>1. ~Exists(l)' => ~Exists(l)
    BY RevisionsFact DEF Exists
  <2>2. ~Exists(l) => rev[l][n].status = "absent"
    BY DEF Traced, Lineage
  <2>3. ASSUME Pending(rev'[l][n]), NEW m \in Revisions
        PROVE  (Pending(rev'[l][m]) => m = n) /\ (rev'[l][m].active => n = m + 1)
    <3>1. Pending(rev[l][n]) /\ (Pending(rev'[l][m]) => Pending(rev[l][m]))
      BY <2>3
    <3>2. rev'[l][m].active = rev[l][m].active
      OBVIOUS
    <3> QED  BY <3>1, <3>2 DEF Traced, Lineage
  <2>4. ~Exists(l)' => rev'[l][n].status = "absent"
    BY <2>1, <2>2
  <2> QED  BY <2>3, <2>4
<1> QED  BY <1>1, TracedKeeps

\* A request that begins, or goes on, and leaves the rows alone.
LEMMA ReqTraced ==
    ASSUME Inv, Traced, NEW h \in Handlers, NEW r \in Request, req' = [req EXCEPT ![h] = r],
           UNCHANGED <<rev, stale>>,
           r.op = "approve" => r.was.status = "en_revision",
           r.op = "revise" => r.was.active,
           ~stale /\ r.op = "approve" /\ Pending(rev[r.list][r.n]) =>
               /\ r.pc = "found" => r.found = Active(r.list)
               /\ r.pc = "off" => r.gone = r.found
    PROVE  Traced'
<1>1. req'[h] = r /\ \A g \in Handlers \ {h} : req'[g] = req[g]
  BY DEF Inv, TypeOK
<1>2. Lineage'
  BY DEF Traced, Lineage, Pending, Exists
<1>3. Told'
  <2> SUFFICES ASSUME NEW g \in Handlers
               PROVE  /\ req'[g].op = "approve" => req'[g].was.status = "en_revision"
                      /\ req'[g].op = "revise" => req'[g].was.active
    BY DEF Told
  <2> QED  BY <1>1 DEF Traced, Told
<1>4. StillFound'
  <2> SUFFICES ASSUME ~stale, NEW g \in Handlers, req'[g].op = "approve",
                      Pending(rev[req'[g].list][req'[g].n])
               PROVE  /\ req'[g].pc = "found" => req'[g].found = {m \in Revisions : rev'[req'[g].list][m].active}
                      /\ req'[g].pc = "off" => req'[g].gone = req'[g].found
    BY DEF StillFound, Pending, Active
  <2>1. CASE g = h
    BY <1>1, <2>1 DEF Active
  <2>2. CASE g # h
    BY <1>1, <2>2 DEF Traced, StillFound, Active
  <2> QED  BY <2>1, <2>2
<1> QED  BY <1>2, <1>3, <1>4 DEF Traced

LEMMA BeginTraced ==
    ASSUME Inv, Traced, NEW h \in Handlers, NEW op \in {"revise", "edit", "submit", "approve", "reject",
                                                       "deactivate", "reactivate"},
           NEW l \in Lists, NEW n \in Revisions \cup {0}, NEW items \in Items,
           Begin(h, op, l, n, items),
           op = "approve" => n \in Revisions /\ rev[l][n].status = "en_revision",
           op = "revise" => n \in Revisions /\ rev[l][n].active
    PROVE  Traced'
<1> DEFINE Was == IF n = 0 THEN Absent ELSE rev[l][n]
           R == [Idle EXCEPT !.op = op, !.pc = "begun", !.list = l, !.n = n, !.items = items, !.was = Was]
<1>1. Was \in Revision
  BY AbsentFact DEF Inv, TypeOK
<1>2. R \in Request /\ R.op = op /\ R.pc = "begun" /\ R.was = Was
  BY <1>1 DEF Idle, Request
<1>3. req' = [req EXCEPT ![h] = R] /\ UNCHANGED <<rev, stale>>
  BY DEF Begin
<1>4. n \in Revisions => Was = rev[l][n]
  BY RevisionsFact
<1> HIDE DEF R, Was
<1> QED  BY <1>2, <1>3, <1>4, ReqTraced

LEMMA AskTraced ==
    ASSUME Inv, Traced, NEW h \in Handlers, Ask(h)
    PROVE  Traced'
<1> PICK l \in Lists :
      \/ BeginRevise(h, l) \/ BeginDeactivate(h, l) \/ BeginReactivate(h, l)
      \/ \E n \in Revisions :
           \/ BeginSubmit(h, l, n) \/ BeginReview(h, l, n)
           \/ \E items \in Items : BeginEdit(h, l, n, items)
  BY DEF Ask
<1>1. Active(l) \subseteq Revisions /\ ActiveOrNone(l) \subseteq Revisions \cup {0}
  BY DEF Active, ActiveOrNone
<1>2. \A n \in Revisions : rev[l][n].items \in Items
  BY DEF Inv, TypeOK, Revision
<1>3. CASE BeginRevise(h, l)
  BY <1>1, <1>2, <1>3, BeginTraced DEF BeginRevise, Active
<1>4. CASE BeginDeactivate(h, l) \/ BeginReactivate(h, l)
  BY <1>1, <1>4, AbsentFact, BeginTraced DEF BeginDeactivate, BeginReactivate
<1>5. CASE \E n \in Revisions : BeginSubmit(h, l, n) \/ BeginReview(h, l, n)
  BY <1>5, AbsentFact, BeginTraced DEF BeginSubmit, BeginReview, Reviewable
<1>6. CASE \E n \in Revisions, items \in Items : BeginEdit(h, l, n, items)
  BY <1>6, BeginTraced DEF BeginEdit
<1> QED  BY <1>3, <1>4, <1>5, <1>6

\* The lookup, and the statements that switch off what it found.
LEMMA FindActiveTraced ==
    ASSUME Inv, Traced, NEW h \in Handlers, FindActive(h)
    PROVE  Traced'
<1>1. PICK R \in Request :
        /\ req' = [req EXCEPT ![h] = R]
        /\ R.op = "approve" /\ R.pc = "found" /\ R.found = Active(R.list) /\ R.was = req[h].was
  BY FindActiveFact
<1>2. R.was.status = "en_revision" /\ UNCHANGED <<rev, stale>>
  BY <1>1 DEF FindActive, Traced, Told
<1> QED  BY <1>1, <1>2, ReqTraced

LEMMA SwitchOffTraced ==
    ASSUME Inv, Traced, NEW h \in Handlers, SwitchOff(h)
    PROVE  Traced'
<1>1. PICK R \in Request :
        /\ req' = [req EXCEPT ![h] = R]
        /\ R.op = "approve" /\ R.pc = "off" /\ R.list = req[h].list /\ R.n = req[h].n
        /\ R.gone = Active(R.list) /\ R.found = req[h].found /\ R.was.status = req[h].was.status
  BY SwitchOffFact
<1>2. R.was.status = "en_revision" /\ UNCHANGED <<rev, stale>>
  BY <1>1 DEF SwitchOff, Traced, Told
<1>3. ~stale /\ Pending(rev[R.list][R.n]) => R.gone = R.found
  BY <1>1 DEF SwitchOff, Traced, StillFound
<1> QED  BY <1>1, <1>2, <1>3, ReqTraced

\* A commit whose row is the one that was read.
LEMMA ReadFact ==
    ASSUME Inv, NEW h \in Handlers, req[h].n \in Revisions, ~Changed(h)
    PROVE  /\ rev[req[h].list][req[h].n].status = req[h].was.status
           /\ rev[req[h].list][req[h].n].active = req[h].was.active
BY RevisionsFact DEF Changed

LEMMA CreateTraced ==
    ASSUME Inv, Clean, Traced, NEW l \in Lists, NEW items \in Items, Create(l, items)
    PROVE  Traced'
<1> DEFINE X == [Absent EXCEPT !.status = "en_revision", !.items = items]
<1>1. X.active = FALSE /\ X.status = "en_revision"
  BY DEF Absent
<1>2. rev' = [rev EXCEPT ![l][1] = X] /\ stale' = stale /\ ~Exists(l)
  BY DEF Create
<1> HIDE DEF X
<1>3. rev'[l][1] = X /\ \A m \in Lists, i \in Revisions : m # l \/ i # 1 => rev'[m][i] = rev[m][i]
  <2>1. OneRow(l, 1, X)
    BY <1>2, RevisionsFact, RowFact
  <2> QED  BY <2>1 DEF OneRow
<1>4. ~stale => \A i \in Revisions : rev[l][i].status = "absent" /\ ~rev[l][i].active
  BY <1>2 DEF Traced, Lineage, Clean, Filled
<1>5. ~stale => \A i \in Revisions : /\ Pending(rev'[l][i]) => i = 1
                                    /\ ~rev'[l][i].active
  BY <1>1, <1>3, <1>4, RevisionsFact DEF Pending
<1>6. Lineage'
  <2> SUFFICES ASSUME ~stale, NEW m \in Lists, NEW n \in Revisions
               PROVE  /\ ~Exists(m)' => rev'[m][n].status = "absent"
                      /\ Pending(rev'[m][n]) =>
                           \A i \in Revisions : /\ Pending(rev'[m][i]) => i = n
                                                /\ rev'[m][i].active => n = i + 1
    BY <1>2 DEF Lineage, Pending
  <2>1. CASE m = l
    BY <1>1, <1>3, <1>5, <2>1 DEF Exists
  <2>2. CASE m # l
    BY <1>3, <2>2, RevisionsFact DEF Traced, Lineage, Exists
  <2> QED  BY <2>1, <2>2
<1>7. RequestsGoOn
  BY DEF Create, RequestsGoOn
<1>8. ~stale' => \A m \in Lists, n \in Revisions :
        rev[m][n].status # "absent" /\ Pending(rev'[m][n]) =>
            Pending(rev[m][n]) /\ \A i \in Revisions : rev'[m][i].active = rev[m][i].active
  <2> SUFFICES ASSUME ~stale, NEW m \in Lists, NEW n \in Revisions, rev[m][n].status # "absent",
                      Pending(rev'[m][n])
               PROVE  Pending(rev[m][n]) /\ \A i \in Revisions : rev'[m][i].active = rev[m][i].active
    BY <1>2
  <2>1. m # l
    BY <1>4
  <2> QED  BY <1>3, <2>1
<1> QED  BY <1>2, <1>6, <1>7, <1>8, TracedKeeps

LEMMA ReviseTraced ==
    ASSUME Inv, Clean, Traced, NEW h \in Handlers, CommitRevise(h)
    PROVE  Traced'
<1> PICK l \in Lists, n \in Revisions : l = req[h].list /\ n = req[h].n
  BY DEF CommitRevise, Inv, Carries
<1> DEFINE X == [Absent EXCEPT !.status = "borrador", !.items = req[h].items]
<1>1. PICK p \in NextRevision(l, n) : rev' = [rev EXCEPT ![l][p] = X]
  BY DEF CommitRevise
<1>2. p \in Revisions /\ p = n + 1 /\ rev[l][p].status = "absent" /\ ~rev[l][p].active
  BY DEF NextRevision, Clean, Filled
<1>3. X.active = FALSE /\ X.status = "borrador"
  BY DEF Absent
<1> HIDE DEF X
<1>4. rev'[l][p] = X /\ \A m \in Lists, i \in Revisions : m # l \/ i # p => rev'[m][i] = rev[m][i]
  <2>1. OneRow(l, p, X)
    BY <1>1, <1>2, RowFact
  <2> QED  BY <2>1 DEF OneRow
<1>5. (stale' \in BOOLEAN) /\ (stale => stale') /\ (~stale' => ~stale /\ ~Changed(h))
  BY DEF CommitRevise, MarkStale, Changed, Inv, TypeOK
<1>6. ~stale' => rev[l][n].active
  BY <1>5, ReadFact DEF CommitRevise, Traced, Told
<1>7. ~stale' => \A i \in Revisions : /\ rev[l][i].active => i = n
                                     /\ ~Pending(rev[l][i])
  <2> SUFFICES ASSUME ~stale', NEW i \in Revisions
               PROVE  (rev[l][i].active => i = n) /\ ~Pending(rev[l][i])
    OBVIOUS
  <2>1. rev[l][i].active => i = n
    BY <1>6 DEF Inv, IndexAllows
  <2>2. Pending(rev[l][i]) => i = n + 1
    BY <1>5, <1>6 DEF Traced, Lineage
  <2>3. ~Pending(rev[l][p])
    BY <1>2 DEF Pending
  <2> QED  BY <1>2, <2>1, <2>2, <2>3
<1>8. Lineage'
  <2> SUFFICES ASSUME ~stale', NEW m \in Lists, NEW j \in Revisions
               PROVE  /\ ~Exists(m)' => rev'[m][j].status = "absent"
                      /\ Pending(rev'[m][j]) =>
                           \A i \in Revisions : /\ Pending(rev'[m][i]) => i = j
                                                /\ rev'[m][i].active => j = i + 1
    BY DEF Lineage, Pending
  <2>1. CASE m = l
    <3>1. Exists(l)
      <4>1. rev[l][n].status # "absent"
        BY <1>6 DEF Clean, Filled
      <4> QED  BY <1>5, <4>1 DEF Traced, Lineage
    <3>2. Exists(l)'
      BY <1>3, <1>4, <3>1, RevisionsFact DEF Exists
    <3>3. \A i \in Revisions : /\ Pending(rev'[l][i]) => i = p
                               /\ rev'[l][i].active => i = n
      BY <1>3, <1>4, <1>7
    <3> QED  BY <1>2, <2>1, <3>2, <3>3
  <2>2. CASE m # l
    BY <1>4, <1>5, <2>2, RevisionsFact DEF Traced, Lineage, Exists
  <2> QED  BY <2>1, <2>2
<1>9. ~stale' => \A m \in Lists, j \in Revisions :
        rev[m][j].status # "absent" /\ Pending(rev'[m][j]) =>
            Pending(rev[m][j]) /\ \A i \in Revisions : rev'[m][i].active = rev[m][i].active
  <2> SUFFICES ASSUME ~stale', NEW m \in Lists, NEW j \in Revisions, rev[m][j].status # "absent",
                      Pending(rev'[m][j])
               PROVE  Pending(rev[m][j]) /\ \A i \in Revisions : rev'[m][i].active = rev[m][i].active
    OBVIOUS
  <2>1. m # l
    BY <1>2, <1>4, <1>7
  <2> QED  BY <1>4, <2>1
<1>10. RequestsGoOn
  BY EndsFact DEF CommitRevise
<1> QED  BY <1>5, <1>8, <1>9, <1>10, TracedKeeps

\* An edit, a submission or a rejection leaves what is under review under review.
LEMMA DraftTraced ==
    ASSUME Inv, Clean, Traced, NEW h \in Handlers, CommitEdit(h) \/ CommitSubmit(h) \/ CommitReject(h)
    PROVE  Traced'
<1> PICK l \in Lists, n \in Revisions : l = req[h].list /\ n = req[h].n
  BY DEF CommitEdit, CommitSubmit, CommitReject, Inv, Carries
<1>1. (stale => stale') /\ (~stale' => ~stale /\ ~Changed(h)) /\ RequestsGoOn
  BY EndsFact DEF CommitEdit, CommitSubmit, CommitReject, MarkStale, Changed, Inv, TypeOK
<1>2. rev[l][n] \in Revision /\ rev \in [Lists -> [Revisions -> Revision]]
  BY DEF Inv, TypeOK
<1>3. rev[l][n].status # "absent"
  BY DEF Clean, Named, CommitEdit, CommitSubmit, CommitReject
<1>4. ~stale' => Pending(rev[l][n]) /\ ~rev[l][n].active
  <2> SUFFICES ASSUME ~stale' PROVE Pending(rev[l][n]) /\ ~rev[l][n].active
    OBVIOUS
  <2>1. req[h].was.status # "aprobada"
    BY DEF Inv, Carries, Clean, Named, CommitEdit, CommitSubmit, CommitReject
  <2>2. Pending(rev[l][n])
    BY <1>1, <1>2, <1>3, <2>1, ReadFact DEF Pending, Revision
  <2>3. n # n + 1
    BY DEF Revisions
  <2> QED  BY <1>1, <2>2, <2>3 DEF Traced, Lineage
<1>5. PICK x : /\ rev' = [rev EXCEPT ![l][n] = x] /\ x.status # "absent"
               /\ Pending(rev[l][n]) => Pending(x)
               /\ x.active = rev[l][n].active \/ x.active = FALSE
  <2>1. CASE CommitEdit(h)
    <3> DEFINE X == Edited(rev[l][n], req[h].items)
    <3>1. X.status = rev[l][n].status /\ X.active = rev[l][n].active
      BY <1>2 DEF Edited, Revision
    <3>2. rev' = [rev EXCEPT ![l][n] = X]
      BY <2>1 DEF CommitEdit
    <3> HIDE DEF X
    <3> QED  BY <1>3, <3>1, <3>2 DEF Pending
  <2>2. CASE CommitSubmit(h) \/ CommitReject(h)
    <3> PICK status \in {"en_revision", "rechazada"} :
          rev' = [rev EXCEPT ![l][n].status = status, ![l][n].active = FALSE]
      BY <2>2 DEF CommitSubmit, CommitReject
    <3> DEFINE X == [rev[l][n] EXCEPT !.status = status, !.active = FALSE]
    <3>1. X.status = status /\ X.active = FALSE
      BY <1>2 DEF Revision
    <3>2. rev' = [rev EXCEPT ![l][n] = X]
      BY <1>2 DEF Revision
    <3> HIDE DEF X
    <3> QED  BY <3>1, <3>2 DEF Pending
  <2> QED  BY <2>1, <2>2
<1>6. rev'[l][n] = x /\ \A m \in Lists, i \in Revisions : m # l \/ i # n => rev'[m][i] = rev[m][i]
  <2>1. OneRow(l, n, x)
    BY <1>5, RowFact
  <2> QED  BY <2>1 DEF OneRow
<1>7. ~stale' => \A m \in Lists, i \in Revisions :
         /\ rev'[m][i].status = "absent" <=> rev[m][i].status = "absent"
         /\ Pending(rev'[m][i]) => Pending(rev[m][i])
         /\ rev'[m][i].active = rev[m][i].active
  <2> SUFFICES ASSUME ~stale', NEW m \in Lists, NEW i \in Revisions
               PROVE  /\ rev'[m][i].status = "absent" <=> rev[m][i].status = "absent"
                      /\ Pending(rev'[m][i]) => Pending(rev[m][i])
                      /\ rev'[m][i].active = rev[m][i].active
    OBVIOUS
  <2>1. CASE m = l /\ i = n
    <3>1. rev[l][n].active = FALSE
      BY <1>2, <1>4 DEF Revision
    <3> QED  BY <1>3, <1>4, <1>5, <1>6, <2>1, <3>1
  <2>2. CASE m # l \/ i # n
    BY <1>6, <2>2
  <2> QED  BY <2>1, <2>2
<1> QED  BY <1>1, <1>7, SameTraced

\* What is approved was the one revision of its list under review.
LEMMA ApproveTraced ==
    ASSUME Inv, Clean, Traced, NEW h \in Handlers, CommitApprove(h)
    PROVE  Traced' /\ (~stale' => req[h].gone = req[h].found)
<1> PICK l \in Lists, n \in Revisions : l = req[h].list /\ n = req[h].n
  BY ApprovedFact
<1>1. RequestsGoOn /\ (stale => stale') /\ (~stale' => ~stale /\ ~Changed(h))
  BY EndsFact DEF CommitApprove, Changed, Inv, TypeOK
<1>2. ~stale' => Pending(rev[l][n])
  BY <1>1, ReadFact DEF CommitApprove, Traced, Told, Pending
<1>3. ~stale' => req[h].gone = req[h].found
  BY <1>1, <1>2 DEF CommitApprove, Traced, StillFound
<1>4. /\ rev'[l][n].status = "aprobada"
      /\ \A m \in Lists, i \in Revisions : m # l \/ i # n => rev'[m][i].status = rev[m][i].status
      /\ \A m \in Lists, i \in Revisions : m # l => rev'[m][i].active = (rev[m][i].active /\ TRUE)
  BY ApprovedFact
<1>5. \A m \in Lists, i \in Revisions : m # l => rev'[m][i].active = rev[m][i].active
  BY <1>4 DEF Inv, TypeOK, Revision
<1>6. ~stale' => \A i \in Revisions : ~Pending(rev'[l][i])
  <2> SUFFICES ASSUME ~stale', NEW i \in Revisions PROVE ~Pending(rev'[l][i])
    OBVIOUS
  <2>1. Pending(rev[l][i]) => i = n
    BY <1>1, <1>2 DEF Traced, Lineage
  <2> QED  BY <1>4, <2>1 DEF Pending
<1>7. Lineage'
  <2> SUFFICES ASSUME ~stale', NEW m \in Lists, NEW j \in Revisions
               PROVE  /\ ~Exists(m)' => rev'[m][j].status = "absent"
                      /\ Pending(rev'[m][j]) =>
                           \A i \in Revisions : /\ Pending(rev'[m][i]) => i = j
                                                /\ rev'[m][i].active => j = i + 1
    BY DEF Lineage, Pending
  <2>1. CASE m = l
    <3>1. Exists(l)
      BY <1>1, <1>2 DEF Traced, Lineage, Pending
    <3>2. Exists(l)'
      BY <1>4, <3>1, RevisionsFact DEF Exists
    <3> QED  BY <1>6, <2>1, <3>2
  <2>2. CASE m # l
    <3>1. \A i \in Revisions : rev'[m][i].status = rev[m][i].status /\ rev'[m][i].active = rev[m][i].active
      BY <1>4, <1>5, <2>2
    <3> QED  BY <1>1, <3>1, RevisionsFact DEF Traced, Lineage, Exists, Pending
  <2> QED  BY <2>1, <2>2
<1>8. ~stale' => \A m \in Lists, j \in Revisions :
        rev[m][j].status # "absent" /\ Pending(rev'[m][j]) =>
            Pending(rev[m][j]) /\ \A i \in Revisions : rev'[m][i].active = rev[m][i].active
  <2> SUFFICES ASSUME ~stale', NEW m \in Lists, NEW j \in Revisions, Pending(rev'[m][j])
               PROVE  Pending(rev[m][j]) /\ \A i \in Revisions : rev'[m][i].active = rev[m][i].active
    OBVIOUS
  <2>1. m # l
    BY <1>6
  <2> QED  BY <1>4, <1>5, <2>1 DEF Pending
<1>9. Traced'
  BY <1>1, <1>7, <1>8, TracedKeeps
<1> QED  BY <1>3, <1>9

LEMMA NextTraced == Inv /\ Clean /\ Traced /\ [Next]_vars => Traced'
<1> SUFFICES ASSUME Inv, Clean, Traced, [Next]_vars PROVE Traced'
  OBVIOUS
<1>1. CASE \E l \in Lists, items \in Items : Create(l, items)
  BY <1>1, CreateTraced
<1>2. ASSUME NEW h \in Handlers, CommitDeactivate(h) \/ CommitReactivate(h) PROVE Traced'
  <2>1. RequestsGoOn /\ (stale => stale')
    BY <1>2, EndsFact DEF CommitDeactivate, CommitReactivate
  <2>2. \A l \in Lists, n \in Revisions :
          rev'[l][n].status = rev[l][n].status /\ rev'[l][n].active = rev[l][n].active
    BY <1>2, SwitchFact
  <2> QED  BY <2>1, <2>2, SameTraced DEF Pending
<1>3. ASSUME NEW h \in Handlers, Fail(h) PROVE Traced'
  <2>1. RequestsGoOn /\ UNCHANGED <<rev, stale>>
    BY <1>3, EndsFact DEF Fail
  <2> QED  BY <2>1, SameTraced
<1>4. CASE \E h \in Handlers : Ask(h) \/ Answer(h)
  BY <1>2, <1>3, <1>4, AskTraced, ReviseTraced, DraftTraced, FindActiveTraced, SwitchOffTraced,
     ApproveTraced DEF Answer
<1>5. CASE UNCHANGED vars
  BY <1>5 DEF vars, Traced, Lineage, Told, StillFound, Exists, Active, Pending
<1> QED  BY <1>1, <1>4, <1>5 DEF Next, Quiet
-----------------------------------------------------------------------------
LEMMA ApproveClean ==
    ASSUME Inv, Inv', Clean, Traced, NEW h \in Handlers, CommitApprove(h)
    PROVE  Clean'
<1> PICK l \in Lists, n \in Revisions : l = req[h].list /\ n = req[h].n
  BY ApprovedFact
<1>1. \A m \in Lists, i \in Revisions : rev'[m][i].items = rev[m][i].items
  BY ApprovedFact
<1>2. /\ rev'[l][n].status = "aprobada" /\ rev'[l][n].active
      /\ rev[l][n].status # "absent"
  BY ApprovedFact DEF Clean, Named, CommitApprove
<1>3. \A m \in Lists, i \in Revisions : m # l \/ i # n =>
        /\ rev'[m][i].status = rev[m][i].status
        /\ rev'[m][i].active = (rev[m][i].active /\ ~(m = l /\ i \in req[h].gone))
        /\ rev'[m][i].on = {k \in rev[m][i].on : <<m, i, k>> \notin req[h].off}
  BY ApprovedFact
<1>4. Held(h) /\ req[h].pc = "off"
  BY DEF Clean, CommitApprove
<1>5. RequestsGoOn /\ req'[h] = Idle /\ (stale => stale')
  BY EndsFact DEF CommitApprove
<1>6. ~stale' => req[h].gone = req[h].found
  BY ApproveTraced
<1>7. list'[l] /\ \A m \in Lists : list[m] => list'[m]
  BY DEF CommitApprove, Inv, TypeOK
<1>8. RowsGoOn
  <2> SUFFICES ASSUME NEW m \in Lists, NEW i \in Revisions, rev[m][i].status # "absent"
               PROVE  rev'[m][i].status # "absent"
    BY DEF RowsGoOn
  <2> QED  BY <1>2, <1>3
<1>9. Filled'
  <2>1. ASSUME NEW m \in Lists, NEW i \in Revisions
        PROVE  /\ rev'[m][i].status # "absent" => Covered(rev'[m][i].items) # {}
               /\ rev'[m][i].active => rev'[m][i].status # "absent"
    <3>1. rev[m][i].status # "absent" => Covered(rev'[m][i].items) # {}
      BY <1>1 DEF Clean, Filled
    <3>2. rev[m][i].active => rev[m][i].status # "absent"
      BY DEF Clean, Filled
    <3>3. CASE m = l /\ i = n
      BY <1>2, <3>1, <3>3
    <3>4. CASE m # l \/ i # n
      BY <1>3, <3>1, <3>2, <3>4
    <3> QED  BY <3>3, <3>4
  <2> QED  BY <2>1 DEF Filled, Covered
<1>10. Standing'
  <2> SUFFICES ASSUME ~stale', NEW m \in Lists, NEW i \in Revisions
               PROVE  /\ rev'[m][i].on # {} => rev'[m][i].active /\ list'[m]
                      /\ rev'[m][i].active => rev'[m][i].status = "aprobada"
    BY DEF Standing
  <2>1. CASE m = l /\ i = n
    BY <1>2, <1>7, <2>1
  <2>2. CASE m # l \/ i # n
    <3>1. /\ rev[m][i].on # {} => rev[m][i].active /\ list[m]
          /\ rev[m][i].active => rev[m][i].status = "aprobada"
      BY <1>5 DEF Clean, Standing
    <3>2. rev[m][i].on \subseteq Covered(rev[m][i].items)
      BY DEF Inv, TypeOK
    <3>3. m = l /\ i \in req[h].gone => \A k \in Covered(rev[m][i].items) : <<m, i, k>> \in req[h].off
      BY <1>4, <1>6 DEF Held
    <3>4. m = l /\ i \in req[h].gone => rev'[m][i].on = {}
      BY <1>3, <2>2, <3>2, <3>3
    <3>5. rev'[m][i].on \subseteq rev[m][i].on
      BY <1>3, <2>2
    <3> QED  BY <1>3, <1>7, <2>2, <3>1, <3>4, <3>5
  <2> QED  BY <2>1, <2>2
<1>11. HeldRows
  <2> SUFFICES ASSUME NEW g \in Handlers, NEW i \in Revisions, req'[g].pc = "off", i \in req[g].gone,
                      req[g].gone = req[g].found
               PROVE  /\ rev'[req[g].list][i].items = rev[req[g].list][i].items
                      /\ rev'[req[g].list][i].active
    BY DEF HeldRows
  <2>1. g # h /\ req'[g] = req[g] /\ Held(g)
    BY <1>5, AbsentFact DEF RequestsGoOn, Clean
  <2>2. req[g].list \in Lists /\ rev[req[g].list][i].active
    BY <2>1, AbsentFact, GoneFact DEF Held
  <2>3. req[g].list = l => i \notin req[h].gone
    BY <1>4, <2>1 DEF Held
  <2> PICK m \in Lists : m = req[g].list
    BY <2>2
  <2>4. CASE m = l /\ i = n
    BY <1>1, <1>2, <2>4
  <2>5. CASE m # l \/ i # n
    <3>1. rev'[m][i].active = (rev[m][i].active /\ ~(m = l /\ i \in req[h].gone))
      BY <1>3, <2>5
    <3> QED  BY <1>1, <2>2, <2>3, <3>1
  <2> QED  BY <2>4, <2>5
<1> QED  BY <1>5, <1>8, <1>9, <1>10, <1>11, CleanKeeps

LEMMA FailClean ==
    ASSUME Inv, Inv', Clean, NEW h \in Handlers, Fail(h)
    PROVE  Clean'
<1>1. RequestsGoOn
  BY EndsFact DEF Fail
<1>2. Standing'
  BY DEF Fail, Clean, Standing
<1> QED  BY <1>1, <1>2, SwitchClean DEF Fail

LEMMA NextClean == Inv /\ Inv' /\ Clean /\ Traced /\ [Next]_vars => Clean'
<1> SUFFICES ASSUME Inv, Inv', Clean, Traced, [Next]_vars PROVE Clean'
  OBVIOUS
<1>1. CASE \E l \in Lists, items \in Items : Create(l, items)
  BY <1>1, CreateClean
<1>2. CASE \E h \in Handlers : Ask(h) \/ Answer(h)
  BY <1>2, AskClean, ReviseClean, EditClean, SubmitClean, FindActiveClean, SwitchOffClean, ApproveClean,
     SwitchListClean, FailClean DEF Answer
<1>3. CASE UNCHANGED vars
  BY <1>3 DEF vars, Clean, Filled, Named, Standing, Held, Covered
<1> QED  BY <1>1, <1>2, <1>3 DEF Next, Quiet
-----------------------------------------------------------------------------
\* As long as nothing is stale, the prices of a combo are the items that are on.
LEMMA PricesFact ==
    ASSUME Standing, ~stale, NEW k \in Combos
    PROVE  InForce(k) = {x \in Lists \X Revisions : k \in rev[x[1]][x[2]].on}
BY DEF Standing, InForce

LEMMA SamePrices ==
    ASSUME Standing, Standing', ~stale', stale => stale', NEW k \in Combos,
           \A l \in Lists, n \in Revisions :
              /\ k \in rev'[l][n].on <=> k \in rev[l][n].on
              /\ k \in rev[l][n].on => rev'[l][n].items[k] = rev[l][n].items[k]
    PROVE  PricesOf(k)' = PricesOf(k)
<1> DEFINE S == {x \in Lists \X Revisions : k \in rev[x[1]][x[2]].on}
<1>1. InForce(k) = S
  BY PricesFact
<1>2. InForce(k)' = {x \in Lists \X Revisions : k \in rev'[x[1]][x[2]].on}
  BY DEF Standing, InForce
<1>3. {x \in Lists \X Revisions : k \in rev'[x[1]][x[2]].on} = S
  OBVIOUS
<1>4. PricesOf(k) = {rev[x[1]][x[2]].items[k] : x \in S}
  BY <1>1 DEF PricesOf
<1>5. PricesOf(k)' = {rev'[x[1]][x[2]].items[k] : x \in S}
  BY <1>2, <1>3 DEF PricesOf
<1>6. \A x \in S : rev'[x[1]][x[2]].items[k] = rev[x[1]][x[2]].items[k]
  OBVIOUS
<1> QED  BY <1>4, <1>5, <1>6

\* A write to one row with nothing on changes no price.
LEMMA OffRow ==
    ASSUME Inv, Clean, Clean', NEW l \in Lists, NEW n \in Revisions, NEW x,
           rev' = [rev EXCEPT ![l][n] = x], rev[l][n].on = {}, x.on = {},
           ~stale', stale => stale', NEW k \in Combos
    PROVE  PricesOf(k)' = PricesOf(k)
<1>1. rev'[l][n] = x /\ \A m \in Lists, i \in Revisions : m # l \/ i # n => rev'[m][i] = rev[m][i]
  <2>1. OneRow(l, n, x)
    BY RowFact
  <2> QED  BY <2>1 DEF OneRow
<1>2. ASSUME NEW m \in Lists, NEW i \in Revisions
      PROVE  /\ k \in rev'[m][i].on <=> k \in rev[m][i].on
             /\ k \in rev[m][i].on => rev'[m][i].items[k] = rev[m][i].items[k]
  <2>1. CASE m = l /\ i = n
    BY <1>1, <2>1
  <2>2. CASE m # l \/ i # n
    BY <1>1, <2>2
  <2> QED  BY <2>1, <2>2
<1> QED  BY <1>2, SamePrices DEF Clean

LEMMA OnFact ==
    ASSUME Clean, ~stale, NEW l \in Lists, NEW n \in Revisions, rev[l][n].status # "aprobada"
    PROVE  rev[l][n].on = {}
BY DEF Clean, Standing

LEMMA CreatePrices ==
    ASSUME Inv, Clean, Clean', NEW l \in Lists, NEW items \in Items, Create(l, items),
           ~stale', NEW k \in Combos
    PROVE  PricesOf(k)' = PricesOf(k)
<1> DEFINE X == [Absent EXCEPT !.status = "en_revision", !.items = items]
<1>1. X.on = {}
  BY DEF Absent
<1>2. rev' = [rev EXCEPT ![l][1] = X] /\ ~stale
  BY DEF Create
<1>3. rev[l][1].on = {}
  BY <1>2, RevisionsFact, OnFact DEF Create, Exists
<1> HIDE DEF X
<1> QED  BY <1>1, <1>2, <1>3, RevisionsFact, OffRow

LEMMA RevisePrices ==
    ASSUME Inv, Clean, Clean', NEW h \in Handlers, CommitRevise(h), ~stale', NEW k \in Combos
    PROVE  PricesOf(k)' = PricesOf(k)
<1> DEFINE l == req[h].list
           X == [Absent EXCEPT !.status = "borrador", !.items = req[h].items]
<1>1. PICK m \in NextRevision(l, req[h].n) : rev' = [rev EXCEPT ![l][m] = X]
  BY DEF CommitRevise
<1>2. l \in Lists /\ m \in Revisions /\ rev[l][m].status = "absent" /\ ~stale
  BY DEF CommitRevise, Inv, Carries, NextRevision, MarkStale
<1>3. X.on = {}
  BY DEF Absent
<1> HIDE DEF X, l
<1>4. rev[l][m].on = {}
  BY <1>2, OnFact
<1> QED  BY <1>1, <1>2, <1>3, <1>4, OffRow

\* A draft, a submission or a rejection is of a revision that was not approved.
LEMMA DraftPrices ==
    ASSUME Inv, Clean, Clean', NEW h \in Handlers, CommitEdit(h) \/ CommitSubmit(h) \/ CommitReject(h),
           ~stale', NEW k \in Combos
    PROVE  PricesOf(k)' = PricesOf(k)
<1> DEFINE l == req[h].list
           n == req[h].n
           Y == rev[l][n]
<1>1. l \in Lists /\ n \in Revisions /\ Y \in Revision
  BY DEF CommitEdit, CommitSubmit, CommitReject, Inv, Carries, TypeOK
<1>2. MarkStale(h)
  BY DEF CommitEdit, CommitSubmit, CommitReject
<1>3. ~stale /\ Y.status = req[h].was.status
  BY <1>1, <1>2, UnchangedFact
<1>4. req[h].was.status # "aprobada"
  BY DEF Inv, Carries, Clean, Named, CommitEdit, CommitSubmit, CommitReject
<1>5. Y.on = {}
  BY <1>1, <1>3, <1>4, OnFact
<1>6. PICK x \in Revision : rev' = [rev EXCEPT ![l][n] = x] /\ x.on = {}
  <2>1. CASE CommitEdit(h)
    <3> DEFINE X == Edited(Y, req[h].items)
    <3>1. X \in Revision /\ X.on = {}
      BY <1>1, <2>1 DEF Edited, Revision, Inv, TypeOK, Request
    <3>2. rev' = [rev EXCEPT ![l][n] = X]
      BY <2>1 DEF CommitEdit
    <3> HIDE DEF X
    <3> QED  BY <3>1, <3>2
  <2>2. CASE CommitSubmit(h) \/ CommitReject(h)
    <3> PICK status \in {"en_revision", "rechazada"} :
          rev' = [rev EXCEPT ![l][n].status = status, ![l][n].active = FALSE]
      BY <2>2 DEF CommitSubmit, CommitReject
    <3> DEFINE X == [Y EXCEPT !.status = status, !.active = FALSE]
    <3>1. X \in Revision /\ X.on = {}
      BY <1>1, <1>5 DEF Revision
    <3>2. rev' = [rev EXCEPT ![l][n] = X]
      <4>1. rev \in [Lists -> [Revisions -> Revision]]
        BY DEF Inv, TypeOK
      <4> HIDE DEF l, n
      <4> QED  BY <1>1, <4>1 DEF Revision
    <3> HIDE DEF X
    <3> QED  BY <3>1, <3>2
  <2> QED  BY <2>1, <2>2
<1> HIDE DEF l, n
<1> QED  BY <1>1, <1>3, <1>5, <1>6, OffRow

\* An approval takes away the prices of the revisions it replaces and those its own
\* items displace, and gives those of its items.
LEMMA ApprovePrices ==
    ASSUME Inv, Clean, Clean', Traced, NEW h \in Handlers, CommitApprove(h), ~stale', NEW k \in Combos,
           ~Decides(k, h)
    PROVE  PricesOf(k)' = PricesOf(k)
<1> PICK l \in Lists, n \in Revisions : l = req[h].list /\ n = req[h].n
  BY ApprovedFact
<1>1. ~stale /\ rev[l][n].items = req[h].was.items
  BY DEF CommitApprove
<1>2. \A i \in {n} \cup Active(l) : k \notin Covered(rev[l][i].items)
  BY EndsFact DEF Decides, CommitApprove
<1>3. Held(h) /\ req[h].pc = "off" /\ req[h].gone = req[h].found /\ req[h].gone \subseteq Revisions
        /\ req[h].off \subseteq Lists \X Revisions \X Combos
  BY GoneFact, ApproveTraced DEF Clean, CommitApprove
<1>4. \A i \in req[h].gone : i \in Active(l)
  BY <1>3 DEF Held, Active
<1>5. \A m \in Lists, i \in Revisions : <<m, i, k>> \notin req[h].off
  <2> SUFFICES ASSUME NEW m \in Lists, NEW i \in Revisions, <<m, i, k>> \in req[h].off PROVE FALSE
    OBVIOUS
  <2> DEFINE x == <<m, i, k>>
  <2>1. \/ x[3] \in Covered(req[h].was.items)
        \/ x[1] = l /\ x[2] \in req[h].gone /\ x[3] \in Covered(rev[l][x[2]].items)
    BY <1>3 DEF Held
  <2>2. k \in Covered(req[h].was.items) \/ (i \in req[h].gone /\ k \in Covered(rev[l][i].items))
    BY <2>1
  <2> QED  BY <1>1, <1>2, <1>4, <2>2
<1>6. ASSUME NEW m \in Lists, NEW i \in Revisions
      PROVE  /\ k \in rev'[m][i].on <=> k \in rev[m][i].on
             /\ k \in rev[m][i].on => rev'[m][i].items[k] = rev[m][i].items[k]
  <2>1. rev'[m][i].items = rev[m][i].items
    BY ApprovedFact
  <2>2. CASE m = l /\ i = n
    <3>1. rev'[m][i].on = Covered(rev[m][i].items)
      BY <2>2, ApprovedFact
    <3>2. rev[m][i].on \subseteq Covered(rev[m][i].items)
      BY DEF Inv, TypeOK
    <3> QED  BY <1>2, <2>1, <2>2, <3>1, <3>2
  <2>3. CASE m # l \/ i # n
    <3>1. rev'[m][i].on = {c \in rev[m][i].on : <<m, i, c>> \notin req[h].off}
      BY <2>3, ApprovedFact
    <3> QED  BY <1>5, <2>1, <3>1
  <2> QED  BY <2>2, <2>3
<1> QED  BY <1>1, <1>6, SamePrices DEF Clean

LEMMA StepPrices ==
    ASSUME Inv, Clean, Clean', Traced, [Next]_vars, ~stale', NEW k \in Combos
    PROVE  PricesOf(k)' = PricesOf(k) \/ \E h \in Handlers : Decides(k, h)
<1>1. CASE \E l \in Lists, items \in Items : Create(l, items)
  BY <1>1, CreatePrices
<1>2. ASSUME UNCHANGED <<list, rev>> PROVE PricesOf(k)' = PricesOf(k)
  BY <1>2 DEF PricesOf, InForce
<1>3. CASE UNCHANGED vars
  BY <1>2, <1>3 DEF vars
<1>4. ASSUME NEW h \in Handlers, Ask(h) PROVE PricesOf(k)' = PricesOf(k)
  BY <1>2, <1>4
  DEF Ask, BeginRevise, BeginDeactivate, BeginReactivate, BeginSubmit, BeginReview, BeginEdit, Begin
<1>5. ASSUME NEW h \in Handlers, Answer(h)
      PROVE  PricesOf(k)' = PricesOf(k) \/ Decides(k, h)
  <2>1. CASE CommitDeactivate(h) \/ CommitReactivate(h)
    BY <2>1, EndsFact DEF CommitDeactivate, CommitReactivate, Decides
  <2>2. CASE FindActive(h) \/ SwitchOff(h) \/ Fail(h)
    BY <1>2, <2>2 DEF FindActive, SwitchOff, Fail
  <2> QED  BY <1>5, <2>1, <2>2, RevisePrices, DraftPrices, ApprovePrices DEF Answer
<1> QED  BY <1>1, <1>3, <1>4, <1>5 DEF Next, Quiet
-----------------------------------------------------------------------------
\* What is switched on applies, an approval under way holds what it displaces, and
\* the revision it looked up is the one it replaces.
THEOREM CleanInvariant == Spec => [](Clean /\ Traced)
<1>1. Init => Inv /\ Clean /\ Traced
  BY InitInv, InitClean, InitTraced
<1>2. Inv /\ Clean /\ Traced /\ [Next]_vars => (Inv /\ Clean /\ Traced)'
  BY NextKeeps, NextClean, NextTraced
<1> QED  BY <1>1, <1>2, PTL DEF Spec

\* No item stays active in a revision whose prices do not apply, where it would
\* refuse the reactivation of another list: whatever is replaced, switched off or
\* drafted, unless a request was decided by a status that had changed.
THEOREM NothingInTheWay == Spec => []NothingStandsInTheWay
<1>1. Clean => NothingStandsInTheWay
  BY DEF Clean, Standing, NothingStandsInTheWay, On, ItemRows, InForce
<1> QED  BY <1>1, CleanInvariant, PTL

\* The price of a customer and a presentation changes only when a list is switched
\* or when a revision that covers them, or one it replaces, is approved.
THEOREM PricesDecided == Spec => PricesChangeByDecision
<1> DEFINE A == \A k \in Combos : PricesOf(k)' = PricesOf(k) \/ stale' \/ \E h \in Handlers : Decides(k, h)
<1>1. Inv /\ Clean /\ Clean' /\ Traced /\ [Next]_vars => A
  BY StepPrices
<1>2. Inv /\ Clean /\ Clean' /\ Traced /\ [Next]_vars => [A]_vars
  BY <1>1
<1>3. Spec => [][A]_vars
  <2> HIDE DEF A
  <2> QED  BY <1>2, Invariant, CleanInvariant, PTL DEF Spec
<1> QED  BY <1>3 DEF PricesChangeByDecision
=============================================================================
