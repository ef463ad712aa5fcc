-------------------------- MODULE NoraTurns_proofs --------------------------
(***************************************************************************)
(* Proofs about NoraTurns: its types, one turn of a session at a time, no  *)
(* turn that was answered missing from the thread, one owner of a session. *)
(***************************************************************************)
EXTENDS NoraTurns, FiniteSetTheorems, TLAPS

\* A turn in flight is somebody's, on a session, at a worker.
Shape(t) ==
    /\ turn[t].pc # "done" => turn[t].status = "none"
    /\ turn[t].pc # "new" => turn[t].s \in Sessions
    /\ InFlight(t) => /\ turn[t].user \in Users /\ turn[t].w \in Workers
                      /\ turn[t].at \in Nat \ {0} /\ turn[t].at <= clock
    /\ InFlight(t) /\ backend = "local" =>
         turn[t].pc \in Keeping \cup {"adrift"} /\ turn[t].w = OnlyWorker
    /\ turn[t].pc = "adrift" => turn[t].s \in broken

\* The lock a session has now is the one its turns hold or wait for.
Locked(t) ==
    turn[t].pc \in Keeping /\ turn[t].s \notin broken =>
        IF backend = "pg" THEN turn[t].lock = 1
        ELSE turn[t].lock = table[turn[t].s].gen /\ table[turn[t].s].in

\* Who it read is who owns the session.
Owned(t) ==
    /\ turn[t].pc = "check" => turn[t].found # 0
    /\ t \notin loose /\ turn[t].pc \in Past \cup {"evict"} => row[turn[t].s].owner = turn[t].user
    /\ t \notin loose /\ turn[t].pc = "check" => row[turn[t].s].owner = turn[t].found

\* What it loaded is still the thread, but for what it saved itself.
Threaded(t) ==
    turn[t].s \notin broken =>
        /\ turn[t].pc = "act" => thread[turn[t].s] \subseteq turn[t].seen \cup {t}
        /\ turn[t].pc = "leave" \/ turn[t].status = "ok" => t \in thread[turn[t].s]

RowsPast == \A s \in Sessions : row[s].at <= clock

Inv ==
    /\ TypeOK /\ RowsPast /\ OneTurnAtATime
    /\ \A t \in Turns : Shape(t) /\ Locked(t) /\ Owned(t) /\ Threaded(t)
-----------------------------------------------------------------------------
LEMMA WorkerFact == OnlyWorker \in Workers
BY TurnsAssumption DEF OnlyWorker

LEMMA NewFact ==
    /\ NewTurn \in Turn /\ NewTurn.pc = "new" /\ NewTurn.status = "none" /\ NoRow \in Row
    /\ NoRow.owner = 0 /\ NoRow.at = 0
BY DEF NewTurn, Turn, NoRow, Row

LEMMA RowFact ==
    ASSUME Inv, NEW s \in Sessions
    PROVE  /\ row[s].owner \in Users \cup {0} /\ row[s].at \in Nat
           /\ row[s].owner = 0 <=> row[s] = NoRow
           /\ row[s].at = 0 <=> row[s] = NoRow
<1>1. row[s] \in Row
  BY DEF Inv, TypeOK
<1>2. 0 \notin Users
  BY TurnsAssumption
<1> QED  BY <1>1, <1>2 DEF Row, NoRow

LEMMA InitInv == Init => Inv
<1> SUFFICES ASSUME Init PROVE Inv
  OBVIOUS
<1>1. \A t \in Turns : turn[t] = NewTurn
  BY DEF Init
<1>2. TypeOK
  BY NewFact DEF Init, TypeOK
<1>3. RowsPast
  BY NewFact DEF Init, RowsPast
<1>4. OneTurnAtATime
  BY <1>1, NewFact DEF OneTurnAtATime, Inside
<1>5. ASSUME NEW t \in Turns PROVE Shape(t) /\ Locked(t) /\ Owned(t) /\ Threaded(t)
  BY <1>1, NewFact DEF Shape, Locked, Owned, Threaded, InFlight, Keeping, Past, Inside
<1> QED  BY <1>2, <1>3, <1>4, <1>5 DEF Inv
-----------------------------------------------------------------------------
(***************************************************************************)
(* A step of one turn                                                      *)
(***************************************************************************)
LEMMA PutTurn ==
    ASSUME Inv, NEW t \in Turns, NEW r \in Turn, turn' = [turn EXCEPT ![t] = r]
    PROVE  /\ turn' \in [Turns -> Turn] /\ turn'[t] = r
           /\ \A u \in Turns \ {t} : turn'[u] = turn[u]
BY DEF Inv, TypeOK

\* The rows other turns rely on: their owner stays, or they know it is gone.
RowsGoOn ==
    /\ row' \in [Sessions -> Row] /\ loose \subseteq loose' /\ loose' \subseteq Turns
    /\ clock' \in Nat /\ clock <= clock'
    /\ \A s \in Sessions :
         /\ row'[s].at <= clock'
         /\ \/ row'[s].owner = row[s].owner \/ row[s] = NoRow
            \/ \A u \in Turns : turn[u].s = s /\ turn[u].pc \in Past \cup {"evict", "check"} => u \in loose'

\* No turn but t is in the session of t.
Alone(t) ==
    turn'[t].pc \in Inside /\ turn'[t].s \notin broken' =>
        \A u \in Turns \ {t} : turn[u].pc \in Inside => turn[u].s # turn'[t].s

LEMMA OwnedKeeps ==
    ASSUME Inv, RowsGoOn, NEW u \in Turns, turn'[u] = turn[u]
    PROVE  Owned(u)'
<1>1. Shape(u) /\ Owned(u)
  BY DEF Inv
<1>2. turn[u].pc = "check" => turn'[u].found # 0
  BY <1>1 DEF Owned
<1>3. ASSUME u \notin loose', turn[u].pc \in Past \cup {"evict"}
      PROVE  row'[turn[u].s].owner = turn[u].user
  <2>1. InFlight(u) /\ u \notin loose
    BY <1>3 DEF InFlight, Past, Keeping, Inside, RowsGoOn
  <2>2. turn[u].s \in Sessions /\ turn[u].user \in Users
    BY <1>1, <2>1 DEF Shape, InFlight
  <2>3. row[turn[u].s].owner = turn[u].user /\ turn[u].user # 0
    BY <1>1, <1>3, <2>1, <2>2, TurnsAssumption DEF Owned
  <2>4. row[turn[u].s] # NoRow
    BY <2>2, <2>3, NewFact
  <2> QED  BY <1>3, <2>2, <2>3, <2>4 DEF RowsGoOn
<1>4. ASSUME u \notin loose', turn[u].pc = "check"
      PROVE  row'[turn[u].s].owner = turn[u].found
  <2>1. turn[u].s \in Sessions /\ u \notin loose
    BY <1>1, <1>4 DEF Shape, RowsGoOn
  <2>2. row[turn[u].s].owner = turn[u].found /\ turn[u].found # 0
    BY <1>1, <1>4, <2>1 DEF Owned
  <2>3. row[turn[u].s] # NoRow
    BY <2>2, NewFact
  <2> QED  BY <1>4, <2>1, <2>2, <2>3 DEF RowsGoOn
<1> QED  BY <1>2, <1>3, <1>4 DEF Owned

LEMMA MoveKeeps ==
    ASSUME Inv, NEW t \in Turns, NEW r \in Turn, turn' = [turn EXCEPT ![t] = r],
           RowsGoOn, UNCHANGED backend, table' \in [Sessions -> [gen : Nat, in : BOOLEAN, at : Nat]],
           thread' \in [Sessions -> SUBSET Turns], events' \in Nat,
           broken \subseteq broken', broken' \subseteq Sessions,
           Alone(t), Shape(t)', Owned(t)', \A u \in Turns : Locked(u)' /\ Threaded(u)'
    PROVE  Inv'
<1>1. /\ turn' \in [Turns -> Turn] /\ turn'[t] = r
      /\ \A u \in Turns \ {t} : turn'[u] = turn[u]
  BY PutTurn
<1>2. TypeOK' /\ RowsPast'
  BY <1>1 DEF Inv, TypeOK, RowsGoOn, RowsPast
<1>3. OneTurnAtATime'
  <2> SUFFICES ASSUME NEW v \in Turns, NEW u \in Turns, turn'[v].pc \in Inside, turn'[u].pc \in Inside,
                      turn'[v].s = turn'[u].s, turn'[v].s \notin broken', v # u
               PROVE  FALSE
    BY DEF OneTurnAtATime
  <2>1. CASE v = t
    BY <1>1, <2>1 DEF Alone
  <2>2. CASE u = t
    BY <1>1, <2>2 DEF Alone
  <2>3. CASE v # t /\ u # t
    BY <1>1, <2>3 DEF Inv, OneTurnAtATime
  <2> QED  BY <2>1, <2>2, <2>3
<1>4. ASSUME NEW u \in Turns, u # t
      PROVE  Shape(u)' /\ Owned(u)'
  <2>1. turn'[u] = turn[u] /\ Shape(u)
    BY <1>1, <1>4 DEF Inv
  <2>2. Shape(u)'
    BY <2>1 DEF Shape, InFlight, RowsGoOn, Inv, TypeOK
  <2>3. Owned(u)'
    BY <2>1, OwnedKeeps
  <2> QED  BY <2>2, <2>3
<1> QED  BY <1>2, <1>3, <1>4 DEF Inv

\* A step that leaves the locks alone.
LEMMA StepKeeps ==
    ASSUME Inv, NEW t \in Turns, NEW r \in Turn, turn' = [turn EXCEPT ![t] = r],
           RowsGoOn, UNCHANGED <<backend, table>>,
           thread' \in [Sessions -> SUBSET Turns], events' \in Nat,
           broken \subseteq broken', broken' \subseteq Sessions,
           Alone(t), Shape(t)', Locked(t)', Owned(t)', Threaded(t)',
           \A u \in Turns \ {t} : Threaded(u)'
    PROVE  Inv'
<1>1. ASSUME NEW u \in Turns, u # t PROVE Locked(u)'
  BY <1>1, PutTurn DEF Inv, Locked
<1>2. table' \in [Sessions -> [gen : Nat, in : BOOLEAN, at : Nat]]
  BY DEF Inv, TypeOK
<1>3. \A u \in Turns : Locked(u)' /\ Threaded(u)'
  BY <1>1
<1> QED  BY <1>2, <1>3, MoveKeeps

\* A step that leaves the rows, the threads and the locks alone.
LEMMA TurnKeeps ==
    ASSUME Inv, NEW t \in Turns, NEW r \in Turn, turn' = [turn EXCEPT ![t] = r],
           UNCHANGED <<backend, row, table, thread, clock, loose>>,
           events' \in Nat, broken \subseteq broken', broken' \subseteq Sessions,
           Alone(t), Shape(t)', Locked(t)', Owned(t)', Threaded(t)'
    PROVE  Inv'
<1>1. RowsGoOn
  BY DEF RowsGoOn, Inv, TypeOK, RowsPast
<1>2. ASSUME NEW u \in Turns \ {t} PROVE Threaded(u)'
  BY PutTurn DEF Inv, Threaded
<1>3. thread' \in [Sessions -> SUBSET Turns]
  BY DEF Inv, TypeOK
<1> QED  BY <1>1, <1>2, <1>3, StepKeeps

\* An answer lets everything go.
LEMMA AnswerKeeps ==
    ASSUME Inv, NEW t \in Turns, NEW status \in {"ok", "refused"},
           turn[t].pc # "new", Answer(t, status), UNCHANGED <<backend, row, table, thread, clock, loose, broken>>,
           events' \in Nat,
           status = "ok" /\ turn[t].s \notin broken => t \in thread[turn[t].s]
    PROVE  Inv'
<1> DEFINE R == Answered(t, status)
<1>1. turn[t].s \in Sessions /\ turn[t] \in Turn
  BY DEF Inv, Shape, TypeOK
<1>2. R \in Turn /\ R.pc = "done" /\ R.s = turn[t].s /\ R.status = status
  BY <1>1 DEF Answered, NewTurn, Turn
<1>3. turn' = [turn EXCEPT ![t] = R]
  BY DEF Answer
<1> HIDE DEF R
<1>4. turn'[t] = R
  BY <1>2, <1>3, PutTurn
<1>5. Alone(t)
  BY <1>2, <1>4 DEF Alone, Inside
<1>6. Shape(t)' /\ Locked(t)' /\ Owned(t)' /\ Threaded(t)'
  BY <1>1, <1>2, <1>4 DEF Shape, InFlight, Locked, Owned, Threaded, Keeping, Past, Inside
<1>7. broken \subseteq broken' /\ broken' \subseteq Sessions
  BY DEF Inv, TypeOK
<1> QED  BY <1>2, <1>3, <1>5, <1>6, <1>7, TurnKeeps

\* The next place of a turn in its course.
LEMMA GotoFact ==
    ASSUME Inv, NEW t \in Turns, NEW pc \in {"again", "evict", "lock", "load", "leave"}, Goto(t, pc)
    PROVE  /\ [turn[t] EXCEPT !.pc = pc] \in Turn
           /\ turn' = [turn EXCEPT ![t] = [turn[t] EXCEPT !.pc = pc]]
           /\ turn'[t].pc = pc /\ turn'[t].s = turn[t].s /\ turn'[t].user = turn[t].user
           /\ turn'[t].w = turn[t].w /\ turn'[t].at = turn[t].at /\ turn'[t].lock = turn[t].lock
           /\ turn'[t].seen = turn[t].seen /\ turn'[t].status = turn[t].status
<1>1. turn[t] \in Turn /\ turn \in [Turns -> Turn]
  BY DEF Inv, TypeOK
<1>2. [turn[t] EXCEPT !.pc = pc] \in Turn
  BY <1>1 DEF Turn
<1>3. turn' = [turn EXCEPT ![t] = [turn[t] EXCEPT !.pc = pc]]
  BY <1>1 DEF Goto
<1>4. turn'[t] = [turn[t] EXCEPT !.pc = pc]
  BY <1>1, <1>3
<1> QED  BY <1>1, <1>2, <1>3, <1>4 DEF Turn

\* The actions that only answer.
LEMMA RefusalKeeps ==
    ASSUME Inv, NEW t \in Turns, LockTimeout(t) \/ PoolTimeout(t) \/ Throw(t) \/ Collected(t) \/ Leave(t)
    PROVE  Inv'
<1>1. turn[t].pc # "new"
  BY DEF LockTimeout, PoolTimeout, Throw, Collected, Leave, Waiting, InFlight
<1>2. events' \in Nat
  BY DEF LockTimeout, PoolTimeout, Throw, Collected, Leave, Occurs, Inv, TypeOK
<1>3. CASE LockTimeout(t) \/ PoolTimeout(t) \/ Throw(t) \/ Collected(t)
  BY <1>1, <1>2, <1>3, AnswerKeeps DEF LockTimeout, PoolTimeout, Throw, Collected
<1>4. CASE Leave(t)
  <2>1. turn[t].s \notin broken => t \in thread[turn[t].s]
    BY <1>4 DEF Leave, Inv, Threaded
  <2> QED  BY <1>1, <1>2, <1>4, <2>1, AnswerKeeps DEF Leave
<1> QED  BY <1>3, <1>4

LEMMA FindAgainKeeps ==
    ASSUME Inv, NEW t \in Turns, FindAgain(t)
    PROVE  Inv'
<1> DEFINE owner == row[turn[t].s].owner
           R == [turn[t] EXCEPT !.pc = "check", !.found = owner]
<1>1. turn[t].pc = "again" /\ turn[t] \in Turn /\ turn[t].s \in Sessions /\ Shape(t)
  BY DEF FindAgain, Inv, TypeOK, Shape
<1>2. UNCHANGED <<backend, row, table, thread, clock, events, broken, loose>>
  BY DEF FindAgain
<1>3. events' \in Nat /\ broken \subseteq broken' /\ broken' \subseteq Sessions
  BY <1>2 DEF Inv, TypeOK
<1>4. CASE Answer(t, "refused")
  BY <1>1, <1>2, <1>3, <1>4, AnswerKeeps
<1>5. CASE row[turn[t].s] # NoRow /\ turn' = [turn EXCEPT ![t].pc = "check", ![t].found = owner]
  <2>1. owner \in Users /\ owner # 0
    BY <1>1, <1>5, RowFact, TurnsAssumption
  <2>2. R \in Turn /\ R.pc = "check" /\ R.found = owner /\ R.s = turn[t].s /\ R.user = turn[t].user
        /\ R.w = turn[t].w /\ R.at = turn[t].at /\ R.status = turn[t].status
    BY <1>1, <2>1 DEF Turn
  <2>3. turn' = [turn EXCEPT ![t] = R]
    BY <1>1, <1>5 DEF Inv, TypeOK, Turn
  <2> HIDE DEF R, owner
  <2>4. turn'[t] = R
    BY <2>2, <2>3, PutTurn
  <2>5. Alone(t) /\ Locked(t)' /\ Threaded(t)'
    BY <1>1, <2>2, <2>4 DEF Alone, Locked, Threaded, Keeping, Inside, Shape
  <2>6. Shape(t)'
    BY <1>1, <1>2, <2>2, <2>4 DEF Shape, InFlight, Keeping, Inside
  <2>7. Owned(t)'
    BY <1>1, <1>2, <2>1, <2>2, <2>4 DEF Owned, Past, Keeping, Inside, owner
  <2> QED  BY <1>2, <1>3, <2>2, <2>3, <2>5, <2>6, <2>7, TurnKeeps
<1> QED  BY <1>4, <1>5 DEF FindAgain

LEMMA TakeConnKeeps ==
    ASSUME Inv, NEW t \in Turns, TakeConn(t)
    PROVE  Inv'
<1> DEFINE R == [turn[t] EXCEPT !.pc = "wait", !.lock = 1]
<1>1. turn[t].pc = "lock" /\ turn[t] \in Turn /\ Shape(t) /\ Owned(t)
  BY DEF TakeConn, Inv, TypeOK
<1>2. UNCHANGED <<backend, row, table, thread, clock, events, broken, loose>>
  BY DEF TakeConn
<1>3. events' \in Nat /\ broken \subseteq broken' /\ broken' \subseteq Sessions
  BY <1>2 DEF Inv, TypeOK
<1>4. R \in Turn /\ R.pc = "wait" /\ R.lock = 1 /\ R.s = turn[t].s /\ R.user = turn[t].user
      /\ R.w = turn[t].w /\ R.at = turn[t].at /\ R.status = turn[t].status
  BY <1>1 DEF Turn
<1>5. turn' = [turn EXCEPT ![t] = R]
  BY <1>1 DEF TakeConn, Inv, TypeOK, Turn
<1> HIDE DEF R
<1>6. turn'[t] = R
  BY <1>4, <1>5, PutTurn
<1>7. backend = "pg"
  BY <1>1 DEF Shape, InFlight, Keeping, Inside, Inv, TypeOK
<1>8. Alone(t) /\ Locked(t)' /\ Threaded(t)'
  BY <1>1, <1>2, <1>4, <1>6, <1>7 DEF Alone, Locked, Threaded, Keeping, Inside, Shape
<1>9. Shape(t)'
  BY <1>1, <1>2, <1>4, <1>6, <1>7 DEF Shape, InFlight
<1>10. Owned(t)'
  BY <1>1, <1>2, <1>4, <1>6 DEF Owned, Past, Keeping, Inside
<1> QED  BY <1>2, <1>3, <1>4, <1>5, <1>8, <1>9, <1>10, TurnKeeps

\* Whoever enters is alone: two turns of a session wait for the same lock.
LEMMA EnterKeeps ==
    ASSUME Inv, NEW t \in Turns, Enter(t)
    PROVE  Inv'
<1>1. turn[t].pc = "wait" /\ LockFree(t) /\ Goto(t, "load") /\ Shape(t) /\ Owned(t) /\ Locked(t)
  BY DEF Enter, Inv
<1>2. UNCHANGED <<backend, row, table, thread, clock, events, broken, loose>>
  BY DEF Enter
<1>3. events' \in Nat /\ broken \subseteq broken' /\ broken' \subseteq Sessions
  BY <1>2 DEF Inv, TypeOK
<1> DEFINE R == [turn[t] EXCEPT !.pc = "load"]
<1>4. /\ R \in Turn /\ turn' = [turn EXCEPT ![t] = R]
      /\ turn'[t].pc = "load" /\ turn'[t].s = turn[t].s /\ turn'[t].user = turn[t].user
      /\ turn'[t].w = turn[t].w /\ turn'[t].at = turn[t].at /\ turn'[t].lock = turn[t].lock
      /\ turn'[t].status = turn[t].status
  BY <1>1, GotoFact
<1> HIDE DEF R
<1>5. Alone(t)
  <2> SUFFICES ASSUME turn[t].s \notin broken, NEW u \in Turns \ {t}, turn[u].pc \in Inside,
                      turn[u].s = turn[t].s
               PROVE  FALSE
    BY <1>2, <1>4 DEF Alone
  <2>1. Locked(u)
    BY DEF Inv
  <2>2. turn[u].lock = turn[t].lock
    BY <1>1, <2>1 DEF Locked, Keeping, Inside
  <2> QED  BY <1>1, <2>2 DEF LockFree, Holds
<1>6. Locked(t)' /\ Threaded(t)'
  BY <1>1, <1>2, <1>4 DEF Locked, Threaded, Keeping, Inside, Shape
<1>7. Shape(t)'
  BY <1>1, <1>2, <1>4 DEF Shape, InFlight, Keeping, Inside
<1>8. Owned(t)'
  BY <1>1, <1>2, <1>4 DEF Owned, Past, Keeping, Inside
<1> QED  BY <1>2, <1>3, <1>4, <1>5, <1>6, <1>7, <1>8, TurnKeeps

\* A turn inside stays alone.
LEMMA AloneFact ==
    ASSUME Inv, NEW t \in Turns, turn[t].pc \in Inside, turn'[t].s = turn[t].s, broken \subseteq broken'
    PROVE  Alone(t)
BY DEF Inv, OneTurnAtATime, Alone

LEMMA LoadKeeps ==
    ASSUME Inv, NEW t \in Turns, Load(t)
    PROVE  Inv'
<1> DEFINE seen == thread[turn[t].s]
           R == [turn[t] EXCEPT !.pc = "act", !.seen = seen]
<1>1. turn[t].pc = "load" /\ turn[t] \in Turn /\ turn[t].s \in Sessions /\ Shape(t) /\ Owned(t) /\ Locked(t)
  BY DEF Load, Inv, TypeOK, Shape
<1>2. UNCHANGED <<backend, row, table, thread, clock, events, broken, loose>>
  BY DEF Load
<1>3. events' \in Nat /\ broken \subseteq broken' /\ broken' \subseteq Sessions
  BY <1>2 DEF Inv, TypeOK
<1>4. seen \subseteq Turns
  BY <1>1 DEF Inv, TypeOK
<1>5. R \in Turn /\ R.pc = "act" /\ R.lock = turn[t].lock /\ R.s = turn[t].s /\ R.user = turn[t].user
      /\ R.w = turn[t].w /\ R.at = turn[t].at /\ R.status = turn[t].status /\ R.seen = seen
  BY <1>1, <1>4 DEF Turn
<1>6. turn' = [turn EXCEPT ![t] = R]
  BY <1>1 DEF Load, Inv, TypeOK, Turn
<1> HIDE DEF R, seen
<1>7. turn'[t] = R
  BY <1>5, <1>6, PutTurn
<1>8. Alone(t)
  BY <1>1, <1>3, <1>5, <1>7, AloneFact DEF Inside
<1>9. Locked(t)' /\ Owned(t)'
  BY <1>1, <1>2, <1>5, <1>7 DEF Locked, Owned, Past, Keeping, Inside
<1>10. Threaded(t)'
  BY <1>1, <1>2, <1>5, <1>7 DEF Threaded, Shape, seen
<1>11. Shape(t)'
  BY <1>1, <1>2, <1>5, <1>7 DEF Shape, InFlight, Keeping, Inside
<1> QED  BY <1>2, <1>3, <1>5, <1>6, <1>8, <1>9, <1>10, <1>11, TurnKeeps

LEMMA ClientLeavesKeeps ==
    ASSUME Inv, NEW t \in Turns, ClientLeaves(t)
    PROVE  Inv'
<1> DEFINE seen == IF turn[t].pc = "load" THEN thread[turn[t].s] ELSE turn[t].seen
           R == [turn[t] EXCEPT !.pc = "adrift", !.lock = 0, !.seen = seen]
<1>1. turn[t].pc \in Inside /\ turn[t] \in Turn /\ turn[t].s \in Sessions /\ Shape(t) /\ Owned(t)
  BY DEF ClientLeaves, Inv, TypeOK, Shape, Inside
<1>2. UNCHANGED <<backend, row, table, thread, clock, loose>> /\ broken' = broken \cup {turn[t].s}
  BY DEF ClientLeaves
<1>3. events' \in Nat /\ broken \subseteq broken' /\ broken' \subseteq Sessions
  BY <1>1, <1>2 DEF ClientLeaves, Occurs, Inv, TypeOK
<1>4. seen \subseteq Turns
  BY <1>1 DEF Inv, TypeOK, Turn
<1>5. R \in Turn /\ R.pc = "adrift" /\ R.s = turn[t].s /\ R.user = turn[t].user
      /\ R.w = turn[t].w /\ R.at = turn[t].at /\ R.status = turn[t].status
  BY <1>1, <1>4 DEF Turn
<1>6. turn' = [turn EXCEPT ![t] = R]
  BY <1>1 DEF ClientLeaves, Inv, TypeOK, Turn
<1> HIDE DEF R, seen
<1>7. turn'[t] = R
  BY <1>5, <1>6, PutTurn
<1>8. Alone(t)
  BY <1>5, <1>7 DEF Alone, Inside
<1>9. Locked(t)' /\ Owned(t)' /\ Threaded(t)'
  BY <1>1, <1>2, <1>5, <1>7 DEF Locked, Owned, Threaded, Past, Keeping, Inside
<1>10. Shape(t)'
  BY <1>1, <1>2, <1>5, <1>7 DEF Shape, InFlight, Inside
<1> QED  BY <1>2, <1>3, <1>5, <1>6, <1>8, <1>9, <1>10, TurnKeeps

\* A stray turn writes in a session that is given up.
LEMMA LateSaveKeeps ==
    ASSUME Inv, NEW t \in Turns, LateSave(t)
    PROVE  Inv'
<1> DEFINE s == turn[t].s
<1>1. s \in Sessions /\ s \in broken /\ turn[t].seen \cup {t} \subseteq Turns
  BY DEF LateSave, Inv, TypeOK, Turn, Shape
<1>2. UNCHANGED <<backend, turn, row, table, clock, events, broken, loose>>
  BY DEF LateSave
<1>3. /\ thread' \in [Sessions -> SUBSET Turns]
      /\ \A q \in Sessions \ {s} : thread'[q] = thread[q]
  BY <1>1 DEF LateSave, Inv, TypeOK
<1> HIDE DEF s
<1>4. TypeOK' /\ RowsPast' /\ OneTurnAtATime'
  BY <1>2, <1>3 DEF Inv, TypeOK, RowsPast, OneTurnAtATime
<1>5. ASSUME NEW u \in Turns PROVE Shape(u)' /\ Locked(u)' /\ Owned(u)' /\ Threaded(u)'
  <2>1. Shape(u)' /\ Locked(u)' /\ Owned(u)'
    BY <1>2 DEF Inv, Shape, InFlight, Locked, Owned
  <2>2. CASE turn[u].pc = "new"
    BY <1>2, <2>1, <2>2 DEF Threaded, Shape
  <2>3. CASE turn[u].pc # "new"
    BY <1>1, <1>2, <1>3, <2>1, <2>3 DEF Inv, Shape, Threaded
  <2> QED  BY <2>1, <2>2, <2>3
<1> QED  BY <1>4, <1>5 DEF Inv

LEMMA LoseConnKeeps ==
    ASSUME Inv, NEW t \in Turns, LoseConn(t)
    PROVE  Inv'
<1> DEFINE R == [turn[t] EXCEPT !.lock = 0]
<1>1. turn[t].pc \in Inside /\ turn[t] \in Turn /\ turn[t].s \in Sessions /\ Shape(t) /\ Owned(t)
  BY DEF LoseConn, Inv, TypeOK, Shape, Inside
<1>2. UNCHANGED <<backend, row, table, thread, clock, loose>> /\ broken' = broken \cup {turn[t].s}
  BY DEF LoseConn
<1>3. events' \in Nat /\ broken \subseteq broken' /\ broken' \subseteq Sessions
  BY <1>1, <1>2 DEF LoseConn, Occurs, Inv, TypeOK
<1>4. R \in Turn /\ R.pc = turn[t].pc /\ R.lock = 0 /\ R.s = turn[t].s /\ R.user = turn[t].user
      /\ R.w = turn[t].w /\ R.at = turn[t].at /\ R.status = turn[t].status /\ R.found = turn[t].found
  BY <1>1 DEF Turn
<1>5. turn' = [turn EXCEPT ![t] = R]
  BY <1>1 DEF LoseConn, Inv, TypeOK, Turn
<1> HIDE DEF R
<1>6. turn'[t] = R
  BY <1>4, <1>5, PutTurn
<1>7. Alone(t)
  BY <1>1, <1>3, <1>4, <1>6, AloneFact
<1>8. Locked(t)' /\ Owned(t)' /\ Threaded(t)'
  BY <1>1, <1>2, <1>4, <1>6 DEF Locked, Owned, Threaded
<1>9. Shape(t)'
  BY <1>1, <1>2, <1>4, <1>6 DEF Shape, InFlight
<1> QED  BY <1>2, <1>3, <1>4, <1>5, <1>7, <1>8, <1>9, TurnKeeps

\* A checkpoint is written over nobody else's.
LEMMA SaveKeeps ==
    ASSUME Inv, NEW t \in Turns, Save(t)
    PROVE  Inv'
<1> DEFINE s == turn[t].s
           saved == turn[t].seen \cup {t}
           R == [turn[t] EXCEPT !.seen = saved]
           L == [turn[t] EXCEPT !.pc = "leave"]
<1>1. turn[t].pc = "act" /\ turn[t] \in Turn /\ s \in Sessions
  BY DEF Save, Inv, TypeOK, Shape
<1>2. UNCHANGED <<backend, row, table, clock, events, broken, loose>>
  BY DEF Save
<1>3. saved \subseteq Turns
  BY <1>1 DEF Turn
<1>4. thread' = [thread EXCEPT ![s] = saved] /\ thread \in [Sessions -> SUBSET Turns]
  BY DEF Save, Inv, TypeOK
<1>5. /\ R \in Turn /\ R.seen = saved /\ R.pc = turn[t].pc /\ R.lock = turn[t].lock /\ R.s = s
      /\ R.user = turn[t].user /\ R.w = turn[t].w /\ R.at = turn[t].at /\ R.status = turn[t].status
  BY <1>1, <1>3 DEF Turn
<1>6. /\ L \in Turn /\ L.pc = "leave" /\ L.lock = turn[t].lock /\ L.s = s
      /\ L.user = turn[t].user /\ L.w = turn[t].w /\ L.at = turn[t].at /\ L.status = turn[t].status
  BY <1>1 DEF Turn
<1>7. turn' = [turn EXCEPT ![t] = R] \/ turn' = [turn EXCEPT ![t] = L]
  BY <1>1 DEF Save, Goto, Inv, TypeOK, Turn
<1> HIDE DEF R, L, s, saved
<1>8. PICK r \in {R, L} : turn' = [turn EXCEPT ![t] = r]
  BY <1>7
<1>9. r \in Turn /\ turn'[t] = r /\ \A u \in Turns \ {t} : turn'[u] = turn[u]
  BY <1>5, <1>6, <1>8, PutTurn
<1>10. /\ turn'[t].pc \in {"act", "leave"} /\ turn'[t].lock = turn[t].lock /\ turn'[t].s = s
       /\ turn'[t].user = turn[t].user /\ turn'[t].w = turn[t].w /\ turn'[t].at = turn[t].at
       /\ turn'[t].status = turn[t].status /\ (turn'[t].pc = "act" => turn'[t].seen = saved)
  BY <1>1, <1>5, <1>6, <1>9
<1>11. Alone(t)
  BY <1>1, <1>2, <1>10, AloneFact DEF Inside, s
<1>12. Shape(t) /\ Locked(t) /\ Owned(t) /\ Threaded(t)
  BY DEF Inv
<1>13. Shape(t)' /\ Locked(t)' /\ Owned(t)'
  BY <1>1, <1>2, <1>10, <1>12 DEF Shape, Locked, Owned, InFlight, Past, Keeping, Inside, s
<1>14. thread'[s] = saved /\ \A q \in Sessions \ {s} : thread'[q] = thread[q]
  BY <1>1, <1>4
<1>15. Threaded(t)'
  BY <1>1, <1>2, <1>10, <1>12, <1>14 DEF Threaded, Shape, saved
<1>16. ASSUME NEW u \in Turns \ {t} PROVE Threaded(u)'
  <2>1. turn'[u] = turn[u] /\ Shape(u) /\ Threaded(u)
    BY <1>9 DEF Inv
  <2>2. CASE turn[u].s \in broken
    BY <1>2, <2>1, <2>2 DEF Threaded
  <2>3. CASE turn[u].s # s /\ turn[u].pc # "new"
    BY <1>2, <1>14, <2>1, <2>3 DEF Threaded, Shape
  <2>4. CASE turn[u].pc = "new"
    BY <2>1, <2>4 DEF Threaded, Shape
  <2>5. CASE turn[u].s = s /\ s \notin broken
    <3>1. turn[u].pc \notin Inside
      BY <1>1, <2>5 DEF Inv, OneTurnAtATime, Inside, s
    <3>2. turn[u].status = "ok" => u \in thread[s]
      BY <2>1, <2>5 DEF Threaded
    <3>3. thread[s] \subseteq saved
      BY <1>1, <1>12, <2>5 DEF Threaded, s, saved
    <3> QED  BY <1>2, <1>14, <2>1, <2>5, <3>1, <3>2, <3>3 DEF Threaded, Inside
  <2> QED  BY <2>2, <2>3, <2>4, <2>5
<1>17. thread' \in [Sessions -> SUBSET Turns]
  BY <1>3, <1>4
<1>18. RowsGoOn /\ events' \in Nat /\ broken' \subseteq Sessions
  BY <1>2 DEF RowsGoOn, Inv, TypeOK, RowsPast
<1> QED  BY <1>2, <1>8, <1>9, <1>11, <1>13, <1>15, <1>16, <1>17, <1>18, StepKeeps
-----------------------------------------------------------------------------
(***************************************************************************)
(* Steps that write rows                                                   *)
(***************************************************************************)

\* A step of a turn outside the lock that leaves the threads alone.
LEMMA RowKeeps ==
    ASSUME Inv, NEW t \in Turns, NEW r \in Turn, turn' = [turn EXCEPT ![t] = r],
           RowsGoOn, UNCHANGED <<backend, table, thread, events, broken>>,
           backend = "pg", turn[t].pc # "done",
           r.pc \notin Keeping \cup {"new", "adrift", "done"},
           r.s \in Sessions, r.user \in Users, r.w \in Workers,
           r.at \in Nat \ {0}, r.at <= clock', r.status = turn[t].status, Owned(t)'
    PROVE  Inv'
<1>1. turn'[t] = r /\ \A u \in Turns \ {t} : turn'[u] = turn[u]
  BY PutTurn
<1>2. Alone(t) /\ Locked(t)'
  BY <1>1 DEF Alone, Locked, Keeping, Inside
<1>3. turn[t].status = "none"
  BY DEF Inv, Shape
<1>4. Shape(t)'
  BY <1>1, <1>3 DEF Shape, InFlight
<1>5. ASSUME NEW u \in Turns PROVE Threaded(u)'
  <2>1. CASE u = t
    BY <1>1, <1>3, <2>1 DEF Threaded, Keeping, Inside
  <2>2. CASE u # t
    BY <1>1, <2>2 DEF Inv, Threaded
  <2> QED  BY <2>1, <2>2
<1>6. /\ thread' \in [Sessions -> SUBSET Turns] /\ events' \in Nat
      /\ broken \subseteq broken' /\ broken' \subseteq Sessions
  BY DEF Inv, TypeOK
<1> QED  BY <1>2, <1>4, <1>5, <1>6, StepKeeps

LEMMA ForgetsFact ==
    ASSUME Inv, NEW gone \in SUBSET Sessions, row' = Kept(gone), Forgets(gone), clock' = clock
    PROVE  /\ RowsGoOn
           /\ \A s \in Sessions : row'[s] = IF s \in gone THEN NoRow ELSE row[s]
           /\ \A u \in Turns : turn[u].s \in gone /\ turn[u].pc \in Past \cup {"evict", "check"} => u \in loose'
<1>1. \A s \in Sessions : row'[s] = IF s \in gone THEN NoRow ELSE row[s]
  BY DEF Kept
<1>2. row' \in [Sessions -> Row]
  BY NewFact DEF Kept, Inv, TypeOK
<1>3. loose \subseteq loose' /\ loose' \subseteq Turns
      /\ \A u \in Turns : turn[u].s \in gone /\ turn[u].pc \in Past \cup {"evict", "check"} => u \in loose'
  BY DEF Forgets, Inv, TypeOK
<1>4. \A s \in Sessions : row'[s].at <= clock' /\ (s \notin gone => row'[s].owner = row[s].owner)
  BY <1>1, NewFact DEF Inv, RowsPast, TypeOK
<1>5. RowsGoOn
  BY <1>2, <1>3, <1>4 DEF RowsGoOn, Inv, TypeOK
<1> QED  BY <1>1, <1>3, <1>5

LEMMA PgFact ==
    ASSUME Inv, NEW t \in Turns, turn[t].pc \in {"find", "create", "again", "evict", "check", "lock"}
    PROVE  /\ backend = "pg" /\ turn[t] \in Turn /\ turn[t].status = "none"
           /\ turn[t].s \in Sessions /\ turn[t].user \in Users /\ turn[t].w \in Workers
           /\ turn[t].at \in Nat \ {0} /\ turn[t].at <= clock
BY DEF Inv, TypeOK, Shape, InFlight, Keeping, Inside

LEMMA ArriveKeeps ==
    ASSUME Inv, NEW t \in Turns, NEW s \in Sessions, NEW u \in Users, NEW w \in Workers, Arrive(t, s, u, w)
    PROVE  Inv'
<1> DEFINE R == [turn[t] EXCEPT !.pc = "find", !.s = s, !.user = u, !.w = w, !.at = clock']
<1>1. turn[t].pc = "new" /\ turn[t] \in Turn /\ backend = "pg" /\ clock' = clock + 1 /\ clock \in Nat
      /\ turn' = [turn EXCEPT ![t] = R]
  BY DEF Arrive, Comes, Inv, TypeOK
<1>2. clock' \in Nat \ {0} /\ clock <= clock'
  BY <1>1
<1>3. R \in Turn /\ R.pc = "find" /\ R.s = s /\ R.user = u /\ R.w = w /\ R.at = clock' /\ R.status = turn[t].status
  BY <1>1, <1>2 DEF Turn
<1> HIDE DEF R
<1>4. turn'[t] = R
  BY <1>1, <1>3, PutTurn
<1>5. Owned(t)'
  BY <1>3, <1>4 DEF Owned, Past, Keeping, Inside
<1>6. UNCHANGED <<backend, row, table, thread, events, broken, loose>>
  BY DEF Arrive
<1>7. \A q \in Sessions : row[q].at <= clock'
  BY <1>1, RowFact DEF Inv, RowsPast
<1>8. RowsGoOn
  BY <1>2, <1>6, <1>7 DEF RowsGoOn, Inv, TypeOK
<1>9. R.pc \notin Keeping \cup {"new", "adrift", "done"} /\ R.at <= clock'
  BY <1>2, <1>3 DEF Keeping, Inside
<1> QED  BY <1>1, <1>2, <1>3, <1>5, <1>6, <1>8, <1>9, RowKeeps

LEMMA FindKeeps ==
    ASSUME Inv, NEW t \in Turns, Find(t)
    PROVE  Inv'
<1>1. turn[t].pc = "find" /\ backend = "pg" /\ turn[t] \in Turn /\ turn[t].s \in Sessions
  BY PgFact DEF Find
<1>2. UNCHANGED <<backend, table, thread, clock, events, broken>>
  BY DEF Find
<1>3. PICK gone \in SUBSET Sessions :
        /\ row' = Kept(gone) /\ Forgets(gone)
        /\ turn' = [turn EXCEPT ![t].pc = IF row'[turn[t].s] = NoRow THEN "create" ELSE "check",
                                ![t].found = row'[turn[t].s].owner]
  BY DEF Find, Rows
<1> DEFINE found == row'[turn[t].s]
           pc == IF found = NoRow THEN "create" ELSE "check"
           R == [turn[t] EXCEPT !.pc = pc, !.found = found.owner]
<1>4. RowsGoOn /\ found \in Row
  BY <1>1, <1>2, <1>3, ForgetsFact DEF RowsGoOn
<1>5. found.owner \in Users \cup {0} /\ (found # NoRow => found.owner # 0)
  BY <1>4, TurnsAssumption DEF Row, NoRow
<1>6. pc \in {"create", "check"} /\ (pc = "check" => found # NoRow)
  OBVIOUS
<1> HIDE DEF found, pc
<1>7. R \in Turn /\ R.pc = pc /\ R.found = found.owner /\ R.s = turn[t].s /\ R.user = turn[t].user
      /\ R.w = turn[t].w /\ R.at = turn[t].at /\ R.status = turn[t].status
  BY <1>1, <1>5, <1>6 DEF Turn
<1>8. turn' = [turn EXCEPT ![t] = R]
  BY <1>1, <1>3 DEF Inv, TypeOK, Turn, found, pc
<1> HIDE DEF R
<1>9. turn'[t] = R
  BY <1>7, <1>8, PutTurn
<1>10. Owned(t)'
  BY <1>1, <1>5, <1>6, <1>7, <1>9 DEF Owned, Past, Keeping, Inside, found
<1>11. R.pc \notin Keeping \cup {"new", "adrift", "done"}
  BY <1>6, <1>7 DEF Keeping, Inside
<1> QED  BY <1>1, <1>2, <1>4, <1>7, <1>8, <1>10, <1>11, PgFact, RowKeeps

LEMMA CreateKeeps ==
    ASSUME Inv, NEW t \in Turns, Create(t)
    PROVE  Inv'
<1> DEFINE s == turn[t].s
           mine == [owner |-> turn[t].user, at |-> turn[t].at]
           pc == IF row[s] = NoRow THEN "evict" ELSE "again"
           R == [turn[t] EXCEPT !.pc = pc]
<1>1. turn[t].pc = "create" /\ Goto(t, pc)
  BY DEF Create
<1>2. UNCHANGED <<backend, table, thread, clock, events, broken, loose>>
  BY DEF Create
<1>3. mine \in Row /\ s \in Sessions /\ mine.at <= clock
  BY <1>1, PgFact DEF Row
<1>4. row \in [Sessions -> Row] /\ row' = IF row[s] # NoRow THEN row ELSE [row EXCEPT ![s] = mine]
  BY DEF Create, Insert, Inv, TypeOK
<1>5. /\ row' \in [Sessions -> Row]
      /\ \A q \in Sessions : row'[q] = row[q] \/ (row[q] = NoRow /\ row'[q] = mine)
      /\ row[s] = NoRow => row'[s] = mine
  BY <1>3, <1>4
<1>6. RowsGoOn
  BY <1>2, <1>3, <1>5 DEF RowsGoOn, Inv, TypeOK, RowsPast
<1>7. /\ R \in Turn /\ R.pc = pc /\ R.s = s /\ R.user = turn[t].user /\ R.w = turn[t].w
      /\ R.at = turn[t].at /\ R.status = turn[t].status
      /\ turn' = [turn EXCEPT ![t] = R] /\ turn'[t] = R
  <2>1. pc \in {"evict", "again", "lock"} /\ turn[t] \in Turn
    BY <1>1, PgFact
  <2> HIDE DEF pc
  <2>2. R \in Turn /\ turn' = [turn EXCEPT ![t] = R]
    BY <1>1, <2>1, GotoFact
  <2>3. R.pc = pc /\ R.s = s /\ R.user = turn[t].user /\ R.w = turn[t].w
        /\ R.at = turn[t].at /\ R.status = turn[t].status
    BY <2>1 DEF Turn
  <2> HIDE DEF R
  <2> QED  BY <2>2, <2>3, PutTurn
<1>8. Owned(t)'
  <2>1. pc \in {"evict", "again"} /\ (pc = "evict" => row'[s].owner = turn[t].user)
    BY <1>5
  <2> HIDE DEF R, pc, mine
  <2> QED  BY <1>7, <2>1 DEF Owned, Past, Keeping, Inside
<1>9. R.pc \notin Keeping \cup {"new", "adrift", "done"}
  BY <1>7 DEF Keeping, Inside
<1> HIDE DEF R
<1> QED  BY <1>1, <1>2, <1>6, <1>7, <1>8, <1>9, PgFact, RowKeeps

LEMMA EvictKeeps ==
    ASSUME Inv, NEW t \in Turns, Evict(t)
    PROVE  Inv'
<1> DEFINE R == [turn[t] EXCEPT !.pc = "lock"]
<1>1. turn[t].pc = "evict" /\ Goto(t, "lock") /\ row' = Kept(Evicted) /\ Forgets(Evicted)
  BY DEF Evict
<1>2. UNCHANGED <<backend, table, thread, clock, events, broken>>
  BY DEF Evict
<1>3. Evicted \subseteq Sessions
  BY DEF Evicted, After, Rows
<1>4. /\ RowsGoOn
      /\ \A s \in Sessions : row'[s] = IF s \in Evicted THEN NoRow ELSE row[s]
      /\ turn[t].s \in Evicted => t \in loose'
  BY <1>1, <1>2, <1>3, ForgetsFact
<1>5. /\ R \in Turn /\ R.pc = "lock" /\ R.s = turn[t].s /\ R.user = turn[t].user /\ R.w = turn[t].w
      /\ R.at = turn[t].at /\ R.status = turn[t].status
      /\ turn' = [turn EXCEPT ![t] = R] /\ turn'[t] = R
  <2>1. "lock" \in {"evict", "again", "lock"} /\ turn[t] \in Turn
    BY <1>1, PgFact
  <2>2. R \in Turn /\ turn' = [turn EXCEPT ![t] = R]
    BY <1>1, <2>1, GotoFact
  <2>3. R.pc = "lock" /\ R.s = turn[t].s /\ R.user = turn[t].user /\ R.w = turn[t].w
        /\ R.at = turn[t].at /\ R.status = turn[t].status
    BY <2>1 DEF Turn
  <2> HIDE DEF R
  <2> QED  BY <2>2, <2>3, PutTurn
<1>6. Owned(t) /\ turn[t].s \in Sessions /\ loose \subseteq loose'
  BY <1>1, <1>4, PgFact DEF Inv, RowsGoOn
<1>7. Owned(t)'
  BY <1>1, <1>4, <1>5, <1>6 DEF Owned, Past, Keeping, Inside
<1>8. R.pc \notin Keeping \cup {"new", "adrift", "done"}
  BY <1>5 DEF Keeping, Inside
<1> HIDE DEF R
<1> QED  BY <1>1, <1>2, <1>4, <1>5, <1>7, <1>8, PgFact, RowKeeps

LEMMA CheckKeeps ==
    ASSUME Inv, NEW t \in Turns, Check(t)
    PROVE  Inv'
<1> DEFINE s == turn[t].s
           X == [row[s] EXCEPT !.at = turn[t].at]
           R == [turn[t] EXCEPT !.pc = "lock", !.found = 0]
<1>1. turn[t].pc = "check" /\ Owned(t)
  BY DEF Check, Inv
<1>2. UNCHANGED <<backend, table, thread, clock, events, broken, loose>>
  BY DEF Check
<1>3. CASE UNCHANGED row /\ (Answer(t, "refused") \/ Answer(t, "refused"))
  <2>1. events' \in Nat
    BY <1>2 DEF Inv, TypeOK
  <2> QED  BY <1>1, <1>2, <1>3, <2>1, AnswerKeeps
<1>4. CASE /\ turn[t].found = turn[t].user /\ row[s] # NoRow
           /\ row' = [row EXCEPT ![s].at = turn[t].at]
           /\ turn' = [turn EXCEPT ![t].pc = "lock", ![t].found = 0]
  <2>1. s \in Sessions /\ turn[t] \in Turn /\ turn[t].at \in Nat \ {0} /\ turn[t].at <= clock
    BY <1>1, PgFact
  <2>2. row \in [Sessions -> Row] /\ row[s] \in [owner : Users, at : Nat \ {0}]
    BY <1>4, <2>1 DEF Inv, TypeOK, Row
  <2>3. X \in Row /\ X.owner = row[s].owner /\ X.at = turn[t].at
    BY <2>1, <2>2 DEF Row
  <2>4. row' = [row EXCEPT ![s] = X]
    BY <1>4, <2>1, <2>2
  <2> HIDE DEF X
  <2>5. /\ row' \in [Sessions -> Row]
        /\ row'[s] = X /\ \A q \in Sessions \ {s} : row'[q] = row[q]
    BY <2>1, <2>2, <2>3, <2>4
  <2>6. RowsGoOn
    BY <1>2, <2>1, <2>3, <2>5 DEF RowsGoOn, Inv, TypeOK, RowsPast
  <2>7. R \in Turn /\ R.pc = "lock" /\ R.s = s /\ R.user = turn[t].user
        /\ R.w = turn[t].w /\ R.at = turn[t].at /\ R.status = turn[t].status
    BY <2>1 DEF Turn
  <2>8. turn' = [turn EXCEPT ![t] = R]
    BY <1>4, <2>1 DEF Inv, TypeOK, Turn
  <2> HIDE DEF R
  <2>9. turn'[t] = R
    BY <2>7, <2>8, PutTurn
  <2>10. Owned(t)'
    BY <1>1, <1>2, <1>4, <2>3, <2>5, <2>7, <2>9 DEF Owned, Past, Keeping, Inside
  <2>11. R.pc \notin Keeping \cup {"new", "adrift", "done"}
    BY <2>7 DEF Keeping, Inside
  <2> QED  BY <1>1, <1>2, <2>1, <2>6, <2>7, <2>8, <2>10, <2>11, PgFact, RowKeeps
<1> QED  BY <1>3, <1>4 DEF Check

LEMMA ReadKeeps ==
    ASSUME Inv, NEW s \in Sessions, ReadSession(s)
    PROVE  Inv'
<1>1. PICK gone \in SUBSET Rows :
         LET out == IF backend = "local" THEN gone ELSE gone \cap {s} IN
         /\ Forgets(out)
         /\ row' = IF Kept(out)[s] = NoRow THEN Kept(out) ELSE [Kept(out) EXCEPT ![s].at = clock']
  BY DEF ReadSession
<1> DEFINE out == IF backend = "local" THEN gone ELSE gone \cap {s}
           kept == Kept(out)
           X == [kept[s] EXCEPT !.at = clock']
<1>2. /\ UNCHANGED <<backend, turn, table, thread, broken>> /\ out \subseteq Sessions
      /\ clock' = clock + 1 /\ clock \in Nat /\ events' \in Nat
  BY DEF ReadSession, Rows, Occurs, Inv, TypeOK
<1>3. /\ loose \subseteq loose' /\ loose' \subseteq Turns
      /\ \A u \in Turns : turn[u].s \in out /\ turn[u].pc \in Past \cup {"evict", "check"} => u \in loose'
  BY <1>1 DEF Forgets, Inv, TypeOK
<1>4. \A q \in Sessions : kept[q] = IF q \in out THEN NoRow ELSE row[q]
  BY DEF Kept
<1>5. kept \in [Sessions -> Row]
  BY NewFact DEF Kept, Inv, TypeOK
<1>6. row' = IF kept[s] = NoRow THEN kept ELSE [kept EXCEPT ![s] = X]
  BY <1>1, <1>5
<1> HIDE DEF kept, out
<1>7. kept[s] # NoRow => X \in Row /\ X.owner = kept[s].owner /\ X.at = clock'
  <2> SUFFICES ASSUME kept[s] # NoRow PROVE X \in Row /\ X.owner = kept[s].owner /\ X.at = clock'
    OBVIOUS
  <2>1. kept[s] \in [owner : Users, at : Nat \ {0}]
    BY <1>5 DEF Row
  <2> QED  BY <1>2, <2>1 DEF Row
<1> HIDE DEF X
<1>8. row' \in [Sessions -> Row]
  BY <1>5, <1>6, <1>7
<1>9. \A q \in Sessions : row'[q].owner = kept[q].owner /\ (row'[q].at = clock' \/ row'[q].at = kept[q].at)
  BY <1>5, <1>6, <1>7
<1>10. \A q \in Sessions : kept[q].at <= clock /\ kept[q].at \in Nat
  BY <1>2, <1>4, NewFact, RowFact DEF Inv, RowsPast
<1>11. RowsGoOn
  <2>1. \A q \in Sessions : row'[q].at <= clock'
    BY <1>2, <1>9, <1>10
  <2>2. \A q \in Sessions : q \notin out => row'[q].owner = row[q].owner
    BY <1>4, <1>9
  <2>3. clock' \in Nat /\ clock <= clock'
    BY <1>2
  <2> QED  BY <1>3, <1>8, <2>1, <2>2, <2>3 DEF RowsGoOn
<1>12. TypeOK' /\ RowsPast'
  BY <1>2, <1>3, <1>8, <1>11 DEF Inv, TypeOK, RowsPast, RowsGoOn
<1>13. OneTurnAtATime'
  BY <1>2 DEF Inv, OneTurnAtATime
<1>14. ASSUME NEW t \in Turns PROVE Shape(t)' /\ Locked(t)' /\ Owned(t)' /\ Threaded(t)'
  <2>1. Locked(t)' /\ Threaded(t)'
    BY <1>2 DEF Inv, Locked, Threaded
  <2>2. Shape(t)'
    BY <1>2 DEF Inv, TypeOK, Shape, InFlight
  <2>3. Owned(t)'
    BY <1>2, <1>11, OwnedKeeps
  <2> QED  BY <2>1, <2>2, <2>3
<1> QED  BY <1>12, <1>13, <1>14 DEF Inv
-----------------------------------------------------------------------------
(***************************************************************************)
(* A turn that arrives at the worker that has all in memory                *)
(***************************************************************************)

\* The newest session is not among the oldest.
LEMMA NewestStays ==
    ASSUME NEW rows, NEW s \in Sessions, \A q \in Sessions : ~(rows[q].at > rows[s].at)
    PROVE  s \notin Oldest(rows, MaxSessions)
<1>1. {q \in Sessions : rows[q].at > rows[s].at} = {}
  OBVIOUS
<1>2. Cardinality({q \in Sessions : rows[q].at > rows[s].at}) = 0
  BY <1>1, FS_EmptySet
<1>3. ~(0 >= MaxSessions)
  BY TurnsAssumption
<1> QED  BY <1>2, <1>3 DEF Oldest

LEMMA RefusedKeeps ==
    ASSUME Inv, NEW t \in Turns, NEW s \in Sessions, NEW gone \in SUBSET Rows, NEW out \in SUBSET Sessions,
           clock' = clock + 1, Forgets(gone \cup out), row' = Kept(gone),
           turn' = [turn EXCEPT ![t] = [NewTurn EXCEPT !.pc = "done", !.s = s, !.status = "refused"]],
           UNCHANGED <<backend, table, thread, events, broken>>
    PROVE  Inv'
<1> DEFINE R == [NewTurn EXCEPT !.pc = "done", !.s = s, !.status = "refused"]
<1>1. R \in Turn /\ R.pc = "done" /\ R.s = s /\ R.status = "refused"
  BY DEF NewTurn, Turn
<1>2. turn' = [turn EXCEPT ![t] = R]
  OBVIOUS
<1> HIDE DEF R
<1>3. turn'[t] = R
  BY <1>1, <1>2, PutTurn
<1>4. clock \in Nat /\ clock' \in Nat /\ clock <= clock'
  BY DEF Inv, TypeOK
<1>5. \A q \in Sessions : row'[q] = IF q \in gone THEN NoRow ELSE row[q]
  BY DEF Kept
<1>6. row' \in [Sessions -> Row]
  BY NewFact DEF Kept, Inv, TypeOK
<1>7. loose \subseteq loose' /\ loose' \subseteq Turns
      /\ \A u \in Turns : turn[u].s \in gone /\ turn[u].pc \in Past \cup {"evict", "check"} => u \in loose'
  BY DEF Forgets, Inv, TypeOK
<1>8. \A q \in Sessions : row'[q].at <= clock' /\ (q \notin gone => row'[q].owner = row[q].owner)
  BY <1>4, <1>5, NewFact, RowFact DEF Inv, RowsPast
<1>9. RowsGoOn
  BY <1>4, <1>6, <1>7, <1>8 DEF RowsGoOn
<1>10. Alone(t) /\ Shape(t)' /\ Locked(t)' /\ Owned(t)' /\ Threaded(t)'
  BY <1>1, <1>3 DEF Alone, Shape, InFlight, Locked, Owned, Threaded, Keeping, Past, Inside
<1>11. ASSUME NEW u \in Turns \ {t} PROVE Threaded(u)'
  BY <1>1, <1>2, PutTurn DEF Inv, Threaded
<1>12. thread' \in [Sessions -> SUBSET Turns] /\ events' \in Nat
       /\ broken \subseteq broken' /\ broken' \subseteq Sessions
  BY DEF Inv, TypeOK
<1> QED  BY <1>1, <1>2, <1>9, <1>10, <1>11, <1>12, StepKeeps

LEMMA LockedIn ==
    ASSUME Inv, NEW t \in Turns, NEW s \in Sessions, NEW u \in Users, clock' = clock + 1,
           turn[t].pc = "new", backend = "local", UNCHANGED backend, GetLock(t, s, u)
    PROVE  /\ table' \in [Sessions -> [gen : Nat, in : BOOLEAN, at : Nat]]
           /\ broken \subseteq broken' /\ broken' \subseteq Sessions
           /\ \A v \in Turns : Locked(v)'
           /\ \E r \in Turn : /\ turn' = [turn EXCEPT ![t] = r]
                             /\ r.pc = "wait" /\ r.status = "none" /\ r.s = s /\ r.user = u
                             /\ r.w = OnlyWorker /\ r.at = clock'
<1> DEFINE dropped == Dropped(s)
           gen == IF table[s].in THEN table[s].gen ELSE table[s].gen + 1
           R == [NewTurn EXCEPT !.pc = "wait", !.s = s, !.user = u, !.w = OnlyWorker, !.at = clock', !.lock = gen]
<1>1. clock' \in Nat /\ table[s].gen \in Nat /\ gen \in Nat
  BY DEF Inv, TypeOK
<1>2. /\ table' = [r \in Sessions |->
            IF r = s THEN [gen |-> gen, in |-> TRUE, at |-> clock']
            ELSE [table[r] EXCEPT !.in = table[r].in /\ r \notin dropped]]
      /\ turn' = [turn EXCEPT ![t] = R]
      /\ broken' = broken \cup {r \in dropped : \E v \in Turns : turn[v].s = r /\ turn[v].pc \in Keeping}
  BY DEF GetLock, Inv, TypeOK
<1>3. dropped \subseteq Sessions /\ (table[s].in => s \notin dropped)
  BY DEF Dropped, EldestLock, Locks
<1> HIDE DEF gen, dropped
<1>4. R \in Turn /\ R.pc = "wait" /\ R.status = "none" /\ R.s = s /\ R.user = u
      /\ R.w = OnlyWorker /\ R.at = clock' /\ R.lock = gen
  BY <1>1, WorkerFact DEF NewTurn, Turn
<1> HIDE DEF R
<1>5. turn'[t] = R /\ \A v \in Turns \ {t} : turn'[v] = turn[v]
  BY <1>2, <1>4, PutTurn
<1>6. ASSUME NEW q \in Sessions
      PROVE  /\ table'[q] \in [gen : Nat, in : BOOLEAN, at : Nat]
             /\ q = s => table'[q].gen = gen /\ table'[q].in
             /\ q # s => table'[q].gen = table[q].gen /\ (table'[q].in <=> table[q].in /\ q \notin dropped)
  <2>1. table[q] \in [gen : Nat, in : BOOLEAN, at : Nat]
    BY DEF Inv, TypeOK
  <2>2. CASE q = s
    BY <1>1, <1>2, <2>2
  <2>3. CASE q # s
    <3> DEFINE X == [table[q] EXCEPT !.in = table[q].in /\ q \notin dropped]
    <3>1. table'[q] = X
      BY <1>2, <2>3
    <3>2. (table[q].in /\ q \notin dropped) \in BOOLEAN
      OBVIOUS
    <3>3. X \in [gen : Nat, in : BOOLEAN, at : Nat] /\ X.gen = table[q].gen
      BY <2>1, <3>2
    <3>4. X.in = (table[q].in /\ q \notin dropped)
      BY <2>1
    <3> HIDE DEF X
    <3> QED  BY <2>3, <3>1, <3>3, <3>4
  <2> QED  BY <2>2, <2>3
<1>7. table' \in [Sessions -> [gen : Nat, in : BOOLEAN, at : Nat]]
  <2>1. table' = [q \in Sessions |-> table'[q]]
    BY <1>2
  <2> QED  BY <1>6, <2>1
<1>8. broken \subseteq broken' /\ broken' \subseteq Sessions
  BY <1>2, <1>3 DEF Inv, TypeOK
<1>9. ASSUME NEW v \in Turns PROVE Locked(v)'
  <2>1. CASE v = t
    BY <1>4, <1>5, <1>6, <2>1 DEF Locked
  <2>2. CASE v # t
    <3> SUFFICES ASSUME turn[v].pc \in Keeping, turn[v].s \notin broken'
                 PROVE  turn[v].lock = table'[turn[v].s].gen /\ table'[turn[v].s].in
      BY <1>5, <2>2 DEF Locked
    <3>1. turn[v].s \in Sessions /\ turn[v].s \notin broken /\ Locked(v)
      BY <1>8 DEF Inv, Shape, Keeping, Inside
    <3>2. turn[v].lock = table[turn[v].s].gen /\ table[turn[v].s].in
      BY <3>1 DEF Locked
    <3>3. turn[v].s \notin dropped
      BY <1>2
    <3>4. CASE turn[v].s = s
      BY <1>6, <3>1, <3>2, <3>4 DEF gen
    <3>5. CASE turn[v].s # s
      BY <1>6, <3>1, <3>2, <3>3, <3>5
    <3> QED  BY <3>4, <3>5
  <2> QED  BY <2>1, <2>2
<1> QED  BY <1>2, <1>4, <1>7, <1>8, <1>9

LEMMA GrantedKeeps ==
    ASSUME Inv, NEW t \in Turns, NEW s \in Sessions, NEW u \in Users, NEW gone \in SUBSET Rows,
           NEW out, NEW kept, NEW with,
           kept = Kept(gone), with = [kept EXCEPT ![s] = [owner |-> u, at |-> clock']],
           out = (IF kept[s] = NoRow THEN Oldest(with, MaxSessions) ELSE {}),
           backend = "local", turn[t].pc = "new", clock' = clock + 1, Forgets(gone \cup out),
           kept[s].owner \in {0, u}, row' = [r \in Sessions |-> IF r \in out THEN NoRow ELSE with[r]],
           GetLock(t, s, u), UNCHANGED <<backend, thread, events>>
    PROVE  Inv'
<1> DEFINE mine == [owner |-> u, at |-> clock']
<1>1. clock \in Nat /\ clock' \in Nat \ {0} /\ clock <= clock' /\ mine \in Row /\ u # 0
  BY TurnsAssumption DEF Inv, TypeOK, Row
<1>2. kept \in [Sessions -> Row] /\ \A q \in Sessions : kept[q] = IF q \in gone THEN NoRow ELSE row[q]
  BY NewFact DEF Kept, Inv, TypeOK
<1>3. with \in [Sessions -> Row] /\ with[s] = mine /\ \A q \in Sessions \ {s} : with[q] = kept[q]
  BY <1>1, <1>2
<1>4. \A q \in Sessions : with[q].at <= clock'
  BY <1>1, <1>2, <1>3, NewFact, RowFact DEF Inv, RowsPast
<1>5. s \notin out /\ out \subseteq Sessions
  <2>1. \A q \in Sessions : with[q].at \in Nat
    BY <1>3 DEF Row, NoRow
  <2>2. \A q \in Sessions : ~(with[q].at > with[s].at)
    BY <1>1, <1>3, <1>4, <2>1
  <2>3. s \notin Oldest(with, MaxSessions)
    BY <2>2, NewestStays
  <2> QED  BY <2>3 DEF Oldest
<1>6. /\ row' \in [Sessions -> Row]
      /\ \A q \in Sessions : row'[q] = IF q \in out THEN NoRow ELSE with[q]
  BY <1>3, NewFact
<1>7. /\ loose \subseteq loose' /\ loose' \subseteq Turns
      /\ \A v \in Turns : turn[v].s \in gone \cup out /\ turn[v].pc \in Past \cup {"evict", "check"} => v \in loose'
  BY DEF Forgets, Inv, TypeOK
<1>8. ASSUME NEW q \in Sessions
      PROVE  row'[q].at <= clock' /\ (q \in gone \cup out \/ row[q] = NoRow \/ row'[q].owner = row[q].owner)
  <2>1. row'[q].at <= clock'
    BY <1>1, <1>4, <1>6, NewFact
  <2>2. CASE q \in gone \cup out
    BY <2>1, <2>2
  <2>3. CASE q \notin gone \cup out /\ q # s
    BY <1>2, <1>3, <1>6, <2>1, <2>3
  <2>4. CASE q \notin gone \cup out /\ q = s
    <3>1. row[s].owner \in {0, u} /\ row'[s] = mine
      BY <1>2, <1>3, <1>6, <2>4
    <3> QED  BY <2>1, <2>4, <3>1, RowFact
  <2> QED  BY <2>2, <2>3, <2>4
<1>9. RowsGoOn
  BY <1>1, <1>6, <1>7, <1>8 DEF RowsGoOn
<1>10. /\ table' \in [Sessions -> [gen : Nat, in : BOOLEAN, at : Nat]]
       /\ broken \subseteq broken' /\ broken' \subseteq Sessions
       /\ \A v \in Turns : Locked(v)'
  BY LockedIn
<1>11. PICK r \in Turn : /\ turn' = [turn EXCEPT ![t] = r]
                         /\ r.pc = "wait" /\ r.status = "none" /\ r.s = s /\ r.user = u
                         /\ r.w = OnlyWorker /\ r.at = clock'
  BY LockedIn
<1>12. turn'[t] = r /\ \A v \in Turns \ {t} : turn'[v] = turn[v]
  BY <1>11, PutTurn
<1>13. Alone(t) /\ Threaded(t)'
  BY <1>11, <1>12 DEF Alone, Threaded, Inside
<1>14. Shape(t)'
  BY <1>1, <1>11, <1>12, WorkerFact DEF Shape, InFlight, Keeping
<1>15. Owned(t)'
  <2>1. row'[s].owner = u
    BY <1>3, <1>5, <1>6
  <2> QED  BY <1>11, <1>12, <2>1 DEF Owned, Past, Keeping
<1>16. ASSUME NEW v \in Turns PROVE Threaded(v)'
  <2>1. CASE v = t
    BY <1>13, <2>1
  <2>2. CASE v # t
    BY <1>10, <1>12, <2>2 DEF Inv, Threaded
  <2> QED  BY <2>1, <2>2
<1>17. thread' \in [Sessions -> SUBSET Turns] /\ events' \in Nat
  BY DEF Inv, TypeOK
<1> QED  BY <1>9, <1>10, <1>11, <1>13, <1>14, <1>15, <1>16, <1>17, MoveKeeps

LEMMA ArriveLocalKeeps ==
    ASSUME Inv, NEW t \in Turns, NEW s \in Sessions, NEW u \in Users, ArriveLocal(t, s, u)
    PROVE  Inv'
<1>1. backend = "local" /\ turn[t].pc = "new" /\ clock' = clock + 1 /\ UNCHANGED <<backend, thread, events>>
  BY DEF ArriveLocal, Comes
<1> DEFINE kept(gone) == Kept(gone)
           with(gone) == [kept(gone) EXCEPT ![s] = [owner |-> u, at |-> clock']]
           out(gone)  == IF kept(gone)[s] = NoRow THEN Oldest(with(gone), MaxSessions) ELSE {}
<1>2. PICK gone \in SUBSET Rows :
        /\ Forgets(gone \cup out(gone))
        /\ \/ /\ kept(gone)[s].owner \in {0, u}
              /\ row' = [r \in Sessions |-> IF r \in out(gone) THEN NoRow ELSE with(gone)[r]]
              /\ GetLock(t, s, u)
           \/ /\ row' = kept(gone)
              /\ turn' = [turn EXCEPT ![t] = [NewTurn EXCEPT !.pc = "done", !.s = s, !.status = "refused"]]
              /\ UNCHANGED <<table, broken>>
  BY DEF ArriveLocal
<1>3. out(gone) \subseteq Sessions
  BY DEF Oldest
<1>4. CASE GetLock(t, s, u) /\ kept(gone)[s].owner \in {0, u}
           /\ row' = [r \in Sessions |-> IF r \in out(gone) THEN NoRow ELSE with(gone)[r]]
  <2> PICK k, all, o : k = kept(gone) /\ all = with(gone) /\ o = out(gone)
    OBVIOUS
  <2>1. /\ k = Kept(gone) /\ all = [k EXCEPT ![s] = [owner |-> u, at |-> clock']]
        /\ o = (IF k[s] = NoRow THEN Oldest(all, MaxSessions) ELSE {})
    OBVIOUS
  <2>2. k[s].owner \in {0, u} /\ row' = [r \in Sessions |-> IF r \in o THEN NoRow ELSE all[r]]
    BY <1>4
  <2> HIDE DEF kept, with, out
  <2>3. Forgets(gone \cup o)
    BY <1>2
  <2> QED  BY <1>1, <1>4, <2>1, <2>2, <2>3, GrantedKeeps
<1>5. CASE /\ row' = kept(gone)
           /\ turn' = [turn EXCEPT ![t] = [NewTurn EXCEPT !.pc = "done", !.s = s, !.status = "refused"]]
           /\ UNCHANGED <<table, broken>>
  BY <1>1, <1>2, <1>3, <1>5, RefusedKeeps
<1> QED  BY <1>2, <1>4, <1>5
-----------------------------------------------------------------------------
(***************************************************************************)
(* A restart                                                               *)
(***************************************************************************)
LEMMA RestartKeeps ==
    ASSUME Inv, NEW w \in Workers, Restart(w)
    PROVE  Inv'
<1> DEFINE Stops(t) == InFlight(t) /\ turn[t].w = w
<1>1. turn' = [t \in Turns |-> IF Stops(t) THEN Answered(t, "refused") ELSE turn[t]]
  BY DEF Restart
<1>2. events' \in Nat /\ UNCHANGED <<backend, clock, loose>> /\ thread' = Surviving
  BY DEF Restart, Occurs, Inv, TypeOK
<1>3. ASSUME NEW t \in Turns
      PROVE  /\ turn'[t] \in Turn
             /\ Stops(t) => turn'[t].pc = "done" /\ turn'[t].status = "refused" /\ turn'[t].s = turn[t].s
             /\ ~Stops(t) => turn'[t] = turn[t]
  <2>1. turn[t] \in Turn
    BY DEF Inv, TypeOK
  <2>2. /\ Answered(t, "refused") \in Turn /\ Answered(t, "refused").pc = "done"
        /\ Answered(t, "refused").status = "refused" /\ Answered(t, "refused").s = turn[t].s
    BY <2>1 DEF Answered, NewTurn, Turn
  <2> QED  BY <1>1, <2>1, <2>2
<1> HIDE DEF Stops
<1>4. turn' \in [Turns -> Turn]
  <2>1. turn' = [t \in Turns |-> turn'[t]]
    BY <1>1
  <2> QED  BY <1>3, <2>1
<1>5. CASE backend = "pg"
  <2>1. UNCHANGED <<row, table, broken, thread>>
    BY <1>2, <1>5 DEF Restart, Surviving
  <2>2. TypeOK' /\ RowsPast'
    BY <1>2, <1>4, <2>1 DEF Inv, TypeOK, RowsPast
  <2>3. OneTurnAtATime'
    BY <1>3, <2>1 DEF Inv, OneTurnAtATime, Inside
  <2>4. ASSUME NEW t \in Turns PROVE Shape(t)' /\ Locked(t)' /\ Owned(t)' /\ Threaded(t)'
    <3>1. CASE Stops(t)
      BY <1>3, <2>1, <3>1 DEF Inv, Shape, InFlight, Locked, Owned, Threaded, Keeping, Past, Inside, Stops
    <3>2. CASE ~Stops(t)
      BY <1>2, <1>3, <2>1, <3>2 DEF Inv, Shape, InFlight, Locked, Owned, Threaded
    <3> QED  BY <3>1, <3>2
  <2> QED  BY <2>2, <2>3, <2>4 DEF Inv
<1>6. CASE backend = "local"
  <2>1. PICK v \in Turns : InFlight(v) /\ turn[v].w = w
    BY DEF Restart
  <2>2. w = OnlyWorker
    BY <1>6, <2>1 DEF Inv, Shape
  <2>3. \A t \in Turns : InFlight(t) => Stops(t)
    BY <1>6, <2>2 DEF Inv, Shape, Stops
  <2>4. /\ row' = [s \in Sessions |-> NoRow] /\ broken' = Sessions
        /\ table' = [s \in Sessions |-> [table[s] EXCEPT !.in = FALSE]]
        /\ thread' = [s \in Sessions |-> {}]
    BY <1>2, <1>6 DEF Restart, Surviving
  <2>5. \A t \in Turns : turn'[t].pc \in {"new", "done"}
    BY <1>3, <2>3 DEF InFlight
  <2>6. TypeOK'
    <3>1. table' \in [Sessions -> [gen : Nat, in : BOOLEAN, at : Nat]]
      BY <2>4 DEF Inv, TypeOK
    <3>2. row' \in [Sessions -> Row]
      BY <2>4, NewFact
    <3> QED  BY <1>2, <1>4, <2>4, <3>1, <3>2 DEF Inv, TypeOK
  <2>7. RowsPast'
    BY <1>2, <2>4, NewFact DEF RowsPast, Inv, TypeOK
  <2>8. OneTurnAtATime'
    BY <2>5 DEF OneTurnAtATime, Inside
  <2>9. ASSUME NEW t \in Turns PROVE Shape(t)' /\ Locked(t)' /\ Owned(t)' /\ Threaded(t)'
    <3>1. turn'[t].pc # "new" => turn'[t].s \in Sessions
      BY <1>3 DEF Inv, Shape, Stops, InFlight
    <3>2. turn'[t].pc # "done" => turn'[t].status = "none"
      BY <1>3 DEF Inv, Shape
    <3>3. turn'[t].s \notin broken' => turn'[t].pc = "new"
      BY <2>4, <2>5, <3>1
    <3> QED  BY <2>5, <3>1, <3>2, <3>3 DEF Shape, InFlight, Locked, Owned, Threaded, Keeping, Past, Inside
  <2> QED  BY <2>6, <2>7, <2>8, <2>9 DEF Inv
<1> QED  BY <1>5, <1>6 DEF Inv, TypeOK

LEMMA NextKeeps == Inv /\ [Next]_vars => Inv'
<1> SUFFICES ASSUME Inv, [Next]_vars PROVE Inv'
  OBVIOUS
<1>1. CASE \E t \in Turns : Serve(t)
  <2> PICK t \in Turns : Serve(t)
    BY <1>1
  <2>1. CASE LockTimeout(t) \/ PoolTimeout(t) \/ Leave(t) \/ Collected(t)
    BY <2>1, RefusalKeeps
  <2>2. CASE Find(t) \/ Create(t) \/ FindAgain(t) \/ Evict(t) \/ Check(t)
    BY <2>2, FindKeeps, CreateKeeps, FindAgainKeeps, EvictKeeps, CheckKeeps
  <2>3. CASE TakeConn(t) \/ Enter(t) \/ Load(t) \/ Save(t) \/ LateSave(t)
    BY <2>3, TakeConnKeeps, EnterKeeps, LoadKeeps, SaveKeeps, LateSaveKeeps
  <2> QED  BY <2>1, <2>2, <2>3 DEF Serve, Proceed
<1>2. CASE \E t \in Turns : Throw(t) \/ ClientLeaves(t) \/ LoseConn(t)
  BY <1>2, RefusalKeeps, ClientLeavesKeeps, LoseConnKeeps
<1>3. CASE \E t \in Turns, s \in Sessions, u \in Users :
             ArriveLocal(t, s, u) \/ \E w \in Workers : Arrive(t, s, u, w)
  BY <1>3, ArriveLocalKeeps, ArriveKeeps
<1>4. CASE (\E w \in Workers : Restart(w)) \/ \E s \in Sessions : ReadSession(s)
  BY <1>4, RestartKeeps, ReadKeeps
<1>5. CASE UNCHANGED vars
  BY <1>5 DEF vars, Inv, TypeOK, RowsPast, OneTurnAtATime, Shape, InFlight, Locked, Owned, Threaded
<1> QED  BY <1>1, <1>2, <1>3, <1>4, <1>5 DEF Next, Quiet
-----------------------------------------------------------------------------
\* Locks, owners and threads agree with the turns in flight in every state.
THEOREM Invariant == Spec => []Inv
BY InitInv, NextKeeps, PTL DEF Spec

\* Every variable of the agent's turns keeps its type, with either backend.
THEOREM TypeCorrect == Spec => []TypeOK
<1>1. Inv => TypeOK
  BY DEF Inv
<1> QED  BY <1>1, Invariant, PTL

\* locks.session_lock: one turn of a session is between its read of the thread and
\* its last checkpoint, unless its lock was lost.
THEOREM TurnsTakeTurns == Spec => []OneTurnAtATime
<1>1. Inv => OneTurnAtATime
  BY DEF Inv
<1> QED  BY <1>1, Invariant, PTL

\* A turn that was answered is in the thread, whatever turns, workers and restarts
\* came after it.
THEOREM AnsweredTurnsStay == Spec => []NoTurnLost
<1>1. Inv => NoTurnLost
  BY DEF Inv, NoTurnLost, Threaded
<1> QED  BY <1>1, Invariant, PTL

\* session_for_user: past the check, a turn is of the owner of its session.
THEOREM OwnersOnly == Spec => []OneOwner
<1>1. Inv => OneOwner
  BY DEF Inv, OneOwner, Owned
<1> QED  BY <1>1, Invariant, PTL
=============================================================================
