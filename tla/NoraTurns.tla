----------------------------- MODULE NoraTurns -----------------------------
(***************************************************************************)
(* The turns of the web chat in the agent service: the session a turn      *)
(* belongs to, the lock that keeps two turns of a session apart, and the   *)
(* thread of messages each reads, extends and writes back.                 *)
(*                                                                         *)
(* Two backends.  With Postgres, sessions are rows, the lock is an         *)
(* advisory one held by a connection of the worker's pool for the whole    *)
(* turn, and each checkpoint takes a second connection for a moment.       *)
(* Without it one worker keeps sessions, locks and threads in memory.      *)
(***************************************************************************)
EXTENDS Naturals, FiniteSets

CONSTANTS
    Turns,          \* POST /messages and GET /messages/stream
    Sessions, Users, Workers,
    PoolSize,       \* connections of a worker's pool
    MaxSessions,    \* max_sessions
    MaxLocks,       \* _MAX_LOCKS
    Routes,         \* the workers that may be given each turn, with Postgres
    MaxEvents       \* failures, restarts and GET /sessions/:id: a bound of the model

ASSUME TurnsAssumption ==
    /\ Turns \cup Sessions \cup Users \cup Workers \subseteq Nat \ {0} /\ Workers # {}
    /\ PoolSize \in Nat \ {0} /\ MaxSessions \in Nat \ {0} /\ MaxLocks \in Nat \ {0}

VARIABLES
    backend,
    turn,       \* the requests, from their arrival to their answer
    row,        \* nora_sessions, or SessionStore._sessions with _seen
    table,      \* locks._locks with _seen
    thread,     \* the checkpoints, by thread_id
    clock,      \* now
    events,
    broken,     \* history: sessions whose lock or memory was lost, or with a stray turn
    loose       \* history: turns whose session was removed after they had it

vars == <<backend, turn, row, table, thread, clock, events, broken, loose>>
-----------------------------------------------------------------------------
Waiting == {"find", "lock", "load", "act"}        \* for a connection

Counting == {"create", "again", "evict", "check"} \* with one, for its session

Inside == {"load", "act", "leave"}

\* The turns that keep a connection for long.
Keeping == {"wait"} \cup Inside

Past == {"lock"} \cup Keeping

\* 0 is nobody and nothing.  `found`: the owner it read.  `lock`: what it holds or
\* waits for.  `seen`: the thread it loaded.  "refused": 403, 409, 500 or no answer.
Turn ==
    [pc : {"new", "find", "create", "again", "evict", "check", "lock", "wait",
           "load", "act", "leave", "adrift", "done"},
     s : Sessions \cup {0}, user : Users \cup {0}, w : Workers \cup {0},
     at : Nat, found : Users \cup {0}, lock : Nat, seen : SUBSET Turns,
     status : {"none", "ok", "refused"}]

NewTurn ==
    [pc |-> "new", s |-> 0, user |-> 0, w |-> 0, at |-> 0, found |-> 0, lock |-> 0,
     seen |-> {}, status |-> "none"]

NoRow == [owner |-> 0, at |-> 0]

Row == {NoRow} \cup [owner : Users, at : Nat \ {0}]

Rows == {s \in Sessions : row[s] # NoRow}

\* assert_single_worker
OnlyWorker == CHOOSE w \in Workers : TRUE

\* Whose turn it is and where does not matter: ids are given in order.
Comes(t, s, u) ==
    /\ turn[t].pc = "new" /\ \A v \in Turns : turn[v].pc = "new" => t <= v
    /\ s <= t /\ u <= t

InFlight(t) == turn[t].pc \notin {"new", "done"}

Goto(t, pc) == turn' = [turn EXCEPT ![t].pc = pc]

\* The connections and the lock of a turn go with it.
Answered(t, status) == [NewTurn EXCEPT !.pc = "done", !.s = turn[t].s, !.status = status]

Answer(t, status) == turn' = [turn EXCEPT ![t] = Answered(t, status)]

Holding(w) == {t \in Turns : turn[t].w = w /\ turn[t].pc \in Counting \cup Keeping}

\* A connection of the pool: the locks of turns, and statements about sessions.
ConnFree(t) == backend = "local" \/ Cardinality(Holding(turn[t].w)) < PoolSize

Occurs == events < MaxEvents /\ events' = events + 1

\* Rows go, under the turns that had them.
Forgets(gone) ==
    loose' = loose \cup {t \in Turns : turn[t].pc \in Past \cup {"evict", "check"} /\ turn[t].s \in gone}

Kept(gone) == [s \in Sessions |-> IF s \in gone THEN NoRow ELSE row[s]]
-----------------------------------------------------------------------------
(***************************************************************************)
(* session_for_user                                                        *)
(***************************************************************************)
Arrive(t, s, u, w) ==
    /\ backend = "pg" /\ Comes(t, s, u) /\ w \in Routes[t]
    /\ clock' = clock + 1
    /\ turn' = [turn EXCEPT ![t] = [@ EXCEPT !.pc = "find", !.s = s, !.user = u, !.w = w,
                                             !.at = clock']]
    /\ UNCHANGED <<backend, row, table, thread, events, broken, loose>>

\* Sessions nobody has used for a day: older than every one kept, and than the
\* requests in flight.
Expired(gone) ==
    /\ gone \subseteq Rows
    /\ \A s \in gone : /\ \A t \in Turns : InFlight(t) => turn[t].at > row[s].at
                       /\ \A r \in Rows \ gone : row[r].at > row[s].at

\* DELETE of the expired, SELECT.
Find(t) ==
    /\ turn[t].pc = "find" /\ ConnFree(t)
    /\ \E gone \in SUBSET Rows :
         /\ Expired(gone)
         /\ row' = Kept(gone) /\ Forgets(gone)
         /\ LET found == row'[turn[t].s] IN
            turn' = [turn EXCEPT ![t].pc = IF found = NoRow THEN "create" ELSE "check",
                                 ![t].found = found.owner]
    /\ UNCHANGED <<backend, table, thread, clock, events, broken>>

\* Mutant: the upsert takes the session over.
Insert_Upsert(t) == [row EXCEPT ![turn[t].s] = [owner |-> turn[t].user, at |-> turn[t].at]]

\* INSERT ... ON CONFLICT DO NOTHING
Insert(t) ==
    IF row[turn[t].s] # NoRow THEN row
    ELSE [row EXCEPT ![turn[t].s] = [owner |-> turn[t].user, at |-> turn[t].at]]

Create(t) ==
    /\ turn[t].pc = "create"
    /\ row' = Insert(t)
    /\ Goto(t, IF row[turn[t].s] = NoRow THEN "evict" ELSE "again")
    /\ UNCHANGED <<backend, table, thread, clock, events, broken, loose>>

\* The SELECT after a lost race.
FindAgain(t) ==
    /\ turn[t].pc = "again"
    /\ \/ row[turn[t].s] = NoRow /\ Answer(t, "refused")
       \/ /\ row[turn[t].s] # NoRow
          /\ turn' = [turn EXCEPT ![t].pc = "check", ![t].found = row[turn[t].s].owner]
    /\ UNCHANGED <<backend, row, table, thread, clock, events, broken, loose>>

\* The rows that have `n` older ones.
After(n) == {s \in Rows : Cardinality({r \in Rows : row[r].at < row[s].at}) >= n}

\* ORDER BY last_seen_at ASC OFFSET max
Evicted == After(MaxSessions)

Evict(t) ==
    /\ turn[t].pc = "evict"
    /\ row' = Kept(Evicted) /\ Forgets(Evicted)
    /\ Goto(t, "lock")
    /\ UNCHANGED <<backend, table, thread, clock, events, broken>>

\* The row it has read is of its user; the one it updates may be gone.
Check(t) ==
    LET r == turn[t] IN
    /\ r.pc = "check"
    /\ \/ r.found # r.user /\ Answer(t, "refused") /\ UNCHANGED row
       \/ r.found = r.user /\ row[r.s] = NoRow /\ Answer(t, "refused") /\ UNCHANGED row
       \/ /\ r.found = r.user /\ row[r.s] # NoRow
          /\ row' = [row EXCEPT ![r.s].at = r.at]
          /\ turn' = [turn EXCEPT ![t].pc = "lock", ![t].found = 0]
    /\ UNCHANGED <<backend, table, thread, clock, events, broken, loose>>
-----------------------------------------------------------------------------
(***************************************************************************)
(* In memory there is no await from the purge to the lock                  *)
(***************************************************************************)

\* _evict_lru_if_needed
Oldest(rows, n) ==
    {s \in Sessions : /\ rows[s] # NoRow
                      /\ Cardinality({r \in Sessions : rows[r].at > rows[s].at}) >= n}

Locks == {s \in Sessions : table[s].in}

EldestLock == {s \in Locks : \A r \in Locks : table[s].at <= table[r].at}

\* The lock that makes room for one more.
Dropped(s) == IF s \in Locks \/ Cardinality(Locks) < MaxLocks THEN {} ELSE EldestLock

\* get_session_lock
GetLock(t, s, u) ==
    LET out == Dropped(s)
        gen == IF table[s].in THEN table[s].gen ELSE table[s].gen + 1
    IN  /\ table' = [r \in Sessions |->
              IF r = s THEN [gen |-> gen, in |-> TRUE, at |-> clock']
              ELSE [table[r] EXCEPT !.in = @ /\ r \notin out]]
        /\ turn' = [turn EXCEPT ![t] = [NewTurn EXCEPT !.pc = "wait", !.s = s, !.user = u,
                                                       !.w = OnlyWorker, !.at = clock', !.lock = gen]]
        /\ broken' = broken \cup {r \in out : \E v \in Turns : turn[v].s = r /\ turn[v].pc \in Keeping}

ArriveLocal(t, s, u) ==
    /\ backend = "local" /\ Comes(t, s, u)
    /\ clock' = clock + 1
    /\ \E gone \in SUBSET Rows :
         LET kept == Kept(gone)
             with == [kept EXCEPT ![s] = [owner |-> u, at |-> clock']]
             out  == IF kept[s] = NoRow THEN Oldest(with, MaxSessions) ELSE {}
         IN  /\ Expired(gone)
             /\ Forgets(gone \cup out)
             /\ \/ /\ kept[s].owner \in {0, u}
                   /\ row' = [r \in Sessions |-> IF r \in out THEN NoRow ELSE with[r]]
                   /\ GetLock(t, s, u)
                \/ /\ kept[s].owner \notin {0, u}
                   /\ row' = kept
                   /\ turn' = [turn EXCEPT ![t] = [NewTurn EXCEPT !.pc = "done", !.s = s,
                                                                  !.status = "refused"]]
                   /\ UNCHANGED <<table, broken>>
    /\ UNCHANGED <<backend, thread, events>>
-----------------------------------------------------------------------------
(***************************************************************************)
(* The lock                                                                *)
(***************************************************************************)

\* acquire_session_lock: a connection for the whole turn.
TakeConn(t) ==
    /\ turn[t].pc = "lock" /\ ConnFree(t)
    /\ turn' = [turn EXCEPT ![t].pc = "wait", ![t].lock = 1]
    /\ UNCHANGED <<backend, row, table, thread, clock, events, broken, loose>>

Holds(u, t) ==
    /\ u # t /\ turn[u].pc \in Inside
    /\ turn[u].s = turn[t].s /\ turn[u].lock = turn[t].lock

\* Mutant: the lock is given to whoever asks.
LockFree_Always(t) == turn[t].lock # 0

LockFree(t) == \A u \in Turns : ~Holds(u, t)

Enter(t) ==
    /\ turn[t].pc = "wait" /\ LockFree(t)
    /\ Goto(t, "load")
    /\ UNCHANGED <<backend, row, table, thread, clock, events, broken, loose>>

\* turn_in_progress: 409, the client tries again.
LockTimeout(t) ==
    /\ turn[t].pc = "wait" /\ ~LockFree(t)
    /\ Answer(t, "refused")
    /\ UNCHANGED <<backend, row, table, thread, clock, events, broken, loose>>
-----------------------------------------------------------------------------
(***************************************************************************)
(* The graph and its checkpoints                                           *)
(***************************************************************************)
Load(t) ==
    /\ turn[t].pc = "load" /\ ConnFree(t)
    /\ turn' = [turn EXCEPT ![t].pc = "act", ![t].seen = thread[turn[t].s]]
    /\ UNCHANGED <<backend, row, table, thread, clock, events, broken, loose>>

\* The model, the tools it calls, and a checkpoint after each step of the graph,
\* which takes a few.
Save(t) ==
    LET s == turn[t].s IN
    /\ turn[t].pc = "act" /\ ConnFree(t)
    /\ thread' = [thread EXCEPT ![s] = turn[t].seen \cup {t}]
    /\ \/ Goto(t, "leave")
       \/ /\ t \notin turn[t].seen
          /\ turn' = [turn EXCEPT ![t].seen = @ \cup {t}]
    /\ UNCHANGED <<backend, row, table, clock, events, broken, loose>>

\* COMMIT, or release.  A connection that was lost answers with an error.
Leave(t) ==
    /\ turn[t].pc = "leave"
    /\ Answer(t, IF turn[t].lock = 0 THEN "refused" ELSE "ok")
    /\ UNCHANGED <<backend, row, table, thread, clock, events, broken, loose>>

\* Mutant: a pool without a timeout.
PoolGivesUp_Never(t) == FALSE

PoolGivesUp(t) == ~ConnFree(t)

\* PoolTimeout, ten seconds without a connection.
PoolTimeout(t) ==
    /\ turn[t].pc \in Waiting /\ PoolGivesUp(t)
    /\ Answer(t, "refused")
    /\ UNCHANGED <<backend, row, table, thread, clock, events, broken, loose>>
-----------------------------------------------------------------------------
\* The model fails, a tool throws, a statement fails: whatever is held goes.
Throw(t) ==
    /\ InFlight(t) /\ Occurs
    /\ Answer(t, "refused")
    /\ UNCHANGED <<backend, row, table, thread, clock, broken, loose>>

\* The client of a stream goes: the loop over its events ends and the lock is
\* released, while the task of the graph goes on until it is collected.  A read of the
\* thread that was still to come is taken here.
ClientLeaves(t) ==
    LET r == turn[t] IN
    /\ r.pc \in {"load", "act"} /\ Occurs
    /\ turn' = [turn EXCEPT ![t].pc = "adrift", ![t].lock = 0,
                            ![t].seen = IF r.pc = "load" THEN thread[r.s] ELSE r.seen]
    /\ broken' = broken \cup {r.s}
    /\ UNCHANGED <<backend, row, table, thread, clock, loose>>

LateSave(t) ==
    /\ turn[t].pc = "adrift" /\ ConnFree(t)
    /\ thread' = [thread EXCEPT ![turn[t].s] = turn[t].seen \cup {t}]
    /\ UNCHANGED <<backend, turn, row, table, clock, events, broken, loose>>

Collected(t) ==
    /\ turn[t].pc = "adrift"
    /\ Answer(t, "refused")
    /\ UNCHANGED <<backend, row, table, thread, clock, events, broken, loose>>

\* The connection of the lock drops, and the turn does not notice yet.
LoseConn(t) ==
    /\ backend = "pg" /\ turn[t].pc \in Inside /\ turn[t].lock # 0 /\ Occurs
    /\ turn' = [turn EXCEPT ![t].lock = 0]
    /\ broken' = broken \cup {turn[t].s}
    /\ UNCHANGED <<backend, row, table, thread, clock, loose>>

\* Mutant: threads are kept in memory whatever the backend.
Surviving_Memory == [s \in Sessions |-> {}]

Surviving == IF backend = "pg" THEN thread ELSE [s \in Sessions |-> {}]

\* A worker stops and starts.
Restart(w) ==
    /\ \E t \in Turns : InFlight(t) /\ turn[t].w = w
    /\ Occurs
    /\ turn' = [t \in Turns |-> IF InFlight(t) /\ turn[t].w = w THEN Answered(t, "refused") ELSE turn[t]]
    /\ thread' = Surviving
    /\ IF backend = "pg"
       THEN UNCHANGED <<row, table, broken>>
       ELSE /\ row' = [s \in Sessions |-> NoRow]
            /\ table' = [s \in Sessions |-> [table[s] EXCEPT !.in = FALSE]]
            /\ broken' = Sessions
    /\ UNCHANGED <<backend, clock, loose>>

\* SessionStore.get: whoever looks at a session keeps it alive, and an expired one is
\* removed: alone with Postgres, with all the others in memory.  A connection is had
\* for a moment.
ReadSession(s) ==
    /\ backend = "local" \/ \E w \in Workers : Cardinality(Holding(w)) < PoolSize
    /\ Occurs
    /\ clock' = clock + 1
    /\ \E gone \in SUBSET Rows :
         LET out  == IF backend = "local" THEN gone ELSE gone \cap {s}
             kept == Kept(out)
         IN  /\ Expired(gone) /\ Forgets(out)
             /\ s \in Rows \/ out # {}
             /\ row' = IF kept[s] = NoRow THEN kept ELSE [kept EXCEPT ![s].at = clock']
    /\ UNCHANGED <<backend, turn, table, thread, broken>>

Init ==
    /\ backend \in {"pg", "local"}
    /\ turn = [t \in Turns |-> NewTurn]
    /\ row = [s \in Sessions |-> NoRow]
    /\ table = [s \in Sessions |-> [gen |-> 0, in |-> FALSE, at |-> 0]]
    /\ thread = [s \in Sessions |-> {}]
    /\ clock = 0 /\ events = 0
    /\ broken = {} /\ loose = {}

\* What a turn does when it need not wait.
Proceed(t) ==
    \/ Find(t) \/ Create(t) \/ FindAgain(t) \/ Evict(t) \/ Check(t)
    \/ TakeConn(t) \/ Enter(t) \/ Load(t) \/ Save(t) \/ Leave(t) \/ Collected(t)

Serve(t) == Proceed(t) \/ LockTimeout(t) \/ PoolTimeout(t) \/ LateSave(t)

\* Nobody else comes.  Turns that are stuck then break EveryTurnAnswered.
Quiet == (\A t \in Turns : turn[t].pc # "new") /\ UNCHANGED vars

Next ==
    \/ \E t \in Turns :
         \/ \E s \in Sessions, u \in Users :
              ArriveLocal(t, s, u) \/ \E w \in Workers : Arrive(t, s, u, w)
         \/ Serve(t) \/ Throw(t) \/ ClientLeaves(t) \/ LoseConn(t)
    \/ \E w \in Workers : Restart(w)
    \/ \E s \in Sessions : ReadSession(s)
    \/ Quiet

Spec == Init /\ [][Next]_vars

\* Whoever waits for a connection or a lock is in a queue, of the pool, of Postgres or
\* of asyncio, and gets it after those before him; the pool gives up after ten
\* seconds.  The timeout of the lock is not counted on.
Fairness == \A t \in Turns : SF_vars(Proceed(t)) /\ WF_vars(PoolTimeout(t))

FairSpec == Spec /\ Fairness
-----------------------------------------------------------------------------
(***************************************************************************)
(* Properties                                                              *)
(***************************************************************************)
TypeOK ==
    /\ backend \in {"pg", "local"}
    /\ turn \in [Turns -> Turn]
    /\ row \in [Sessions -> Row]
    /\ table \in [Sessions -> [gen : Nat, in : BOOLEAN, at : Nat]]
    /\ thread \in [Sessions -> SUBSET Turns]
    /\ clock \in Nat /\ events \in Nat
    /\ broken \subseteq Sessions /\ loose \subseteq Turns

\* "Sin lock dos turnos concurrentes leen el mismo checkpoint": one turn of a
\* session reads and writes its thread, whichever workers serve them, unless the
\* connection of a lock drops, the table of locks forgets one in use or the client of
\* a stream leaves it.
OneTurnAtATime ==
    \A t, u \in Turns :
        /\ turn[t].pc \in Inside /\ turn[u].pc \in Inside /\ turn[t].s = turn[u].s
        /\ turn[t].s \notin broken
        => t = u

\* "cero checkpoints pisados", "Restart/deploy a mitad de turno: el hilo continua
\* donde quedo": a turn that was answered stays in the thread of its session.
NoTurnLost ==
    \A t \in Turns :
        turn[t].status = "ok" /\ turn[t].s \notin broken => t \in thread[turn[t].s]

\* "Solo el dueno continua la sesion": of two first messages that race for a
\* session, one user gets it, and only turns of his go on, while its row lasts.
OneOwner ==
    \A t \in Turns :
        turn[t].pc \in Past /\ t \notin loose => row[turn[t].s].owner = turn[t].user

\* "El segundo espera hasta 60s, luego 409": every turn is answered.  A turn inside
\* keeps a connection and waits for another, turns outside keep the others while they
\* wait for its lock: all of them end because the pool gives up, without any lock
\* having to.
EveryTurnAnswered == \A t \in Turns : []<>~InFlight(t)

(***************************************************************************)
(* What a comment says and the code does not do                            *)
(***************************************************************************)

\* "conserva las `max` sesiones vistas mas recientemente": what is removed is
\* older than what is kept.
KeepsTheRecent ==
    [][\A s, r \in Rows : row'[s] = NoRow /\ row'[r] # NoRow => row[s].at <= row[r].at]_vars
=============================================================================
