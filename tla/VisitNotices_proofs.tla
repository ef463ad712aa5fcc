------------------------- MODULE VisitNotices_proofs -------------------------
(***************************************************************************)
(* A visit is announced once for each time it is given, for every length   *)
(* of the windows that keeps a read notice longer than the lookahead.      *)
(*                                                                         *)
(* A notice of an upcoming visit is made, and so read, not earlier than    *)
(* the lookahead before its time; the purge waits for the retention after  *)
(* that, so when the notice goes its time has passed, and a sweep only     *)
(* tells of times that have not.                                           *)
(*                                                                         *)
(* It is announced in time, for every window that reaches over the runs    *)
(* that may be missed: a missed run takes one period of the window and one *)
(* of those runs, so what is still to be told is told at a later one.      *)
(*                                                                         *)
(* At the end, the notices on their way to the telephone (NoticePush).     *)
(***************************************************************************)
EXTENDS VisitNotices, Outbox, Integers, TLAPS, WellFoundedInduction, FiniteSetTheorems

AtRest == \A j \in Jobs : job[j].pc # "running" => job[j].todo = {}

\* What a sweep is still to tell lies between now and the lookahead.
Ahead == \A f \in job["upcoming"].todo : now <= f.at /\ f.at <= now + Lookahead

\* Key of a notice of an upcoming visit.
Upcomings == {k \in Keys : k.type = "visita_proxima"}

\* No notice is made, or read, earlier than the lookahead before its time.
NotEarly ==
    \A n \in notices : n.key \in Upcomings =>
        /\ n.key.at \in Nat
        /\ n.key.at <= now + Lookahead
        /\ n.readAt # Never => n.key.at <= n.readAt + Lookahead

\* A notice goes only after its time.
Kept == \A k \in rung : k \in Upcomings => k \in Stored \/ (k.at \in Nat /\ k.at < now)

Inv == TypeOK /\ AtRest /\ Ahead /\ NotEarly /\ Kept /\ UpcomingToldOnce

USE TimesAssumption, LookaheadAssumption, DaysAssumption
-----------------------------------------------------------------------------
LEMMA InitInv == Init => Inv
BY DEF Init, Inv, TypeOK, AtRest, Ahead, NotEarly, Kept, UpcomingToldOnce, VisitRow, NoVisit,
       JobRow, Jobs

\* A step that leaves the clock, the notices and what was told alone.
LEMMA Quietly ==
    ASSUME Inv, TypeOK', AtRest', Ahead', UNCHANGED <<now, notices, rung, again>>
    PROVE  Inv'
BY DEF Inv, NotEarly, Kept, UpcomingToldOnce, Stored, KeyOf

LEMMA ChangeKeeps ==
    ASSUME Inv, NEW v \in Visits, ChangeVisit(v)
    PROVE  Inv'
<1>1. ASSUME NEW at \in Times, SetTime(v, at) PROVE Inv'
  <2> DEFINE status == IF visit[v].status = "absent" THEN "open" ELSE visit[v].status
  <2>a. status \in {"open", "settled"}
    BY DEF Inv, TypeOK, VisitRow, NoVisit
  <2>b. visit' = [visit EXCEPT ![v] = [status |-> status, at |-> at]]
    BY <1>1 DEF SetTime
  <2>1. visit' \in [Visits -> VisitRow] /\ since' \in [Visits -> Nat \cup {Never}]
    <3>1. [status |-> status, at |-> at] \in VisitRow
      BY <2>a DEF VisitRow
    <3>2. visit' \in [Visits -> VisitRow]
      BY <3>1, <2>b DEF Inv, TypeOK
    <3> QED  BY <1>1, <3>2 DEF SetTime, Inv, TypeOK
  <2>2. TypeOK' /\ AtRest' /\ Ahead'
    BY <1>1, <2>1 DEF SetTime, Change, Inv, TypeOK, AtRest, Ahead
  <2> QED  BY <1>1, <2>2, Quietly DEF SetTime
<1>2. CASE Settle(v) \/ Remove(v)
  <2>1. visit' \in [Visits -> VisitRow]
    BY <1>2 DEF Settle, Remove, Inv, TypeOK, VisitRow, NoVisit
  <2>2. TypeOK' /\ AtRest' /\ Ahead'
    BY <1>2, <2>1 DEF Settle, Remove, Change, Inv, TypeOK, AtRest, Ahead
  <2> QED  BY <1>2, <2>2, Quietly DEF Settle, Remove
<1> QED  BY <1>1, <1>2 DEF ChangeVisit, Schedule, Reschedule
-----------------------------------------------------------------------------
LEMMA StartKeeps ==
    ASSUME Inv, NEW j \in Jobs, StartSweep(j)
    PROVE  Inv'
<1> DEFINE found == IF j = "upcoming" THEN Upcoming ELSE Overdue
           todo == {[visit |-> v, at |-> visit[v].at] : v \in found}
<1>1. \A v \in Open : v \in Visits /\ visit[v].at \in Times
  BY DEF Open, Inv, TypeOK, VisitRow, NoVisit
<1>2. found \subseteq Open
  BY DEF Upcoming, Overdue
<1>3. todo \in SUBSET Found
  BY <1>1, <1>2 DEF Found
<1>4. job' = [job EXCEPT ![j] = [pc |-> "running", todo |-> todo]]
  BY DEF StartSweep
<1>5. j = "upcoming" => \A f \in todo : now <= f.at /\ f.at <= now + Lookahead
  BY <1>1 DEF Upcoming, Inv, TypeOK
<1>6. TypeOK'
  <2>1. job' \in [Jobs -> JobRow]
    BY <1>3, <1>4 DEF Inv, TypeOK, JobRow
  <2> QED  BY <2>1 DEF StartSweep, Inv, TypeOK
<1>7. AtRest'
  BY <1>4 DEF Inv, TypeOK, AtRest
<1>8. Ahead'
  <2>1. CASE j = "upcoming"
    BY <2>1, <1>4, <1>5 DEF StartSweep, Inv, TypeOK, Jobs, Ahead
  <2>2. CASE j # "upcoming"
    BY <2>2, <1>4 DEF StartSweep, Inv, TypeOK, Ahead, Jobs
  <2> QED  BY <2>1, <2>2 DEF Ahead
<1> QED  BY <1>6, <1>7, <1>8, Quietly DEF StartSweep

LEMMA MissKeeps ==
    ASSUME Inv, NEW j \in Jobs, Miss(j)
    PROVE  Inv'
<1>1. job' \in [Jobs -> JobRow]
  BY DEF Miss, Inv, TypeOK, JobRow
<1>2. TypeOK' /\ AtRest' /\ Ahead'
  BY <1>1 DEF Miss, Inv, TypeOK, AtRest, Ahead, Jobs
<1> QED  BY <1>2, Quietly DEF Miss

LEMMA EndUpcomingKeeps ==
    ASSUME Inv, EndUpcoming
    PROVE  Inv'
<1>1. job' \in [Jobs -> JobRow]
  BY DEF EndUpcoming, Inv, TypeOK, JobRow, Jobs
<1>2. TypeOK' /\ AtRest' /\ Ahead'
  BY <1>1 DEF EndUpcoming, Inv, TypeOK, AtRest, Ahead, Jobs
<1> QED  BY <1>2, Quietly DEF EndUpcoming
-----------------------------------------------------------------------------
\* The step that tells: of an upcoming time only while it has not passed, so
\* never again once its notice is gone.
LEMMA EmitKeeps ==
    ASSUME Inv, NEW j \in Jobs, NEW f \in job[j].todo, Emit(j, f)
    PROVE  Inv'
<1> DEFINE key == KeyOf(j, f.visit, f.at)
           n == [key |-> key, tells |-> f.at, readAt |-> Never]
<1>1. f \in Found
  BY DEF Inv, TypeOK, JobRow
<1>2. key \in Keys
  BY <1>1 DEF KeyOf, Keys, Found
<1>3. job' \in [Jobs -> JobRow]
  BY DEF Emit, Inv, TypeOK, JobRow
<1>4. TypeOK'
  BY <1>1, <1>2, <1>3 DEF Emit, Inv, TypeOK, NoticeRow, Found
<1>5. AtRest' /\ Ahead'
  BY DEF Emit, Inv, TypeOK, AtRest, Ahead, JobRow, Jobs
<1>6. j = "upcoming" => /\ f.at \in Nat /\ key.at = f.at
                        /\ now <= f.at /\ f.at <= now + Lookahead
  BY <1>1 DEF Inv, Ahead, Found, KeyOf
<1>7. key \in Upcomings => j = "upcoming"
  BY DEF Upcomings, KeyOf
<1>8. CASE key \in Stored
  <2>1. notices' = notices /\ again' = again /\ now' = now /\ rung' = rung \cup {key}
    BY <1>8 DEF Emit
  <2>2. Stored' = Stored
    BY <2>1 DEF Stored
  <2>3. NotEarly' /\ Kept' /\ UpcomingToldOnce'
    BY <1>8, <2>1, <2>2 DEF Inv, NotEarly, Kept, UpcomingToldOnce, KeyOf
  <2> QED  BY <1>4, <1>5, <2>3 DEF Inv
<1>9. CASE key \notin Stored
  <2>1. notices' = notices \cup {n} /\ now' = now /\ rung' = rung \cup {key}
    BY <1>9 DEF Emit
  <2>2. Stored' = Stored \cup {key}
    <3>1. n.key = key
      OBVIOUS
    <3>2. \A k : k \in Stored' <=> \E m \in notices \cup {n} : k = m.key
      BY <2>1 DEF Stored
    <3>3. \A k : k \in Stored <=> \E m \in notices : k = m.key
      BY DEF Stored
    <3> HIDE DEF n, key
    <3> QED  BY <3>1, <3>2, <3>3
  <2>4. NotEarly'
    BY <1>6, <1>7, <2>1 DEF Inv, NotEarly
  <2>5. Kept'
    BY <2>1, <2>2 DEF Inv, Kept
  <2>6. key \in Upcomings => key \notin rung
    BY <1>6, <1>7, <1>9 DEF Inv, Kept, TypeOK
  <2>7. UpcomingToldOnce'
    <3>1. again' \subseteq again \cup {key} /\ (key \in Upcomings => again' = again)
      BY <2>6, <1>9 DEF Emit
    <3>2. \A v \in Visits, at \in Times : KeyOf("upcoming", v, at) \in Upcomings
      BY DEF KeyOf, Upcomings, Keys
    <3> QED  BY <3>1, <3>2 DEF Inv, UpcomingToldOnce, KeyOf
  <2> QED  BY <1>4, <1>5, <2>4, <2>5, <2>7 DEF Inv
<1> QED  BY <1>8, <1>9
-----------------------------------------------------------------------------
\* What the purge deletes was read, so its time came at most the lookahead
\* after that: before the retention was over.
LEMMA EndDailyKeeps ==
    ASSUME Inv, EndDaily
    PROVE  Inv'
<1>1. job' \in [Jobs -> JobRow]
  BY DEF EndDaily, Inv, TypeOK, JobRow, Jobs
<1>2. notices' \subseteq notices /\ \A n \in notices \ notices' : Expired(n)
  BY DEF EndDaily
<1>3. TypeOK' /\ AtRest' /\ Ahead'
  BY <1>1, <1>2 DEF EndDaily, Inv, TypeOK, AtRest, Ahead, Jobs
<1>4. NotEarly' /\ UpcomingToldOnce'
  BY <1>2 DEF EndDaily, Inv, NotEarly, UpcomingToldOnce, KeyOf
<1>5. Kept'
  <2> SUFFICES ASSUME NEW k \in rung, k \in Upcomings, k \notin Stored'
               PROVE  k.at \in Nat /\ k.at < now
    BY DEF EndDaily, Kept
  <2>1. CASE k \in Stored
    <3>1. PICK n \in notices : n.key = k
      BY <2>1 DEF Stored
    <3>2. Expired(n)
      BY <3>1, <1>2 DEF Stored
    <3>3. n.readAt \in Nat /\ now \in Nat
      BY <3>2 DEF Expired, Inv, TypeOK, NoticeRow
    <3> QED  BY <3>1, <3>2, <3>3 DEF Expired, Inv, NotEarly
  <2>2. CASE k \notin Stored
    BY <2>2 DEF Inv, Kept
  <2> QED  BY <2>1, <2>2
<1> QED  BY <1>3, <1>4, <1>5 DEF Inv

LEMMA ReadKeeps ==
    ASSUME Inv, NEW read \in SUBSET notices, MarkRead(read)
    PROVE  Inv'
<1>1. \A n \in notices : [n EXCEPT !.readAt = now] \in NoticeRow
                         /\ [n EXCEPT !.readAt = now].key = n.key
                         /\ [n EXCEPT !.readAt = now].readAt = now
  BY DEF Inv, TypeOK, NoticeRow
<1>2. TypeOK' /\ AtRest' /\ Ahead'
  BY <1>1 DEF MarkRead, Inv, TypeOK, AtRest, Ahead
<1>3. Stored' = Stored
  <2> DEFINE mark(n) == [n EXCEPT !.readAt = now]
  <2>1. \A n \in notices : mark(n).key = n.key
    BY <1>1
  <2>2. \A k : k \in Stored' <=> \/ \E m \in notices \ read : k = m.key
                               \/ \E n \in read : k = mark(n).key
    BY DEF MarkRead, Stored
  <2>3. \A k : k \in Stored <=> \E m \in notices : k = m.key
    BY DEF Stored
  <2> HIDE DEF mark
  <2> QED  BY <2>1, <2>2, <2>3
<1>4. NotEarly'
  BY <1>1 DEF MarkRead, Inv, NotEarly
<1>5. Kept' /\ UpcomingToldOnce'
  BY <1>3 DEF MarkRead, Inv, Kept, UpcomingToldOnce, KeyOf
<1> QED  BY <1>2, <1>4, <1>5 DEF Inv

LEMMA TickKeeps ==
    ASSUME Inv, Tick
    PROVE  Inv'
<1>1. job' \in [Jobs -> JobRow] /\ \A j \in Jobs : job'[j].todo = {}
  <2> SUFFICES ASSUME NEW j \in Jobs PROVE job'[j] \in JobRow /\ job'[j].todo = {}
    BY DEF Tick
  <2>1. job[j] \in JobRow /\ job[j].todo = {}
    BY DEF Tick, Rested, Inv, TypeOK, AtRest
  <2>2. job'[j] = job[j] \/ job'[j] = [job[j] EXCEPT !.pc = "due"]
    BY DEF Tick
  <2> QED  BY <2>1, <2>2 DEF JobRow
<1>2. now' = now + 1 /\ now \in Nat
  BY DEF Tick, Inv, TypeOK
<1>3. TypeOK'
  BY <1>1, <1>2 DEF Tick, Inv, TypeOK
<1>4. AtRest' /\ Ahead'
  BY <1>1 DEF AtRest, Ahead, Jobs
<1>5. NotEarly'
  BY <1>2 DEF Tick, Inv, NotEarly, TypeOK
<1>6. Kept' /\ UpcomingToldOnce'
  BY <1>2 DEF Tick, Inv, Kept, Stored, UpcomingToldOnce, KeyOf
<1> QED  BY <1>3, <1>4, <1>5, <1>6 DEF Inv
-----------------------------------------------------------------------------
LEMMA StepInv == Inv /\ [Next]_vars => Inv'
<1> SUFFICES ASSUME Inv, [Next]_vars PROVE Inv'
  OBVIOUS
<1>1. CASE UNCHANGED vars
  <2>1. TypeOK' /\ AtRest' /\ Ahead'
    BY <1>1 DEF vars, Inv, TypeOK, AtRest, Ahead
  <2> QED  BY <1>1, <2>1, Quietly DEF vars
<1>2. ASSUME NEW v \in Visits, ChangeVisit(v) PROVE Inv'
  BY <1>2, ChangeKeeps
<1>3. ASSUME NEW j \in Jobs, RunJob(j) PROVE Inv'
  BY <1>3, StartKeeps, MissKeeps, EmitKeeps DEF RunJob
<1>4. CASE EndUpcoming
  BY <1>4, EndUpcomingKeeps
<1>5. CASE EndDaily
  BY <1>5, EndDailyKeeps
<1>6. CASE Read
  <2>1. PICK read \in SUBSET notices : MarkRead(read)
    BY <1>6 DEF Read
  <2> QED  BY <2>1, ReadKeeps
<1>7. CASE Tick
  BY <1>7, TickKeeps
<1> QED  BY <1>1, <1>2, <1>3, <1>4, <1>5, <1>6, <1>7 DEF Next, Quiet

\* The inductive invariant holds: jobs at rest have nothing to tell, a sweep
\* tells only of times within the lookahead, and a notice of an upcoming visit
\* is neither made early nor purged before its time.
THEOREM Invariant == Spec => []Inv
BY InitInv, StepInv, PTL DEF Spec

\* Visits, notices and jobs keep their types.
THEOREM TypeCorrect == Spec => []TypeOK
BY Invariant, PTL DEF Inv

\* However visits are moved, read about and purged, a visit is announced once
\* for each time it is given: retention and lookahead are enough.
THEOREM ToldOnce == Spec => []UpcomingToldOnce
BY Invariant, PTL DEF Inv
-----------------------------------------------------------------------------
(***************************************************************************)
(* In time                                                                 *)
(*                                                                         *)
(* What is still to be told is told at the next run of its job that is not *)
(* missed, and the windows reach over those that are.                      *)
(***************************************************************************)
LEMMA ModFact ==
    ASSUME NEW n \in Nat, NEW i \in Nat \ {0}
    PROVE  n % i \in 0 .. (i - 1) /\ n \div i \in Nat /\ n = (i * (n \div i)) + (n % i)
OBVIOUS

LEMMA FarFact ==
    ASSUME NEW i \in Nat \ {0}, NEW k \in Int
    PROVE  (k >= 2 => i * k >= i + i) /\ (k <= -1 => i * k <= -i)
OBVIOUS

LEMMA NextModFact ==
    ASSUME NEW n \in Nat, NEW i \in Nat \ {0}
    PROVE  \/ (n + 1) % i = 0 /\ n % i = i - 1
           \/ (n + 1) % i = (n % i) + 1
<1> DEFINE r == n % i
           q == n \div i
           s == (n + 1) % i
           p == (n + 1) \div i
<1>1. r \in 0 .. (i - 1) /\ q \in Nat /\ n = (i * q) + r
  BY ModFact
<1>2. s \in 0 .. (i - 1) /\ p \in Nat /\ n + 1 = (i * p) + s
  <2>1. n + 1 \in Nat
    OBVIOUS
  <2> QED  BY <2>1, ModFact
<1> HIDE DEF r, q, s, p
<1>3. i * (p - q) = (r + 1) - s
  BY <1>1, <1>2
<1>4. p - q < 2 /\ p - q > -1
  <2>1. p - q \in Int
    BY <1>1, <1>2
  <2> QED  BY <1>1, <1>2, <1>3, <2>1, FarFact
<1>5. p - q = 0 \/ p - q = 1
  BY <1>1, <1>2, <1>4
<1>6. (s = 0 /\ r = i - 1) \/ s = r + 1
  BY <1>1, <1>2, <1>3, <1>5
<1> QED  BY <1>6 DEF r, s
-----------------------------------------------------------------------------
\* When a job of period i runs next, if that run is not missed.
NextAt(n, i, pc) == IF pc # "done" THEN n ELSE (n + i) - (n % i)

NextRun(j) == NextAt(now, Period(j), job[j].pc)

\* What the runs missed so far may cost.
Cost(m, i) == (m + 1) * i

Slack(j) == Cost(missed, Period(j))

InWindow(j, v) ==
    IF j = "upcoming" THEN since[v] < now /\ now <= visit[v].at /\ visit[v].at <= now + Lookahead
    ELSE since[v] <= visit[v].at /\ visit[v].at < now /\ now <= visit[v].at + Lookback

Told(j, v) == KeyOf(j, v, visit[v].at) \in rung

\* Worth telling, now or later.
Owed(j, v) ==
    IF j = "upcoming" THEN now <= visit[v].at ELSE since[v] <= visit[v].at

\* The next run comes early enough: it is the first since the visit got its time,
\* or the first that has it within its window.
Early(j, v) ==
    IF j = "upcoming"
    THEN \/ NextRun(j) < (since[v] + 1) + Slack(j)
         \/ NextRun(j) + Lookahead < visit[v].at + Slack(j)
    ELSE NextRun(j) < (visit[v].at + 1) + Slack(j)

Clocked ==
    /\ missed <= MaxMissed
    /\ \A j \in Jobs : job[j].pc # "done" => now % Period(j) = 0
    /\ \A v \in Open : since[v] \in Nat /\ since[v] <= now
    /\ \A n \in notices : n.key \in Upcomings => n.tells = n.key.at

\* A sweep under way has told, or is to tell, whatever was in its window.
Seen(j, v) ==
    job[j].pc = "running" /\ InWindow(j, v) =>
        Told(j, v) \/ [visit |-> v, at |-> visit[v].at] \in job[j].todo

OnTime(j, v) == Owed(j, v) => Told(j, v) \/ Early(j, v)

Timely == Clocked /\ \A j \in Jobs, v \in Open : Seen(j, v) /\ OnTime(j, v)

LEMMA PeriodFact == \A j \in Jobs : Period(j) \in Nat \ {0}
BY DEF Jobs, Period

LEMMA AtFact ==
    ASSUME visit \in [Visits -> VisitRow], NEW v \in Open
    PROVE  v \in Visits /\ visit[v].at \in Nat
<1>1. visit[v].at \in Times
  BY DEF Open, VisitRow, NoVisit
<1> QED  BY <1>1 DEF Open

LEMMA CostFact ==
    ASSUME NEW m \in Nat, NEW i \in Nat \ {0}
    PROVE  /\ Cost(m, i) \in Nat /\ i <= Cost(m, i)
           /\ Cost(m + 1, i) = Cost(m, i) + i
           /\ \A k \in Nat : m <= k => Cost(m, i) <= Cost(k, i)
BY DEF Cost

LEMMA NextAtFact ==
    ASSUME NEW n \in Nat, NEW i \in Nat \ {0}, NEW pc
    PROVE  /\ NextAt(n, i, pc) \in Nat /\ n <= NextAt(n, i, pc) /\ NextAt(n, i, pc) <= n + i
           /\ pc = "done" => n < NextAt(n, i, pc)
<1>1. n % i \in 0 .. (i - 1)
  BY ModFact
<1> QED  BY <1>1 DEF NextAt

\* A visit that just got its time is in time.
LEMMA NewTime ==
    ASSUME TypeOK', NEW j \in Jobs, NEW v \in Open', since'[v] = now'
    PROVE  Seen(j, v)' /\ OnTime(j, v)'
<1>1. visit'[v].at \in Nat /\ now' \in Nat /\ missed' \in Nat /\ Period(j) \in Nat \ {0}
  <2>1. visit'[v].at \in Times
    BY DEF Open, VisitRow, NoVisit, TypeOK
  <2> QED  BY <2>1, PeriodFact DEF TypeOK
<1>2. Slack(j)' \in Nat /\ Period(j) <= Slack(j)'
  BY <1>1, CostFact DEF Slack, Period
<1>3. NextRun(j)' \in Nat /\ NextRun(j)' <= now' + Period(j)
  BY <1>1, NextAtFact DEF NextRun, Period
<1>4. Seen(j, v)'
  BY <1>1 DEF Seen, InWindow
<1>5. OnTime(j, v)'
  BY <1>1, <1>2, <1>3 DEF OnTime, Owed, Early
<1> QED  BY <1>4, <1>5

\* A visit nothing happened to, while the next run comes no later than the runs
\* that were missed allow.
LEMMA SameTime ==
    ASSUME TypeOK, Clocked, TypeOK', Clocked', NEW j \in Jobs, NEW v \in Open, v \in Open',
           visit'[v] = visit[v], since'[v] = since[v], OnTime(j, v),
           rung \subseteq rung', now <= now',
           NextRun(j)' + Slack(j) <= NextRun(j) + Slack(j)'
    PROVE  OnTime(j, v)'
<1>1. visit[v].at \in Nat /\ since[v] \in Nat /\ now \in Nat /\ now' \in Nat
  BY AtFact DEF TypeOK, Clocked
<1>2. Slack(j) \in Nat /\ Slack(j)' \in Nat /\ NextRun(j) \in Nat /\ NextRun(j)' \in Nat
  BY <1>1, PeriodFact, CostFact, NextAtFact DEF Slack, NextRun, TypeOK, Period
<1>3. Told(j, v) => Told(j, v)'
  BY DEF Told, KeyOf
<1>4. Owed(j, v)' => Owed(j, v)
  BY <1>1 DEF Owed
<1>5. Early(j, v) => Early(j, v)'
  BY <1>1, <1>2 DEF Early
<1> QED  BY <1>3, <1>4, <1>5 DEF OnTime
-----------------------------------------------------------------------------
LEMMA InitTimely == Init => Timely
BY DEF Init, Timely, Clocked, Open, NoVisit, Jobs

LEMMA ChangeTimely ==
    ASSUME Inv, Inv', Timely, NEW v \in Visits, ChangeVisit(v)
    PROVE  Timely'
<1>1. /\ UNCHANGED <<now, notices, job, missed, rung>>
      /\ \A u \in Visits \ {v} : visit'[u] = visit[u] /\ since'[u] = since[u]
      /\ v \in Open' => since'[v] = now
  <2>1. ASSUME NEW at \in Times, SetTime(v, at) PROVE since'[v] = now
    BY <2>1 DEF SetTime, Inv, TypeOK
  <2>2. Settle(v) \/ Remove(v) => v \notin Open'
    <3>1. \A x : visit' = [visit EXCEPT ![v] = x] => visit'[v] = x
      BY DEF Inv, TypeOK
    <3>2. Settle(v) => visit'[v].status = "settled"
      <4>1. visit[v] \in [status : {"open", "settled"}, at : Times] \/ visit[v] = NoVisit
        BY DEF Inv, TypeOK, VisitRow
      <4> QED  BY <3>1, <4>1 DEF Settle, NoVisit
    <3>3. Remove(v) => visit'[v].status = "absent"
      <4>1. Remove(v) => visit'[v] = NoVisit
        BY DEF Remove, Inv, TypeOK
      <4> QED  BY <4>1 DEF NoVisit
    <3> QED  BY <3>2, <3>3 DEF Open
  <2>3. ASSUME NEW u \in Visits \ {v} PROVE visit'[u] = visit[u] /\ since'[u] = since[u]
    BY DEF ChangeVisit, Schedule, Reschedule, SetTime, Settle, Remove, Inv, TypeOK
  <2>4. UNCHANGED <<now, notices, job, missed, rung>>
    BY DEF ChangeVisit, Schedule, Reschedule, SetTime, Settle, Remove
  <2> QED  BY <2>1, <2>2, <2>3, <2>4 DEF ChangeVisit, Schedule, Reschedule
<1>2. \A u \in Open' : u = v \/ u \in Open
  BY <1>1 DEF Open
<1>3. Clocked'
  BY <1>1, <1>2 DEF Timely, Clocked, Open, Inv, TypeOK, Period
<1>4. ASSUME NEW j \in Jobs, NEW u \in Open'
      PROVE  Seen(j, u)' /\ OnTime(j, u)'
  <2>1. CASE u = v
    BY <1>1, <2>1, NewTime DEF Inv
  <2>2. CASE u # v
    <3>1. u \in Open /\ visit'[u] = visit[u] /\ since'[u] = since[u]
      BY <1>1, <1>2, <2>2 DEF Open
    <3>2. NextRun(j)' + Slack(j) <= NextRun(j) + Slack(j)' /\ now <= now'
      <4>1. NextRun(j)' = NextRun(j) /\ Slack(j)' = Slack(j) /\ now' = now
        BY <1>1 DEF NextRun, Slack, Period
      <4>2. NextRun(j) \in Nat /\ Slack(j) \in Nat /\ now \in Nat
        BY PeriodFact, NextAtFact, CostFact DEF NextRun, Slack, Inv, TypeOK
      <4> QED  BY <4>1, <4>2
    <3>3. OnTime(j, u)'
      BY <1>1, <1>3, <3>1, <3>2, SameTime DEF Inv, Timely
    <3>4. Seen(j, u)'
      BY <1>1, <3>1 DEF Timely, Seen, InWindow, Told, KeyOf
    <3> QED  BY <3>3, <3>4
  <2> QED  BY <2>1, <2>2
<1> QED  BY <1>3, <1>4 DEF Timely

\* A step that leaves the visits alone.
LEMMA StillTimely ==
    ASSUME Inv, Inv', Timely, Clocked', UNCHANGED <<visit, since>>,
           rung \subseteq rung', now <= now',
           \A j \in Jobs :
               \/ NextRun(j)' + Slack(j) <= NextRun(j) + Slack(j)'
               \/ \A v \in Open : OnTime(j, v)',
           \A j \in Jobs, v \in Open : Seen(j, v)'
    PROVE  Timely'
<1>1. Open' = Open
  BY DEF Open
<1>2. ASSUME NEW j \in Jobs, NEW v \in Open PROVE OnTime(j, v)'
  <2>1. CASE NextRun(j)' + Slack(j) <= NextRun(j) + Slack(j)'
    BY <1>1, <2>1, SameTime DEF Inv, Timely
  <2>2. CASE \A u \in Open : OnTime(j, u)'
    BY <2>2
  <2> QED  BY <2>1, <2>2
<1> QED  BY <1>1, <1>2 DEF Timely

\* Nothing happens to a job.
LEMMA SameRun ==
    ASSUME Inv, NEW j \in Jobs, job'[j].pc = job[j].pc, now' = now, missed' = missed
    PROVE  NextRun(j)' + Slack(j) <= NextRun(j) + Slack(j)'
<1>1. NextRun(j)' = NextRun(j) /\ Slack(j)' = Slack(j)
  BY DEF NextRun, Slack, Period
<1>2. NextRun(j) \in Nat /\ Slack(j) \in Nat
  BY PeriodFact, NextAtFact, CostFact DEF NextRun, Slack, Inv, TypeOK
<1> QED  BY <1>1, <1>2

LEMMA StartTimely ==
    ASSUME Inv, Inv', Timely, NEW j \in Jobs, StartSweep(j)
    PROVE  Timely'
<1> DEFINE found == IF j = "upcoming" THEN Upcoming ELSE Overdue
           todo == {[visit |-> v, at |-> visit[v].at] : v \in found}
<1>1. /\ UNCHANGED <<now, visit, notices, missed, since, rung>>
      /\ job[j].pc = "due" /\ job' = [job EXCEPT ![j] = [pc |-> "running", todo |-> todo]]
  BY DEF StartSweep
<1>2. job'[j].pc = "running" /\ job'[j].todo = todo /\ \A k \in Jobs \ {j} : job'[k] = job[k]
  BY <1>1 DEF Inv, TypeOK
<1>3. Clocked'
  BY <1>1, <1>2 DEF Timely, Clocked, Open, Period
<1>4. ASSUME NEW k \in Jobs PROVE NextRun(k)' + Slack(k) <= NextRun(k) + Slack(k)'
  <2>1. NextRun(k)' = NextRun(k) /\ Slack(k)' = Slack(k)
    BY <1>1, <1>2 DEF NextRun, NextAt, Slack, Period
  <2>2. NextRun(k) \in Nat /\ Slack(k) \in Nat
    BY PeriodFact, NextAtFact, CostFact DEF NextRun, Slack, Inv, TypeOK
  <2> QED  BY <2>1, <2>2
<1>5. ASSUME NEW k \in Jobs, NEW v \in Open PROVE Seen(k, v)'
  <2>1. CASE k = j
    <3>1. visit[v].at \in Nat /\ now \in Nat
      BY AtFact DEF Inv, TypeOK
    <3>2. InWindow(j, v) => v \in found
      BY <3>1 DEF InWindow, Upcoming, Overdue
    <3>3. InWindow(j, v) => [visit |-> v, at |-> visit[v].at] \in todo
      BY <3>2
    <3> HIDE DEF todo
    <3> QED  BY <1>1, <1>2, <2>1, <3>3 DEF Seen, InWindow
  <2>2. CASE k # j
    BY <1>1, <1>2, <2>2 DEF Timely, Seen, InWindow, Told, KeyOf
  <2> QED  BY <2>1, <2>2
<1>6. now <= now'
  BY <1>1 DEF Inv, TypeOK
<1> QED  BY <1>1, <1>3, <1>4, <1>5, <1>6, StillTimely

LEMMA EmitTimely ==
    ASSUME Inv, Inv', Timely, NEW j \in Jobs, NEW f \in job[j].todo, Emit(j, f)
    PROVE  Timely'
<1> DEFINE key == KeyOf(j, f.visit, f.at)
           n == [key |-> key, tells |-> f.at, readAt |-> Never]
<1>1. /\ UNCHANGED <<now, visit, missed, since>>
      /\ job' = [job EXCEPT ![j].todo = @ \ {f}]
      /\ rung' = rung \cup {key}
      /\ notices' = notices \/ notices' = notices \cup {n}
  BY DEF Emit
<1>2. /\ job'[j].pc = job[j].pc /\ job'[j].todo = job[j].todo \ {f}
      /\ \A k \in Jobs \ {j} : job'[k] = job[k]
  BY <1>1 DEF Inv, TypeOK, JobRow
<1>3. \A k \in Jobs : job'[k].pc = job[k].pc
  BY <1>2
<1>4. Clocked'
  <2>1. n.key \in Upcomings => n.tells = n.key.at
    BY DEF Upcomings, KeyOf
  <2>2. \A m \in notices' : m.key \in Upcomings => m.tells = m.key.at
    BY <1>1, <2>1 DEF Timely, Clocked
  <2> QED  BY <1>1, <1>3, <2>2 DEF Timely, Clocked, Open, Period
<1>5. ASSUME NEW k \in Jobs, NEW v \in Open PROVE Seen(k, v)'
  <2>1. Seen(k, v) /\ Told(k, v)' = (KeyOf(k, v, visit[v].at) \in rung \cup {key})
    BY <1>1 DEF Timely, Told, KeyOf
  <2>2. InWindow(k, v)' = InWindow(k, v)
    BY <1>1 DEF InWindow
  <2>3. CASE k = j /\ [visit |-> v, at |-> visit[v].at] = f
    <3>1. f.visit = v /\ f.at = visit[v].at
      BY <2>3
    <3> QED  BY <2>1, <2>3, <3>1 DEF Seen
  <2>4. CASE k # j \/ [visit |-> v, at |-> visit[v].at] # f
    <3>1. \A x \in job[k].todo : x \in job'[k].todo \/ (k = j /\ x = f)
      BY <1>2
    <3> QED  BY <1>1, <1>3, <2>1, <2>2, <2>4, <3>1 DEF Seen, Told
  <2> QED  BY <2>3, <2>4
<1>6. now <= now' /\ rung \subseteq rung'
  BY <1>1 DEF Inv, TypeOK
<1> HIDE DEF key, n
<1> QED  BY <1>1, <1>3, <1>4, <1>5, <1>6, SameRun, StillTimely

LEMMA MissTimely ==
    ASSUME Inv, Inv', Timely, NEW j \in Jobs, Miss(j)
    PROVE  Timely'
<1>1. /\ UNCHANGED <<now, visit, notices, since, rung>>
      /\ missed' = missed + 1 /\ missed < MaxMissed /\ job[j].pc # "done"
      /\ job'[j].pc = "done" /\ \A k \in Jobs \ {j} : job'[k] = job[k]
  BY DEF Miss, Inv, TypeOK
<1>2. missed \in Nat /\ now \in Nat
  BY DEF Inv, TypeOK
<1>3. Clocked'
  BY <1>1, <1>2 DEF Timely, Clocked, Open, Period
<1>4. ASSUME NEW k \in Jobs PROVE NextRun(k)' + Slack(k) <= NextRun(k) + Slack(k)'
  <2>1. /\ Slack(k)' = Slack(k) + Period(k) /\ Slack(k) \in Nat /\ NextRun(k) \in Nat
        /\ Period(k) \in Nat
    BY <1>1, <1>2, PeriodFact, NextAtFact, CostFact DEF NextRun, Slack, Period
  <2>2. CASE k = j
    <3>1. now % Period(j) = 0
      BY <1>1 DEF Timely, Clocked
    <3>2. NextRun(j) = now /\ NextRun(j)' = now + Period(j)
      BY <1>1, <1>2, <2>1, <2>2, <3>1 DEF NextRun, NextAt, Period
    <3> QED  BY <1>2, <2>1, <2>2, <3>2
  <2>3. CASE k # j
    <3>1. NextRun(k)' = NextRun(k)
      BY <1>1, <2>3 DEF NextRun, Period
    <3> QED  BY <2>1, <3>1
  <2> QED  BY <2>2, <2>3
<1>5. ASSUME NEW k \in Jobs, NEW v \in Open PROVE Seen(k, v)'
  BY <1>1 DEF Timely, Seen, InWindow, Told, KeyOf
<1>6. now <= now'
  BY <1>1, <1>2
<1> QED  BY <1>1, <1>3, <1>4, <1>5, <1>6, StillTimely

LEMMA EndUpcomingTimely ==
    ASSUME Inv, Inv', Timely, EndUpcoming
    PROVE  Timely'
<1>1. /\ UNCHANGED <<now, visit, notices, missed, since, rung>>
      /\ job["upcoming"].pc = "running" /\ job["upcoming"].todo = {}
      /\ job'["upcoming"].pc = "done" /\ job'["daily"] = job["daily"]
  BY DEF EndUpcoming, Inv, TypeOK, Jobs
<1>2. Clocked'
  BY <1>1 DEF Timely, Clocked, Open, Period, Jobs
<1>3. \A v \in Open : OnTime("upcoming", v)'
  <2> SUFFICES ASSUME NEW v \in Open, Owed("upcoming", v)', ~Told("upcoming", v)'
               PROVE  Early("upcoming", v)'
    BY DEF OnTime
  <2>1. /\ visit[v].at \in Nat /\ since[v] \in Nat /\ since[v] <= now /\ now \in Nat
        /\ visit'[v] = visit[v] /\ since'[v] = since[v] /\ now <= visit[v].at
    BY <1>1, AtFact DEF Inv, TypeOK, Timely, Clocked, Owed
  <2>2. ~InWindow("upcoming", v)
    BY <1>1 DEF Timely, Seen, Told, KeyOf, Jobs
  <2>3. since[v] = now \/ visit[v].at > now + Lookahead
    BY <2>1, <2>2 DEF InWindow
  <2>4. /\ NextRun("upcoming")' \in Nat /\ NextRun("upcoming")' <= now + Interval
        /\ Slack("upcoming")' \in Nat /\ Interval <= Slack("upcoming")'
    BY <1>1, NextAtFact, CostFact DEF NextRun, Slack, Period, Inv, TypeOK
  <2> QED  BY <2>1, <2>3, <2>4 DEF Early
<1>4. NextRun("daily")' + Slack("daily") <= NextRun("daily") + Slack("daily")'
  BY <1>1, SameRun DEF Jobs
<1>5. ASSUME NEW j \in Jobs, NEW v \in Open PROVE Seen(j, v)'
  BY <1>1 DEF Timely, Seen, InWindow, Told, KeyOf, Jobs
<1>6. now <= now'
  BY <1>1 DEF Inv, TypeOK
<1>7. \A j \in Jobs : \/ NextRun(j)' + Slack(j) <= NextRun(j) + Slack(j)'
                      \/ \A v \in Open : OnTime(j, v)'
  BY <1>3, <1>4 DEF Jobs
<1> QED  BY <1>1, <1>2, <1>5, <1>6, <1>7, StillTimely

\* What the daily sweep did not see was not in its window: it was not overdue yet,
\* or it had been for so long that more runs were missed than may be.
LEMMA EndDailyTimely ==
    ASSUME Inv, Inv', Timely, EndDaily
    PROVE  Timely'
<1>1. /\ UNCHANGED <<now, visit, missed, since, rung>>
      /\ notices' \subseteq notices
      /\ job["daily"].pc = "running" /\ job["daily"].todo = {}
      /\ job'["daily"].pc = "done" /\ job'["upcoming"] = job["upcoming"]
  BY DEF EndDaily, Inv, TypeOK, Jobs
<1>2. Clocked'
  BY <1>1 DEF Timely, Clocked, Open, Period, Jobs
<1>3. \A v \in Open : OnTime("daily", v)'
  <2> SUFFICES ASSUME NEW v \in Open, Owed("daily", v)', ~Told("daily", v)'
               PROVE  Early("daily", v)'
    BY DEF OnTime
  <2>1. /\ visit[v].at \in Nat /\ since[v] \in Nat /\ now \in Nat
        /\ visit'[v] = visit[v] /\ since'[v] = since[v] /\ since[v] <= visit[v].at
    BY <1>1, AtFact DEF Inv, TypeOK, Timely, Clocked, Owed
  <2>2. ~InWindow("daily", v) /\ OnTime("daily", v) /\ ~Told("daily", v)
    BY <1>1 DEF Timely, Seen, Told, KeyOf, Jobs
  <2>3. now <= visit[v].at \/ visit[v].at + Lookback < now
    BY <2>1, <2>2 DEF InWindow
  <2>4. /\ NextRun("daily") = now
        /\ NextRun("daily")' \in Nat /\ NextRun("daily")' <= now + Day
        /\ Slack("daily")' = Slack("daily") /\ Slack("daily") \in Nat /\ Day <= Slack("daily")
        /\ Slack("daily") <= Lookback
    <3>1. /\ Period("daily") = Day /\ missed \in Nat /\ missed <= MaxMissed /\ now \in Nat
          /\ Cost(MaxMissed, Day) <= Lookback
      BY DEF Period, Inv, TypeOK, Timely, Clocked, Cost
    <3>2. /\ Slack("daily")' = Cost(missed, Day) /\ Slack("daily") = Cost(missed, Day)
          /\ NextRun("daily")' = NextAt(now, Day, "done") /\ NextRun("daily") = now
      BY <1>1, <3>1 DEF Slack, NextRun, NextAt, Period
    <3>3. Cost(missed, Day) \in Nat /\ Day <= Cost(missed, Day) /\ Cost(missed, Day) <= Cost(MaxMissed, Day)
      BY <3>1, CostFact
    <3>4. Cost(MaxMissed, Day) \in Nat
      BY CostFact
    <3>5. NextAt(now, Day, "done") \in Nat /\ NextAt(now, Day, "done") <= now + Day
      BY <3>1, NextAtFact
    <3> QED  BY <3>1, <3>2, <3>3, <3>4, <3>5
  <2>5. now < (visit[v].at + 1) + Slack("daily")
    BY <2>1, <2>2, <2>4 DEF OnTime, Owed, Early
  <2>6. now <= visit[v].at
    BY <2>1, <2>3, <2>4, <2>5
  <2> QED  BY <2>1, <2>4, <2>6 DEF Early
<1>4. NextRun("upcoming")' + Slack("upcoming") <= NextRun("upcoming") + Slack("upcoming")'
  BY <1>1, SameRun DEF Jobs
<1>5. ASSUME NEW j \in Jobs, NEW v \in Open PROVE Seen(j, v)'
  BY <1>1 DEF Timely, Seen, InWindow, Told, KeyOf, Jobs
<1>6. now <= now'
  BY <1>1 DEF Inv, TypeOK
<1>7. \A j \in Jobs : \/ NextRun(j)' + Slack(j) <= NextRun(j) + Slack(j)'
                      \/ \A v \in Open : OnTime(j, v)'
  BY <1>3, <1>4 DEF Jobs
<1> QED  BY <1>1, <1>2, <1>5, <1>6, <1>7, StillTimely

LEMMA ReadTimely ==
    ASSUME Inv, Inv', Timely, NEW read \in SUBSET notices, MarkRead(read)
    PROVE  Timely'
<1>1. UNCHANGED <<now, visit, job, missed, since, rung>>
  BY DEF MarkRead
<1>2. \A n \in notices' : \E m \in notices : n.key = m.key /\ n.tells = m.tells
  <2>1. \A m \in notices : /\ [m EXCEPT !.readAt = now].key = m.key
                           /\ [m EXCEPT !.readAt = now].tells = m.tells
    BY DEF Inv, TypeOK, NoticeRow
  <2> QED  BY <2>1 DEF MarkRead
<1>3. Clocked'
  BY <1>1, <1>2 DEF Timely, Clocked, Open, Period
<1>4. ASSUME NEW j \in Jobs, NEW v \in Open PROVE Seen(j, v)'
  BY <1>1 DEF Timely, Seen, InWindow, Told, KeyOf
<1>5. now <= now'
  BY <1>1 DEF Inv, TypeOK
<1> QED  BY <1>1, <1>3, <1>4, <1>5, SameRun, StillTimely

\* A job becomes due at the tick its next run was to come at.
LEMMA TickTimely ==
    ASSUME Inv, Inv', Timely, Tick
    PROVE  Timely'
<1>1. /\ UNCHANGED <<visit, notices, missed, since, rung>>
      /\ now' = now + 1 /\ now \in Nat
      /\ \A j \in Jobs : job[j].pc = "done"
  BY DEF Tick, Rested, Inv, TypeOK
<1>2. \A j \in Jobs : job'[j].pc = IF (now + 1) % Period(j) = 0 THEN "due" ELSE "done"
  BY <1>1 DEF Tick, Inv, TypeOK, JobRow
<1>3. Clocked'
  BY <1>1, <1>2 DEF Timely, Clocked, Open, Period
<1>4. ASSUME NEW j \in Jobs PROVE NextRun(j)' + Slack(j) <= NextRun(j) + Slack(j)'
  <2>1. Period(j) \in Nat \ {0} /\ Slack(j) \in Nat /\ Slack(j)' = Slack(j)
    BY <1>1, PeriodFact, CostFact DEF Slack, Period, Inv, TypeOK
  <2>2. /\ NextRun(j) = NextAt(now, Period(j), "done")
        /\ NextRun(j)' = NextAt(now + 1, Period(j), IF (now + 1) % Period(j) = 0 THEN "due" ELSE "done")
    BY <1>1, <1>2 DEF NextRun, Period
  <2>3. now % Period(j) \in 0 .. (Period(j) - 1)
    BY <1>1, <2>1, ModFact
  <2>4. \/ (now + 1) % Period(j) = 0 /\ now % Period(j) = Period(j) - 1
        \/ (now + 1) % Period(j) = (now % Period(j)) + 1
    BY <1>1, <2>1, NextModFact
  <2>5. NextRun(j)' = NextRun(j) /\ NextRun(j) \in Nat
    <3>1. PICK i \in Nat, a \in Nat, b \in Nat : i = Period(j) /\ a = now % Period(j) /\ b = (now + 1) % Period(j)
      BY <2>1, <2>3, <2>4
    <3>2. a < i /\ ((b = 0 /\ a = i - 1) \/ b = a + 1)
      BY <2>1, <2>3, <2>4, <3>1
    <3>3. NextRun(j) = (now + i) - a /\ NextRun(j)' = IF b = 0 THEN now + 1 ELSE ((now + 1) + i) - b
      BY <2>2, <3>1 DEF NextAt
    <3> QED  BY <1>1, <3>2, <3>3
  <2> QED  BY <2>1, <2>5
<1>5. ASSUME NEW j \in Jobs, NEW v \in Open PROVE Seen(j, v)'
  BY <1>2 DEF Seen
<1>6. now <= now'
  BY <1>1
<1> QED  BY <1>1, <1>3, <1>4, <1>5, <1>6, StillTimely

LEMMA StepTimely == Inv /\ Inv' /\ Timely /\ [Next]_vars => Timely'
<1> SUFFICES ASSUME Inv, Inv', Timely, [Next]_vars PROVE Timely'
  OBVIOUS
<1>1. CASE UNCHANGED vars
  <2>1. UNCHANGED <<now, visit, notices, job, missed, since, rung>>
    BY <1>1 DEF vars
  <2>2. Clocked'
    BY <2>1 DEF Timely, Clocked, Open, Period
  <2>3. ASSUME NEW j \in Jobs, NEW v \in Open PROVE Seen(j, v)'
    BY <2>1 DEF Timely, Seen, InWindow, Told, KeyOf
  <2>4. now <= now'
    BY <2>1 DEF Inv, TypeOK
  <2> QED  BY <2>1, <2>2, <2>3, <2>4, SameRun, StillTimely
<1>2. ASSUME NEW v \in Visits, ChangeVisit(v) PROVE Timely'
  BY <1>2, ChangeTimely
<1>3. ASSUME NEW j \in Jobs, RunJob(j) PROVE Timely'
  BY <1>3, StartTimely, MissTimely, EmitTimely DEF RunJob
<1>4. CASE EndUpcoming
  BY <1>4, EndUpcomingTimely
<1>5. CASE EndDaily
  BY <1>5, EndDailyTimely
<1>6. CASE Read
  <2>1. PICK read \in SUBSET notices : MarkRead(read)
    BY <1>6 DEF Read
  <2> QED  BY <2>1, ReadTimely
<1>7. CASE Tick
  BY <1>7, TickTimely
<1> QED  BY <1>1, <1>2, <1>3, <1>4, <1>5, <1>6, <1>7 DEF Next, Quiet

LEMMA TimelyHolds == Spec => [](Inv /\ Timely)
<1>1. Init => Inv /\ Timely
  BY InitInv, InitTimely
<1>2. Inv /\ Timely /\ [Next]_vars => (Inv /\ Timely)'
  BY StepInv, StepTimely
<1> QED  BY <1>1, <1>2, PTL DEF Spec

\* With a lookahead that covers the runs that may be missed, a visit that had its
\* time for as long starts with a notice of that time in the bell: some run saw
\* it, and the purge did not reach its notice.
THEOREM UpcomingVisitsAreTold == Spec => []UpcomingIsTold
<1>1. Inv /\ Timely => UpcomingIsTold
  <2> SUFFICES ASSUME Inv, Timely, NEW v \in Open, Rested, visit[v].at = now,
                      since[v] + ((MaxMissed + 1) * Interval) <= now
               PROVE  \E n \in notices : /\ n.key.visit = v /\ n.key.type = "visita_proxima"
                                         /\ n.tells = now
    BY DEF UpcomingIsTold
  <2> DEFINE key == KeyOf("upcoming", v, now)
  <2>1. v \in Visits /\ now \in Nat /\ since[v] \in Nat
    BY AtFact DEF Inv, TypeOK, Timely, Clocked
  <2>2. now < NextRun("upcoming") /\ NextRun("upcoming") \in Nat
    BY <2>1, NextAtFact DEF NextRun, Rested, Jobs, Period
  <2>3. Slack("upcoming") \in Nat /\ Slack("upcoming") <= Cost(MaxMissed, Interval)
    <3>1. missed \in Nat /\ missed <= MaxMissed
      BY DEF Inv, TypeOK, Timely, Clocked
    <3> QED  BY <3>1, CostFact DEF Slack, Period
  <2>4. /\ Cost(MaxMissed, Interval) \in Nat /\ Cost(MaxMissed, Interval) <= Lookahead
        /\ since[v] + Cost(MaxMissed, Interval) <= now
    BY CostFact DEF Cost
  <2>5. ~Early("upcoming", v)
    BY <2>1, <2>2, <2>3, <2>4 DEF Early
  <2>6. key \in rung
    BY <2>1, <2>5 DEF Timely, OnTime, Owed, Told, Jobs
  <2>7. key \in Upcomings /\ key.visit = v /\ key.at = now /\ key.type = "visita_proxima"
    BY <2>6 DEF Upcomings, KeyOf, Inv, TypeOK
  <2>8. key \in Stored
    BY <2>1, <2>6, <2>7 DEF Inv, Kept
  <2>9. PICK n \in notices : n.key = key
    BY <2>8 DEF Stored
  <2>10. n.tells = now
    BY <2>7, <2>9 DEF Timely, Clocked
  <2> QED  BY <2>7, <2>9, <2>10
<1> QED  BY <1>1, TimelyHolds, PTL

\* With a lookback that covers the runs that may be missed, a visit nobody settles
\* rings, unless it was old when it was entered.
THEOREM OverdueVisitsRing == Spec => []OverdueRings
<1>1. Inv /\ Timely => OverdueRings
  <2> SUFFICES ASSUME Inv, Timely, NEW v \in Open, Rested, since[v] <= visit[v].at,
                      visit[v].at + ((MaxMissed + 1) * Day) <= now
               PROVE  KeyOf("daily", v, visit[v].at) \in rung
    BY DEF OverdueRings
  <2>1. now \in Nat /\ visit[v].at \in Nat
    BY AtFact DEF Inv, TypeOK
  <2>2. now < NextRun("daily") /\ NextRun("daily") \in Nat
    BY <2>1, NextAtFact DEF NextRun, Rested, Jobs, Period
  <2>3. Slack("daily") \in Nat /\ Slack("daily") <= Cost(MaxMissed, Day)
    <3>1. missed \in Nat /\ missed <= MaxMissed
      BY DEF Inv, TypeOK, Timely, Clocked
    <3> QED  BY <3>1, CostFact DEF Slack, Period
  <2>4. Cost(MaxMissed, Day) \in Nat /\ visit[v].at + Cost(MaxMissed, Day) <= now
    BY CostFact DEF Cost
  <2>5. ~Early("daily", v)
    BY <2>1, <2>2, <2>3, <2>4 DEF Early
  <2> QED  BY <2>5 DEF Timely, OnTime, Owed, Told, Jobs
<1> QED  BY <1>1, TimelyHolds, PTL
-----------------------------------------------------------------------------
(***************************************************************************)
(* The way of a notice to the telephone: NoticePush, for any number of     *)
(* notices, runs and failures and any batch.                               *)
(*                                                                         *)
(* While runs do not overlap, the run under way is the only one that holds *)
(* notices; it marks each before it sends it, so what was delivered is     *)
(* marked, no later run finds it, and this one is about to leave it.       *)
(***************************************************************************)
CONSTANTS Runs, Inactive, MaxFailures

VARIABLES notice, run, message, failures

Push == INSTANCE NoticePush

\* The pcs past the mark.
Sending == {"send", "dispatch", "record", "reject"}

\* A run has something to do until it rests: notices that exist, each once.
Todo ==
    \A r \in Runs :
        /\ run[r].pc = "rest" <=> run[r].todo = {}
        /\ \A x \in run[r].todo : notice[x.n].status # "absent"
        /\ \A x \in run[r].todo, y \in run[r].todo : x.n = y.n => x = y

Unmarked == \A n \in Push!Notices : notice[n].status = "absent" => ~notice[n].pushed

Alone == \A r \in Runs, q \in Runs : Push!Under(r) /\ Push!Under(q) => r = q

Marked == \A r \in Runs : run[r].pc \in Sending => notice[Push!At(r).n].pushed

\* What was delivered is marked, and whoever still holds it is about to leave it.
Once ==
    \A n \in Push!Notices : delivered[n] > 0 =>
        /\ delivered[n] = 1
        /\ notice[n].pushed
        /\ \A r \in Runs : \A x \in run[r].todo :
             x.n = n => x = Push!At(r) /\ run[r].pc \in {"record", "reject"}

PushInv == Push!TypeOK /\ Todo /\ Unmarked /\ (~overlap => Alone /\ Marked /\ Once)

\* A set of naturals has a least member.
LEMMA Least ==
    ASSUME NEW S, S \subseteq Nat, S # {}
    PROVE  \E n \in S : \A k \in S : n <= k
<1>1. PICK n \in S : \A k \in S : <<k, n>> \notin OpToRel(<, Nat)
  BY NatLessThanWellFounded, WFMin
<1>2. \A k \in S : ~(k < n)
  BY <1>1 DEF OpToRel
<1>3. QED
  BY <1>2

\* The notice a loop is at is one of those it is to do.
LEMMA AtIsToDo ==
    ASSUME Push!TypeOK, NEW r \in Runs, run[r].todo # {}
    PROVE  /\ Push!At(r) \in run[r].todo
           /\ Push!At(r) \in [n : Push!Notices, young : BOOLEAN]
<1> DEFINE todo == run[r].todo
           ids == {x.n : x \in todo}
<1>1. todo \subseteq [n : Push!Notices, young : BOOLEAN]
  BY DEF Push!TypeOK, Push!Run
<1>2. ids \subseteq Nat /\ ids # {}
  BY <1>1 DEF Push!Notices
<1>3. PICK k \in ids : \A l \in ids : k <= l
  BY <1>2, Least
<1>4. \E x \in todo : \A y \in todo : x.n <= y.n
  BY <1>3
<1>5. Push!First(todo) \in todo
  BY <1>4 DEF Push!First
<1>6. QED
  BY <1>1, <1>5 DEF Push!At

\* r leaves the notice it is at, or every notice.
Leaves(r) ==
    /\ run' \in [Runs -> Push!Run]
    /\ \A q \in Runs : q # r => run'[q] = run[q]
    /\ run'[r].pc \in {"rest", "mark"}
    /\ run'[r].pc = "rest" <=> run'[r].todo = {}
    /\ run'[r].todo \subseteq run[r].todo \ {Push!At(r)}

\* r goes on with the notice it is at.
GoesOn(r, pc) ==
    /\ run' \in [Runs -> Push!Run]
    /\ \A q \in Runs : q # r => run'[q] = run[q]
    /\ run'[r].pc = pc /\ run'[r].todo = run[r].todo

LEMMA LeaveMoves ==
    ASSUME Push!TypeOK, Todo, NEW r \in Runs, Push!Under(r),
           Push!Proceed(r) \/ run' = [run EXCEPT ![r] = Push!Rested]
    PROVE  Leaves(r)
<1> DEFINE next == [pc |-> "mark", todo |-> run[r].todo \ {Push!At(r)}]
<1>1. run \in [Runs -> Push!Run] /\ run[r].todo # {} /\ Push!At(r) \in run[r].todo
  BY AtIsToDo DEF Push!TypeOK, Todo, Push!Under
<1>2. Push!Rested \in Push!Run /\ Push!Rested.pc = "rest" /\ Push!Rested.todo = {}
  BY DEF Push!Rested, Push!Run
<1>3. next \in Push!Run /\ next.pc = "mark" /\ next.todo = run[r].todo \ {Push!At(r)}
  BY <1>1 DEF Push!Run
<1>4. CASE run' = [run EXCEPT ![r] = Push!Rested]
  BY <1>1, <1>2, <1>4 DEF Leaves
<1>5. CASE Push!Proceed(r) /\ run[r].todo = {Push!At(r)}
  <2>1. run' = [run EXCEPT ![r] = Push!Rested]
    BY <1>1, <1>5 DEF Push!Proceed
  <2>2. QED
    BY <1>4, <2>1
<1>6. CASE Push!Proceed(r) /\ run[r].todo # {Push!At(r)}
  <2>1. run' = [run EXCEPT ![r] = next]
    BY <1>1, <1>6 DEF Push!Proceed
  <2>2. run[r].todo \ {Push!At(r)} # {}
    BY <1>1, <1>6
  <2> HIDE DEF next
  <2>3. QED
    BY <1>1, <1>3, <2>1, <2>2 DEF Leaves
<1>7. QED
  BY <1>4, <1>5, <1>6

LEMMA GoMoves ==
    ASSUME Push!TypeOK, NEW r \in Runs, NEW pc \in Sending, Push!Go(r, pc)
    PROVE  GoesOn(r, pc)
<1> DEFINE next == [run[r] EXCEPT !.pc = pc]
<1>1. run \in [Runs -> Push!Run]
  BY DEF Push!TypeOK
<1>2. next \in Push!Run /\ next.pc = pc /\ next.todo = run[r].todo
  BY <1>1 DEF Push!Run, Sending
<1>3. run' = [run EXCEPT ![r] = next]
  BY DEF Push!Go
<1> HIDE DEF next
<1>4. QED
  BY <1>1, <1>2, <1>3 DEF GoesOn

\* The bell keeps its notices and their marks.
Keeps ==
    \A n \in Push!Notices :
        /\ notice'[n].status = "absent" <=> notice[n].status = "absent"
        /\ notice[n].pushed => notice'[n].pushed
        /\ notice'[n].status = "absent" => ~notice'[n].pushed

LEMMA LeaveStep ==
    ASSUME PushInv, NEW r \in Runs, Push!Under(r), Leaves(r), Keeps,
           UNCHANGED <<overlap, delivered>>
    PROVE  Todo' /\ Unmarked' /\ (~overlap' => Alone' /\ Marked' /\ Once')
<1>1. Todo'
  <2> SUFFICES ASSUME NEW q \in Runs
               PROVE  /\ run'[q].pc = "rest" <=> run'[q].todo = {}
                      /\ \A x \in run'[q].todo : notice'[x.n].status # "absent"
                      /\ \A x \in run'[q].todo, y \in run'[q].todo : x.n = y.n => x = y
    BY DEF Todo
  <2>1. run'[q].todo \subseteq run[q].todo /\ (run'[q].pc = "rest" <=> run'[q].todo = {})
    BY DEF Leaves, PushInv, Todo
  <2>2. \A x \in run[q].todo : x.n \in Push!Notices
    BY DEF PushInv, Push!TypeOK, Push!Run
  <2>3. QED
    BY <2>1, <2>2 DEF PushInv, Todo, Keeps
<1>2. Unmarked'
  BY DEF Unmarked, Keeps
<1>3. ASSUME ~overlap' PROVE Alone' /\ Marked' /\ Once'
  <2>1. Alone /\ Marked /\ Once
    BY <1>3 DEF PushInv
  <2>2. Alone'
    BY <2>1 DEF Alone, Leaves, Push!Under
  <2>3. \A q \in Runs : q # r => run'[q] = run[q] /\ Push!At(q)' = Push!At(q)
    BY DEF Leaves, Push!At
  <2>4. ASSUME NEW q \in Runs, run'[q].pc \in Sending PROVE (notice[Push!At(q).n].pushed)'
    <3>1. q # r /\ run'[q] = run[q] /\ Push!At(q)' = Push!At(q)
      BY <2>3, <2>4 DEF Leaves, Sending
    <3>2. Push!At(q).n \in Push!Notices
      BY <3>1, <2>4, AtIsToDo DEF PushInv, Todo, Sending
    <3>3. QED
      BY <2>1, <2>4, <3>1, <3>2 DEF Marked, Keeps
  <2>5. ASSUME NEW n \in Push!Notices, delivered'[n] > 0
        PROVE  /\ delivered'[n] = 1 /\ notice'[n].pushed
               /\ \A q \in Runs : \A x \in run'[q].todo :
                    x.n = n => x = Push!At(q)' /\ run'[q].pc \in {"record", "reject"}
    <3>1. delivered[n] = 1 /\ notice'[n].pushed
      BY <2>1, <2>5 DEF Once, Keeps
    <3>2. ASSUME NEW q \in Runs, NEW x \in run'[q].todo, x.n = n
          PROVE  x = Push!At(q)' /\ run'[q].pc \in {"record", "reject"}
      <4>1. run'[q].todo \subseteq run[q].todo /\ (q = r => x # Push!At(r))
        BY <3>2 DEF Leaves
      <4>2. x = Push!At(q) /\ run[q].pc \in {"record", "reject"}
        BY <2>1, <3>1, <3>2, <4>1 DEF Once
      <4>3. QED
        BY <2>3, <4>1, <4>2
    <3>3. QED
      BY <3>1, <3>2
  <2>6. QED
    BY <2>2, <2>4, <2>5 DEF Marked, Once
<1>4. QED
  BY <1>1, <1>2, <1>3

\* While one run is under way, to go on with its notice disturbs no other.
LEMMA GoStep ==
    ASSUME PushInv, NEW r \in Runs, Push!Under(r), NEW pc \in Sending, GoesOn(r, pc), Keeps,
           UNCHANGED overlap,
           ~overlap => notice'[Push!At(r).n].pushed,
           \/ UNCHANGED delivered /\ run[r].pc \in {"mark", "send", "dispatch"}
           \/ /\ run[r].pc = "dispatch" /\ pc \in {"record", "reject"}
              /\ delivered' = [delivered EXCEPT ![Push!At(r).n] = @ + 1]
    PROVE  Todo' /\ Unmarked' /\ (~overlap' => Alone' /\ Marked' /\ Once')
<1>1. \A q \in Runs : run'[q].todo = run[q].todo /\ Push!At(q)' = Push!At(q)
  BY DEF GoesOn, Push!At
<1>2. Push!At(r) \in run[r].todo /\ Push!At(r).n \in Push!Notices
  BY AtIsToDo DEF PushInv, Todo, Push!Under
<1>3. Todo'
  <2>1. \A q \in Runs : \A x \in run[q].todo : x.n \in Push!Notices
    BY DEF PushInv, Push!TypeOK, Push!Run
  <2>2. \A q \in Runs : run'[q].pc = "rest" <=> run[q].pc = "rest"
    BY DEF GoesOn, Sending, Push!Under
  <2>3. QED
    BY <1>1, <2>1, <2>2 DEF PushInv, Todo, Keeps
<1>4. Unmarked'
  BY DEF Unmarked, Keeps
<1>5. ASSUME ~overlap' PROVE Alone' /\ Marked' /\ Once'
  <2>1. Alone /\ Marked /\ Once
    BY <1>5 DEF PushInv
  <2>2. \A q \in Runs : q # r => run[q].pc = "rest" /\ run[q].todo = {}
    BY <2>1 DEF Alone, PushInv, Todo, Push!Under
  <2>3. \A q \in Runs : q # r => run'[q].pc = "rest"
    BY <2>2 DEF GoesOn
  <2>4. Alone'
    BY <2>3 DEF Alone, Push!Under
  <2>5. Marked'
    BY <1>1, <1>5, <2>3 DEF Marked, Sending
  <2>6. ASSUME NEW n \in Push!Notices, delivered'[n] > 0
        PROVE  /\ delivered'[n] = 1 /\ notice'[n].pushed
               /\ \A q \in Runs : \A x \in run'[q].todo :
                    x.n = n => x = Push!At(q)' /\ run'[q].pc \in {"record", "reject"}
    <3>1. \A x \in run[r].todo : x.n = Push!At(r).n => x = Push!At(r)
      BY <1>2 DEF PushInv, Todo
    <3>2. delivered[n] > 0 => run[r].pc \in {"record", "reject"} \/ \A x \in run[r].todo : x.n # n
      BY <2>1 DEF Once
    <3>3. delivered \in [Push!Notices -> Nat]
      BY DEF PushInv, Push!TypeOK
    <3>4. CASE n = Push!At(r).n
      <4>1. delivered[n] = 0
        BY <1>2, <3>2, <3>3, <3>4
      <4>2. pc \in {"record", "reject"} /\ delivered'[n] = 1
        BY <2>6, <3>3, <4>1
      <4>3. QED
        BY <1>1, <1>5, <2>2, <3>1, <3>4, <4>2 DEF GoesOn
    <3>5. CASE n # Push!At(r).n
      <4>1. delivered'[n] = delivered[n]
        BY <3>3, <3>5
      <4>2. \A x \in run[r].todo : x.n # n
        BY <2>1, <2>6, <3>5, <4>1 DEF Once
      <4>3. QED
        BY <1>1, <2>1, <2>2, <2>6, <4>1, <4>2 DEF Once, Keeps
    <3>6. QED
      BY <3>4, <3>5
  <2>7. QED
    BY <2>4, <2>5, <2>6 DEF Once
<1>6. QED
  BY <1>3, <1>4, <1>5

\* A run begins with notices that nobody marked, so with none that was delivered.
LEMMA FindStep ==
    ASSUME PushInv, NEW r \in Runs, Push!FindPending(r)
    PROVE  run' \in [Runs -> Push!Run] /\ Todo' /\ Unmarked' /\ (~overlap' => Alone' /\ Marked' /\ Once')
<1> DEFINE found == {[n |-> n, young |-> notice[n].young] : n \in Push!FirstBatch}
           next == [pc |-> "mark", todo |-> found]
<1>1. /\ Push!FirstBatch # {} /\ Push!FirstBatch \subseteq Push!Notices
      /\ \A n \in Push!FirstBatch : notice[n].status = "there" /\ ~notice[n].pushed
  BY DEF Push!FindPending, Push!FirstBatch, Push!Pending
<1>2. notice \in [Push!Notices -> Push!NoticeRow] /\ run \in [Runs -> Push!Run]
  BY DEF PushInv, Push!TypeOK
<1>3. found # {} /\ found \subseteq [n : Push!Notices, young : BOOLEAN]
  <2>1. \A n \in Push!FirstBatch : n \in Push!Notices /\ notice[n].young \in BOOLEAN
    BY <1>1, <1>2 DEF Push!NoticeRow
  <2>2. PICK n \in Push!FirstBatch : TRUE
    BY <1>1
  <2>3. [n |-> n, young |-> notice[n].young] \in found
    BY <2>2
  <2>4. QED
    BY <2>1, <2>3
<1>4. \A x \in found : x.n \in Push!FirstBatch /\ x.young = notice[x.n].young
  OBVIOUS
<1>5. \A x \in found, y \in found : x.n = y.n => x = y
  OBVIOUS
<1>6. /\ run' = [run EXCEPT ![r] = next]
      /\ overlap' = (overlap \/ \E q \in Runs : Push!Under(q))
      /\ UNCHANGED <<notice, delivered>>
  BY DEF Push!FindPending
<1> HIDE DEF found
<1>7. next \in Push!Run /\ next.pc = "mark" /\ next.todo = found
  BY <1>3 DEF Push!Run
<1> HIDE DEF next
<1>8. /\ run' \in [Runs -> Push!Run] /\ run'[r].pc = "mark" /\ run'[r].todo = found
      /\ \A q \in Runs : q # r => run'[q] = run[q]
  BY <1>2, <1>6, <1>7
<1>9. Todo' /\ Unmarked'
  BY <1>1, <1>3, <1>4, <1>5, <1>6, <1>8 DEF PushInv, Todo, Unmarked
<1>10. ASSUME ~overlap' PROVE Alone' /\ Marked' /\ Once'
  <2>1. Alone /\ Marked /\ Once /\ \A q \in Runs : run[q].pc = "rest" /\ run[q].todo = {}
    BY <1>6, <1>10 DEF PushInv, Todo, Push!Under
  <2>2. Alone' /\ Marked'
    BY <1>8, <2>1 DEF Alone, Marked, Sending, Push!Under
  <2>3. \A n \in Push!FirstBatch : ~(delivered[n] > 0)
    BY <1>1, <2>1 DEF Once
  <2>4. Once'
    BY <1>4, <1>6, <1>8, <2>1, <2>3 DEF Once
  <2>5. QED
    BY <2>2, <2>4
<1>11. QED
  BY <1>8, <1>9, <1>10

\* To mark the notice a run is at.
LEMMA MarkKeeps ==
    ASSUME PushInv, NEW r \in Runs, Push!Mark(r)
    PROVE  Keeps /\ notice'[Push!At(r).n].pushed /\ notice' \in [Push!Notices -> Push!NoticeRow]
<1>1. notice \in [Push!Notices -> Push!NoticeRow]
  BY DEF PushInv, Push!TypeOK
<1>2. Push!At(r).n \in Push!Notices
  BY AtIsToDo DEF PushInv, Todo, Push!Mark
<1> DEFINE n == Push!At(r).n
           row == [notice[n] EXCEPT !.pushed = TRUE]
<1>3. row \in Push!NoticeRow /\ row.pushed /\ row.status = "there" /\ notice[n].status = "there"
  BY <1>1, <1>2 DEF Push!NoticeRow, Push!Mark
<1>4. notice' = [notice EXCEPT ![n] = row]
  BY DEF Push!Mark
<1> HIDE DEF row
<1>5. QED
  BY <1>1, <1>2, <1>3, <1>4 DEF Keeps, PushInv, Unmarked

\* What the messages and the provider record has its type.
LEMMA SentTypes ==
    ASSUME PushInv, NEW r \in Runs, Push!Under(r)
    PROVE  /\ Push!Queue(r) \/ (\E s \in Push!DeliveryStatus : Push!Record(r, s)) =>
                message' \in [Push!Notices -> SUBSET [by : Runs, status : Push!DeliveryStatus]]
           /\ delivered' = [delivered EXCEPT ![Push!At(r).n] = @ + 1] =>
                delivered' \in [Push!Notices -> Nat]
<1>1. /\ message \in [Push!Notices -> SUBSET [by : Runs, status : Push!DeliveryStatus]]
      /\ delivered \in [Push!Notices -> Nat]
  BY DEF PushInv, Push!TypeOK
<1>2. PICK n \in Push!Notices : n = Push!At(r).n
  BY AtIsToDo DEF PushInv, Todo, Push!Under
<1>3. CASE Push!Queue(r)
  <2>1. message' = [message EXCEPT ![n] = @ \cup {[by |-> r, status |-> "queued"]}]
    BY <1>2, <1>3 DEF Push!Queue
  <2>2. [by |-> r, status |-> "queued"] \in [by : Runs, status : Push!DeliveryStatus]
    BY DEF Push!DeliveryStatus
  <2>3. QED
    BY <1>1, <1>2, <1>3, <2>1, <2>2 DEF Push!Queue
<1>4. ASSUME NEW s \in Push!DeliveryStatus, Push!Record(r, s)
      PROVE  message' \in [Push!Notices -> SUBSET [by : Runs, status : Push!DeliveryStatus]]
  <2> DEFINE recorded == {IF m.by = r /\ m.status = "queued" THEN [m EXCEPT !.status = s] ELSE m :
                            m \in message[n]}
  <2>1. message' = [message EXCEPT ![n] = recorded]
    BY <1>2, <1>4 DEF Push!Record
  <2>2. \A m \in message[n] : m \in [by : Runs, status : Push!DeliveryStatus]
    BY <1>1, <1>2
  <2>3. recorded \subseteq [by : Runs, status : Push!DeliveryStatus]
    BY <2>2
  <2> HIDE DEF recorded
  <2>4. QED
    BY <1>1, <1>2, <2>1, <2>3
<1>5. QED
  BY <1>1, <1>2, <1>3, <1>4

LEMMA SameNotices ==
    ASSUME PushInv, UNCHANGED notice PROVE Keeps
BY DEF Keeps, PushInv, Unmarked

\* The steps of the bell.
LEMMA BellStep ==
    ASSUME PushInv, NEW n \in Push!Notices, Push!Insert(n) \/ Push!Age(n) \/ Push!Remove(n)
    PROVE  PushInv'
<1>1. notice \in [Push!Notices -> Push!NoticeRow] /\ UNCHANGED <<run, message, failures, overlap, delivered>>
  BY DEF PushInv, Push!TypeOK, Push!Insert, Push!Age, Push!Remove
<1>2. PICK row \in Push!NoticeRow :
        /\ notice' = [notice EXCEPT ![n] = row]
        /\ row.status # "absent"
        /\ row.pushed = notice[n].pushed
        /\ row.pushed \in BOOLEAN
  <2>1. CASE Push!Insert(n)
    <3> DEFINE row == [status |-> "there", pushed |-> FALSE, young |-> TRUE]
    <3>1. row \in Push!NoticeRow /\ row.status = "there" /\ row.pushed = FALSE
      BY DEF Push!NoticeRow
    <3>2. notice' = [notice EXCEPT ![n] = row] /\ notice[n].pushed = FALSE
      BY <1>1, <2>1 DEF Push!Insert, PushInv, Unmarked, Push!NoticeRow
    <3> HIDE DEF row
    <3>3. QED
      BY <3>1, <3>2
  <2>2. CASE Push!Age(n)
    <3> DEFINE row == [notice[n] EXCEPT !.young = FALSE]
    <3>1. row \in Push!NoticeRow /\ row.status = "there" /\ row.pushed = notice[n].pushed
      BY <1>1, <2>2 DEF Push!NoticeRow, Push!Age
    <3>2. notice' = [notice EXCEPT ![n] = row]
      BY <2>2 DEF Push!Age
    <3>3. row.pushed \in BOOLEAN
      BY <3>1 DEF Push!NoticeRow
    <3> HIDE DEF row
    <3>4. QED
      BY <3>1, <3>2, <3>3
  <2>3. CASE Push!Remove(n)
    <3> DEFINE row == [notice[n] EXCEPT !.status = "gone", !.young = FALSE]
    <3>1. row \in Push!NoticeRow /\ row.status = "gone" /\ row.pushed = notice[n].pushed
      BY <1>1, <2>3 DEF Push!NoticeRow, Push!Remove
    <3>2. notice' = [notice EXCEPT ![n] = row]
      BY <2>3 DEF Push!Remove
    <3>3. row.pushed \in BOOLEAN
      BY <3>1 DEF Push!NoticeRow
    <3> HIDE DEF row
    <3>4. QED
      BY <3>1, <3>2, <3>3
  <2>4. QED
    BY <2>1, <2>2, <2>3
<1>3. /\ notice' \in [Push!Notices -> Push!NoticeRow]
      /\ \A k \in Push!Notices : /\ notice'[k].pushed = notice[k].pushed
                                 /\ notice[k].status # "absent" => notice'[k].status # "absent"
                                 /\ notice'[k].status = "absent" => notice[k].status = "absent"
  BY <1>1, <1>2
<1>4. \A r \in Runs : Push!At(r)' = Push!At(r)
  BY <1>1 DEF Push!At
<1>5. Push!TypeOK'
  BY <1>1, <1>3 DEF PushInv, Push!TypeOK
<1>6. Todo' /\ Unmarked'
  <2>1. \A r \in Runs : \A x \in run[r].todo : x.n \in Push!Notices
    BY DEF PushInv, Push!TypeOK, Push!Run
  <2>2. QED
    BY <1>1, <1>3, <2>1 DEF PushInv, Todo, Unmarked
<1>7. ASSUME ~overlap' PROVE Alone' /\ Marked' /\ Once'
  <2>1. Alone /\ Marked /\ Once
    BY <1>1, <1>7 DEF PushInv
  <2>2. Alone'
    BY <1>1, <2>1 DEF Alone, Push!Under
  <2>3. \A r \in Runs : run[r].pc \in Sending => Push!At(r).n \in Push!Notices
    BY AtIsToDo DEF PushInv, Todo, Sending
  <2>4. Marked'
    BY <1>1, <1>3, <1>4, <2>1, <2>3 DEF Marked
  <2>5. Once'
    BY <1>1, <1>3, <1>4, <2>1 DEF Once
  <2>6. QED
    BY <2>2, <2>4, <2>5
<1>8. QED
  BY <1>5, <1>6, <1>7 DEF PushInv

\* The steps of a run.
LEMMA RunStep ==
    ASSUME PushInv, NEW r \in Runs,
           \/ Push!FindPending(r) \/ Push!Continue(r)
           \/ Push!LoseAnswer(r) \/ Push!StatementFails(r) \/ Push!Stop(r)
    PROVE  PushInv'
<1>1. /\ notice \in [Push!Notices -> Push!NoticeRow]
      /\ message \in [Push!Notices -> SUBSET [by : Runs, status : Push!DeliveryStatus]]
      /\ failures \in Nat /\ overlap \in BOOLEAN
      /\ delivered \in [Push!Notices -> Nat]
  BY DEF PushInv, Push!TypeOK
<1>2. Push!Fail => failures' \in Nat
  BY <1>1 DEF Push!Fail
<1>3. CASE Push!FindPending(r)
  <2>1. Push!TypeOK'
    BY <1>1, <1>3, FindStep DEF Push!FindPending, Push!TypeOK
  <2>2. QED
    BY <1>3, <2>1, FindStep DEF PushInv
<1>4. CASE Push!Mark(r)
  <2>1. Push!Under(r) /\ UNCHANGED <<message, failures, overlap, delivered>> /\ Keeps
    BY <1>4, MarkKeeps DEF Push!Mark, Push!Under
  <2>2. CASE Push!Proceed(r)
    <3>1. Leaves(r)
      BY <2>1, <2>2, LeaveMoves DEF PushInv
    <3>2. Push!TypeOK'
      BY <1>1, <1>4, <2>1, <3>1, MarkKeeps DEF Leaves, Push!TypeOK
    <3>3. QED
      BY <2>1, <3>1, <3>2, LeaveStep DEF PushInv
  <2>3. CASE Push!Go(r, "send")
    <3>1. GoesOn(r, "send")
      BY <2>3, GoMoves DEF PushInv, Sending
    <3>2. Push!TypeOK'
      BY <1>1, <1>4, <2>1, <3>1, MarkKeeps DEF GoesOn, Push!TypeOK
    <3>3. Todo' /\ Unmarked' /\ (~overlap' => Alone' /\ Marked' /\ Once')
      BY <1>4, <2>1, <3>1, GoStep, MarkKeeps DEF Sending, Push!Mark
    <3>4. QED
      BY <3>2, <3>3 DEF PushInv
  <2>4. QED
    BY <1>4, <2>2, <2>3 DEF Push!Mark
<1>5. CASE \/ Push!MarkThrows(r) \/ Push!NoConversation(r) \/ Push!RecordSent(r)
           \/ Push!RecordFailed(r) \/ Push!StatementFails(r) \/ Push!Stop(r)
  <2>1. /\ Push!Under(r) /\ UNCHANGED <<notice, overlap, delivered>>
        /\ Push!Proceed(r) \/ run' = [run EXCEPT ![r] = Push!Rested]
        /\ UNCHANGED failures \/ Push!Fail
        /\ UNCHANGED message \/ \E s \in Push!DeliveryStatus : Push!Record(r, s)
    BY <1>5 DEF Push!MarkThrows, Push!NoConversation, Push!RecordSent, Push!RecordFailed,
       Push!StatementFails, Push!Stop, Push!Under, Push!DeliveryStatus
  <2>2. Leaves(r) /\ Keeps
    BY <2>1, LeaveMoves, SameNotices DEF PushInv
  <2>3. Push!TypeOK'
    BY <1>1, <1>2, <2>1, <2>2, SentTypes DEF Leaves, Push!TypeOK
  <2>4. QED
    BY <2>1, <2>2, <2>3, LeaveStep DEF PushInv
<1>6. CASE Push!Queue(r) \/ Push!Deliver(r) \/ Push!Refused(r) \/ Push!LoseAnswer(r)
  <2>1. PICK pc \in {"dispatch", "record", "reject"} :
          /\ Push!Go(r, pc) /\ run[r].pc \in {"send", "dispatch"} /\ UNCHANGED <<notice, overlap>>
          /\ UNCHANGED failures \/ Push!Fail
          /\ UNCHANGED message \/ Push!Queue(r)
          /\ \/ UNCHANGED delivered
             \/ /\ run[r].pc = "dispatch" /\ pc \in {"record", "reject"}
                /\ delivered' = [delivered EXCEPT ![Push!At(r).n] = @ + 1]
    BY <1>6 DEF Push!Queue, Push!Deliver, Push!Refused, Push!LoseAnswer
  <2>2. Push!Under(r) /\ GoesOn(r, pc) /\ Keeps /\ pc \in Sending
    BY <2>1, GoMoves, SameNotices DEF PushInv, Push!Under, Sending
  <2>3. ~overlap => notice'[Push!At(r).n].pushed
    BY <2>1 DEF PushInv, Marked, Sending
  <2>4. Push!TypeOK'
    BY <1>1, <1>2, <2>1, <2>2, SentTypes DEF GoesOn, Push!TypeOK
  <2>5. Todo' /\ Unmarked' /\ (~overlap' => Alone' /\ Marked' /\ Once')
    BY <2>1, <2>2, <2>3, GoStep
  <2>6. QED
    BY <2>4, <2>5 DEF PushInv
<1>7. QED
  BY <1>3, <1>4, <1>5, <1>6 DEF Push!Continue

LEMMA PushInit == Push!Init => PushInv
<1> SUFFICES ASSUME Push!Init PROVE PushInv
  OBVIOUS
<1>1. /\ \A r \in Runs : run[r].pc = "rest" /\ run[r].todo = {}
      /\ \A n \in Push!Notices : ~notice[n].pushed /\ delivered[n] = 0
  BY DEF Push!Init, Push!Rested
<1>2. Push!TypeOK
  BY DEF Push!Init, Push!TypeOK, Push!Rested, Push!Run, Push!NoticeRow
<1>3. QED
  BY <1>1, <1>2 DEF PushInv, Todo, Unmarked, Alone, Marked, Once, Push!Under, Sending

LEMMA PushStep == PushInv /\ [Push!Next]_(Push!vars) => PushInv'
<1> SUFFICES ASSUME PushInv, [Push!Next]_(Push!vars) PROVE PushInv'
  OBVIOUS
<1>1. CASE UNCHANGED Push!vars
  <2>1. \A r \in Runs : Push!At(r)' = Push!At(r)
    BY <1>1 DEF Push!vars, Push!At
  <2>2. QED
    BY <1>1, <2>1 DEF Push!vars, PushInv, Push!TypeOK, Todo, Unmarked, Alone, Marked, Once, Push!Under
<1>2. CASE Push!Next
  BY <1>1, <1>2, BellStep, RunStep DEF Push!Next, Push!Quiet
<1>3. QED
  BY <1>1, <1>2

\* A notice reaches the telephone once at most, whatever is refused, lost, removed or
\* stopped, while runs do not overlap: the mark goes before the call.
THEOREM OneMessage == Push!Spec => []OneMessagePerNotice
<1>1. PushInv => OneMessagePerNotice
  <2>1. Notices = Push!Notices
    BY DEF Notices, Push!Notices
  <2>2. QED
    BY <2>1 DEF PushInv, Once, Push!TypeOK, OneMessagePerNotice
<1>2. QED
  BY <1>1, PushInit, PushStep, PTL DEF Push!Spec

-----------------------------------------------------------------------------
(***************************************************************************)
(* The oldest go first, with runs that overlap too: a run finds all there  *)
(* is up to the newest it finds, marks what it leaves, and what comes      *)
(* later is newer.                                                         *)
(***************************************************************************)

\* Ids are given in the order of createdAt.
Ordered ==
    \A m \in Push!Notices, n \in Push!Notices :
        m <= n /\ notice[n].status # "absent" => notice[m].status # "absent"

\* What is pending and not newer than something a run is to do, it is to do as well.
Passed ==
    \A r \in Runs : \A x \in run[r].todo, m \in Push!Pending :
        m <= x.n => \E y \in run[r].todo : y.n = m

PassInv == PushInv /\ Ordered /\ Marked /\ Passed

\* No run goes past a notice: nothing that waits in the outbox is older than the
\* notice a run is at, but what it is to do next.
OldestFirst == \A r \in Runs, m \in Push!Pending : Push!Under(r) => Push!At(r).n <= m

\* No other notice of a run is older than the one it is at.
LEMMA AtIsOldest ==
    ASSUME Push!TypeOK, NEW r \in Runs, NEW x \in run[r].todo
    PROVE  Push!At(r).n <= x.n
<1> DEFINE todo == run[r].todo
           ids == {y.n : y \in todo}
<1>1. todo \subseteq [n : Push!Notices, young : BOOLEAN]
  BY DEF Push!TypeOK, Push!Run
<1>2. ids \subseteq Nat /\ ids # {}
  BY <1>1 DEF Push!Notices
<1>3. PICK k \in ids : \A l \in ids : k <= l
  BY <1>2, Least
<1>4. \E y \in todo : \A z \in todo : y.n <= z.n
  BY <1>3
<1>5. \A y \in todo : Push!First(todo).n <= y.n
  BY <1>4 DEF Push!First
<1>6. QED
  BY <1>5 DEF Push!At

LEMMA NoticesAreNumbers == \A n \in Push!Notices : n \in Nat /\ n >= 1
BY DEF Push!Notices

LEMMA SameCardinality ==
    ASSUME NEW S PROVE Push!Cardinality(S) = Cardinality(S)
BY Zenon DEF Cardinality, Push!Cardinality

\* What a run takes is all there is up to its newest notice.
LEMMA FindTakesOldest ==
    ASSUME NEW n \in Push!FirstBatch, NEW m \in Push!Pending, m <= n
    PROVE  m \in Push!FirstBatch
<1> DEFINE pending == Push!Pending
           older(k) == {l \in pending : l < k}
<1>1. /\ n \in Nat /\ m \in Nat /\ \A l \in pending : l \in Nat /\ l >= 1
  BY NoticesAreNumbers DEF Push!FirstBatch, Push!Pending
<1>2. \A k : k \in Push!FirstBatch <=> k \in pending /\ Push!Cardinality(older(k)) < Batch
  BY DEF Push!FirstBatch
<1>3. Push!Cardinality(older(n)) = Cardinality(older(n)) /\ Push!Cardinality(older(m)) = Cardinality(older(m))
  BY SameCardinality
<1>4. m \in pending
  OBVIOUS
<1> HIDE DEF pending
<1>5. older(n) \subseteq 1 .. n
  BY <1>1
<1>6. older(m) \subseteq older(n)
  BY <1>1
<1> HIDE DEF older
<1>7. IsFiniteSet(1 .. n)
  BY <1>1, FS_Interval
<1>8. IsFiniteSet(older(n))
  BY <1>5, <1>7, FS_Subset
<1>9. Cardinality(older(m)) <= Cardinality(older(n)) /\ IsFiniteSet(older(m))
  BY <1>6, <1>8, FS_Subset
<1>10. Cardinality(older(m)) \in Nat /\ Cardinality(older(n)) \in Nat
  BY <1>8, <1>9, FS_CardinalityType
<1>11. QED
  BY <1>9, <1>10, <1>2, <1>4, <1>3, BatchAssumption

LEMMA PassInit == Push!Init => PassInv
<1> SUFFICES ASSUME Push!Init PROVE PassInv
  OBVIOUS
<1>1. /\ \A r \in Runs : run[r].pc = "rest" /\ run[r].todo = {}
      /\ \A n \in Push!Notices : notice[n].status = "absent"
  BY DEF Push!Init, Push!Rested
<1>2. QED
  BY <1>1, PushInit DEF PassInv, Ordered, Marked, Passed, Sending

\* Runs that lose only what is no longer pending go past nothing.
LEMMA StillPassed ==
    ASSUME Passed, Push!Pending' \subseteq Push!Pending,
           \A r \in Runs : /\ run'[r].todo \subseteq run[r].todo
                           /\ \/ run'[r].todo = {}
                              \/ \A x \in run[r].todo \ run'[r].todo : x.n \notin Push!Pending'
    PROVE  Passed'
<1> SUFFICES ASSUME NEW r \in Runs, NEW x \in run'[r].todo, NEW m \in Push!Pending', m <= x.n
             PROVE  \E y \in run'[r].todo : y.n = m
  BY DEF Passed
<1>1. PICK y \in run[r].todo : y.n = m
  BY DEF Passed
<1>2. y \in run'[r].todo
  BY <1>1
<1>3. QED
  BY <1>1, <1>2

\* The bell: what is inserted is newer than all a run has found.
LEMMA BellPasses ==
    ASSUME PassInv, NEW n \in Push!Notices, Push!Insert(n) \/ Push!Age(n) \/ Push!Remove(n)
    PROVE  Ordered' /\ Marked' /\ Passed'
<1>1. notice \in [Push!Notices -> Push!NoticeRow] /\ UNCHANGED run
  BY DEF PassInv, PushInv, Push!TypeOK, Push!Insert, Push!Age, Push!Remove
<1>2. /\ UNCHANGED run
      /\ \A k \in Push!Notices : k # n => notice'[k] = notice[k]
      /\ notice'[n].status # "absent"
      /\ notice[n].pushed => notice'[n].pushed
  <2>1. CASE Push!Insert(n)
    BY <1>1, <2>1 DEF PassInv, PushInv, Unmarked, Push!Insert
  <2>2. CASE Push!Age(n)
    BY <1>1, <2>2 DEF Push!Age, Push!NoticeRow
  <2>3. CASE Push!Remove(n)
    <3>1. notice'[n] = [notice[n] EXCEPT !.status = "gone", !.young = FALSE]
      BY <1>1, <2>3 DEF Push!Remove
    <3> QED
      BY <1>1, <2>3, <3>1 DEF Push!Remove, Push!NoticeRow
  <2> QED
    BY <2>1, <2>2, <2>3
<1>3. \A r \in Runs : Push!At(r)' = Push!At(r)
  BY <1>2 DEF Push!At
<1>4. \A r \in Runs : \A x \in run[r].todo : x.n \in Push!Notices /\ notice[x.n].status # "absent"
  BY DEF PassInv, PushInv, Push!TypeOK, Push!Run, Todo
<1>5. Ordered'
  <2> SUFFICES ASSUME NEW k \in Push!Notices, NEW l \in Push!Notices, k <= l,
                      notice'[l].status # "absent", k # n
               PROVE  notice[k].status # "absent"
    BY <1>2 DEF Ordered
  <2>1. CASE l # n
    BY <1>2, <2>1 DEF PassInv, Ordered
  <2>2. CASE l = n
    <3>1. k < n
      BY <2>2, NoticesAreNumbers
    <3>2. CASE Push!Insert(n)
      BY <3>1, <3>2 DEF Push!Insert
    <3>3. CASE Push!Age(n) \/ Push!Remove(n)
      BY <2>2, <3>3 DEF Push!Age, Push!Remove, PassInv, Ordered
    <3> QED
      BY <3>2, <3>3
  <2> QED
    BY <2>1, <2>2
<1>6. Marked'
  <2> SUFFICES ASSUME NEW r \in Runs, run[r].pc \in Sending PROVE notice'[Push!At(r).n].pushed
    BY <1>2, <1>3 DEF Marked
  <2>1. Push!At(r).n \in Push!Notices
    BY AtIsToDo DEF PassInv, PushInv, Todo, Sending
  <2> QED
    BY <1>2, <2>1 DEF PassInv, Marked
<1>7. Passed'
  <2>1. CASE Push!Insert(n)
    <3> SUFFICES ASSUME NEW r \in Runs, NEW x \in run[r].todo, NEW m \in Push!Pending', m <= x.n
                 PROVE  \E y \in run[r].todo : y.n = m
      BY <1>2 DEF Passed
    <3>1. m \in Push!Notices
      BY DEF Push!Pending
    <3>2. m # n
      BY <1>4, <2>1 DEF Push!Insert, PassInv, Ordered
    <3>3. m \in Push!Pending
      BY <1>2, <3>1, <3>2 DEF Push!Pending
    <3> QED
      BY <3>3 DEF PassInv, Passed
  <2>2. CASE Push!Age(n) \/ Push!Remove(n)
    <3>1. Push!Pending' \subseteq Push!Pending
      BY <1>2, <2>2 DEF Push!Pending, Push!Age, Push!Remove
    <3> QED
      BY <1>2, <3>1, StillPassed DEF PassInv
  <2> QED
    BY <2>1, <2>2
<1>8. QED
  BY <1>5, <1>6, <1>7

\* A run: what it leaves behind is marked.
LEMMA RunPasses ==
    ASSUME PassInv, NEW r \in Runs,
           \/ Push!FindPending(r) \/ Push!Continue(r)
           \/ Push!LoseAnswer(r) \/ Push!StatementFails(r) \/ Push!Stop(r)
    PROVE  Ordered' /\ Marked' /\ Passed'
<1>1. PushInv /\ Push!TypeOK /\ Todo /\ Ordered /\ Marked /\ Passed /\ run \in [Runs -> Push!Run]
  BY DEF PassInv, PushInv, Push!TypeOK
<1>2. CASE Push!FindPending(r)
  <2>1. /\ UNCHANGED notice /\ run'[r].pc = "mark"
        /\ run'[r].todo = {[n |-> n, young |-> notice[n].young] : n \in Push!FirstBatch}
        /\ \A q \in Runs : q # r => run'[q] = run[q]
    BY <1>1, <1>2 DEF Push!FindPending
  <2>2. Push!Pending' = Push!Pending
    BY <2>1 DEF Push!Pending
  <2>3. Ordered'
    BY <1>1, <2>1 DEF Ordered
  <2>4. Marked'
    BY <1>1, <2>1 DEF Marked, Sending, Push!At
  <2>5. Passed'
    <3> SUFFICES ASSUME NEW q \in Runs, NEW x \in run'[q].todo, NEW m \in Push!Pending, m <= x.n
                 PROVE  \E y \in run'[q].todo : y.n = m
      BY <2>2 DEF Passed
    <3>1. CASE q # r
      BY <1>1, <2>1, <3>1 DEF Passed
    <3>2. CASE q = r
      <4>1. PICK n \in Push!FirstBatch : n = x.n
        BY <2>1, <3>2
      <4>2. m <= n
        BY <4>1
      <4>3. m \in Push!FirstBatch
        BY <4>2, FindTakesOldest
      <4>4. [n |-> m, young |-> notice[m].young] \in run'[q].todo
        BY <2>1, <3>2, <4>3
      <4> QED
        BY <4>4
    <3> QED
      BY <3>1, <3>2
  <2> QED
    BY <2>3, <2>4, <2>5
<1>3. ASSUME Push!Under(r), Keeps, Push!Pending' \subseteq Push!Pending,
             \/ Push!At(r).n \notin Push!Pending' /\ Push!Proceed(r)
             \/ run' = [run EXCEPT ![r] = Push!Rested]
      PROVE  Ordered' /\ Marked' /\ Passed'
  <2>1. Leaves(r)
    BY <1>1, <1>3, LeaveMoves
  <2>2. \/ run'[r].todo = {}
        \/ run'[r].todo = run[r].todo \ {Push!At(r)} /\ Push!At(r).n \notin Push!Pending'
    BY <1>1, <1>3 DEF Push!Proceed, Push!Rested
  <2>3. Ordered'
    BY <1>1, <1>3 DEF Ordered, Keeps
  <2>4. Marked'
    <3> SUFFICES ASSUME NEW q \in Runs, run'[q].pc \in Sending PROVE (notice[Push!At(q).n].pushed)'
      BY DEF Marked
    <3>1. q # r /\ run'[q] = run[q] /\ Push!At(q)' = Push!At(q)
      BY <2>1 DEF Leaves, Sending, Push!At
    <3>2. Push!At(q).n \in Push!Notices
      BY <1>1, <3>1, AtIsToDo DEF Todo, Sending
    <3> QED
      BY <1>1, <1>3, <3>1, <3>2 DEF Marked, Keeps
  <2>5. Passed'
    <3>1. \A q \in Runs : q # r => run'[q].todo = run[q].todo
      BY <2>1 DEF Leaves
    <3>2. run'[r].todo \subseteq run[r].todo
      BY <2>1 DEF Leaves
    <3> QED
      BY <1>1, <1>3, <2>2, <3>1, <3>2, StillPassed
  <2> QED
    BY <2>3, <2>4, <2>5
<1>4. ASSUME NEW pc \in Sending, Push!Go(r, pc), Keeps, notice'[Push!At(r).n].pushed,
             Push!Pending' \subseteq Push!Pending
      PROVE  Ordered' /\ Marked' /\ Passed'
  <2>1. GoesOn(r, pc)
    BY <1>1, <1>4, GoMoves
  <2>2. \A q \in Runs : run'[q].todo = run[q].todo /\ Push!At(q)' = Push!At(q)
    BY <2>1 DEF GoesOn, Push!At
  <2>3. Ordered'
    BY <1>1, <1>4 DEF Ordered, Keeps
  <2>4. Marked'
    <3> SUFFICES ASSUME NEW q \in Runs, run'[q].pc \in Sending, q # r
                 PROVE  notice'[Push!At(q).n].pushed
      BY <1>4, <2>2 DEF Marked
    <3>1. run[q].pc \in Sending
      BY <2>1 DEF GoesOn
    <3>2. Push!At(q).n \in Push!Notices
      BY <1>1, <3>1, AtIsToDo DEF Todo, Sending
    <3> QED
      BY <1>1, <1>4, <3>1, <3>2 DEF Marked, Keeps
  <2>5. Passed'
    BY <1>1, <1>4, <2>2, StillPassed
  <2> QED
    BY <2>3, <2>4, <2>5
<1>5. CASE Push!Mark(r)
  <2>1. /\ Push!Under(r) /\ Keeps /\ notice'[Push!At(r).n].pushed
        /\ Push!At(r).n \in Push!Notices
    BY <1>1, <1>5, MarkKeeps, AtIsToDo DEF Push!Mark, Push!Under, Todo
  <2>2. \A n \in Push!Notices : n # Push!At(r).n => notice'[n] = notice[n]
    BY <1>1, <1>5 DEF Push!Mark, Push!TypeOK
  <2>3. Push!Pending' \subseteq Push!Pending /\ Push!At(r).n \notin Push!Pending'
    BY <2>1, <2>2 DEF Push!Pending
  <2>4. Push!Proceed(r) \/ Push!Go(r, "send")
    BY <1>5 DEF Push!Mark
  <2>5. "send" \in Sending
    BY DEF Sending
  <2> QED
    BY <1>3, <1>4, <2>1, <2>3, <2>4, <2>5
<1>6. CASE \/ Push!MarkThrows(r) \/ Push!NoConversation(r) \/ Push!RecordSent(r)
           \/ Push!RecordFailed(r) \/ Push!StatementFails(r) \/ Push!Stop(r)
  <2>1. /\ Push!Under(r) /\ UNCHANGED notice
        /\ \/ run[r].pc \in Sending /\ Push!Proceed(r)
           \/ run' = [run EXCEPT ![r] = Push!Rested]
    BY <1>6 DEF Push!MarkThrows, Push!NoConversation, Push!RecordSent, Push!RecordFailed,
       Push!StatementFails, Push!Stop, Push!Under, Sending
  <2>2. Keeps /\ Push!Pending' = Push!Pending
    BY <1>1, <2>1, SameNotices DEF Push!Pending
  <2>3. run[r].pc \in Sending => Push!At(r).n \notin Push!Pending
    BY <1>1 DEF Marked, Push!Pending
  <2> QED
    BY <1>3, <2>1, <2>2, <2>3
<1>7. CASE Push!Queue(r) \/ Push!Deliver(r) \/ Push!Refused(r) \/ Push!LoseAnswer(r)
  <2>1. /\ UNCHANGED notice /\ run[r].pc \in Sending
        /\ \E pc \in Sending : Push!Go(r, pc)
    BY <1>7 DEF Push!Queue, Push!Deliver, Push!Refused, Push!LoseAnswer, Sending
  <2>2. Keeps /\ Push!Pending' = Push!Pending /\ notice'[Push!At(r).n].pushed
    BY <1>1, <2>1, SameNotices DEF Push!Pending, Marked
  <2> QED
    BY <1>4, <2>1, <2>2
<1>8. QED
  BY <1>2, <1>5, <1>6, <1>7 DEF Push!Continue

LEMMA PassStep == PassInv /\ [Push!Next]_(Push!vars) => PassInv'
<1> SUFFICES ASSUME PassInv, [Push!Next]_(Push!vars) PROVE PassInv'
  OBVIOUS
<1>1. PushInv'
  BY PushStep DEF PassInv
<1>2. CASE UNCHANGED Push!vars
  <2>1. UNCHANGED <<notice, run>> /\ \A r \in Runs : Push!At(r)' = Push!At(r)
    BY <1>2 DEF Push!vars, Push!At
  <2>2. Push!Pending' = Push!Pending
    BY <2>1 DEF Push!Pending
  <2> QED
    BY <1>1, <2>1, <2>2 DEF PassInv, Ordered, Marked, Passed
<1>3. CASE Push!Next
  BY <1>1, <1>2, <1>3, BellPasses, RunPasses DEF PassInv, Push!Next, Push!Quiet
<1>4. QED
  BY <1>2, <1>3

\* The oldest go first: whatever overlaps, fails, is removed or stops, and however many
\* wait, no run is at a notice while an older one waits in the outbox.
THEOREM OldestGoFirst == Push!Spec => []OldestFirst
<1>1. PassInv => OldestFirst
  <2> SUFFICES ASSUME PassInv, NEW r \in Runs, NEW m \in Push!Pending, Push!Under(r)
               PROVE  Push!At(r).n <= m
    BY DEF OldestFirst
  <2>1. Push!TypeOK /\ run[r].todo # {}
    BY DEF PassInv, PushInv, Todo, Push!Under
  <2>2. /\ Push!At(r) \in run[r].todo
        /\ Push!At(r).n \in Nat /\ m \in Nat
    BY <2>1, AtIsToDo, NoticesAreNumbers DEF Push!Pending
  <2>3. CASE m <= Push!At(r).n
    <3>1. PICK y \in run[r].todo : y.n = m
      BY <2>2, <2>3 DEF PassInv, Passed
    <3> QED
      BY <2>1, <3>1, AtIsOldest
  <2> QED
    BY <2>2, <2>3
<1>2. QED
  BY <1>1, PassInit, PassStep, PTL DEF Push!Spec
=============================================================================
