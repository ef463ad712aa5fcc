---------------------------- MODULE VisitNotices ----------------------------
(***************************************************************************)
(* What the clock makes worth telling a seller: the visits that are about  *)
(* to start and the visits nobody settled.  Two cron jobs sweep the visits *)
(* and insert notices, idempotent by their key; the daily one then purges  *)
(* what was read long ago.  Meanwhile visits are scheduled, moved, settled *)
(* and removed, and the seller reads.                                      *)
(*                                                                         *)
(* Sweeps, key, retention and lookback are about one seller at a time, so  *)
(* one seller is enough.  Time is counted in ticks; a sweep ends within    *)
(* the tick in which it starts.                                            *)
(***************************************************************************)
EXTENDS Naturals, FiniteSets

CONSTANTS
    Visits,
    Times,       \* ticks a visit can be scheduled at
    Interval,    \* ticks between two sweeps of the upcoming visits
    Lookahead,   \* UPCOMING_VISIT_LOOKAHEAD_MINUTES
    Day,         \* ticks between two daily sweeps
    Lookback,    \* OVERDUE_NOTIFY_LOOKBACK_DAYS
    Retention,   \* READ_RETENTION_DAYS
    Never,       \* no date
    MaxMissed,   \* runs of a job that may be missed or fail
    MaxChanges,  \* bounds of the model: changes of visits,
    LastTick     \* ticks

ASSUME TimesAssumption == Times \subseteq Nat /\ Never \notin Nat

\* 15 and 120 minutes: seven runs in a row may be missed.
ASSUME LookaheadAssumption ==
    /\ Interval \in Nat \ {0} /\ Lookahead \in Nat /\ MaxMissed \in Nat
    /\ Lookahead >= (MaxMissed + 1) * Interval

\* 90 days of lookback, 60 of retention, two hours of lookahead.
ASSUME DaysAssumption ==
    /\ Day \in Nat \ {0} /\ Lookback \in Nat /\ Retention \in Nat
    /\ Lookback >= (MaxMissed + 1) * Day
    /\ Retention >= Lookahead

VARIABLES
    now,
    visit,      \* rows of Visit
    notices,    \* rows of Notification
    job,        \* the two cron jobs
    missed, changes,
    since,      \* history: when each visit got the time it has
    rung,       \* history: keys that were ever inserted,
    again       \* ... and those inserted after their notice was purged

vars == <<now, visit, notices, job, missed, changes, since, rung, again>>
-----------------------------------------------------------------------------
Jobs == {"upcoming", "daily"}

NoVisit == [status |-> "absent", at |-> Never]

VisitRow == {NoVisit} \cup [status : {"open", "settled"}, at : Times]

\* Mutant: the key of an upcoming visit forgets the time.
KeyOf_NoTime(j, v, at) ==
    [visit |-> v, at |-> Never, type |-> IF j = "upcoming" THEN "visita_proxima" ELSE "visita_vencida"]

\* dedupeKeyFor: the discriminator is the time, or missing.
KeyOf(j, v, at) ==
    IF j = "upcoming" THEN [visit |-> v, at |-> at, type |-> "visita_proxima"]
                      ELSE [visit |-> v, at |-> Never, type |-> "visita_vencida"]

Keys == [visit : Visits, at : Times \cup {Never}, type : {"visita_proxima", "visita_vencida"}]

Found == [visit : Visits, at : Times]

JobRow == [pc : {"due", "running", "done"}, todo : SUBSET Found]

\* `tells`: the time its body names.
NoticeRow == [key : Keys, tells : Times, readAt : Nat \cup {Never}]

Stored == {n.key : n \in notices}

Open == {v \in Visits : visit[v].status = "open"}

\* Mutant: the sweep has no condition.
Upcoming_All == Visits

\* scheduledAt: gte now, lte horizon
Upcoming == {v \in Open : visit[v].at \in now .. now + Lookahead}

\* Mutant: the window of the overdue visits starts at the last sweep.
Overdue_Yesterday == {v \in Open : visit[v].at < now /\ visit[v].at + 1 >= now}

\* scheduledAt: lt now, gte lookbackFloor(now)
Overdue == {v \in Open : visit[v].at < now /\ visit[v].at + Lookback >= now}

Period(j) == IF j = "upcoming" THEN Interval ELSE Day

Rested == \A j \in Jobs : job[j].pc = "done"

Change == changes < MaxChanges /\ changes' = changes + 1
-----------------------------------------------------------------------------
(***************************************************************************)
(* Visits                                                                  *)
(***************************************************************************)
SetTime(v, at) ==
    /\ visit' = [visit EXCEPT ![v] = [status |-> IF @.status = "absent" THEN "open" ELSE @.status,
                                      at |-> at]]
    /\ since' = [since EXCEPT ![v] = now]
    /\ Change
    /\ UNCHANGED <<now, notices, job, missed, rung, again>>

\* create: at any time, also one that has passed.
Schedule(v, at) == visit[v].status = "absent" /\ since[v] = Never /\ SetTime(v, at)

\* update: by id, whatever the status.
Reschedule(v, at) == visit[v].status # "absent" /\ at # visit[v].at /\ SetTime(v, at)

\* complete, and updateStatus to completada, cancelada or no_realizada.
Settle(v) ==
    /\ visit[v].status = "open"
    /\ visit' = [visit EXCEPT ![v].status = "settled"]
    /\ Change
    /\ UNCHANGED <<now, notices, job, missed, since, rung, again>>

Remove(v) ==
    /\ visit[v].status # "absent"
    /\ visit' = [visit EXCEPT ![v] = NoVisit]
    /\ Change
    /\ UNCHANGED <<now, notices, job, missed, since, rung, again>>
-----------------------------------------------------------------------------
(***************************************************************************)
(* Sweeps                                                                  *)
(***************************************************************************)

\* findMany: what the sweep saw is what it tells, though visits go on changing.
StartSweep(j) ==
    LET found == IF j = "upcoming" THEN Upcoming ELSE Overdue IN
    /\ job[j].pc = "due"
    /\ job' = [job EXCEPT ![j] = [pc |-> "running",
                                  todo |-> {[visit |-> v, at |-> visit[v].at] : v \in found}]]
    /\ UNCHANGED <<now, visit, notices, missed, changes, since, rung, again>>

\* emit: createMany with skipDuplicates.
Emit(j, f) ==
    LET key == KeyOf(j, f.visit, f.at)
        new == key \notin Stored
    IN  /\ job[j].pc = "running" /\ f \in job[j].todo
        /\ job' = [job EXCEPT ![j].todo = @ \ {f}]
        /\ notices' = IF new THEN notices \cup {[key |-> key, tells |-> f.at, readAt |-> Never]}
                             ELSE notices
        /\ again' = IF new /\ key \in rung THEN again \cup {key} ELSE again
        /\ rung' = rung \cup {key}
        /\ UNCHANGED <<now, visit, missed, changes, since>>

EndUpcoming ==
    /\ job["upcoming"].pc = "running" /\ job["upcoming"].todo = {}
    /\ job' = [job EXCEPT !["upcoming"].pc = "done"]
    /\ UNCHANGED <<now, visit, notices, missed, changes, since, rung, again>>

\* Mutant: every read notice goes.
Expired_AllRead(n) == n.readAt # Never

\* readAt: not null, lt cutoff
Expired(n) == n.readAt # Never /\ n.readAt + Retention < now

\* The daily job ends with purgeRead.
EndDaily ==
    /\ job["daily"].pc = "running" /\ job["daily"].todo = {}
    /\ job' = [job EXCEPT !["daily"].pc = "done"]
    /\ notices' = {n \in notices : ~Expired(n)}
    /\ UNCHANGED <<now, visit, missed, changes, since, rung, again>>

\* The process is down at the hour of the job, or a statement throws and with
\* it goes the rest of the run.
Miss(j) ==
    /\ job[j].pc # "done"
    /\ missed < MaxMissed
    /\ job' = [job EXCEPT ![j] = [pc |-> "done", todo |-> {}]]
    /\ missed' = missed + 1
    /\ UNCHANGED <<now, visit, notices, changes, since, rung, again>>
-----------------------------------------------------------------------------
\* markRead for one, markAllRead for all.
MarkRead(read) ==
    /\ \A n \in read : n.readAt = Never
    /\ notices' = (notices \ read) \cup {[n EXCEPT !.readAt = now] : n \in read}
    /\ UNCHANGED <<now, visit, job, missed, changes, since, rung, again>>

Tick ==
    /\ now < LastTick
    /\ Rested
    /\ now' = now + 1
    /\ job' = [j \in Jobs |-> IF now' % Period(j) = 0 THEN [job[j] EXCEPT !.pc = "due"] ELSE job[j]]
    /\ UNCHANGED <<visit, notices, missed, changes, since, rung, again>>

\* The clock of the model ends here.
Quiet == now = LastTick /\ Rested /\ UNCHANGED vars

Init ==
    /\ now = 0
    /\ visit = [v \in Visits |-> NoVisit]
    /\ notices = {}
    /\ job = [j \in Jobs |-> [pc |-> "done", todo |-> {}]]
    /\ missed = 0 /\ changes = 0
    /\ since = [v \in Visits |-> Never]
    /\ rung = {} /\ again = {}

ChangeVisit(v) ==
    \/ \E at \in Times : Schedule(v, at) \/ Reschedule(v, at)
    \/ Settle(v) \/ Remove(v)

RunJob(j) == StartSweep(j) \/ Miss(j) \/ \E f \in job[j].todo : Emit(j, f)

Read ==
    \/ \E n \in notices : MarkRead({n})
    \/ MarkRead({n \in notices : n.readAt = Never})

Next ==
    \/ \E v \in Visits : ChangeVisit(v)
    \/ \E j \in Jobs : RunJob(j)
    \/ EndUpcoming \/ EndDaily \/ Read \/ Tick \/ Quiet

Spec == Init /\ [][Next]_vars
-----------------------------------------------------------------------------
(***************************************************************************)
(* Properties                                                              *)
(***************************************************************************)
TypeOK ==
    /\ now \in Nat /\ missed \in Nat /\ changes \in Nat
    /\ visit \in [Visits -> VisitRow]
    /\ notices \subseteq NoticeRow
    /\ job \in [Jobs -> JobRow]
    /\ since \in [Visits -> Nat \cup {Never}]
    /\ rung \subseteq Keys /\ again \subseteq rung

\* "Debe ser mayor que el intervalo del cron o una visita puede caer entre dos
\* barridos y no avisarse": a visit that has had its time for long enough starts
\* with a notice of that time in the bell, whatever was moved or read before and
\* though runs are missed.
UpcomingIsTold ==
    \A v \in Open :
        Rested /\ visit[v].at = now /\ since[v] + (MaxMissed + 1) * Interval <= now =>
            \E n \in notices : /\ n.key.visit = v /\ n.key.type = "visita_proxima"
                               /\ n.tells = now

\* A visit is announced once for each time it is given, also when it is moved
\* back and forth or its notice was read and purged.
UpcomingToldOnce == \A v \in Visits, at \in Times : KeyOf("upcoming", v, at) \notin again

\* A visit nobody settles rings, unless it was already old when it was entered.
OverdueRings ==
    \A v \in Open :
        /\ Rested /\ since[v] <= visit[v].at
        /\ visit[v].at + (MaxMissed + 1) * Day <= now
        => KeyOf("daily", v, visit[v].at) \in rung
=============================================================================
