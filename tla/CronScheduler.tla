---------------------------- MODULE CronScheduler ----------------------------
(***************************************************************************)
(* The cron loop of the worker: a timer set for the next minute, a round   *)
(* that lists the jobs and starts those that are due at the instant the    *)
(* timer fired, and a goroutine for each run.  Rounds can take long (the   *)
(* query waits for the database), and the loop then catches up.            *)
(*                                                                         *)
(* Time is in ticks; Second is the shortest wait of the loop.  Of the five *)
(* units of a cron expression two are modelled, the minute and the day of  *)
(* the week: the others differ in their bounds only.                       *)
(***************************************************************************)
EXTENDS CronMatch, FiniteSets

CONSTANTS
  Jobs,            \* rows of cron_jobs, all of one site
  Schedules,       \* the expressions they may have
  MaxJobs,         \* MaxCronJobs of the plan
  MinutesPerDay, TicksPerMinute,
  Timeout,         \* of a run, in ticks
  Starts,          \* the minutes of the week in which the panel may start
  Horizon,         \* bound on the minutes looked at
  MaxChanges       \* bound on the changes to jobs, site and account

Second == 1

ASSUME SchedulesAssumption == \A expr \in Schedules : expr \in [1 .. 2 -> Seq(Part)]
ASSUME TimeAssumption ==
  /\ MinutesPerDay \in Nat \ {0} /\ TicksPerMinute \in Nat /\ TicksPerMinute > Second
  /\ Starts \subseteq Nat /\ Timeout \in Nat /\ Horizon \in Nat \ {0} /\ MaxChanges \in Nat /\ MaxJobs \in Nat

VARIABLES
  start,      \* the minute of the week the loop began in
  clock,      \* ticks since the beginning of that minute
  next,       \* the loop's `next`, a minute
  timer,      \* when the timer fires; 0 while a round runs
  now,        \* the instant the round works with
  schedule,   \* the rows of cron_jobs; <<>> is no row
  up,         \* the site is running and its account active
  runs,       \* goroutines with a row to update: the job, and when it began
  last,       \* last_run_at: when the run was started whose end was recorded
  rounds,     \* for the properties: the minutes in which rounds began
  launched,   \* likewise: for each job, its launches by minute
  late,       \* likewise: a round found no time, or no jobs
  steady,     \* likewise: jobs that could run all along
  changes

loop == <<next, timer, now, rounds, launched, late>>
rows == <<schedule, up, steady, changes>>
vars == <<start, clock, loop, rows, runs, last>>

Minutes == 0 .. Horizon
MinuteOf(t) == t \div TicksPerMinute
TimeOf(m) == m * TicksPerMinute

Units == << [min |-> 0, max |-> MinutesPerDay - 1], [min |-> 0, max |-> 6] >>

\* The fields of the instant t.
Instant(t) ==
  LET m == start + MinuteOf(t)
  IN  <<m % MinutesPerDay, (m \div MinutesPerDay) % 7>>

TypeOK ==
  /\ start \in Starts /\ clock \in 0 .. TimeOf(Horizon)
  /\ next \in 1 .. Horizon + 1 /\ timer \in 0 .. TimeOf(Horizon + 1)
  /\ now \in 0 .. TimeOf(Horizon)
  /\ schedule \in [Jobs -> Schedules \cup {<<>>}]
  /\ up \in BOOLEAN /\ late \in BOOLEAN /\ steady \in SUBSET Jobs
  /\ runs \in SUBSET [job : Jobs, at : 0 .. clock]
  /\ last \in [Jobs -> -1 .. clock]
  /\ rounds \in Seq(Minutes)
  /\ launched \in [Jobs -> [Minutes -> Nat]]
  /\ \A j \in Jobs : schedule[j] = <<>> => last[j] = -1
  /\ changes \in 0 .. MaxChanges

\* The loop begins somewhere in a minute and waits for the next one.
Init ==
  /\ start \in Starts /\ clock \in 0 .. TicksPerMinute - 1
  /\ next = 1 /\ timer = TimeOf(next) /\ now = 0
  /\ schedule \in [Jobs -> Schedules \cup {<<>>}]
  /\ Cardinality({j \in Jobs : schedule[j] # <<>>}) <= MaxJobs
  /\ up = TRUE
  /\ steady = {j \in Jobs : schedule[j] # <<>>}
  /\ runs = {} /\ last = [j \in Jobs |-> -1]
  /\ rounds = <<>>
  /\ launched = [j \in Jobs |-> [m \in Minutes |-> 0]]
  /\ late = FALSE /\ changes = 0

Waiting == timer # 0

\* Time passes; a timer that is due fires first.
Tick ==
  /\ clock < TimeOf(Horizon)
  /\ Waiting => clock < timer
  /\ clock' = clock + 1
  /\ UNCHANGED <<start, loop, rows, runs, last>>

\* The timer fires and a round begins, with that instant.
Fire ==
  /\ Waiting /\ timer <= clock
  /\ now' = clock /\ timer' = 0
  /\ rounds' = Append(rounds, MinuteOf(clock))
  /\ UNCHANGED <<start, clock, next, launched, late, rows, runs, last>>

\* ListActiveCron, runDueJobs and the goroutines they start.
DueNow(j) ==
  /\ schedule[j] # <<>> /\ up
  /\ Matches(schedule[j], Instant(now), Units) = "yes"

\* Mutant: without waiting for the next minute.
Mutant_RearmSecond ==
  /\ next' = next + 1
  /\ timer' = clock + Second

\* The next minute, or a second from now when that has already begun.
Rearm ==
  /\ next' = next + 1
  /\ timer' = IF clock < TimeOf(next + 1) THEN TimeOf(next + 1) ELSE clock + Second

Round ==
  /\ ~Waiting
  /\ runs' = runs \cup {[job |-> j, at |-> clock] : j \in {j \in Jobs : DueNow(j)}}
  /\ launched' = [j \in Jobs |->
                    IF DueNow(j) THEN [launched[j] EXCEPT ![MinuteOf(now)] = @ + 1]
                    ELSE launched[j]]
  /\ Rearm
  /\ late' = (late \/ clock >= TimeOf(next + 1))
  /\ UNCHANGED <<start, clock, now, rows, last, rounds>>

\* The query fails: nothing runs this minute.
RoundFails ==
  /\ ~Waiting
  /\ Rearm
  /\ late' = TRUE
  /\ UNCHANGED <<start, clock, now, rows, runs, last, rounds, launched>>

\* A command ends, or cannot be started.  The row is updated with the run's
\* own context: after its timeout, nothing is recorded.
RunEnds(run) ==
  /\ runs' = runs \ {run}
  /\ last' = IF clock < run.at + Timeout THEN [last EXCEPT ![run.job] = run.at] ELSE last
  /\ UNCHANGED <<start, clock, loop, rows>>

Change == changes < MaxChanges /\ changes' = changes + 1

\* handleCreateCron.  The expression has five fields, and that is all that is
\* looked at.  The count of the rows and the INSERT are two statements; here
\* they are one step, for no property is about the number of jobs.
CreateCron(j, s) ==
  /\ Change
  /\ schedule[j] = <<>> /\ Cardinality({i \in Jobs : schedule[i] # <<>>}) < MaxJobs
  /\ schedule' = [schedule EXCEPT ![j] = s]
  /\ UNCHANGED <<start, clock, loop, runs, last, up, steady>>

\* Mutant: what runs is still to be recorded.
Mutant_DeleteCron(j) ==
  /\ Change
  /\ schedule[j] # <<>>
  /\ schedule' = [schedule EXCEPT ![j] = <<>>]
  /\ last' = [last EXCEPT ![j] = -1]
  /\ steady' = steady \ {j}
  /\ UNCHANGED <<start, clock, loop, runs, up>>

\* handleDeleteCron.  What runs goes on, and finds no row to update.
DeleteCron(j) ==
  /\ Change
  /\ schedule[j] # <<>>
  /\ schedule' = [schedule EXCEPT ![j] = <<>>]
  /\ last' = [last EXCEPT ![j] = -1]
  /\ steady' = steady \ {j}
  /\ runs' = {run \in runs : run.job # j}
  /\ UNCHANGED <<start, clock, loop, up>>

\* The site is stopped or its account suspended, and the other way round.
SiteChanges ==
  /\ Change
  /\ up' = ~up /\ steady' = {}
  /\ UNCHANGED <<start, clock, loop, runs, last, schedule>>

Next ==
  \/ Tick \/ Fire \/ Round \/ RoundFails \/ SiteChanges
  \/ \E run \in runs : RunEnds(run)
  \/ \E j \in Jobs : DeleteCron(j) \/ \E s \in Schedules : CreateCron(j, s)

Spec == Init /\ [][Next]_vars

-----------------------------------------------------------------------------
(* Properties.                                                             *)

\* A minute is over when the loop has nothing more to do in it.
Over(m) == m >= 1 /\ m < next /\ MinuteOf(clock) > m

\* "Despierta al inicio de cada minuto y lanza las tareas que tocan": as long
\* as each round is over within its minute, a job that is there all along
\* and whose expression is right is started once in every minute it stands
\* for, and in no other.
OncePerDueMinute ==
  ~late =>
    \A j \in steady, m \in Minutes :
      Over(m) /\ ValidExpr(schedule[j], Units) =>
        launched[j][m] = IF Due(schedule[j], Instant(TimeOf(m)), Units) THEN 1 ELSE 0

\* Catching up never runs ahead: up to any minute there were no more rounds
\* than minutes, so a minute that is worked twice pays for one left out.
NoMoreRoundsThanMinutes ==
  \A m \in Minutes : Cardinality({i \in DOMAIN rounds : rounds[i] <= m}) <= m

-----------------------------------------------------------------------------
(* What makes the properties inductive.                                    *)

\* The nth round is for the nth minute and never before it; the timer never
\* fires late.
LoopInv ==
  /\ IF Waiting THEN TimeOf(next) <= timer /\ clock <= timer
                ELSE TimeOf(next) <= now /\ now <= clock
  /\ Len(rounds) = IF Waiting THEN next - 1 ELSE next
  /\ \A i \in DOMAIN rounds : i <= rounds[i]

\* As long as no round was late, the loop is at the minute it believes to be
\* in, and has done what is due up to it, and nothing else.
PlanInv ==
  ~late =>
    /\ (IF Waiting THEN timer ELSE now) = TimeOf(next)
    /\ \A j \in steady, m \in Minutes :
         /\ m = 0 \/ m >= next => launched[j][m] = 0
         /\ m \in 1 .. next - 1 /\ ValidExpr(schedule[j], Units) =>
              launched[j][m] = IF Due(schedule[j], Instant(TimeOf(m)), Units) THEN 1 ELSE 0

\* Jobs that could run all along can run, and what runs has a row to update.
RowsInv ==
  /\ \A j \in steady : up /\ schedule[j] # <<>>
  /\ \A run \in runs : schedule[run.job] # <<>>

IInv == TypeOK /\ LoopInv /\ PlanInv /\ RowsInv

=============================================================================
