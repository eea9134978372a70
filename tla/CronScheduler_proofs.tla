------------------------ MODULE CronScheduler_proofs ------------------------
(***************************************************************************)
(* Proofs about CronMatch and CronScheduler, for any jobs, expressions     *)
(* with two fields, length of a day and of a minute, and any bounds.       *)
(***************************************************************************)
EXTENDS CronScheduler, TLAPS, FiniteSetTheorems, WellFoundedInduction

-----------------------------------------------------------------------------
(* The matcher: on an expression whose parts all denote something, Matches  *)
(* says "yes" exactly at the instants the crontab stands for.               *)

Unit == [min : Int, max : Int]

LEMMA LeastExists ==
  ASSUME NEW S \in SUBSET Nat, S # {}
  PROVE  \E i \in S : \A k \in S : i <= k
<1>1. PICK i \in S : \A k \in S : ~(<<k, i>> \in OpToRel(<, Nat))
  BY WFMin, NatLessThanWellFounded
<1>2. ASSUME NEW k \in S PROVE i <= k
  <2>1. k \in Nat /\ i \in Nat /\ <<k, i>> \notin OpToRel(<, Nat)
    BY <1>1, <1>2
  <2>2. k < i => <<k, i>> \in OpToRel(<, Nat)
    BY <2>1 DEF OpToRel
  <2>3. ~(k < i)
    BY <2>1, <2>2, Zenon
  <2>4. k \in Nat /\ i \in Nat
    BY <2>1
  <2> QED
    BY <2>3, <2>4
<1> QED
  BY <1>2

\* The answer that stops the loop is one of the answers given.
LEMMA FirstNotFacts ==
  ASSUME NEW n \in Nat, NEW answers, DOMAIN answers = 1 .. n, NEW otherwise
  PROVE  \/ FirstNot(otherwise, answers) = otherwise /\ \A i \in 1 .. n : answers[i] = otherwise
         \/ \E i \in 1 .. n : /\ answers[i] # otherwise
                              /\ FirstNot(otherwise, answers) = answers[i]
<1> DEFINE stop == {i \in 1 .. n : answers[i] # otherwise}
           first == CHOOSE i \in stop : \A k \in stop : i <= k
<1>1. FirstNot(otherwise, answers) = IF stop = {} THEN otherwise ELSE answers[first]
  BY DEF FirstNot
<1>2. CASE stop = {}
  BY <1>1, <1>2
<1>3. CASE stop # {}
  <2>1. \E i \in stop : \A k \in stop : i <= k
    <3>1. stop \in SUBSET Nat
      OBVIOUS
    <3> HIDE DEF stop
    <3> QED
      BY <1>3, <3>1, LeastExists
  <2>2. first \in stop
    BY <2>1
  <2> QED
    BY <1>1, <1>3, <2>2
<1> QED
  BY <1>2, <1>3

LEMMA AllAreYes ==
  ASSUME NEW n \in Nat, NEW answers, DOMAIN answers = 1 .. n
  PROVE  (FirstNot("yes", answers) = "yes") <=> \A i \in 1 .. n : answers[i] = "yes"
<1>1. \/ FirstNot("yes", answers) = "yes" /\ \A i \in 1 .. n : answers[i] = "yes"
      \/ \E i \in 1 .. n : answers[i] # "yes" /\ FirstNot("yes", answers) = answers[i]
  BY FirstNotFacts
<1> QED
  BY <1>1

LEMMA Stepping ==
  ASSUME NEW part \in Part, part.step >= 1, NEW from \in Int, NEW v \in Int, from <= v
  PROVE  Steps(part, from, v) <=> (v - from) % part.step = 0
<1> DEFINE s == part.step
           w == v - from
<1>1. s \in Nat /\ s >= 1 /\ w \in Nat
  BY DEF Part
<1> HIDE DEF s, w
<1>2. w % s = 0 => \E k \in 0 .. w : w = k * s
  <2>1. w \div s \in Nat
    BY <1>1
  <2>2. w % s = 0 => w = s * (w \div s)
    BY <1>1
  <2>3. ASSUME NEW k \in Nat, w = s * k PROVE k <= w /\ w = k * s
    BY <1>1, <2>3
  <2> QED
    BY <1>1, <2>1, <2>2, <2>3
<1>3. ASSUME NEW k \in 0 .. w, w = k * s PROVE w % s = 0
  BY <1>1, <1>3
<1>4. w = v - from /\ s = part.step
  BY DEF w, s
<1>5. Steps(part, from, v) <=> \E k \in 0 .. w : w = k * s
  <2>1. \A k \in 0 .. w : k * s \in Int /\ (v = from + k * s <=> w = k * s)
    BY <1>1, <1>4
  <2> QED
    BY <1>4, <2>1 DEF Steps
<1> QED
  BY <1>2, <1>3, <1>4, <1>5

LEMMA PartFacts ==
  ASSUME NEW part \in Part, NEW unit \in Unit, NEW v \in Int, Denoted(part, unit) # {},
         unit.min <= v, v <= unit.max
  PROVE  /\ PartMatches(part, v, unit) \in {"yes", "no"}
         /\ PartMatches(part, v, unit) = "yes" <=> v \in Denoted(part, unit)
<1> DEFINE lo == From(part, unit)
           hi == To(part, unit)
<1>1. /\ part.from \in Int /\ part.to \in Int /\ part.step \in Int
      /\ part.kind \in {"star", "value", "range", "junk"}
      /\ unit.min \in Int /\ unit.max \in Int
  BY DEF Part, Unit
<1>2. PICK x \in unit.min .. unit.max : x \in Denoted(part, unit)
  BY DEF Denoted
<1>3. part.step >= 1 /\ part.kind # "junk"
  BY <1>2 DEF Denoted
<1>4. /\ lo \in Int /\ hi \in Int
      /\ unit.min <= lo /\ lo <= hi /\ hi <= unit.max
      /\ v \in Denoted(part, unit) <=> lo <= v /\ v <= hi /\ Steps(part, lo, v)
  <2>1. CASE part.kind = "star"
    BY <1>1, <1>2, <1>3, <2>1 DEF Denoted, From, To
  <2>2. CASE part.kind = "range"
    <3>1. lo = part.from /\ hi = part.to
      BY <2>2 DEF From, To
    <3>2. \A y \in Int : Steps(part, lo, y) => lo <= y
      BY <1>1, <3>1 DEF Steps
    <3> QED
      BY <1>1, <1>2, <1>3, <2>2, <3>1, <3>2 DEF Denoted
  <2>3. CASE part.kind = "value"
    <3>1. hi = lo /\ lo = IF unit.max = 6 /\ part.from = 7 THEN 0 ELSE part.from
      BY <2>3 DEF From, To
    <3>2. \A y \in Int : lo <= y /\ y <= hi /\ Steps(part, lo, y) <=> y = lo
      <4>1. Steps(part, lo, lo)
        BY <1>1, <3>1 DEF Steps
      <4> QED
        BY <1>1, <3>1, <4>1
    <3>3. \A y \in unit.min .. unit.max : y \in Denoted(part, unit) <=> y = lo
      BY <1>1, <1>3, <2>3, <3>1 DEF Denoted
    <3> QED
      BY <1>1, <1>2, <3>1, <3>2, <3>3
  <2> QED
    BY <1>1, <1>3, <2>1, <2>2, <2>3
<1>5. ValidPart(part, unit)
  BY <1>1, <1>3, <1>4 DEF ValidPart
<1> HIDE DEF lo, hi
<1>6. PartMatches(part, v, unit) =
        IF lo <= v /\ v <= hi /\ (v - lo) % part.step = 0 THEN "yes" ELSE "no"
  BY <1>4, <1>5 DEF PartMatches, lo, hi
<1>7. lo <= v => (Steps(part, lo, v) <=> (v - lo) % part.step = 0)
  BY <1>3, <1>4, Stepping
<1> QED
  BY <1>4, <1>6, <1>7

\* A field is due when a part of it is, an instant when all of its fields are.
LEMMA FieldFacts ==
  ASSUME NEW field \in Seq(Part), NEW unit \in Unit, NEW v \in Int,
         unit.min <= v, v <= unit.max,
         \A k \in DOMAIN field : Denoted(field[k], unit) # {}
  PROVE  (FieldMatches(field, v, unit) = "yes") <=>
           (\E part \in ToSet(field) : v \in Denoted(part, unit))
<1> DEFINE n == Len(field)
           answers == [k \in DOMAIN field |-> PartMatches(field[k], v, unit)]
<1>1. n \in Nat /\ DOMAIN field = 1 .. n /\ DOMAIN answers = 1 .. n
  OBVIOUS
<1>2. ASSUME NEW k \in 1 .. n
      PROVE  /\ answers[k] \in {"yes", "no"}
             /\ answers[k] = "yes" <=> v \in Denoted(field[k], unit)
  <2>1. field[k] \in Part /\ Denoted(field[k], unit) # {}
    BY <1>1
  <2>2. answers[k] = PartMatches(field[k], v, unit)
    BY <1>1
  <2> HIDE DEF answers
  <2> QED
    BY <2>1, <2>2, PartFacts
<1>3. FieldMatches(field, v, unit) = FirstNot("no", answers)
  BY DEF FieldMatches
<1> HIDE DEF answers
<1>4. (FirstNot("no", answers) = "yes") <=> \E k \in 1 .. n : answers[k] = "yes"
  <2>1. \/ FirstNot("no", answers) = "no" /\ \A k \in 1 .. n : answers[k] = "no"
        \/ \E k \in 1 .. n : answers[k] # "no" /\ FirstNot("no", answers) = answers[k]
    BY <1>1, FirstNotFacts
  <2> QED
    BY <1>2, <2>1
<1>5. ToSet(field) = {field[k] : k \in 1 .. n}
  BY <1>1 DEF ToSet
<1> QED
  BY <1>2, <1>3, <1>4, <1>5

\* cron.go against the crontab: for an expression whose parts all denote
\* something, Matches says "yes" exactly at the instants it stands for.
THEOREM MatchesWhenDue ==
  ASSUME NEW n \in Nat, NEW units \in [1 .. n -> Unit], NEW expr \in [1 .. n -> Seq(Part)],
         NEW instant \in [1 .. n -> Int],
         \A i \in 1 .. n : units[i].min <= instant[i] /\ instant[i] <= units[i].max,
         ValidExpr(expr, units)
  PROVE  (Matches(expr, instant, units) = "yes") <=> Due(expr, instant, units)
<1> DEFINE answers == [i \in DOMAIN units |-> FieldMatches(expr[i], instant[i], units[i])]
<1>1. DOMAIN units = 1 .. n /\ DOMAIN answers = 1 .. n
  OBVIOUS
<1>2. ASSUME NEW i \in 1 .. n
      PROVE  (answers[i] = "yes") <=>
               (\E part \in ToSet(expr[i]) : instant[i] \in Denoted(part, units[i]))
  <2>1. /\ expr[i] \in Seq(Part) /\ units[i] \in Unit /\ instant[i] \in Int
        /\ units[i].min <= instant[i] /\ instant[i] <= units[i].max
        /\ \A k \in DOMAIN expr[i] : Denoted(expr[i][k], units[i]) # {}
    BY <1>1 DEF ValidExpr
  <2>2. answers[i] = FieldMatches(expr[i], instant[i], units[i])
    BY <1>1
  <2> HIDE DEF answers
  <2> QED
    BY <2>1, <2>2, FieldFacts
<1>3. Matches(expr, instant, units) = FirstNot("yes", answers)
  BY DEF Matches
<1> HIDE DEF answers
<1>4. (FirstNot("yes", answers) = "yes") <=> \A i \in 1 .. n : answers[i] = "yes"
  BY <1>1, AllAreYes
<1> QED
  BY <1>1, <1>2, <1>3, <1>4 DEF Due

-----------------------------------------------------------------------------
(* Minutes and ticks, and the instants the matcher is asked about.         *)

LEMMA TimeFacts ==
  /\ TicksPerMinute \in Nat /\ TicksPerMinute > 1 /\ Horizon \in Nat /\ Horizon >= 1
  /\ \A m \in Nat : TimeOf(m) \in Nat /\ TimeOf(m + 1) = TimeOf(m) + TicksPerMinute
  /\ TimeOf(0) = 0 /\ TimeOf(1) = TicksPerMinute
BY TimeAssumption DEF TimeOf, Second

LEMMA TimeOrder ==
  ASSUME NEW m \in Nat, NEW h \in Nat
  PROVE  /\ m <= h <=> TimeOf(m) <= TimeOf(h)
         /\ m <= h => TimeOf(h) = TimeOf(m) + (h - m) * TicksPerMinute
<1> DEFINE T == TicksPerMinute
<1>1. T \in Nat /\ T > 1
  BY TimeFacts
<1>2. TimeOf(m) = m * T /\ TimeOf(h) = h * T
  BY DEF TimeOf
<1> HIDE DEF T
<1>3. m <= h => m * T <= h * T
  BY <1>1
<1>4. m > h => m * T >= h * T + T
  <2>1. ASSUME m >= h + 1 PROVE m * T >= (h + 1) * T
    BY <1>1, <2>1
  <2>2. (h + 1) * T = h * T + T
    BY <1>1
  <2>3. m * T \in Nat /\ h * T \in Nat
    BY <1>1
  <2> QED
    BY <1>1, <2>1, <2>2, <2>3
<1>5. h * T = m * T + (h - m) * T
  BY <1>1
<1>6. m * T \in Nat /\ h * T \in Nat
  BY <1>1
<1> QED
  BY <1>1, <1>2, <1>3, <1>4, <1>5, <1>6 DEF T

LEMMA MinuteFacts ==
  ASSUME NEW t \in Nat
  PROVE  /\ MinuteOf(t) \in Nat
         /\ \A m \in Nat : /\ TimeOf(m) <= t => m <= MinuteOf(t)
                           /\ t <= TimeOf(m) => MinuteOf(t) <= m
<1>1. TicksPerMinute \in Nat /\ TicksPerMinute > 0
  BY TimeFacts
<1>2. MinuteOf(t) \in Nat
  BY <1>1 DEF MinuteOf
<1>3. ASSUME NEW m \in Nat, TimeOf(m) <= t PROVE m <= MinuteOf(t)
  BY <1>1, <1>3 DEF MinuteOf, TimeOf
<1>4. ASSUME NEW m \in Nat, t <= TimeOf(m) PROVE MinuteOf(t) <= m
  BY <1>1, <1>4 DEF MinuteOf, TimeOf
<1> QED
  BY <1>2, <1>3, <1>4

LEMMA DueAtInstant ==
  ASSUME NEW expr \in Schedules, start \in Nat, NEW t \in Nat, ValidExpr(expr, Units)
  PROVE  (Matches(expr, Instant(t), Units) = "yes") <=> Due(expr, Instant(t), Units)
<1> DEFINE m == start + MinuteOf(t)
           D == MinutesPerDay
<1>1. m \in Nat /\ D \in Nat /\ D > 0
  BY MinuteFacts, TimeAssumption
<1>2. Instant(t) = <<m % D, (m \div D) % 7>>
  BY DEF Instant
<1> HIDE DEF m, D
<1>3. m % D \in 0 .. D - 1 /\ (m \div D) % 7 \in 0 .. 6
  <2>1. m \div D \in Nat
    BY <1>1
  <2> QED
    BY <1>1, <2>1
<1>4. Instant(t) \in [1 .. 2 -> Int]
  BY <1>2, <1>3
<1>5. Units = <<[min |-> 0, max |-> D - 1], [min |-> 0, max |-> 6]>>
  BY DEF Units, D
<1>6. Units \in [1 .. 2 -> Unit]
  BY <1>1, <1>5 DEF Unit
<1>7. \A i \in 1 .. 2 : Units[i].min <= Instant(t)[i] /\ Instant(t)[i] <= Units[i].max
  BY <1>1, <1>2, <1>3, <1>5
<1>8. expr \in [1 .. 2 -> Seq(Part)]
  BY SchedulesAssumption
<1> QED
  BY <1>4, <1>6, <1>7, <1>8, MatchesWhenDue

LEMMA SchedulesNotEmpty ==
  \A s \in Schedules : s # <<>>
<1> SUFFICES ASSUME NEW s \in Schedules PROVE s # <<>>
  OBVIOUS
<1>1. DOMAIN s = 1 .. 2 /\ DOMAIN <<>> = {}
  BY SchedulesAssumption
<1> QED
  BY <1>1

-----------------------------------------------------------------------------
(* The loop, its plan and its rows.                                        *)

LEMMA LoopInit == Init => IInv
<1> SUFFICES ASSUME Init PROVE IInv
  OBVIOUS
<1>1. /\ start \in Starts /\ clock \in 0 .. TicksPerMinute - 1
      /\ next = 1 /\ timer = TicksPerMinute /\ now = 0
      /\ schedule \in [Jobs -> Schedules \cup {<<>>}]
      /\ up = TRUE /\ steady = {j \in Jobs : schedule[j] # <<>>}
      /\ runs = {} /\ last = [j \in Jobs |-> -1] /\ rounds = <<>>
      /\ launched = [j \in Jobs |-> [m \in Minutes |-> 0]]
      /\ late = FALSE /\ changes = 0
  BY TimeFacts DEF Init
<1>2. TimeOf(Horizon) \in Nat /\ TicksPerMinute <= TimeOf(Horizon)
      /\ TimeOf(Horizon + 1) = TimeOf(Horizon) + TicksPerMinute
  BY TimeFacts, TimeOrder
<1>3. TypeOK
  <2>1. /\ start \in Starts /\ clock \in 0 .. TimeOf(Horizon)
        /\ next \in 1 .. Horizon + 1 /\ timer \in 0 .. TimeOf(Horizon + 1)
        /\ now \in 0 .. TimeOf(Horizon) /\ changes \in 0 .. MaxChanges
        /\ rounds \in Seq(Minutes)
    <3>1. TicksPerMinute \in Nat /\ TicksPerMinute > 1 /\ Horizon \in Nat /\ Horizon >= 1
      BY TimeFacts
    <3>2. clock \in 0 .. TimeOf(Horizon) /\ timer \in 0 .. TimeOf(Horizon + 1)
      BY <1>1, <1>2, <3>1
    <3>3. now \in 0 .. TimeOf(Horizon) /\ next \in 1 .. Horizon + 1
      BY <1>1, <1>2, <3>1
    <3>4. changes \in 0 .. MaxChanges /\ rounds \in Seq(Minutes)
      BY <1>1, TimeAssumption
    <3> QED
      BY <1>1, <3>2, <3>3, <3>4
  <2>2. /\ launched \in [Jobs -> [Minutes -> Nat]]
        /\ last \in [Jobs -> -1 .. clock]
        /\ \A j \in Jobs : last[j] = -1
    BY <1>1, TimeFacts
  <2>3. runs \in SUBSET [job : Jobs, at : 0 .. clock] /\ steady \in SUBSET Jobs
        /\ up \in BOOLEAN /\ late \in BOOLEAN
    BY <1>1
  <2> QED
    BY <1>1, <2>1, <2>2, <2>3 DEF TypeOK
<1>4. LoopInv
  <2>1. Waiting /\ TimeOf(next) = timer /\ timer \in Nat /\ clock \in Nat /\ clock <= timer
    BY <1>1, TimeFacts DEF Waiting
  <2>2. Len(rounds) = 0 /\ DOMAIN rounds = {} /\ next = 1
    BY <1>1
  <2> QED
    BY <2>1, <2>2 DEF LoopInv
<1>5. PlanInv
  BY <1>1, TimeFacts DEF PlanInv, Waiting, Minutes
<1>6. RowsInv
  BY <1>1 DEF RowsInv
<1> QED
  BY <1>3, <1>4, <1>5, <1>6 DEF IInv

\* What the loop does when a round is over: the next minute is planned.
LEMMA RearmFacts ==
  ASSUME TypeOK, LoopInv, ~Waiting, Rearm
  PROVE  /\ next \in 1 .. Horizon /\ next' = next + 1 /\ next' \in 1 .. Horizon + 1
         /\ timer' \in 0 .. TimeOf(Horizon + 1) /\ timer' # 0
         /\ TimeOf(next + 1) <= timer' /\ clock <= timer'
         /\ clock < TimeOf(next + 1) => timer' = TimeOf(next + 1)
<1>1. /\ next \in 1 .. Horizon + 1 /\ clock \in 0 .. TimeOf(Horizon) /\ clock \in Nat
      /\ TimeOf(next) <= now /\ now <= clock /\ now \in Nat
  BY TimeFacts DEF TypeOK, LoopInv
<1>2. next \in Nat /\ TimeOf(next) \in Nat /\ TimeOf(Horizon) \in Nat /\ Horizon \in Nat
  BY <1>1, TimeFacts
<1>3. next <= Horizon
  BY <1>1, <1>2, TimeOrder
<1>4. TimeOf(next + 1) = TimeOf(next) + TicksPerMinute
      /\ TimeOf(Horizon + 1) = TimeOf(Horizon) + TicksPerMinute
  BY <1>2, TimeFacts
<1>5. TimeOf(next) <= TimeOf(Horizon)
  BY <1>2, <1>3, TimeOrder
<1> QED
  BY <1>1, <1>2, <1>3, <1>4, <1>5, TimeFacts DEF Rearm, Second

LEMMA TypeStep == TypeOK /\ LoopInv /\ RowsInv /\ [Next]_vars => TypeOK'
<1> SUFFICES ASSUME TypeOK, LoopInv, RowsInv, [Next]_vars PROVE TypeOK'
  OBVIOUS
<1> USE DEF TypeOK
<1>1. CASE Tick
  <2>1. clock \in Nat /\ clock' = clock + 1 /\ clock' \in 0 .. TimeOf(Horizon)
    <3>1. TimeOf(Horizon) \in Nat
      BY TimeFacts
    <3> QED
      BY <1>1, <3>1 DEF Tick
  <2>2. 0 .. clock \subseteq 0 .. clock' /\ -1 .. clock \subseteq -1 .. clock'
    BY <2>1
  <2>3. runs' \in SUBSET [job : Jobs, at : 0 .. clock'] /\ last' \in [Jobs -> -1 .. clock']
    BY <1>1, <2>2 DEF Tick
  <2> QED
    BY <1>1, <2>1, <2>3 DEF Tick, loop, rows
<1>2. CASE Fire
  <2>1. clock \in Nat /\ TimeOf(Horizon) \in Nat /\ TimeOf(Horizon + 1) \in Nat
    BY TimeFacts
  <2>2. MinuteOf(clock) \in Minutes
    BY <2>1, TimeFacts, MinuteFacts DEF Minutes
  <2>3. rounds' \in Seq(Minutes)
    BY <1>2, <2>2 DEF Fire
  <2>4. now' \in 0 .. TimeOf(Horizon) /\ timer' \in 0 .. TimeOf(Horizon + 1)
    BY <1>2, <2>1 DEF Fire
  <2> QED
    BY <1>2, <2>3, <2>4 DEF Fire, rows
<1>3. CASE Round
  <2>1. next' \in 1 .. Horizon + 1 /\ timer' \in 0 .. TimeOf(Horizon + 1)
    BY <1>3, RearmFacts DEF Round
  <2>2. runs' \in SUBSET [job : Jobs, at : 0 .. clock]
    <3>1. clock \in 0 .. clock
      BY TimeFacts
    <3> QED
      BY <1>3, <3>1 DEF Round
  <2>3. launched' \in [Jobs -> [Minutes -> Nat]]
    <3>1. ASSUME NEW j \in Jobs
          PROVE  [launched[j] EXCEPT ![MinuteOf(now)] = @ + 1] \in [Minutes -> Nat]
      <4>1. launched[j] \in [Minutes -> Nat]
        OBVIOUS
      <4>2. now \in Nat /\ now <= TimeOf(Horizon)
        BY TimeFacts
      <4>3. MinuteOf(now) \in Minutes
        BY <4>2, TimeFacts, MinuteFacts DEF Minutes
      <4> QED
        BY <4>1, <4>3
    <3>2. launched' = [j \in Jobs |->
                         IF DueNow(j) THEN [launched[j] EXCEPT ![MinuteOf(now)] = @ + 1]
                         ELSE launched[j]]
      BY <1>3 DEF Round
    <3> QED
      BY <3>1, <3>2
  <2>4. late' \in BOOLEAN
    BY <1>3 DEF Round
  <2> QED
    BY <1>3, <2>1, <2>2, <2>3, <2>4 DEF Round, rows
<1>4. CASE RoundFails
  <2>1. next' \in 1 .. Horizon + 1 /\ timer' \in 0 .. TimeOf(Horizon + 1)
    BY <1>4, RearmFacts DEF RoundFails
  <2> QED
    BY <1>4, <2>1 DEF RoundFails, rows
<1>5. ASSUME NEW run \in runs, RunEnds(run) PROVE TypeOK'
  <2>1. run.job \in Jobs /\ run.at \in 0 .. clock /\ schedule[run.job] # <<>>
    BY DEF RowsInv
  <2>2. run.at \in -1 .. clock
    <3>1. TimeOf(Horizon) \in Nat
      BY TimeFacts
    <3>2. clock \in Nat
      BY <3>1
    <3> HIDE DEF TypeOK
    <3> QED
      BY <2>1, <3>2
  <2>3. /\ last' \in [Jobs -> -1 .. clock]
        /\ \A j \in Jobs : schedule[j] = <<>> => last'[j] = -1
    BY <1>5, <2>1, <2>2 DEF RunEnds
  <2> QED
    BY <1>5, <2>3 DEF RunEnds, loop, rows
<1>6. ASSUME NEW j \in Jobs, NEW s \in Schedules, CreateCron(j, s) PROVE TypeOK'
  <2>1. changes' \in 0 .. MaxChanges
    BY <1>6, TimeAssumption DEF CreateCron, Change
  <2>2. schedule' \in [Jobs -> Schedules \cup {<<>>}]
        /\ \A i \in Jobs : schedule'[i] = <<>> => schedule[i] = <<>>
    BY <1>6, SchedulesNotEmpty DEF CreateCron
  <2> QED
    BY <1>6, <2>1, <2>2 DEF CreateCron, loop
<1>7. ASSUME NEW j \in Jobs, DeleteCron(j) PROVE TypeOK'
  <2>1. changes' \in 0 .. MaxChanges
    BY <1>7, TimeAssumption DEF DeleteCron, Change
  <2>2. -1 \in -1 .. clock
    BY TimeFacts
  <2>3. /\ schedule' \in [Jobs -> Schedules \cup {<<>>}]
        /\ last' \in [Jobs -> -1 .. clock]
        /\ \A i \in Jobs : schedule'[i] = <<>> => last'[i] = -1
    BY <1>7, <2>2 DEF DeleteCron
  <2>4. runs' \in SUBSET [job : Jobs, at : 0 .. clock] /\ steady' \in SUBSET Jobs
    BY <1>7 DEF DeleteCron
  <2> QED
    BY <1>7, <2>1, <2>3, <2>4 DEF DeleteCron, loop
<1>8. CASE SiteChanges
  <2>1. changes' \in 0 .. MaxChanges
    BY <1>8, TimeAssumption DEF SiteChanges, Change
  <2> QED
    BY <1>8, <2>1 DEF SiteChanges, loop
<1>9. CASE UNCHANGED vars
  BY <1>9 DEF vars, loop, rows
<1> QED
  BY <1>1, <1>2, <1>3, <1>4, <1>5, <1>6, <1>7, <1>8, <1>9 DEF Next

LEMMA LoopStep == TypeOK /\ LoopInv /\ [Next]_vars => LoopInv'
<1> SUFFICES ASSUME TypeOK, LoopInv, [Next]_vars PROVE LoopInv'
  OBVIOUS
<1>0. /\ clock \in Nat /\ now \in Nat /\ timer \in Nat /\ next \in Nat
      /\ rounds \in Seq(Minutes) /\ Len(rounds) \in Nat /\ DOMAIN rounds = 1 .. Len(rounds)
  BY TimeFacts DEF TypeOK
<1>1. CASE Tick
  <2>1. clock' = clock + 1 /\ next' = next /\ timer' = timer /\ now' = now /\ rounds' = rounds
        /\ (Waiting => clock < timer)
    BY <1>1 DEF Tick, loop
  <2>2. TimeOf(next) \in Nat
    BY <1>0, TimeFacts
  <2> QED
    BY <1>0, <2>1, <2>2 DEF LoopInv, Waiting, TimeOf
<1>2. CASE Fire
  <2>1. /\ timer # 0 /\ clock = timer /\ TimeOf(next) <= clock /\ Len(rounds) = next - 1
        /\ now' = clock /\ timer' = 0 /\ next' = next /\ clock' = clock
        /\ rounds' = Append(rounds, MinuteOf(clock))
    BY <1>0, <1>2 DEF Fire, Waiting, LoopInv
  <2>2. next <= MinuteOf(clock) /\ MinuteOf(clock) \in Nat
    BY <1>0, <2>1, MinuteFacts
  <2>3. Len(rounds') = next /\ DOMAIN rounds' = 1 .. next
    BY <1>0, <2>1
  <2>4. \A i \in 1 .. next : i <= rounds'[i]
    <3>1. \A i \in 1 .. next - 1 : rounds'[i] = rounds[i] /\ i <= rounds[i]
      BY <1>0, <2>1 DEF LoopInv
    <3>2. rounds'[next] = MinuteOf(clock)
      BY <1>0, <2>1
    <3> QED
      BY <1>0, <2>2, <3>1, <3>2
  <2> QED
    BY <1>0, <2>1, <2>3, <2>4 DEF LoopInv, Waiting, TimeOf
<1>3. CASE Round \/ RoundFails
  <2>1. ~Waiting /\ Rearm /\ clock' = clock /\ now' = now /\ rounds' = rounds
    BY <1>3 DEF Round, RoundFails
  <2>2. next' = next + 1 /\ timer' # 0 /\ TimeOf(next + 1) <= timer' /\ clock <= timer'
    BY <2>1, RearmFacts
  <2> QED
    BY <1>0, <2>1, <2>2 DEF LoopInv, Waiting, TimeOf
<1>4. CASE UNCHANGED <<clock, loop>>
  BY <1>4 DEF loop, LoopInv, Waiting, TimeOf
<1>5. ASSUME NEW run \in runs, RunEnds(run) PROVE UNCHANGED <<clock, loop>>
  BY <1>5 DEF RunEnds
<1>6. ASSUME NEW j \in Jobs, NEW s \in Schedules, CreateCron(j, s)
      PROVE  UNCHANGED <<clock, loop>>
  BY <1>6 DEF CreateCron
<1>7. ASSUME NEW j \in Jobs, DeleteCron(j) PROVE UNCHANGED <<clock, loop>>
  BY <1>7 DEF DeleteCron
<1>8. SiteChanges \/ UNCHANGED vars => UNCHANGED <<clock, loop>>
  BY DEF SiteChanges, vars
<1> QED
  BY <1>1, <1>2, <1>3, <1>4, <1>5, <1>6, <1>7, <1>8 DEF Next

LEMMA RowsStep == TypeOK /\ RowsInv /\ [Next]_vars => RowsInv'
<1> SUFFICES ASSUME TypeOK, RowsInv, [Next]_vars PROVE RowsInv'
  OBVIOUS
<1> USE DEF RowsInv
<1>1. CASE Tick \/ Fire \/ RoundFails
  BY <1>1 DEF Tick, Fire, RoundFails, rows
<1>2. CASE Round
  <2>1. \A run \in runs' : run \in runs \/ \E j \in Jobs : DueNow(j) /\ run.job = j
    BY <1>2 DEF Round
  <2>2. schedule' = schedule /\ up' = up /\ steady' = steady
    BY <1>2 DEF Round, rows
  <2> QED
    BY <2>1, <2>2 DEF DueNow
<1>3. ASSUME NEW run \in runs, RunEnds(run) PROVE RowsInv'
  BY <1>3 DEF RunEnds, rows
<1>4. ASSUME NEW j \in Jobs, NEW s \in Schedules, CreateCron(j, s) PROVE RowsInv'
  <2>1. \A i \in Jobs : schedule[i] # <<>> => schedule'[i] # <<>>
    BY <1>4, SchedulesNotEmpty DEF CreateCron, TypeOK
  <2>2. up' = up /\ steady' = steady /\ runs' = runs
    BY <1>4 DEF CreateCron
  <2>3. steady \subseteq Jobs /\ \A run \in runs : run.job \in Jobs
    BY DEF TypeOK
  <2> QED
    BY <2>1, <2>2, <2>3
<1>5. ASSUME NEW j \in Jobs, DeleteCron(j) PROVE RowsInv'
  <2>1. \A i \in Jobs \ {j} : schedule'[i] = schedule[i]
    BY <1>5 DEF DeleteCron, TypeOK
  <2>2. /\ up' = up /\ steady' = steady \ {j} /\ steady \subseteq Jobs
        /\ runs' = {run \in runs : run.job # j} /\ \A run \in runs : run.job \in Jobs
    BY <1>5 DEF DeleteCron, TypeOK
  <2> QED
    BY <2>1, <2>2
<1>6. CASE SiteChanges
  BY <1>6 DEF SiteChanges
<1>7. CASE UNCHANGED vars
  BY <1>7 DEF vars, rows
<1> QED
  BY <1>1, <1>2, <1>3, <1>4, <1>5, <1>6, <1>7 DEF Next

\* Only a round launches anything, and a job that stays steady keeps its row.
LEMMA PlanKept ==
  ASSUME PlanInv, UNCHANGED <<start, next, launched, late>>, steady' \subseteq steady,
         \A j \in steady' : schedule'[j] = schedule[j],
         ~late => (IF Waiting THEN timer ELSE now)' = (IF Waiting THEN timer ELSE now)
  PROVE  PlanInv'
<1> SUFFICES ASSUME ~late PROVE
      /\ (IF Waiting THEN timer ELSE now)' = TimeOf(next)
      /\ \A j \in steady', m \in Minutes :
           /\ m = 0 \/ m >= next => launched[j][m] = 0
           /\ m \in 1 .. next - 1 /\ ValidExpr(schedule[j], Units) =>
                launched[j][m] = IF Due(schedule[j], Instant(TimeOf(m)), Units) THEN 1 ELSE 0
  BY DEF PlanInv, Instant, TimeOf, Minutes, Units, MinuteOf
<1> QED
  BY DEF PlanInv

\* A round starts the jobs that are due in its minute, and no other.
LEMMA RoundLaunches ==
  ASSUME TypeOK, LoopInv, PlanInv, RowsInv, Round, ~late, NEW j \in steady
  PROVE  /\ \A m \in Minutes : m # next => launched'[j][m] = launched[j][m]
         /\ ValidExpr(schedule[j], Units) =>
              launched'[j][next] = IF Due(schedule[j], Instant(TimeOf(next)), Units) THEN 1 ELSE 0
<1>1. /\ j \in Jobs /\ launched[j] \in [Minutes -> Nat] /\ start \in Nat
      /\ schedule[j] \in Schedules /\ schedule[j] # <<>> /\ up
  BY TimeAssumption DEF TypeOK, RowsInv
<1>2. ~Waiting /\ Rearm
  BY DEF Round
<1>3. next \in 1 .. Horizon /\ next \in Nat /\ next \in Minutes
  BY <1>2, RearmFacts, TimeFacts DEF Minutes
<1>4. now = TimeOf(next)
  BY <1>2 DEF PlanInv
<1>5. TimeOf(next) \in Nat
  BY <1>3, TimeFacts
<1>6. MinuteOf(now) = next
  <2>1. MinuteOf(now) \in Nat /\ next <= MinuteOf(now) /\ MinuteOf(now) <= next
    BY <1>3, <1>4, <1>5, MinuteFacts
  <2> QED
    BY <1>3, <2>1
<1>7. launched[j][next] = 0
  BY <1>3 DEF PlanInv
<1>8. launched'[j] = IF DueNow(j) THEN [launched[j] EXCEPT ![next] = @ + 1] ELSE launched[j]
  BY <1>1, <1>6 DEF Round
<1>9. launched'[j][next] = IF DueNow(j) THEN 1 ELSE 0
  BY <1>1, <1>3, <1>7, <1>8
<1>10. \A m \in Minutes : m # next => launched'[j][m] = launched[j][m]
  BY <1>1, <1>8
<1>11. DueNow(j) <=> Matches(schedule[j], Instant(TimeOf(next)), Units) = "yes"
  BY <1>1, <1>4 DEF DueNow
<1>12. ValidExpr(schedule[j], Units) =>
         (DueNow(j) <=> Due(schedule[j], Instant(TimeOf(next)), Units))
  BY <1>1, <1>5, <1>11, DueAtInstant
<1> QED
  BY <1>9, <1>10, <1>12

LEMMA PlanStep == IInv /\ [Next]_vars => PlanInv'
<1> SUFFICES ASSUME TypeOK, LoopInv, PlanInv, RowsInv, [Next]_vars PROVE PlanInv'
  BY DEF IInv
<1>0. next \in Nat /\ clock \in Nat /\ timer \in Nat
  BY TimeFacts DEF TypeOK
<1>1. CASE Tick
  BY <1>1, PlanKept DEF Tick, loop, rows, Waiting
<1>2. CASE Fire
  <2>1. Waiting /\ timer = clock
    BY <1>0, <1>2 DEF Fire, LoopInv
  <2>2. ~Waiting' /\ now' = clock
    BY <1>2 DEF Fire, Waiting
  <2> QED
    BY <1>2, <2>1, <2>2, PlanKept DEF Fire, rows
<1>3. CASE Round
  <2> SUFFICES ASSUME ~late' PROVE PlanInv'
    BY DEF PlanInv
  <2>1. ~late /\ ~(clock >= TimeOf(next + 1)) /\ ~Waiting /\ Rearm
        /\ start' = start /\ schedule' = schedule /\ steady' = steady
    BY <1>3 DEF Round, rows
  <2>2. TimeOf(next + 1) \in Nat
    BY <1>0, TimeFacts
  <2>3. next' = next + 1 /\ Waiting' /\ timer' = TimeOf(next + 1)
    BY <1>0, <2>1, <2>2, RearmFacts DEF Waiting
  <2>4. ASSUME NEW j \in steady, NEW m \in Minutes
        PROVE  /\ m = 0 \/ m >= next + 1 => launched'[j][m] = 0
               /\ m \in 1 .. next /\ ValidExpr(schedule[j], Units) =>
                    launched'[j][m] =
                      IF Due(schedule[j], Instant(TimeOf(m)), Units) THEN 1 ELSE 0
    <3>1. m \in Nat /\ next >= 1
      BY TimeFacts DEF Minutes, TypeOK
    <3>2. CASE m = next
      BY <1>0, <1>3, <2>1, <3>1, <3>2, RoundLaunches
    <3>3. CASE m # next
      <4>1. launched'[j][m] = launched[j][m]
        BY <1>3, <2>1, <3>3, RoundLaunches
      <4>2. /\ m = 0 \/ m >= next => launched[j][m] = 0
            /\ m \in 1 .. next - 1 /\ ValidExpr(schedule[j], Units) =>
                 launched[j][m] = IF Due(schedule[j], Instant(TimeOf(m)), Units) THEN 1 ELSE 0
        BY <2>1 DEF PlanInv
      <4>3. (m >= next + 1 => m >= next) /\ (m \in 1 .. next => m \in 1 .. next - 1)
        BY <1>0, <3>1, <3>3
      <4> QED
        BY <4>1, <4>2, <4>3
    <3> QED
      BY <3>2, <3>3
  <2>5. next' - 1 = next
    BY <1>0, <2>3
  <2> QED
    BY <2>1, <2>3, <2>4, <2>5 DEF PlanInv, Instant, TimeOf, Minutes, Units, MinuteOf
<1>4. CASE RoundFails
  BY <1>4 DEF RoundFails, PlanInv
<1>5. ASSUME NEW run \in runs, RunEnds(run) PROVE PlanInv'
  BY <1>5, PlanKept DEF RunEnds, loop, rows, Waiting
<1>6. ASSUME NEW j \in Jobs, NEW s \in Schedules, CreateCron(j, s) PROVE PlanInv'
  <2>1. \A i \in steady : schedule'[i] = schedule[i]
    BY <1>6 DEF CreateCron, TypeOK, RowsInv
  <2> QED
    BY <1>6, <2>1, PlanKept DEF CreateCron, loop, Waiting
<1>7. ASSUME NEW j \in Jobs, DeleteCron(j) PROVE PlanInv'
  <2>1. \A i \in steady \ {j} : schedule'[i] = schedule[i]
    BY <1>7 DEF DeleteCron, TypeOK
  <2> QED
    BY <1>7, <2>1, PlanKept DEF DeleteCron, loop, Waiting
<1>8. CASE SiteChanges
  BY <1>8, PlanKept DEF SiteChanges, loop, Waiting
<1>9. CASE UNCHANGED vars
  BY <1>9, PlanKept DEF vars, loop, rows, Waiting
<1> QED
  BY <1>1, <1>2, <1>3, <1>4, <1>5, <1>6, <1>7, <1>8, <1>9 DEF Next

\* The inductive invariant: where the loop is, what it has started so far,
\* and which rows its jobs and runs have.
THEOREM Invariant == Spec => []IInv
<1>1. IInv /\ [Next]_vars => IInv'
  BY TypeStep, LoopStep, RowsStep, PlanStep DEF IInv
<1> QED
  BY <1>1, LoopInit, PTL DEF Spec

\* Every variable keeps its type: the loop never plans beyond the minute
\* after the one it is in, and a deleted job has no run recorded.
THEOREM TypeCorrect == Spec => []TypeOK
<1>1. IInv => TypeOK
  BY DEF IInv
<1> QED
  BY <1>1, Invariant, PTL

\* As long as no round is late, a job that stays is started once in each of
\* its minutes and in no other: runDueJobs and the loop around it.
THEOREM StartedWhenDue == Spec => []OncePerDueMinute
<1>1. IInv => OncePerDueMinute
  <2> SUFFICES ASSUME TypeOK, PlanInv, ~late, NEW j \in steady, NEW m \in Minutes,
                      Over(m), ValidExpr(schedule[j], Units)
               PROVE  launched[j][m] =
                        IF Due(schedule[j], Instant(TimeOf(m)), Units) THEN 1 ELSE 0
    BY DEF IInv, OncePerDueMinute
  <2>1. m \in 1 .. next - 1
    <3>1. m \in Nat /\ next \in Nat /\ m >= 1 /\ m < next
      BY TimeFacts DEF Minutes, TypeOK, Over
    <3> QED
      BY <3>1
  <2> QED
    BY <2>1 DEF PlanInv
<1> QED
  BY <1>1, Invariant, PTL

\* Catching up: the nth round is never before the nth minute, so up to a
\* minute there were no more rounds than minutes.
THEOREM RoundsPaidFor == Spec => []NoMoreRoundsThanMinutes
<1>1. IInv => NoMoreRoundsThanMinutes
  <2> SUFFICES ASSUME TypeOK, LoopInv, NEW m \in Minutes
               PROVE  Cardinality({i \in DOMAIN rounds : rounds[i] <= m}) <= m
    BY DEF IInv, NoMoreRoundsThanMinutes
  <2> DEFINE worked == {i \in DOMAIN rounds : rounds[i] <= m}
  <2>1. m \in Nat
    BY TimeFacts DEF Minutes
  <2>2. worked \subseteq 1 .. m
    <3> SUFFICES ASSUME NEW i \in DOMAIN rounds, rounds[i] <= m PROVE i \in 1 .. m
      OBVIOUS
    <3>1. rounds \in Seq(Minutes) /\ DOMAIN rounds = 1 .. Len(rounds) /\ Len(rounds) \in Nat
      BY DEF TypeOK
    <3>2. i \in Nat /\ i >= 1 /\ rounds[i] \in Nat
      <4>1. rounds[i] \in Minutes /\ i \in 1 .. Len(rounds)
        BY <3>1
      <4>2. \A y \in Minutes : y \in Nat
        BY TimeFacts DEF Minutes
      <4> QED
        BY <3>1, <4>1, <4>2
    <3>3. i <= rounds[i]
      BY DEF LoopInv
    <3> QED
      BY <2>1, <3>2, <3>3
  <2>3. IsFiniteSet(1 .. m) /\ Cardinality(1 .. m) = m
    BY <2>1, FS_Interval
  <2>4. IsFiniteSet(worked) /\ Cardinality(worked) <= Cardinality(1 .. m)
    BY <2>2, <2>3, FS_Subset
  <2> QED
    BY <2>3, <2>4
<1> QED
  BY <1>1, Invariant, PTL

=============================================================================
