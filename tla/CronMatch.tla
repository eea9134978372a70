------------------------------ MODULE CronMatch ------------------------------
(***************************************************************************)
(* Matches, in cron.go: is a cron expression due at an instant?  A part of *)
(* a field is what it parses to, a record; "junk" is what does not parse.  *)
(* Errors are found on the way, so whether an expression has one depends   *)
(* on the instant it is looked at.                                         *)
(***************************************************************************)
EXTENDS Integers, Sequences, SequencesExt

Part == [kind : {"star", "value", "range", "junk"}, from : Int, to : Int, step : Int]

\* Mutant: the week begins on 1.
Mutant_From(part, unit) ==
  IF part.kind = "star" THEN unit.min ELSE part.from

\* Sunday is 0 and 7, but not in a range.
From(part, unit) ==
  IF part.kind = "star" THEN unit.min
  ELSE IF part.kind = "value" /\ unit.max = 6 /\ part.from = 7 THEN 0 ELSE part.from

To(part, unit) ==
  IF part.kind = "star" THEN unit.max
  ELSE IF part.kind = "value" THEN From(part, unit) ELSE part.to

ValidPart(part, unit) ==
  /\ part.kind # "junk" /\ part.step > 0
  /\ unit.min <= From(part, unit)
  /\ From(part, unit) <= To(part, unit)
  /\ To(part, unit) <= unit.max

PartMatches(part, value, unit) ==
  IF ~ValidPart(part, unit) THEN "error"
  ELSE IF value \in From(part, unit) .. To(part, unit)
          /\ (value - From(part, unit)) % part.step = 0
       THEN "yes" ELSE "no"

\* The first answer that is not `otherwise` stops the loop.
FirstNot(otherwise, answers) ==
  LET stop == {i \in DOMAIN answers : answers[i] # otherwise}
  IN  IF stop = {} THEN otherwise ELSE answers[CHOOSE i \in stop : \A k \in stop : i <= k]

FieldMatches(field, value, unit) ==
  FirstNot("no", [i \in DOMAIN field |-> PartMatches(field[i], value, unit)])

\* expr has a field for each unit, instant a value.
Matches(expr, instant, units) ==
  FirstNot("yes", [i \in DOMAIN units |-> FieldMatches(expr[i], instant[i], units[i])])

-----------------------------------------------------------------------------
(* What a crontab says, to compare with: the values a field stands for.    *)

Steps(part, from, v) == \E k \in 0 .. v - from : v = from + k * part.step

Denoted(part, unit) ==
  {v \in unit.min .. unit.max :
     /\ part.step >= 1
     /\ \/ part.kind = "star" /\ Steps(part, unit.min, v)
        \/ /\ part.kind = "range" /\ unit.min <= part.from /\ part.to <= unit.max
           /\ v <= part.to /\ Steps(part, part.from, v)
        \/ /\ part.kind = "value"
           /\ v = part.from \/ (unit.max = 6 /\ v = 0 /\ part.from = 7)}

ValidExpr(expr, units) ==
  \A i \in DOMAIN units : \A k \in DOMAIN expr[i] : Denoted(expr[i][k], units[i]) # {}

Due(expr, instant, units) ==
  \A i \in DOMAIN units :
    \E part \in ToSet(expr[i]) : instant[i] \in Denoted(part, units[i])

=============================================================================
