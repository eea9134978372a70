------------------------------- MODULE MCCron -------------------------------
(***************************************************************************)
(* CronScheduler on a week of four-minute days.                            *)
(***************************************************************************)
EXTENDS CronScheduler, TLC

Star == [kind |-> "star", from |-> 0, to |-> 0, step |-> 1]
Value(n) == [kind |-> "value", from |-> n, to |-> n, step |-> 1]
Span(a, b, n) == [kind |-> "range", from |-> a, to |-> b, step |-> n]

MCSchedules == {
  << <<Star>>, <<Star>> >>,                           \* every minute
  << <<[Star EXCEPT !.step = 2]>>, <<Value(7)>> >>,   \* */2, on Sundays
  << <<Span(1, 3, 2)>>, <<Star>> >>,                  \* 1-3/2
  << <<Value(0), Value(9)>>, <<Value(1)>> >>,         \* 0,9: not a minute
  << <<Value(3), Value(0)>>, <<Span(5, 7, 1)>> >>     \* 5-7: not a range of days
}

Symmetry == Permutations(Jobs)

=============================================================================
