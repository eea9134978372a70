\* Two jobs from the middle of a Sunday or of a Saturday on, for four minutes
\* of three ticks.
SPECIFICATION Spec
CONSTANTS
  Jobs = {j1, j2}
  Schedules <- MCSchedules
  MaxJobs = 2
  MinutesPerDay = 4
  TicksPerMinute = 3
  Timeout = 4
  Starts = {2, 26}
  Horizon = 4
  MaxChanges = 1
SYMMETRY Symmetry
INVARIANTS TypeOK OncePerDueMinute NoMoreRoundsThanMinutes
CHECK_DEADLOCK FALSE
