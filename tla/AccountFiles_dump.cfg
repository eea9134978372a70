\* A dump that fails passes for one that went well.
SPECIFICATION Spec
CONSTANTS
  NoOne = noone
  Deployers = {d1}
  Runners = {b1}
  MaxFaults = 0
  Retention = 1
  MaxClock = 2
  MaxErrors = 1
  MaxStarts = 2
  MaxFailures = 1
PROPERTIES PurgesOnlyAfterSuccess
CHECK_DEADLOCK FALSE
