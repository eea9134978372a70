\* Two deployments and two backups, any three begun, deletions and disconnections counted, one failure.
SPECIFICATION Spec
CONSTANTS
  NoOne = noone
  Deployers = {d1, d2}
  Runners = {b1, b2}
  MaxFaults = 1
  Retention = 1
  MaxClock = 2
  MaxErrors = 1
  MaxStarts = 3
  MaxFailures = 1
SYMMETRY Symmetry
INVARIANTS TypeOK DeploymentsSettle NoLeftovers
PROPERTIES SuccessIsWhole KeepsABackup
CHECK_DEADLOCK FALSE
