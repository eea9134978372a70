\* One site, two months, two operations of administrators, one container
\* restart, one failed call, one crash; no symmetry.
SPECIFICATION FairSpec
CONSTANTS
  Sites = {s1}
  Quota = 1
  UnitsPerMB = 2
  MaxTraffic = 4
  MaxMonths = 2
  MaxAdminOps = 2
  MaxRestarts = 1
  MaxFaults = 1
  MaxCrashes = 1
INVARIANTS TypeOK NeverOvercharged
PROPERTIES LiftsOnlyItsOwn  QuotaEnforced
CHECK_DEADLOCK FALSE
