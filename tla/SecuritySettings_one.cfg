\* One administrator, two other operations, three updates, two faults.
SPECIFICATION SettingsSpec
CONSTANTS
  Nobody = nobody
  None = none
  Updaters = {u1}
  Syncers = {s1, s2}
  Settings = {a, b, waf}
  Servable = {a, b}
  MaxUpdates = 3
  MaxFaults = 2
SYMMETRY SyncersSymmetry
INVARIANTS SettingsTypeOK DbServable OkIsLive
CHECK_DEADLOCK FALSE
