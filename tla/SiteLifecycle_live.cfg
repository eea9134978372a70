\* Creations, stops and restarts, two at a time, one fault; no symmetry.
SPECIFICATION FairSpec
CONSTANTS
  Worker = worker
  Nobody = nobody
  Sites = {s1}
  Handlers = {h1, h2}
  Kinds = {"create", "stop", "restart"}
  MaxOps = 3
  MaxFaults = 1
PROPERTY ReconcileHeals
CHECK_DEADLOCK FALSE
