\* Every operation that publishes, three on one site, two at a time, one fault.
SPECIFICATION Spec
CONSTANTS
  Worker = worker
  Nobody = nobody
  Sites = {s1}
  Handlers = {h1, h2}
  Kinds <- PublishingKinds
  MaxOps = 3
  MaxFaults = 1
SYMMETRY HandlersSymmetry
INVARIANTS TypeOK SuspensionUnroutes QuietEdgeMatches
CHECK_DEADLOCK FALSE
