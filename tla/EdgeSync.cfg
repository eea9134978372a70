\* Two callers and the boot, three routing tables, two loads in flight, one crash
\* of the panel and one restart of the edge; no symmetry, for liveness is checked.
SPECIFICATION FairSpec
CONSTANTS
  Boot = boot
  NoOne = noone
  Callers = {h1, h2}
  Cli = {}
  MaxWrites = 2
  MaxInFlight = 2
  MaxCrashes = 1
  MaxEdgeRestarts = 1
INVARIANTS TypeOK ReadYourWrites QuietMeansPublished
PROPERTIES RefinesPublisher EverySyncEnds PanelComesBack
CHECK_DEADLOCK FALSE
