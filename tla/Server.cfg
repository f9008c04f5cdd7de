SPECIFICATION FairSpec
CONSTANTS
  BaseDirs <- HostDirs
  BindLists <- BothBindLists
  Requests = {r1, r2}
  Queries <- AllQueries
  MaxOverrides = 1
INVARIANTS
  Confined
  CleanExit
  
  GaugeMatches
PROPERTIES
  ReturnsAfterShutdown
  SignalEnds
CHECK_DEADLOCK FALSE
