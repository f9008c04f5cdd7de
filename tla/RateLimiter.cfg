SPECIFICATION FairSpec
CONSTANTS
  Requests = {r1, r2}
  Trackers = {t1}
  Samples = {0, 7}
  LimiterConfigs <- AllLimiterConfigs
  MaxInt64 = 14
  TotalMemories = {0, 6}
  FreeMemories = {0, 2, 6, 9}
  Uint32 = 5
INVARIANTS
  RunningMatches
  OvershootBounded
PROPERTIES
  FoldMovesTowardsPeak
  SomeoneGetsThrough
  TrackersFollowRequests
