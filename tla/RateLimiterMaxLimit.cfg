SPECIFICATION Spec
CONSTANTS
  Requests = {r1, r2, r3}
  Trackers = {t1}
  Samples = {3}
  LimiterConfigs <- LimitedOnly
  MaxInt64 = 8
  TotalMemories = {6}
  FreeMemories = {6}
  Uint32 = 16
INVARIANT
  NeverAboveMaxLimit
