SPECIFICATION Spec
CONSTANTS
  Requests = {r1}
  Untracked = {}
  OtherKinds = {}
  MaxQueue = 2
  Configs <- CyclesOnly
  Horizon = 5
  MaxDOM = 1
INVARIANT
  CyclesAreConsecutive
