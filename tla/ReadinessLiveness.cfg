SPECIFICATION FairSpec
CONSTANTS
  Requests = {r1}
  Untracked = {}
  OtherKinds = {}
  MaxQueue = 1
  Configs <- LivenessConfigs
  Horizon = 3
  MaxDOM = 0
PROPERTIES
  WaitEnds
  CancelEnds
  BindingNotLost
  RestIsNoticed
