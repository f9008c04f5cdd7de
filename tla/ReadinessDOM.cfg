SPECIFICATION Spec
CONSTANTS
  Requests = {r1}
  Untracked = {}
  OtherKinds = {}
  MaxQueue = 2
  Configs <- DefaultOnly
  Horizon = 5
  MaxDOM = 1
PROPERTY
  StableMeansUnchanged
