SPECIFICATION Spec
CONSTANTS
  Requests = {r1}
  Untracked = {}
  OtherKinds = {}
  MaxQueue = 2
  Configs <- AllConfigs
  Horizon = 5
  MaxDOM = 1
INVARIANTS
  TypeOK
  ReadyAfterQuietPolls
  ReadyAfterStillReads
PROPERTIES
  NetworkGate
  NoPollPastDeadline
  ImplementsWaiter
