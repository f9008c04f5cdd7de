SPECIFICATION EventsFairSpec
CONSTANTS
  Requests = {r1, r2, ws}
  Untracked = {ws}
  OtherKinds = {"paused", "response"}
  MaxQueue = 2
INVARIANTS
  CountMatches
  NoStrandedRequest
  NoMissedRequest
  LeftoversAreHalfway
PROPERTIES
  DrainsWhenQuiet
  HeldRequestsMoveOn
  ImplementsCounter
