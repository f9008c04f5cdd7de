SPECIFICATION FairSpec
CONSTANTS
  Jobs <- AllJobs
  MaxScrolls = 2
INVARIANTS
  DirOutlivesBrowser
  EveryWayOutCleansUp
  OnlySettledPages
  OnlyWholeFiles
  AnswerTellsCause
PROPERTIES
  SessionEnds
  LostBrowserEnds
