SPECIFICATION Spec
CONSTANTS
  Garbage = Garbage
  Stray = Stray
  Nil = Nil
  Absent = Absent
  UTC = UTC
  Service = Service
  Requests = {r1, r2}
  Regexes = {"dash", "all"}
  TimeZones = {"Berlin"}
  Commands <- AllCommands
  Queries <- AllQueries
  Matching <- MatchingPatterns
  NanosPerSecond = 3
  MaxDuration = 10
SYMMETRY Interchangeable
INVARIANTS
  HeadersOnEveryRequest
CHECK_DEADLOCK FALSE
