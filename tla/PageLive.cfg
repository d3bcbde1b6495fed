CONSTANTS
  Search = {j1, j2}
  Provider = {p1}
  Seeded = {}
  MaxUpdates = 0
  Compatible <- OneAtATime
  MaxRuns = 2
  FailureLimit = 2
  MonthCount = 2
  MonthsAtOnce = 2
  PollFailures = 2
SPECIFICATION FairScreenSpec
CHECK_DEADLOCK FALSE
PROPERTIES EverySearchEnds
