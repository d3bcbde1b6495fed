CONSTANTS
  Search = {j1}
  Provider = {p1, p2}
  Seeded = {}
  MaxUpdates = 1
  Compatible <- OneAtATime
SPECIFICATION JobSpec
CHECK_DEADLOCK FALSE
PROPERTIES ShutdownKeepsWhatWasFound
