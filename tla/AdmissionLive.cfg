CONSTANTS
  Search <- HeavySearch
  KindOf <- HeavyKind
  DaySearches <- HeavyDays
  SessionOf <- HeavySession
  Session = {"A", "B", "C"}
  CapacityUnits = 7
  ExactReservedUnits = 2
  MemoryRoom = 40
  NoReading = NoReading
  MemoryReadings = {35}
  Watcher = {}
SPECIFICATION FairSpec
CHECK_DEADLOCK FALSE
PROPERTIES WaitingStarts StopDrains
