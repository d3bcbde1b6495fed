CONSTANTS
  Search <- ThreeSearch
  KindOf <- ThreeKind
  DaySearches <- ThreeDays
  SessionOf <- ThreeSession
  Session = {"A", "B", "C"}
  CapacityUnits = 7
  ExactReservedUnits = 2
  MemoryRoom = 40
  NoReading = NoReading
  MemoryReadings = {NoReading}
  Watcher = {}
SPECIFICATION FairSpec
CHECK_DEADLOCK FALSE
PROPERTY LargestNeverStarved
