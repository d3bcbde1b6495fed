CONSTANTS
  Search <- MixedSearch
  KindOf <- MixedKind
  DaySearches <- MixedDays
  SessionOf <- MixedSession
  Session = {"A", "B"}
  CapacityUnits = 7
  ExactReservedUnits = 2
  MemoryRoom = 41
  NoReading = NoReading
  MemoryReadings = {20, 39}
  Watcher = {"w1"}
SPECIFICATION Spec
CHECK_DEADLOCK FALSE
INVARIANTS ReserveServesExact NoIdleCapacity BooksAreTrue
PROPERTIES StartsInOrder ImplementsLease
