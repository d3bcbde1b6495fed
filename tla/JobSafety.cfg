CONSTANTS
  Search = {j1, j2}
  Provider = {p1}
  Seeded = {j1}
  MaxUpdates = 1
  Compatible <- OneAtATime
  MaxSearches = 3
  Query = {u1}
  FareProvider = {v1}
  ReuseTTL = 1
  SearchTime = 1
  MaxReuseTime = 4
  Asking = {a1, a2}
  StatusTTL = 2
  MaxPrewarms = 2
  MaxStatusTime = 3
  f1 = f1
  f2 = f2
  f3 = f3
  Fetch = {f1, f2, f3}
  Job = {"first", "second"}
  Shared = "both"
  Owner <- MCOwner
  FetchLimit = 2
  MaxFetchTime = 4
SPECIFICATION SearchesSpec
CHECK_DEADLOCK FALSE
INVARIANTS CapacityFollowsWork EndsWithItsWork ReusedPriceIsRecent StatusIsLatestEvidence ResendsAreSafe
PROPERTIES FinalIsFinal EndKeepsWhatWasFound
