CONSTANTS
  Today = 1
  LastDay = 4
  PostedDay = {1, 2, 4}
  PostedNights = {0, 2}
  MaxStay = 2
  MaxCombinations = 2
  Fare <- MCFare
  PartCount = 2
  VariantLimit = 3
  BoardCell = {k1, k2}
  CellPrice = {1, 2}
  NoPrice = 9
  WebRequest = {r1, r2}
  SessionTTL = 3
  MaxLifetime = 4
  MaxTime = 4
  Client = {A, B, C}
  MaxFailures = 2
  Window = 2
  MaxClients = 2
  MaxLoginTime = 4
  Redirect = {q1, q2}
  LookupLimit = 1
  TotalLimit = 1
  LinkTTL = 1
  TrustUsable = TRUE
  DrainLimit = 1
  ExitLimit = 1
  MaxMoment = 2
  HttpRequest = {h1, h2}
  Station = {1, 2, 3}
  Browsing = {1}
  DayLength = 1
  CardLimit = 2
  RankingDays = 1
  RecentTTL = 1
  MaxRecent = 1
  HopLimit = 1
  MaxTick = 2
  Clicks = {c1, c2}
  Freshness = 1
  ValidationLimit = 1
  RateLimit = 1
  SearchLasts = 1
  RateDay = 3
  MaxQuoteTime = 5
  MaxRuns = 3
  FailureLimit = 2
  MonthCount = 3
  MonthsAtOnce = 2
  PollFailures = 2
  t1 = t1
  t2 = t2
  s1 = s1
  s2 = s2
  NoPlace = NoPlace
  Typed = {t1, t2, s1}
  Place = {s1, s2}
  Matches <- MCMatches
  Exact <- MCExact
  MaxKeys = 6
  l1 = l1
  l2 = l2
  l3 = l3
  Unit = {web, runner}
  Lookup = {l1, l2, l3}
  SessionOf <- MCSessionOf
  PerSession = 1
  InAll = 1
  CacheTTL = 2
  MaxCacheTime = 3
  MaxLoading = 2
  MaxRefused = 1
  Server = {old, new}
  NegativeTTL = 2
  MaxMarkTime = 4
SPECIFICATION DeskSpec
SYMMETRY Alike
CHECK_DEADLOCK FALSE
INVARIANTS ListIsTheAnswers AccessHolds LinksOpenOurSearch HopsCountOnce QuotesAreConfirmed
           StopsReachTheServer SweepIsTrue SharedAnswersAreRight
PROPERTIES DatesAreKept BoardOnlyImproves ShownNeverGoesBack
