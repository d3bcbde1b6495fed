CONSTANTS
  ProviderPart = {"agil session", "costamar session", "browser tabs", "agil search", "date sweep",
                  "branded token", "site page", "agil storage", "temp profiles"}
  AgilCaller = {a1, pw}
  AgilPrewarm = {pw}
  Identity = {i1, i2}
  TokenLife = 3
  ExpiryBuffer = 1
  Revalidate = 1
  MaxLoadTime = 1
  MaxNow = 4
  CostamarCaller = {c1, c2}
  Attempt = {w1, w2}
  Interactive = TRUE
  BrowserFallback = TRUE
  LiveBrowser = TRUE
  BrandedLife = 4
  RefreshWindow = 1
  WarmupTimeout = 1
  Cooldown = 2
  MaxTick = 4
  CdpTab = {t1, t2}
  LiveTab = {l1}
  AgilQuery = {q1, q2}
  GdsCount = 2
  GdsAtOnce = 2
  SlotLimit = 1
  UnitCount = 3
  UnitsAtOnce = 2
  RetryAttempts = 1
  Life = 2
  Refresh = 1
  FileInterval = 1
  SessionsTTL = 2
  MaxTokens = 3
  MaxClock = 3
  SitePage = {p1, p2}
  MaxAnswers = 2
  Browser = {b1, b2}
  SourceCount = 3
  Profile = {p1, p2}
  TempMaker = {m1, m2}
  TempSweeper = {m1, s2}
  TempArtifact = {k1, k2}
  MinAge = 2
  UseLimit = 1
  MaxHour = 5
SPECIFICATION ProvidersSpec
CHECK_DEADLOCK FALSE
INVARIANTS LastTokenIsUsed SessionOfOneBrowser SweepsTakeTheAbandoned
           BrowsersAreClosed AnswersToldTruly
PROPERTIES ProviderSessionsAreKept
