CONSTANTS
  ProviderPart = {"agil session", "costamar session", "agil search", "date sweep"}
  AgilCaller = {a1, pw}
  AgilPrewarm = {pw}
  Identity = {i1, i2}
  TokenLife = 2
  ExpiryBuffer = 1
  Revalidate = 1
  MaxLoadTime = 1
  MaxNow = 2
  CostamarCaller = {c1, c2}
  Attempt = {w1, w2}
  Interactive = TRUE
  BrowserFallback = TRUE
  LiveBrowser = TRUE
  BrandedLife = 2
  RefreshWindow = 1
  WarmupTimeout = 1
  Cooldown = 1
  MaxTick = 2
  CdpTab = {t1, t2}
  LiveTab = {l1}
  AgilQuery = {q1, q2}
  GdsCount = 1
  GdsAtOnce = 1
  SlotLimit = 1
  UnitCount = 2
  UnitsAtOnce = 2
  RetryAttempts = 1
  Life = 2
  Refresh = 1
  FileInterval = 1
  SessionsTTL = 2
  MaxTokens = 3
  MaxClock = 4
  SitePage = {p1, p2}
  MaxAnswers = 2
  Browser = {b1, b2}
  SourceCount = 3
  Profile = {p1, p2}
  TempMaker = {m1, m2}
  TempSweeper = {m1, s2}
  TempArtifact = {k1, k2}
  MinAge = 2
  UseLimit = 1
  MaxHour = 5
SPECIFICATION FairProvidersSpec
CHECK_DEADLOCK FALSE
PROPERTIES EverybodyIsAnswered
