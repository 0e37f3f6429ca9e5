SPECIFICATION WorkspaceSpec
CONSTANTS
  w1 = w1  w2 = w2  w3 = w3  d1 = d1  d2 = d2  s1 = s1  s2 = s2  s3 = s3  r1 = r1  v1 = v1  v2 = v2
  Casts <- MCWorkingCasts
  None = None
  Steps = {"create_first_order", "resolve_first_message", "schedule_first_report"}
  Begun <- MCBegun
  Desks = {d1, d2}
  Staff = {"ann"}
  ProviderStatus = {"sent"}
  Asks <- MCAsks
  MaxOrders = 2
  MaxMessages = 2
  Clerks = {w3}
  Tickers = {w1, w2}
  Orgs = {"o1", "o2"}
  HomeOrg = "o1"
  Actors = {d1, d2}
  OrgOf <- MCOrgOf
  Schedules = {s1, s2, s3}
  Terms <- MCTerms
  UserTemplates <- MCUserTemplates
  Broken <- MCBroken
  Day = 2
  MaxClock = 2
  MaxUserRuns = 1
  ReportFaults = 1
  OrgTier = "Growth"
  NoEvent = NoEvent
  Rules = {r1}
  Evaluations = {w1, w2}
  RuleTerms <- MCRuleTerms
  Readings <- MCReadings
  NoTrace = NoTrace
  NaN = NaN
  NoResult = NoResult
  Traces = {"s", "a1", "v1", "v2"}
  Persisters = {w1, w2}
  Deciders = {d1, d2}
  MaxDecisions = 2
  Verdicts = {"ACCEPTED", "APPLIED"}
  Runners = {w1, w2}
  MaxRetries = {1, NaN}
  SummaryTraces = {"s"}
  AgentTraces = {"a1"}
  Experimenters = {w1, w2}
  Variants = {"v1", "v2"}
  Weeks = {1}
  MetricValues = {1, 2}
  WinnerTrace <- MCWinnerTrace
  Unmeasured = Unmeasured
  Viewers = {d1, d2}
  Periods = {"daily", "weekly"}
  MetricKeys = {"cac", "revenue"}
  Days = {1, 2}
  Ranges <- MCRanges
  PeriodRange <- MCPeriodRange
  MaxRecords = 1
  RecordNames = {"", "a", "b", "c", "C", "external-customer", "x", "y", "p", "lead", "odd", "REFUND", "LOGIN", "LEAD", "QUALIFIED", "PROPOSAL", "NEGOTIATION", "WON", "LOST"}
  Nobody = Nobody
  Visitors = {v1, v2}
  Emails = {"a"}
  Members = {d1, d2}
  FirstRoles <- MCFirstRoles
  GovernanceKeys = {"k"}
  SettingsValues = {"s"}
  Importers = {w1, w2, w3}
  Batches <- MCBatches
  CustomerId <- MCCustomerId
  UpperCase <- MCUpperCase
  Now = 0
  NoSession = "no session"
  Paths = {"/", "/login", "/register", "/dashboard", "/dashboard/settings", "/settings", "/dashboard/unauthorized"}
  RolesForPath <- MCRolesForPath
  RedirectOf <- MCRedirectOf
  MaxLoops = 2
  RefreshIntervals = {60, 120}
  Hooks = {}
  MaxPending = 1
  Chats = {d1, d2}
  Recall = 2
  MaxTalk = 4
  NoFilter = NoFilter
  Analysts = {d1, d2}
  Signals = {"s"}
  Panels = {"trends", "comparison"}
  Filters = {"f", "g"}
  Watches = {"w", "x"}
  MaxAsked = 2
  MetricRows <- MCMetricRows
  MaxRows = 3
  FirstsOfMonths = {0, 31, 59, 90, 120, 151}
  FirstWeekday = 1
  Asked <- MCAsked
  Present = 120
  AuditDays = {20, 24, 25, 26, 27, 28, 29, 30, 31, 32, 33, 34, 35, 36, 55, 56, 57, 58, 59, 60, 85, 86, 87, 88, 89}
  NoAudit = NoAudit
  NoCustomer = NoCustomer
  NoEnd = NoEnd
  DailyHistories <- MCDailyHistories
  DailyRows <- MCDailyRows
  DailyMetricKeys = {"revenue", "churn"}
  Sources = {"i1", "i2"}
  Scans = {"scan", "rescan"}
  Lookbacks = {7, 30}
  Briefs <- MCBriefs
  BriefMetrics = {"cac", "revenue"}
  MaxHours = 192
  MaxRejections = 1
  NoSync = NoSync
  Competitors = {"c", "d"}
  SignalNotes = {"verified", "seen", ""}
  Observed <- MCObserved
  SignalWindows = {0, 7}
  LastMarketDay = 1
  IndustryOf <- MCIndustryOf
  OrgFigures = {1, 5, 6}
  MaxOrgRows = 3
  BenchmarkWindows <- MCBenchmarkWindows
  Levers <- MCLevers
  GraphTake <- MCGraphTake
  GraphRows <- MCGraphRows
  Overseers = {d1}
  TargetKeys = {"recommendationAdoptionRatePct", "noFigure"}
  TargetTerms <- MCTargetTerms
  MaxSubjects = 3
  LastReviewWeek = 1
  NoTarget = NoTarget
  NotCounted = NotCounted
  Started = {"api", "web"}
  SiteRoutes = {"/login", "/dashboard", "/x", "/y"}
  ExpectedRoutes <- MCExpectedRoutes
  LinksOn <- MCLinksOn
  MaxPages = 3
  MaxClicks = 1
  MinPages = 3
  MaxFindings = 1
  ListedFindings = 2
  GateEnforced = TRUE
  Webhooks <- MCWebhooks
  MaxIssues = 1
  NoExit = NoExit
CHECK_DEADLOCK FALSE
PROPERTIES
  ServedInTheEnd NothingGetsStuck
