SPECIFICATION MCSpec
CONSTANTS
  Writers = {w1, w2}
  Readers = {r1}
  Inputs <- MCInputs
  PageLimit = 2
  MaxTime = 1
  None = None
  k1 = k1
  k2 = k2
  k3 = k3
  q1 = q1
  q2 = q2
  Scanners = {"HOT", "WARM"}
  Proposals = {"WATCH", "ARMED"}
  StaleAge = 0
  Lifetime = 1
  MaxMoment = 1
  Holdings = {"a1", "a2", "b1", "c1"}
  SymbolOf <- MCSymbolOf
  CurrencyOf <- MCCurrencyOf
  Currencies = {"CNY", "USD"}
  Purposes = {"SWING", "LONG_TERM"}
  PlanIds = {1, 2}
  Shares = {0, 1, 2}
  Limits = {2, 3}
  Amounts = {1, 2}
  Window = 1
  MaxCommands = 14
  MaxTick = 1
  Archives <- MCArchives
  EventStreams = {"e"}
  TaxonomyOwner = "t"
  BarDates = {0}
  Dates = {0, 1}
  LastDate = 2
  Sources <- MCSources
  Weekend = {2}
  Filings <- MCFilings
  Policies <- MCPolicies
  Tapes <- MCTapes
  Unit = 2
  LastInstant = 3
  MaxCaptures = 3
  MaxBundles = 3
INVARIANTS StoreAuditable AcknowledgedDurable OneRecordPerKey SnapshotStable MemoryIsStored NoOvercommit CanReconcile SupersededNeverShown NoSurvivorshipBias CleanReportAgrees EligibleIsUsable ReturnsAgree
PROPERTIES ImplementsLog LifecycleIsLegal AnswersStand
CHECK_DEADLOCK FALSE
