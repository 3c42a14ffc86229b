SPECIFICATION MCSpec
CONSTANTS
  None = None
  d1 = d1
  d2 = d2
  Channels = {"BROWSER", "WEBHOOK"}
  LeaseTime = 1
  Limit = 2
  Dispatchers = {d1, d2}
  Publishers = {d1}
  WebhookEnabled = TRUE
  RetryDelay = 1
  MaxAttempts = 3
  MaxRows = 2
  MaxTime = 1
  QueueSize = 2
  MaxPublished = 4
  MaxStreams = 2
  Symbols = {1, 2, 3}
  SectorOf <- MCSectorOf
  LotOf <- MCLotOf
  Boards <- MCBoards
  Ticks <- MCTicks
  Accounts <- MCAccounts
  Chase = 20
  MaxCore = 2
  MaxPerSector = 1
INVARIANTS LeaseIsExclusive LossEndsStream BriefIsSound PlansFit
PROPERTIES Settles
CHECK_DEADLOCK FALSE
