SPECIFICATION MCSpec
CONSTANTS
  None = None
  Temporary = Temporary
  p1 = p1
  p2 = p2
  Snapshots <- MCSnapshots
  Modes = {"PAPER", "LIVE_MANUAL"}
  Bars <- MCBars
  Costs = {0, 3}
  ExitReasons = {"TARGET", "STOP", "TIMEOUT", "MANUAL"}
  NoEntryReasons = {"ORDER_REJECTED"}
  Targets = {"main", "other"}
  Ledgers = {"main", "other"}
  Finalizers = {p1, p2}
  MaxTime = 2
  MaxEvents = 8
  MaxCalls = 3
  MaxCrashes = 1
  MaxFaults = 1
  BarShapes <- MCBarShapes
  Rules <- MCRules
  Overrides <- MCOverrides
  Schedules <- MCSchedules
  Orders <- MCOrders
  Funds = 12
  Unknown = Unknown
  MaxSessions = 4
  MaxOrders = 3
  Configs <- MCConfigs
  Splits <- MCSplits
  Unset = Unset
SYMMETRY MCSymmetry
INVARIANTS ReasonIsFirstBarrier LogReplays LedgerIntact CanComplete LedgerIsPossible FoldsDoNotLeak
CHECK_DEADLOCK FALSE
