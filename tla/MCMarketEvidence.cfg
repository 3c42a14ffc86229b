SPECIFICATION MCSpec
CONSTANTS
  None = None
  A = A
  B = B
  Symbols <- MCSymbols
  MaxSessions = 2
  MaxSeq = 3
  RingSize = 2
  Limit = 2
  MaxCrashes = 1
  MaxFaults = 2
  Scopes = {"SESSION", "CONNECTION_EPOCH"}
  MaximumGap = 1
  MaxInstant = 2
  MaxEpoch = 2
  MaxTrades = 2
  MaxRows = 8
  Calendar <- MCCalendar
  EntryTimes = {0, 1, 2}
  LastTime = 6
  MaxDeals = 2
SYMMETRY MCSymmetry
INVARIANTS RowsIntact FailuresHeal NothingPassesUnseen CoverageIsTrue VerdictIsTrue
CHECK_DEADLOCK FALSE
