SPECIFICATION MCSpec
CONSTANTS
  None = None
  w1 = w1
  w2 = w2
  w3 = w3
  Signals = {"S1", "S2"}
  Candidates <- MCCandidates
  StateOf <- MCStateOf
  Ids = {"svc"}
  Stores = {"store", "other"}
  Managers = {"m1", "m2"}
  Workers = {w1, w2, w3}
  IdOf <- MCSameId
  StoreOf <- MCTwoStores
  LeaseTime = 1
  RetryDelay = 1
  MaxRetryDelay = 2
  MaxAttempts = 1
  MaxTime = 1
  MaxOutbox = 2
  MaxCrashes = 1
  MaxFaults = 0
  MaxOutgrown = 0
  Calls = {"x1", "x2"}
  BackupPaths = {"p"}
  MaxWrites = 1
  MaxMoments = 1
SYMMETRY MCSymmetry
INVARIANTS OutboxAuditable DecidedAndStoredOnce MigrationIsSafe
PROPERTIES TerminalIsFinal
CHECK_DEADLOCK FALSE
