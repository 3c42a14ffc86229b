SPECIFICATION LiveSpec
CONSTANTS
  None = None
  w1 = w1
  w2 = w2
  Signals = {"S1", "S2"}
  Candidates <- MCTwoCandidates
  StateOf <- MCStateOf
  Ids = {"svc"}
  Stores = {"store"}
  Managers = {"m"}
  Workers = {w1}
  IdOf <- MCSameId
  StoreOf <- MCOneStore
  LeaseTime = 1
  RetryDelay = 1
  MaxRetryDelay = 2
  MaxAttempts = 1
  MaxTime = 0
  MaxOutbox = 2
  MaxCrashes = 1
  MaxFaults = 1
  MaxOutgrown = 2
INVARIANTS StoreIntact
PROPERTIES Settles
CHECK_DEADLOCK FALSE
