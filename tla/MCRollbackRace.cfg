SPECIFICATION Spec
CONSTANTS
  None = None
  w1 = w1
  w2 = w2
  Signals = {"S1", "S2"}
  Candidates <- MCTwoCandidates
  StateOf <- MCStateOf
  Ids = {"svc"}
  Stores = {"store"}
  Managers = {"m"}
  Workers = {w1, w2}
  IdOf <- MCSameId
  StoreOf <- MCOneStore
  LeaseTime = 1
  RetryDelay = 1
  MaxRetryDelay = 2
  MaxAttempts = 0
  MaxTime = 0
  MaxOutbox = 2
  MaxCrashes = 0
  MaxFaults = 1
  MaxOutgrown = 0
INVARIANTS DeliveredIsStored
CHECK_DEADLOCK FALSE
