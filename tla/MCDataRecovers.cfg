SPECIFICATION SignalSpec
CONSTANTS
  Scanners = {"HOT", "WARM"}
  Proposals = {"WATCH", "ARMED"}
  StaleAge = 0
  Lifetime = 1
  MaxMoment = 1
PROPERTIES DataRecovers
CHECK_DEADLOCK FALSE
