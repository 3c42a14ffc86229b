SPECIFICATION CircuitSpec
CONSTANTS
  Providers = {"tencent", "sina"}
  Serves <- MCServes
  Threads = {"HOT", "BAR"}
  Threshold = 2
  MaxBackoff = 2
  LargestExponent = 1
  MaxFailures = 5
  MaxSecond = 6
PROPERTIES OpenPauses
CHECK_DEADLOCK FALSE
