SPECIFICATION MCSpec
CONSTANTS
  c1 = c1
  c2 = c2
  Configs <- MCConfigs
  MaxRuns = 1
  MaxAlarms = 1
  MaxStops = 0
  MaxRequests = 2
PROPERTY ConfigFixedWhileWorking
CHECK_DEADLOCK FALSE
