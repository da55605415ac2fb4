SPECIFICATION MCSpec
CONSTANTS
  c1 = c1
  c2 = c2
  Configs <- MCConfigs
  MaxRuns = 2
  MaxAlarms = 1
  MaxStops = 1
  MaxRequests = 3
INVARIANTS
  TypeOK
  StoppedMeansReleased
  OneTaskPerInstance
  QueueIsAccepted
PROPERTIES
  SessionsKeepPromise
  StopSettles
  StartSettles
CHECK_DEADLOCK FALSE
