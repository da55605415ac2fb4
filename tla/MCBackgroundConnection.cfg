SPECIFICATION Spec
CONSTANTS
  Callers <- MCCallers
  MaxServices = 2
  MaxCalls = 3
INVARIANT OneDisplayUnlessMisled
PROPERTIES
  ServicesEndWithApp
  EveryCallReturns
CHECK_DEADLOCK FALSE
