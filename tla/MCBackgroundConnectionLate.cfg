SPECIFICATION Spec
CONSTANTS
  Callers <- MCCallers
  MaxServices = 3
  MaxCalls = 4
INVARIANT OneDisplayPerApp
CHECK_DEADLOCK FALSE
