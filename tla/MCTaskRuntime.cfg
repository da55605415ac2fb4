SPECIFICATION Spec
CONSTANT MaxRuns = 3
INVARIANTS
  NativeUseIsLive
  DependenciesLive
  BusyWhileWorking
PROPERTIES
  AnnouncedInTurn
  StopTerminates
  ImplementsSession
