SPECIFICATION Spec
CONSTANTS
  r1 = r1
  r2 = r2
  Readers <- MCReaders
  NBuf = 3
  MaxFrames = 4
  MaxSetups = 1
INVARIANTS
  LockedFrameIsSafe
  DroppedOnlyForReaders
PROPERTIES
  ImplementsRegister
  ReleaseTerminates
CHECK_DEADLOCK FALSE
