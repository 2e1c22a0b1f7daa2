SPECIFICATION AppSpec
CONSTANTS
  MaxSignals = 2
  NMessages = 3
  MaxCopies = 2
  AllowedMissing = 0
INVARIANTS
  ListenersAreRemoved
  EachIndexCountedOnce
PROPERTIES
  StoppedIsNotRunning
  StopEnds
  TooManyMissingEndsRun
CHECK_DEADLOCK FALSE
