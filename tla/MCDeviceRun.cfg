SPECIFICATION FairSpec
CONSTANTS
  Tester = {p1, p2}
  AllowedExceptions = 1
  AllowedTimeouts = 1
  MaxRunDuration = 1
  MaxFailures = 3
INVARIANTS
  CondemnedNeverCompletes
  ExceptionsCountedOnce
  OnlyRunningIsStale
PROPERTY
  ExceededFails
CHECK_DEADLOCK FALSE
