SPECIFICATION FairSpec
CONSTANTS
  t1 = t1
  t2 = t2
  Test = {t1, t2}
  MaxRun = 2
  RunOf <- MCRunOf
  MaxLate = 1
  MaxQueue = 1
  Thread = {d1, d2}
INVARIANTS
  AcksAreEarned
PROPERTY
  SettlesOnCurrentRun
CHECK_DEADLOCK FALSE
