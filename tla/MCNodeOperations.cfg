SPECIFICATION OpsFairSpec
CONSTANTS
  MaxMessages = 2
  MaxTests = 2
  MaxAcks <- MCMaxAcks
INVARIANTS PendingIsWaiting OneOutcomeEach
PROPERTY
  TestsEnd
CHECK_DEADLOCK FALSE
