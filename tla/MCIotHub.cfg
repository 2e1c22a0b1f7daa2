SPECIFICATION FairSpec
CONSTANTS
  main = main
  i1 = i1
  i2 = i2
  Task = {main, i1, i2}
  First = main
  MaxErrors = 1
  MaxMessages = 2
  MaxClients = 3
  MaxFailures = 2
INVARIANTS
  NothingLost
  SentInOrder
  OneLiveClient
PROPERTIES
  LostClientIsReplaced
CHECK_DEADLOCK FALSE
