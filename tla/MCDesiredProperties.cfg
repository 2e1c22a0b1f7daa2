SPECIFICATION DesiredFairSpec
CONSTANT NTests = 3
PROPERTY PatchReachesItsTest
  DeliveredTestEnds
CHECK_DEADLOCK FALSE
