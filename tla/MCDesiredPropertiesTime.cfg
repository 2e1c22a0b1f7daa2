SPECIFICATION DesiredFairSpec
CONSTANT NTests = 1
PROPERTY TestEndsInTime
CHECK_DEADLOCK FALSE
