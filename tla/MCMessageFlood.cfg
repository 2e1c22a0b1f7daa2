SPECIFICATION FloodFairSpec
CONSTANTS
  MaxOps <- MCMaxOps
  Workers = 3
  Reporter = {"r1", "r2"}
INVARIANTS
  EachMessageCountedOnce
  RecordsOneReport
PROPERTIES
  AnsweredFloodEnds
  SubmittingFloodsGoOn
CHECK_DEADLOCK FALSE
