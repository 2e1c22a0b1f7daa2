SPECIFICATION FairSpec
CONSTANTS
  Op = {o1, o2}
  Handler = {h1, h2}
  Batch <- MCBatch
INVARIANTS
  WokenHasItsResponse
  FinalizerFindsNoOwner
PROPERTIES
  ImplementsRoundTrip
  EveryOperationEnds
