SPECIFICATION FairSpec
CONSTANTS
  ssh = ssh
  alike = alike
  None = None
  Other = {ssh, alike}
  TakenFor <- MCTakenFor
  Instance = {i1, i2}
  MaxRules = 4
  MaxTickets = 2
  MaxCallbacks = 2
INVARIANTS
  StartsUnblocked
  ResumesWithItsAnswer
PROPERTIES
  OthersStay
  HandledWaitEnds
