SPECIFICATION FairSpec
CONSTANTS
  loop = loop
  task = task
  nested = nested
  Main = Main
  Job = {loop, task, nested}
  Parent <- MCParent
  Critical = {loop}
  MaxWorkers = 2
  PlannedEnd = TRUE
INVARIANTS
  AccountedOnce
  NoRunAfterCriticalFailure
PROPERTIES
  FailureSeenStopsRun
  SubmitReturns
CHECK_DEADLOCK FALSE
