SPECIFICATION FairSpec
CONSTANTS
  Batches = {b1, b2}
  Size = 2
  Nothing = Nothing
CHECK_DEADLOCK FALSE
INVARIANTS
  ServerWorkComesToTheLog
  SuccessesLanded
  HaltedBatchesSkipTheRest
PROPERTIES
  CancelsSpareLaterRuns
  StopEndsTheRun
  KeepsTheReport
