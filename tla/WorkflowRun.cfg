SPECIFICATION FairSpec
CONSTANTS
  Nodes = {1, 2, 3, 4}
  MaxPasses = 3
  Documents <- AllDocuments
CHECK_DEADLOCK FALSE
INVARIANTS
  FeedersComeFirst
  OnlyWhatIsReachedRuns
  CompletedRunsRanEverything
PROPERTIES
  RefusalsAreRight
  RunsAsADataflow
  StopEndsTheRun
