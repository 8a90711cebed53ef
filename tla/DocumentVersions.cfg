SPECIFICATION FairSpec
CONSTANTS
  Keep = 2
  MaxEdits = 2
  MaxOps = 2
CHECK_DEADLOCK FALSE
INVARIANTS
  SavedMeansStored
PROPERTIES
  UndisturbedReplacementsCanBeUndone
  OnlyOldVersionsGo
  GoneStaysGone
  EditsAreSavedAndFiled
