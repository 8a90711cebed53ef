SPECIFICATION Spec
CONSTANTS
  Keep = 2
  MaxEdits = 2
  MaxOps = 1
CHECK_DEADLOCK FALSE
PROPERTIES
  RewritesKeepWhatTheUserHad
