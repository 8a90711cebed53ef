SPECIFICATION Spec
CONSTANTS
  Nodes = {n1, n2}
  Fires = {f1, f2}
  Manuals = {m1}
  Intervals <- AnyInterval
  Leaps <- AnyLeap
  Absent = Absent
  Rescan = 2
  Horizon = 2
  MaxOps = 2
SYMMETRY Alike
INVARIANTS
  TableFollowsTheStore
  SchedulesFireOnTime
  PausedSchedulesDoNotRun
  OnlyRacesPileUp
PROPERTIES
  FiresKeepTheirDistance
