SPECIFICATION Spec
CONSTANTS
  Tabs = {a, b}
  Runners = {r1, r2}
  Slots = {s1, s2, s3}
  Max = 1
  None = none
SYMMETRY Symmetric
INVARIANTS ScriptKeepsItsConnection RunsOnItsOwnSession TableWithinMax NoOrphanConnection NoSilentReplacement
PROPERTY RunKeepsLiveSession
