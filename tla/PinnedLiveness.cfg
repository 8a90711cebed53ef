SPECIFICATION FairSpec
CONSTANTS
  Tabs = {a}
  Runners = {r1, r2}
  Slots = {s1}
  Max = 1
  None = none

PROPERTIES RunsReturn RetiredGetsClosed
