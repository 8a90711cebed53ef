SPECIFICATION Spec
CONSTANTS
  Plans = {p1, p2}
  Runs = {r1}
  Buttons = {b1, b2}
  Disconnects = {}
  Conns = {c1, c2}
  Size = 2
  Nobody = Nobody
  NoConn = NoConn
SYMMETRY Symmetric
CHECK_DEADLOCK FALSE
INVARIANTS
  PoolIsSound
  FlagMirrorsTransaction
PROPERTIES
  UndisturbedPlansLandWhole
  UndisturbedUndoTakesOnlyItsOwn
