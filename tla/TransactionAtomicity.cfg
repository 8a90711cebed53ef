SPECIFICATION Spec
CONSTANTS
  Plans = {p1, p2}
  Runs = {}
  Buttons = {}
  Disconnects = {}
  Conns = {c1, c2}
  Size = 2
  Nobody = Nobody
  NoConn = NoConn
SYMMETRY Symmetric
CHECK_DEADLOCK FALSE
INVARIANT PlansLandWhole
