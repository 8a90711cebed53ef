SPECIFICATION FairSpec
CONSTANTS
  Plans = {p1}
  Runs = {r1}
  Buttons = {b1, b2}
  Disconnects = {d1}
  Conns = {c1, c2}
  Size = 2
  Nobody = Nobody
  NoConn = NoConn
CHECK_DEADLOCK FALSE
PROPERTY DisconnectEnds
