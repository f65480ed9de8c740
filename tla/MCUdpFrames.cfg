SPECIFICATION Spec
CONSTANTS
  Peers = {p1, p2}
  MaxLen = 3
  MaxDatagrams = 3
INVARIANT DatagramsWhole
CHECK_DEADLOCK FALSE
