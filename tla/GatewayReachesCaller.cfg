CONSTANTS
  c1 = c1
  c2 = c2
  k1 = k1
  k2 = k2
  k3 = k3
  None = None
  Console = {c1, c2}
  Browser = {}
  Conn = {k1, k2, k3}
  OwnerOf <- MCOwnerOf
  MaxTurn = 3
  MaxFault = 0
SPECIFICATION MCSpec
PROPERTY TurnReachesItsCaller
CHECK_DEADLOCK FALSE
