CONSTANTS
  c1 = c1
  c2 = c2
  k1 = k1
  k2 = k2
  k3 = k3
  None = None
  Console = {c1}
  Browser = {c2}
  Conn = {k1, k2, k3}
  OwnerOf <- MCOwnerOf
  MaxTurn = 1
  MaxFault = 1
SPECIFICATION MCFairSpec
PROPERTY FailedChatReturns
CHECK_DEADLOCK FALSE
