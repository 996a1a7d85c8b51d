CONSTANTS
  c1 = c1
  c2 = c2
  k1 = k1
  k2 = k2
  k3 = k3
  None = None
  Console = {c1}
  Browser = {c2}
  Conn = {k1, k2, k3}
  OwnerOf <- MCOwnerOf
  MaxTurn = 2
  MaxFault = 2
SPECIFICATION MCFairSpec
INVARIANT TypeOK
INVARIANT OneListener
INVARIANT NoChatIsLost
PROPERTY SerialTurns
PROPERTY AbortEndsTurn
PROPERTY ChatReturns
CHECK_DEADLOCK FALSE
