CONSTANTS
  r1 = r1
  r2 = r2
  r3 = r3
  p1 = p1
  p2 = p2
  low = low
  high = high
  None = None
  Run = {r1, r2, r3}
  Pid = {p1, p2}
  Port = {low, high}
  PidOf <- MCPidOf
  PortOf <- MCPortOf
  Stamped = {r1, r2}
SPECIFICATION LoneFairSpec
INVARIANT TypeOK
INVARIANT LoneStartUnhindered
PROPERTY KeptByItsHolder
PROPERTY LoneStartGetsIn
