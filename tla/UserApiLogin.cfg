SPECIFICATION MCFairSpec
CONSTANTS
  Command = {1, 2, 3}
  Before = before
  None = None
  MaxFault = 2
INVARIANT TypeOK
INVARIANT StoredLoginWorks
INVARIANT NoLoginLeftBehind
INVARIANT NoKeyLeftBehind
PROPERTY PresentedOnce
PROPERTY OnePartAtATime
PROPERTY LockComesFree
CHECK_DEADLOCK FALSE
