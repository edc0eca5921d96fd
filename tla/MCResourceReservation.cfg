SPECIFICATION FairSpec
CONSTANTS
  t1 = t1  t2 = t2  t3 = t3  w = w  p1 = p1  p2 = p2
  None = None
  NumKeys = 2
  Tokens <- TwoTokens
  Sessions <- ThreeSessions
  Worker = w
  MaxCount = 2
  MaxCrashes = 1
INVARIANTS IInv ReservedIsHeld
PROPERTIES ElapsedIsReleased
CHECK_DEADLOCK FALSE
