SPECIFICATION Spec
CONSTANTS
  t1 = t1  t2 = t2  t3 = t3  w = w  p1 = p1  p2 = p2
  None = None
  NumKeys = 2
  Tokens <- ThreeTokens
  Sessions <- ThreeSessions
  Worker = w
  MaxCount = 2
  MaxCrashes = 1
INVARIANTS NoDoubleAllocation
CHECK_DEADLOCK FALSE
