SPECIFICATION Spec
CONSTANTS
  x1 = x1
  x2 = x2
  Swaps = {x1, x2}
  t1 = t1
  t2 = t2
  Tokens = {t1, t2}
  None = None
  MaxRetries = 3
  MaxPolls = 30
INVARIANT LandedSwapIsNotFailed
CHECK_DEADLOCK FALSE
