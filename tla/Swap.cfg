SPECIFICATION FairSpec
CONSTANTS
  x1 = x1
  x2 = x2
  Swaps = {x1, x2}
  t1 = t1
  t2 = t2
  Tokens = {t1, t2}
  None = None
  MaxRetries = 3
  MaxPolls = 30
INVARIANTS
  TypeOK
  AnsweredMeansSettled
  UnsignedMeansUnsent
  FillsAreConfirmed
PROPERTY CallsEnd
CHECK_DEADLOCK FALSE
