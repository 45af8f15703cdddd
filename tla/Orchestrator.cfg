SPECIFICATION Spec
CONSTANTS
  t1 = t1
  t2 = t2
  t3 = t3
  c1 = c1
  c2 = c2
  Tokens = {t1, t2, t3}
  Clients = {c1, c2}
  Loop = Loop
  None = None
  Sizes = {1}
  PnLs <- Gains
  MaxOpenPositions = 2
  MaxConsecutiveLosses = 2
  MaxDailyLoss = 2
  PortfolioRiskPassed = FALSE
  MaxPositionIds = 3
  ExecutionFailureLimit = 2
  RpcFailureLimit = 1
  JupiterFailureLimit = 1
  UnknownTxLimit = 1
SYMMETRY ClientAndTokenSymmetry
INVARIANTS
  TypeOK
  OneOperationPerToken
  ReadPositionIsCurrent
  BooksAgree
  EveryPositionAccountedOnce
  OpenPositionsLimited
  OneLateOpenAtMost
PROPERTIES
  ImplementsLifecycle
  OnlyResumeEnablesTrading
