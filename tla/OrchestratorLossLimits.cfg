SPECIFICATION Spec
CONSTANTS
  t1 = t1
  t2 = t2
  c1 = c1
  Tokens = {t1, t2}
  Clients = {c1}
  Loop = Loop
  None = None
  Sizes = {1}
  PnLs <- TwoOutcomes
  MaxOpenPositions = 2
  MaxConsecutiveLosses = 2
  MaxDailyLoss = 2
  PortfolioRiskPassed = FALSE
  MaxPositionIds = 2
  ExecutionFailureLimit = 2
  RpcFailureLimit = 1
  JupiterFailureLimit = 1
  UnknownTxLimit = 1
PROPERTY LossLimitTripsBreaker
