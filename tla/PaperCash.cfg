SPECIFICATION Spec
CONSTANTS
  t1 = t1
  t2 = t2
  Tokens = {t1, t2}
  None = None
  Prices = {0, 800, 1400}
  Liquidities = {0, 100000}
  Amounts = {5000}
  StartingCash = 8000
  StopLossPercent = 10
  TakeProfitPercent = 25
  MaxTrades = 3
INVARIANT TrackerCashMatches
