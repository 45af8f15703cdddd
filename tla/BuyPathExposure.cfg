SPECIFICATION Spec
CONSTANTS
  None = None
  MinLiquidity = 10000
  MinVolume = 5000
  MinRiskScore = 70
  Weights <- DefaultWeights
  LaunchMaxAge = 60
  LaunchMinLiquidity = 500
  LaunchMinBuys = 1
  LaunchMinBuyPercent = 40
  LaunchMinVolume = 100
  LaunchMaxPrice = 10000
  RugMinScore = 50
  MaxPosition = 4000
  MaxOpenPositions = 2
  MaxDailyLoss = 8000
  MaxTotalExposure = 5000
  LiveSafe = FALSE
  Snapshots <- OneGood
  BookStates <- OneOpen
  WatchAges = {10, 45, 1500}
INVARIANTS
  ExposureCapHolds
