SPECIFICATION Spec
CONSTANTS
  Tick = 10
  FeeRate = 7
  Start = 1000
  Kinds = {"oracle", "momentum", "leadlag", "convergence", "snipe", "volconv", "rl"}
  WindowLength = 3
  LastWindow = 1
  MaxRecords = 4
  Prices = {2, 5, 8}
  High = 7
  Low = 3
  Lookback = 1
  Rules <- MCRules
  MinStake = 5
  Cooldown <- MCCooldown
  Confirmations = 2
  CooldownWindows = 1
  Sure = 8
  StrictLeft = 1
  SoftLow = 8
  SoftHigh = 8
  StopLoss = 5
  MaxLag = 1
  Assets = {"btc", "eth"}
  Slots <- MCSlots
  OfferTerms <- MCOfferTerms
  Weights <- MCWeights
  Rank <- MCRank
  WindowShare = 12
  TotalShare = 18
  MinAdmitted = 5
  Runners <- MCRunners
  Confirming = {"momentum"}
  RunWindows = 5
  Samples = 3
  Walks <- MCWalks
  QuoteSets <- MCQuoteSets
  EntryAges = {1, 2, 3}
  LegacySample = 1
  Warmup = 2
  LegacyWarmup = 4
  HistoryLimit = 8
  HistoryKept = 4
  PriceBand = {4, 5, 6}
  Stake = 60
  Slips = {0, 1}
  Confirms = 2
  LossLimit = 2
CHECK_DEADLOCK FALSE
INVARIANTS
  OneTradeAWindow
  LedgerAddsUp
  PortfolioCaps
  StrategiesStop
  SimulatorAddsUp
