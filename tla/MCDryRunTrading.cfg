SPECIFICATION FairSpec
CONSTANTS
  Strategies <- MCStrategies
  Markets <- MCMarkets
  Keys <- MCKeys
  NoKey = NoKey
  KeyOf <- MCKeyOf
  Budget <- MCBudget
  TotalCapital = 500
  Reserve = 300
  MarketCap = 250
  MinGrant = 60
  Amounts = {}
  Traders <- MCTraders
  Sellers = {"mm"}
  LastWindow = 2
  Prices = {40, 60}
  ExitPrices = {40}
  OrderSizes = {2}
  One = 100
  Tick = 1
  MaxSlippage = 2
  MaxPosition = 220
  MaxExposure = 190
  MaxDrawdownPct = 5
  StopLossPct = 15
  LogResults = {TRUE, FALSE}
  MaxSignals = 2
INVARIANTS
  CapitalCoversCost
  ExposureRespectsReserve
  RealUntilResold
PROPERTIES
  SettledWindowFlat
  HaltFlattens
