SPECIFICATION Spec
CONSTANTS
  Strategies <- MCStrategies
  Markets <- MCMarkets
  Keys <- MCKeys
  NoKey = NoKey
  KeyOf <- MCKeyOf
  Budget <- MCBudget
  TotalCapital = 500
  Reserve = 200
  MarketCap = 250
  MinGrant = 60
  Amounts = {}
  Traders <- MCTraders
  Sellers = {}
  LastWindow = 2
  Prices = {40, 60}
  ExitPrices = {40}
  OrderSizes = {2}
  One = 100
  Tick = 1
  MaxSlippage = 2
  MaxPosition = 220
  MaxExposure = 250
  MaxDrawdownPct = 100
  StopLossPct = 15
  LogResults = {TRUE}
  MaxSignals = 3
INVARIANTS
  RealPnl
