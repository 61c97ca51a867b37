SPECIFICATION StandaloneSpec
CONSTANTS
  Strategies <- MCStrategies
  Markets = {m1, m2}
  Keys <- MCKeys
  NoKey = NoKey
  KeyOf <- MCKeyOf
  TotalCapital = 9
  Reserve = 1
  Budget <- MCBudget
  MarketCap = 5
  MinGrant = 2
  Amounts = {2, 3}
  Dollar = 10
  Span = 2
  LastTick = 4
  SpotPrices = {1, 2}
  FairValues = {8}
  Quotes <- MCQuotes
  Slippage = {0}
  PairSizes = {1}
  BetSizes = {1}
  MinAge = 0
  Deadline = 1
  MinEdge = 1
  PairEdge = 0
  MaxAdverse = 5000
  RetrySpan = 1
  MaxInRow = 2
  DayLimit = 3
  RecTokens = {"t1", "t2"}
  Sources = {"mm_quote", "whale_copy_x"}
  ReportName <- MCReportName
  FillPrices = {2, 5}
  FillSizes = {1, 2}
  MaxFills = 4
  Names = {"market_making", "whale_copy", "btc_5m"}
  SessionResults <- MCSessionResults
  MaxSessions = 5
  MinTrades = 10
  ManyTrades = 20
  BtcMinTrades = 50
  Whales = {"v", "w"}
  WhaleTokens = {"t1", "t2"}
  Holdings = {0, 2}
  MaxMoves = 1
  MaxCycles = 3
  MinMove = 2
  PerWhale = 1
  PerCycle = 2
  MarketPrices <- MCPrices
  Certain = 10
  Tolerance = 1
  LegSize = 2
  LeastProfit = 3
  Specs <- MCSpecs
  Measurements <- MCMeasurements
  MaxRows = 2
  RecAssets = {"btc", "eth"}
  Leader = "btc"
  Slugs = {"btc1", "eth1"}
  SlugAsset <- MCSlugAsset
  RecPrices = {0, 1, 2}
  LastTime = 3
  MaxRecords = 3
  Back = 1
  Sample = 2
  MostPrices = 2
  Callers = {1, 2}
  Freshness = 1
  GreatestAge = 2
  LastMoment = 4
  One = 20
  Tick = 2
  MaxSlippage = 2
  Share = 2
  Modes = {"paper", "live"}
  Requests <- MCRequests
  Books <- MCBooks
  NoBook = NoBook
  OrderCap = 50
  CallbackResults = {TRUE, FALSE}
  LevelSizes <- MCLevels
  InventoryLimit = 2
  ReversionSizes = {2}
  MostHeld = 4
CHECK_DEADLOCK FALSE
INVARIANTS
  LimitsRespected
  BooksAgree
  StopsAtLimits
  RecordsAddUp
  LearnedWithinBounds
  NoMoveCopiedTwice
  NoNakedLeg
  PromotesTheBest
  SignalsInOrder
  QuoteIsYoung
  OrderKept
  OwnBooksHold
  WalkIsBest
PROPERTIES
  DisabledForGood
