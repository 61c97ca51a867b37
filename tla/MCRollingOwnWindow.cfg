SPECIFICATION Spec
CONSTANTS
  Interval = 3
  Horizon = 6
  Prices = {1, 2}
  Paths <- MCPaths
  LogResults = {TRUE}
  MaxFills = 2
INVARIANTS
  SettledByOwnWindow
