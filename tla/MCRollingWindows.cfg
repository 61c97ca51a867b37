SPECIFICATION Spec
CONSTANTS
  Interval = 3
  Horizon = 6
  Prices = {1, 2}
  Paths <- MCPaths
  LogResults = {TRUE, FALSE}
  MaxFills = 2
INVARIANTS
  StrikeIsOpen
  EntriesOfLastKey
PROPERTIES
  LifecycleSpec
