SPECIFICATION FairSpec
CONSTANTS
  Leaves = {"momentum", "volconv", "oracle", "child_momentum", "child_oracle", "child_snipe"}
  Momenta = {"momentum", "child_momentum"}
  Movers = {"oracle", "child_oracle"}
  Snipers = {"volconv", "child_snipe"}
  Wrapped = {"child_momentum", "child_oracle", "child_snipe"}
  Portfolio = "portfolio"
  Order <- MCOrder
  EntryStages <- MCEntryStages
  Weight <- MCWeight
  Priority <- MCPriority
  Confirmations = 2
  Stakes <- MCStakes
  Bankroll = 6
  WindowCap = 3
  TotalCap = 6
  MinOrder = 2
INVARIANTS
  OneOrderAWindow
  EntriesLockedOnce
  LosersStayFree
  ExposureIsEntries
PROPERTIES
  LocksEnd
