SPECIFICATION FairSpec
CONSTANTS
  MaxOrders = 2
  Sizes = {2}
  SignalSides = {"BUY", "SELL"}
  MaxPosition = 3
  Replies = {"accepted", "rejected", "lost"}
  CancelResults = {TRUE, FALSE}
  StopBreaches = {TRUE, FALSE}
  Remaining = {TRUE, FALSE}
  LogResults = {TRUE, FALSE}
INVARIANTS
  FillsWithinOrders
  DroppedOrdersRecorded
PROPERTIES
  MatchesRecorded
