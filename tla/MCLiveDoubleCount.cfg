SPECIFICATION Spec
CONSTANTS
  MaxOrders = 2
  Sizes = {1, 2}
  SignalSides = {"BUY"}
  MaxPosition = 2
  Replies = {"accepted", "rejected"}
  CancelResults = {TRUE}
  StopBreaches = {FALSE}
  Remaining = {TRUE}
  LogResults = {TRUE, FALSE}
INVARIANTS
  PositionOnChain
