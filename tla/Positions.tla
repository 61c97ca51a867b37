------------------------------- MODULE Positions -------------------------------
(***************************************************************************)
(* The arithmetic of oms/position_manager.py.  A position keeps its size   *)
(* and its cost basis: the code's avg_price is cost / size, and a sale     *)
(* takes its share of the cost, rounded down to a cent.  Prices are cents  *)
(* per share, sizes are whole shares.                                      *)
(***************************************************************************)
EXTENDS Integers

PositionRecord == [size : Nat, cost : Nat, mark : Nat]

\* A token without an entry in `positions` behaves as one of size zero.
Flat == [size |-> 0, cost |-> 0, mark |-> 0]

\* Position.notional: size * avg_price
Notional(p) == p.cost

\* size * cur_price - size * avg_price
Unrealized(p) == IF p.size = 0 THEN 0 ELSE p.size * p.mark - p.cost

\* n * avg_price, for n shares of a position that is held
CostOf(p, n) == (p.cost * n) \div p.size

Fewer(a, b) == IF a <= b THEN a ELSE b

\* record_fill, BUY: the cost is averaged in and the mark is the fill's price.
AfterBuy(p, n, price) == [size |-> p.size + n, cost |-> p.cost + n * price, mark |-> price]

\* A sale that forgets to reduce the cost of what is left.
AfterSellKeepingCost(p, n) ==
  IF p.size = 0 THEN p
  ELSE IF n >= p.size THEN [size |-> 0, cost |-> 0, mark |-> p.mark]
  ELSE [size |-> p.size - n, cost |-> p.cost, mark |-> p.mark]

\* record_fill, SELL: a position that is not held is left alone, one sold in full
\* or oversold is reset to size 0 and average price 0, its mark stays.
AfterSell(p, n) ==
  IF p.size = 0 THEN p
  ELSE IF n >= p.size THEN [size |-> 0, cost |-> 0, mark |-> p.mark]
  ELSE [size |-> p.size - n, cost |-> p.cost - CostOf(p, n), mark |-> p.mark]

\* The realized profit record_fill books: on the whole fill, also beyond the size held.
RealizedOn(p, n, price) == IF p.size = 0 THEN 0 ELSE n * price - CostOf(p, n)

\* What _on_fill of main.py hands back to the allocator, computed before record_fill.
CapitalFreed(p, n) == IF p.size = 0 THEN 0 ELSE CostOf(p, Fewer(p.size, n))
===============================================================================
