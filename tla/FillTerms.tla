------------------------------- MODULE FillTerms -------------------------------
(***************************************************************************)
(* What an order may fill: the terms that ExecutionEngine.place_order       *)
(* (ems/execution.py) keeps, whatever the book.  DryRunTrading takes fills   *)
(* by these terms; OrderExecution shows that the walk of the book, the       *)
(* resizing and the chunks stay within them.                                *)
(***************************************************************************)
EXTENDS Integers

CONSTANTS
  One,          \* a dollar, in the units of prices
  Tick,         \* tick_size
  MaxSlippage   \* max_adverse_slippage of the execution engine

ASSUME FillTermsAssumption ==
  /\ One \in Nat
  /\ Tick \in Nat \ {0}
  /\ 2 * Tick <= One
  /\ MaxSlippage \in Nat

Smallest(a, b) == IF a <= b THEN a ELSE b

Largest(a, b) == IF a <= b THEN b ELSE a

\* round(price / tick): to the nearest tick, from the middle to the even one.
NearestTick(price) ==
  LET low  == price \div Tick
      rest == 2 * (price % Tick)
  IN  IF rest < Tick \/ (rest = Tick /\ low % 2 = 0) THEN low ELSE low + 1

\* The limit price of an order is on the tick and within a tick of 0 and 1.
Limit(price) == Largest(Tick, Smallest(One - Tick, NearestTick(price) * Tick))

\* n shares for `cost` in all: never more shares than asked, on average never worse than
\* the slippage limit, and a BUY never dearer than all of the size at the limit price.
MayFill(side, price, size, n, cost) ==
  /\ n <= size
  /\ IF side = "BUY"
     THEN cost <= size * Limit(price) /\ cost - n * Limit(price) <= n * MaxSlippage
     ELSE n * Limit(price) - cost <= n * MaxSlippage
===============================================================================
