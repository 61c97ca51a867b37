------------------------------ MODULE OrderBooks ------------------------------
(***************************************************************************)
(* The walk of an order book (data_pipeline/market_data.py).  One side of a *)
(* book is a sequence of levels, the best price first, as the snapshot sorts *)
(* it.  The average price of the code is cost / filled here.                *)
(***************************************************************************)
EXTENDS Integers, Sequences

Level == [price : Nat \ {0}, size : Nat]

\* A side sorted for a BUY (asks, cheapest first) or for a SELL (bids, dearest first).
BestFirst(side, levels) ==
  \A i \in 1..(Len(levels) - 1) :
    IF side = "BUY" THEN levels[i].price <= levels[i + 1].price
                    ELSE levels[i].price >= levels[i + 1].price

TakenWhole(level, n) == level.size

Taken(level, n) == IF level.size <= n THEN level.size ELSE n

\* WalkTo(levels, n)[i] is what n shares take of the first i levels, and its cost.
WalkTo(levels, n) ==
  LET walk[i \in 0..Len(levels)] ==
        IF i = 0 THEN [filled |-> 0, cost |-> 0]
        ELSE LET t == Taken(levels[i], n - walk[i-1].filled)
             IN  [filled |-> walk[i-1].filled + t, cost |-> walk[i-1].cost + levels[i].price * t]
  IN  walk

\* vwap_price: what n shares take of the book, and its cost.
Walk(levels, n) == WalkTo(levels, n)[Len(levels)]

BestPrice(levels) == levels[1].price
===============================================================================
