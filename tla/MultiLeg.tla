------------------------------- MODULE MultiLeg --------------------------------
(***************************************************************************)
(* Arbitrage in several legs: the scans of arb_detector.py, which find the  *)
(* legs, and the two ways to execute them: LegRiskHandler, which unwinds    *)
(* what has filled when a leg fails, and execute_arb, which does not.       *)
(*                                                                         *)
(* An order that is accepted may fill in part.  One without an id has filled *)
(* nothing, unless it is live and its reply was lost.  place_order raises    *)
(* when a callback of the fill does; neither executor catches that, so the   *)
(* call ends there, with nothing unwound from then on.                      *)
(***************************************************************************)
EXTENDS Integers, Sequences, FiniteSets, SequencesExt

CONSTANTS
  MarketPrices,  \* the prices of the outcomes, or of thresholds in ascending order
  Certain,       \* the price of a sure outcome
  Tolerance,     \* of the sum of the outcomes' prices
  LegSize,
  LeastProfit    \* execute_arb does nothing below it

ASSUME LegAssumption ==
  /\ \A p \in MarketPrices : p \in Seq(Nat) /\ Len(p) > 1
  /\ LegSize \in Nat \ {0} /\ {Certain, Tolerance, LeastProfit} \subseteq Nat

VARIABLES
  executor,   \* "handler" or "arb"
  legs,       \* [token, side], in the order they are placed
  orders,     \* what became of them so far: TRUE for an order that was accepted
  exposure,   \* per leg: what was bought or sold and not reversed
  loose,      \* legs of which an order or a reversal filled in part, raised, or lost its reply
  executing,  \* "placing", "unwinding", "returned", "raised"
  unwound     \* how many of the orders were looked at for unwinding

legVars == <<executor, legs, orders, exposure, loose, executing, unwound>>

Leg(token, side) == [token |-> token, side |-> side]

SumOf(prices) == LET total[i \in 0..Len(prices)] == IF i = 0 THEN 0 ELSE total[i - 1] + prices[i]
                 IN  total[Len(prices)]

\* scan_sum_to_one: sell every outcome when they cost too much together.
SumLegs(prices) ==
  IF SumOf(prices) <= Certain + Tolerance THEN <<>>
  ELSE [i \in DOMAIN prices |-> Leg(i, "SELL")]

\* scan_monotonic: each pair of neighbours in the wrong order is two legs, so a token
\* between two of them is both bought and sold.
Violations(prices) == {i \in 1..(Len(prices) - 1) : prices[i] < prices[i + 1]}

MonotonicLegs(prices) ==
  LET at == SetToSortSeq(Violations(prices), <)
  IN  [k \in 1..(2 * Cardinality(Violations(prices))) |->
         IF k % 2 = 1 THEN Leg(at[(k + 1) \div 2] + 1, "SELL") ELSE Leg(at[k \div 2], "BUY")]

Gain(prices, kind) ==
  LegSize * (IF kind = "sum" THEN SumOf(prices) - Certain
             ELSE SumOf([i \in 1..Len(prices) |-> IF i \in Violations(prices)
                                                   THEN prices[i + 1] - prices[i] ELSE 0]))

\* The handler begins with the deepest book.
Orderings(found) ==
  {[i \in DOMAIN found |-> found[f[i]]] :
     f \in {g \in [DOMAIN found -> DOMAIN found] :
              \A i, j \in DOMAIN found : g[i] = g[j] => i = j}}

LegInit ==
  \E prices \in MarketPrices, kind \in {"sum", "monotonic"} :
    LET found == IF kind = "sum" THEN SumLegs(prices) ELSE MonotonicLegs(prices)
    IN  /\ found # <<>>
        /\ \/ executor = "handler" /\ legs \in Orderings(found) /\ executing = "placing"
           \/ /\ executor = "arb" /\ legs = found
              /\ executing = IF Gain(prices, kind) < LeastProfit THEN "returned" ELSE "placing"
        /\ orders = <<>> /\ exposure = [i \in DOMAIN legs |-> 0]
        /\ loose = {} /\ unwound = 0

Shares(leg, n) == IF leg.side = "BUY" THEN n ELSE -n

AtLeg == Len(orders) + 1

\* Plausible bug: the legs are unwound only when an order is refused.
WhenRefused(ordered) == IF ordered THEN "unwinding" ELSE "returned"

\* Every failure unwinds: no book, a shallow one, slippage, or an order not accepted.
AfterFailure(ordered) == "unwinding"

Ordered(got) == exposure' = [exposure EXCEPT ![AtLeg] = Shares(legs[AtLeg], got)]

\* place_order gives an id; the leg counts as filled.
LegAccepted(got) ==
  /\ executing = "placing" /\ got \in 0..LegSize
  /\ orders' = Append(orders, TRUE)
  /\ Ordered(got)
  /\ loose' = IF got < LegSize THEN loose \cup {AtLeg} ELSE loose
  /\ executing' = IF AtLeg = Len(legs) THEN "returned" ELSE "placing"
  /\ UNCHANGED <<executor, legs, unwound>>

\* What the leg that has no id bought or sold all the same.
Unanswered(got) ==
  /\ Ordered(got)
  /\ loose' = IF got > 0 THEN loose \cup {AtLeg} ELSE loose

\* execute_multi_leg gives up; ordered tells whether an order was sent at all.
LegFails(ordered, got) ==
  /\ executing = "placing" /\ executor = "handler"
  /\ got \in 0..(IF ordered THEN LegSize ELSE 0)
  /\ orders' = Append(orders, FALSE)
  /\ Unanswered(got)
  /\ executing' = AfterFailure(ordered)
  /\ UNCHANGED <<executor, legs, unwound>>

\* execute_arb goes on to the next leg, and says at the end that it was done.
LegIgnored(got) ==
  /\ executing = "placing" /\ executor = "arb" /\ got \in 0..LegSize
  /\ orders' = Append(orders, FALSE)
  /\ Unanswered(got)
  /\ executing' = IF AtLeg = Len(legs) THEN "returned" ELSE "placing"
  /\ UNCHANGED <<executor, legs, unwound>>

\* The exception of a leg leaves the executor: no result, and the legs before it stay.
LegRaises(got) ==
  /\ executing = "placing" /\ got \in 0..LegSize
  /\ Ordered(got)
  /\ loose' = loose \cup {AtLeg}
  /\ executing' = "raised"
  /\ UNCHANGED <<executor, legs, orders, unwound>>

Reversed(got) ==
  LET i == unwound + 1
  IN  /\ executing = "unwinding" /\ unwound < Len(orders) /\ orders[i]
      /\ got \in 0..LegSize
      /\ exposure' = [exposure EXCEPT ![i] = @ - Shares(legs[i], got)]
      /\ unwound' = i
      /\ UNCHANGED <<executor, legs, orders>>

\* _unwind_legs: the size that was ordered, whatever of it has filled.
ReverseLeg(got) ==
  /\ Reversed(got)
  /\ loose' = IF got < LegSize THEN loose \cup {unwound + 1} ELSE loose
  /\ UNCHANGED executing

\* The legs after this one are not reversed any more.
ReversalRaises(got) ==
  /\ Reversed(got)
  /\ loose' = loose \cup {unwound + 1}
  /\ executing' = "raised"

Unwound ==
  /\ executing = "unwinding"
  /\ unwound = Len(orders) \/ ~orders[unwound + 1]
  /\ executing' = "returned"
  /\ UNCHANGED <<executor, legs, orders, exposure, loose, unwound>>

LegNext ==
  \/ \E got \in 0..LegSize :
       \/ LegAccepted(got) \/ LegIgnored(got) \/ LegRaises(got)
       \/ ReverseLeg(got) \/ ReversalRaises(got)
       \/ \E ordered \in BOOLEAN : LegFails(ordered, got)
  \/ Unwound

LegSpec == LegInit /\ [][LegNext]_legVars

-------------------------------------------------------------------------------
\* "If some legs fill and others don't, unwinds the filled legs to avoid naked
\* directional exposure" (leg_handler.py:5).  That is so when the handler returns: every
\* leg is filled or none is, but for the loose ones.  An exception leaves it with the legs
\* accepted and not reversed till then, whole.  And although the size ordered is reversed,
\* not the size filled, no leg is ever larger than it was ordered, either way round
\* (execute_multi_leg, _unwind_legs).
NoNakedLeg ==
  executor = "handler" =>
    LET filled  == \A i \in DOMAIN orders : orders[i]
        kept(i) == i \in DOMAIN orders /\ orders[i] /\ i > unwound
        whole(i, yes) == exposure[i] = IF yes THEN Shares(legs[i], LegSize) ELSE 0
    IN  /\ \A i \in DOMAIN legs : exposure[i] \in -LegSize..LegSize
        /\ executing = "returned" =>
             /\ filled => Len(orders) = Len(legs)
             /\ \A i \in DOMAIN legs \ loose : whole(i, filled)
        /\ executing = "raised" => \A i \in DOMAIN legs \ loose : whole(i, kept(i))
===============================================================================
