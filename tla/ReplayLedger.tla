----------------------------- MODULE ReplayLedger -----------------------------
(***************************************************************************)
(* The books of one replay (ReplayResult): what a trade costs, what it pays *)
(* when its window ends or a stop-loss sells it, and the figures that are   *)
(* made of the equity curve.  Money is in units of a token price tick:      *)
(* a token pays Tick if its side wins, and a share at price p costs p.      *)
(***************************************************************************)
EXTENDS Integers, Sequences

CONSTANTS
  Tick,       \* what one winning share pays
  FeeRate,    \* FEE_RATE, in percent
  Start       \* the bankroll at the start

Sides == {"UP", "DOWN"}

\* The strategies that can be replayed.
Strategies ==
  {"oracle", "momentum", "leadlag", "convergence", "snipe", "volconv", "rl"}

\* No side: the strategy wants none, or the trade is not settled.
None == "NONE"

\* No trade is open.
NoTrade == [strategy |-> None]

ASSUME LedgerAssumption ==
  /\ Tick \in Nat \ {0, 1}
  /\ FeeRate \in 0..100
  /\ Start \in Nat \ {0}

\* The parabolic fee for so many shares at a price.
Fee(shares, price) == (shares * FeeRate * price * (Tick - price)) \div (100 * Tick)

EmptyBook ==
  [bankroll |-> Start, fees |-> 0, wins |-> 0, losses |-> 0,
   curve |-> <<Start>>, trades |-> <<>>]

\* Plausible bug: the curve gets the bankroll of before the trade.
EnteredOffCurve(b, t, outcome, pnl, fee) ==
  [bankroll |-> b.bankroll + pnl,
   fees     |-> b.fees + fee,
   wins     |-> b.wins + (IF outcome = "WIN" THEN 1 ELSE 0),
   losses   |-> b.losses + (IF outcome = "WIN" THEN 0 ELSE 1),
   curve    |-> Append(b.curve, b.bankroll),
   trades   |-> Append(b.trades, [t EXCEPT !.outcome = outcome, !.pnl = pnl])]

\* A closed trade and the profit it made, entered in the books.
Entered(b, t, outcome, pnl, fee) ==
  [bankroll |-> b.bankroll + pnl,
   fees     |-> b.fees + fee,
   wins     |-> b.wins + (IF outcome = "WIN" THEN 1 ELSE 0),
   losses   |-> b.losses + (IF outcome = "WIN" THEN 0 ELSE 1),
   curve    |-> Append(b.curve, b.bankroll + pnl),
   trades   |-> Append(b.trades, [t EXCEPT !.outcome = outcome, !.pnl = pnl])]

\* What a trade makes if it is held until the end of its window.
Payout(t, winner) ==
  (IF t.side = winner THEN t.shares * Tick ELSE 0) - t.shares * t.price - t.fee

\* settle_trade: a window nobody has an outcome for is left out of the books.
Settled(b, t, winner) ==
  IF winner = None
  THEN b
  ELSE Entered(b, t, IF t.side = winner THEN "WIN" ELSE "LOSS", Payout(t, winner), t.fee)

\* The stop-loss sells at the bid and pays the fee a second time.
Stopped(b, t, bid) ==
  LET exitFee == Fee(t.shares, bid)
  IN  Entered(b, t, "STOP", t.shares * bid - t.shares * t.price - t.fee - exitFee,
              t.fee + exitFee)

\* How far equity is below a peak, in per mille.
Fall(peak, equity) == IF peak > 0 THEN ((peak - equity) * 1000) \div peak ELSE 0

\* The running peak and the deepest fall so far, after one more point.
Deepened(before, equity) ==
  LET peak == IF equity > before.peak THEN equity ELSE before.peak
      fall == Fall(peak, equity)
  IN  [peak |-> peak, worst |-> IF fall > before.worst THEN fall ELSE before.worst]

DrawdownWalk(curve) ==
  LET walk[i \in 0..Len(curve)] ==
        IF i = 0 THEN [peak |-> curve[1], worst |-> 0] ELSE Deepened(walk[i-1], curve[i])
  IN  walk

\* compute_max_drawdown: the deepest fall below the running peak.
MaxDrawdown(curve) == DrawdownWalk(curve)[Len(curve)].worst

-------------------------------------------------------------------------------
TradeRecord ==
  [strategy : Strategies, window : Nat, side : Sides, price : 1..(Tick-1),
   shares : Nat \ {0}, fee : Nat, ts : Int, left : Nat,
   outcome : {None, "WIN", "LOSS", "STOP"}, pnl : Int]

\* The books add up: every point of the curve is the one before and the trade
\* between, the last one is the bankroll, and every trade is won or lost.
AddsUp(b) ==
  /\ Len(b.curve) = Len(b.trades) + 1
  /\ b.curve[1] = Start
  /\ b.bankroll = b.curve[Len(b.curve)]
  /\ \A k \in 1..Len(b.trades) : b.curve[k+1] - b.curve[k] = b.trades[k].pnl
  /\ b.wins + b.losses = Len(b.trades)
===============================================================================
