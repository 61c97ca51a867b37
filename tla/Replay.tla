-------------------------------- MODULE Replay --------------------------------
(***************************************************************************)
(* The replay of one strategy over the recorded ticks of one asset          *)
(* (backtest/replay.py).  One step is one turn of the strategy's loop: it   *)
(* settles the trade of a window that has ended, then holds, waits or       *)
(* enters.                                                                  *)
(*                                                                         *)
(* A record carries what the loops read from it: its time, its window, the  *)
(* seconds left, the price of UP (DOWN costs the rest), whether the spot is *)
(* at or above the strike, and `sig`, the side that the numeric filters of  *)
(* the strategy (move, z-score, staleness, edge, distance, policy) make of  *)
(* it, which is free.  The records are read as they come: `winners`, what   *)
(* compute_window_outcomes makes of the whole file before the loop starts,  *)
(* is chosen first and the last record of a window has to show it.          *)
(***************************************************************************)
EXTENDS ReplayLedger

CONSTANTS
  Kinds,            \* the strategies to replay
  WindowLength,     \* seconds of a window
  LastWindow,       \* bound: windows are 0..LastWindow
  MaxRecords,       \* bound: length of the file
  Prices,           \* the prices of UP that occur
  High, Low,        \* a price of UP above High (below Low) shows a winner
  Lookback,         \* records of history a strategy needs
  Rules,            \* per strategy: limits of time and price, share of bankroll, most to stake
  MinStake,         \* the least size worth a trade
  Cooldown,         \* per strategy: cooldown_seconds
  Confirmations,    \* confirmations_required, confirm_ticks
  CooldownWindows,  \* cooldown_windows of the convergence strategy
  Sure,             \* its confidence_threshold
  StrictLeft,       \* the snipe's strict tier: at most so many seconds left
  SoftLow, SoftHigh,\* its price band before that
  StopLoss,         \* stop_loss_price of the snipe, 0 if there is none
  MaxLag            \* max_lag_seconds of lead-lag

Windows == 0..LastWindow

Rule == [minLeft : Nat, maxLeft : Nat, low : Nat, high : Nat,
         part : Nat \ {0, 1}, most : Nat]

ASSUME ReplayAssumption ==
  /\ Kinds \subseteq Strategies
  /\ WindowLength \in Nat \ {0} /\ LastWindow \in Nat /\ MaxRecords \in Nat
  /\ Prices \subseteq 1..(Tick-1) /\ High \in Nat /\ Low \in Nat
  /\ Lookback \in Nat
  /\ Rules \in [Strategies -> Rule]
  /\ MinStake \in Nat
  /\ Cooldown \in [Strategies -> Nat]
  /\ Confirmations \in Nat \ {0} /\ CooldownWindows \in Nat /\ Sure \in Nat
  /\ StrictLeft \in Nat /\ SoftLow \in Nat /\ SoftHigh \in Nat
  /\ StopLoss \in Nat /\ MaxLag \in Nat

VARIABLES
  kind,      \* the strategy that is replayed
  winners,   \* the side that wins each window
  rec,       \* the record read last, or NoRecord
  seen,      \* how many records were read
  clock,     \* the time of the record read last (lead-lag: of the leader)
  window,    \* current_slug
  trade,     \* current_trade
  lastTs,    \* last_trade_ts
  pending,   \* consecutive or pending side and its count
  since,     \* windows_since_trade
  marked,    \* the windows in which the strategy has signaled
  book,      \* the ReplayResult
  drawdown,  \* max_drawdown, once it is computed
  done       \* the replay has ended

replayVars == <<kind, winners, rec, seen, clock, window, trade, lastTs, pending, since,
                marked, book, drawdown, done>>

NoRecord == [window |-> -1]
NoWindow == -1
Nothing == [side |-> None, n |-> 0]

\* windows_since_trade starts high enough for any cooldown.
LongAgo == 999

Records ==
  [window : Windows, left : 0..(WindowLength-1), up : Prices, above : BOOLEAN,
   sig : Sides \cup {None}]

\* When a record was taken: windows follow each other.
TimeOf(r) == (r.window + 1) * WindowLength - r.left

\* What a record shows as its window's winner (compute_window_outcomes).
Shown(r) ==
  IF r.up > High THEN "UP"
  ELSE IF r.up < Low THEN "DOWN"
  ELSE IF r.above THEN "UP" ELSE "DOWN"

ReplayInit ==
  /\ kind \in Kinds
  /\ winners \in [Windows -> Sides]
  /\ rec = NoRecord /\ seen = 0 /\ clock = 0
  /\ window = NoWindow /\ trade = NoTrade
  /\ lastTs = 0 - Cooldown[kind]
  /\ pending = Nothing
  /\ since = LongAgo
  /\ marked = {}
  /\ book = EmptyBook
  /\ drawdown = 0
  /\ done = FALSE

-------------------------------------------------------------------------------
(* What the loops have in common.                                           *)

\* The file goes on with r.  If a window has no more records, the last one has
\* shown its winner.
Follows(r) ==
  /\ ~done /\ seen < MaxRecords
  /\ TimeOf(r) > clock
  /\ rec # NoRecord /\ r.window # rec.window => Shown(rec) = winners[rec.window]
  /\ r.left = 0 => Shown(r) = winners[r.window]

Reads(r) ==
  /\ Follows(r)
  /\ rec' = r /\ seen' = seen + 1 /\ clock' = TimeOf(r)
  /\ UNCHANGED <<kind, winners, drawdown, done>>

Turns(r) == r.window # window

\* The books and the open trade once the trade of an ended window is settled.
BookAt(r) ==
  IF Turns(r) /\ trade # NoTrade THEN Settled(book, trade, winners[trade.window]) ELSE book

\* Plausible bug: the trade is settled but stays open.
HeldAlways(r) == trade

HeldAt(r) == IF Turns(r) THEN NoTrade ELSE trade

PriceOf(r, side) == IF side = "UP" THEN r.up ELSE Tick - r.up

\* Shares for a part of the bankroll, capped; none if that is too little.
Shares(k, bankroll, price) ==
  LET part  == IF bankroll > 0 THEN bankroll \div Rules[k].part ELSE 0
      stake == IF part < Rules[k].most THEN part ELSE Rules[k].most
  IN  IF stake < MinStake THEN 0 ELSE stake \div price

InTime(r) == r.left \in Rules[kind].minLeft..Rules[kind].maxLeft

InBand(r, side) == PriceOf(r, side) \in Rules[kind].low..Rules[kind].high

\* The trade that an entry on this side makes.
TradeOn(r, side) ==
  LET price  == PriceOf(r, side)
      shares == Shares(kind, BookAt(r).bankroll, price)
  IN  [strategy |-> kind, window |-> r.window, side |-> side, price |-> price,
       shares |-> shares, fee |-> Fee(shares, price), ts |-> TimeOf(r), left |-> r.left,
       outcome |-> None, pnl |-> 0]

\* The strategy wants this side, holds nothing and can pay for it.
Enters(r, side) ==
  /\ side # None
  /\ HeldAt(r) = NoTrade
  /\ Shares(kind, BookAt(r).bankroll, PriceOf(r, side)) > 0

HoldsOrEnters(r, side) ==
  /\ book' = BookAt(r)
  /\ window' = r.window
  /\ trade' = IF Enters(r, side) THEN TradeOn(r, side) ELSE HeldAt(r)

-------------------------------------------------------------------------------
(* One turn of each strategy's loop.                                        *)

\* Oracle front-running: a move, once per cooldown.
OracleWant(r) ==
  IF /\ seen >= Lookback
     /\ TimeOf(r) - lastTs >= Cooldown[kind]
     /\ InTime(r)
     /\ r.sig # None /\ InBand(r, r.sig)
  THEN r.sig ELSE None

OracleStep(r) ==
  /\ kind = "oracle"
  /\ Reads(r)
  /\ HoldsOrEnters(r, OracleWant(r))
  /\ lastTs' = IF Enters(r, OracleWant(r)) THEN TimeOf(r) ELSE lastTs
  /\ UNCHANGED <<pending, since, marked>>

\* Momentum: several records of a window have to want the same side.  One that
\* wants none leaves the count as it is.
PendingAt(r) == IF Turns(r) THEN Nothing ELSE pending

MomentumWant(r) ==
  IF seen >= Lookback /\ InTime(r) /\ r.sig # None /\ InBand(r, r.sig)
  THEN r.sig ELSE None

Counted(p, side) == [side |-> side, n |-> IF p.side = side THEN p.n + 1 ELSE 1]

MomentumStep(r) ==
  LET want      == MomentumWant(r)
      held      == HeldAt(r) # NoTrade
      count     == IF held \/ want = None THEN PendingAt(r) ELSE Counted(PendingAt(r), want)
      confirmed == IF count.n >= Confirmations THEN want ELSE None
  IN  /\ kind = "momentum"
      /\ Reads(r)
      /\ HoldsOrEnters(r, confirmed)
      /\ pending' = IF Enters(r, confirmed) THEN Nothing ELSE count
      /\ UNCHANGED <<lastTs, since, marked>>

\* Convergence: the side that has been all but certain for some records, in the
\* last seconds, not too soon after the window of the trade before.
Certain(r) ==
  IF r.up >= Sure THEN "UP" ELSE IF Tick - r.up >= Sure THEN "DOWN" ELSE None

StreakAt(r) ==
  IF Certain(r) = None THEN Nothing ELSE Counted(PendingAt(r), Certain(r))

SinceAt(r) ==
  IF ~Turns(r) THEN since ELSE IF trade # NoTrade THEN 0 ELSE since + 1

ConvergenceWant(r) ==
  IF SinceAt(r) >= CooldownWindows /\ InTime(r) /\ StreakAt(r).n >= Confirmations
  THEN Certain(r) ELSE None

ConvergenceStep(r) ==
  /\ kind = "convergence"
  /\ Reads(r)
  /\ HoldsOrEnters(r, ConvergenceWant(r))
  /\ pending' = StreakAt(r)
  /\ since' = SinceAt(r)
  /\ UNCHANGED <<lastTs, marked>>

\* The last-seconds snipe: the favourite, within the band of its tier, once a
\* window, with a stop-loss.
SnipeBand(r) ==
  IF r.left <= StrictLeft THEN Rules[kind].low..Rules[kind].high ELSE SoftLow..SoftHigh

SnipeWant(r) ==
  IF /\ r.window \notin marked
     /\ InTime(r)
     /\ r.sig # None /\ PriceOf(r, r.sig) \in SnipeBand(r)
  THEN r.sig ELSE None

StopsOut(r) ==
  /\ HeldAt(r) # NoTrade
  /\ PriceOf(r, trade.side) < StopLoss

SnipeStep(r) ==
  /\ kind = "snipe"
  /\ Reads(r)
  /\ ~StopsOut(r)
  /\ HoldsOrEnters(r, SnipeWant(r))
  /\ marked' = IF Enters(r, SnipeWant(r)) THEN {r.window} ELSE marked
  /\ UNCHANGED <<lastTs, pending, since>>

SnipeStops(r) ==
  /\ kind = "snipe"
  /\ Reads(r)
  /\ StopsOut(r)
  /\ book' = Stopped(book, trade, PriceOf(r, trade.side))
  /\ trade' = NoTrade
  /\ UNCHANGED <<window, lastTs, pending, since, marked>>

\* Volatility convexity: once a window, near the middle of its time and price.
VolConvWant(r) ==
  IF r.window \notin marked /\ InTime(r) /\ r.sig # None /\ InBand(r, r.sig)
  THEN r.sig ELSE None

VolConvStep(r) ==
  /\ kind = "volconv"
  /\ Reads(r)
  /\ HoldsOrEnters(r, VolConvWant(r))
  /\ marked' = IF Enters(r, VolConvWant(r)) THEN {r.window} ELSE marked
  /\ UNCHANGED <<lastTs, pending, since>>

\* The learned policy: its trade is settled at once, by what the file will show.
RLWant(r) ==
  IF /\ r.window \notin marked
     /\ TimeOf(r) - lastTs >= Cooldown[kind]
     /\ r.sig # None /\ InBand(r, r.sig)
     /\ Shares(kind, book.bankroll, PriceOf(r, r.sig)) > 0
  THEN r.sig ELSE None

RLStep(r) ==
  LET enters == RLWant(r) # None
  IN  /\ kind = "rl"
      /\ Reads(r)
      /\ book' = IF enters THEN Settled(book, TradeOn(r, r.sig), winners[r.window]) ELSE book
      /\ marked' = IF enters THEN marked \cup {r.window} ELSE marked
      /\ lastTs' = IF enters THEN TimeOf(r) ELSE lastTs
      /\ UNCHANGED <<window, trade, pending, since>>

\* Lead-lag goes by the leader's ticks.  When the leader moves to a side at some
\* time, the follower's last record r before it counts, if it is recent enough;
\* the records in between are skipped, and so may whole windows be.
LeadLagWant(r, side, now) ==
  IF now - lastTs >= Cooldown[kind] /\ InTime(r) /\ InBand(r, side) THEN side ELSE None

LeadLagStep(r, now) ==
  LET want == LeadLagWant(r, r.sig, now)
  IN  /\ kind = "leadlag" /\ ~done
      /\ now > clock /\ clock' = now
      /\ seen < MaxRecords /\ seen' = seen + 1
      /\ rec # NoRecord => TimeOf(rec) < TimeOf(r) \/ [rec EXCEPT !.sig = r.sig] = r
      /\ r.sig # None
      /\ rec' = r
      /\ book' = BookAt(r)
      /\ window' = r.window
      /\ trade' = IF Enters(r, want) THEN [TradeOn(r, want) EXCEPT !.ts = now] ELSE HeldAt(r)
      /\ lastTs' = IF Enters(r, want) THEN now ELSE lastTs
      /\ UNCHANGED <<kind, winners, pending, since, marked, drawdown, done>>

\* The file is at its end: the open trade is settled, the drawdown computed.
EndOfFile ==
  /\ ~done
  /\ kind # "leadlag" /\ rec # NoRecord => Shown(rec) = winners[rec.window]
  /\ book' = IF trade # NoTrade THEN Settled(book, trade, winners[trade.window]) ELSE book
  /\ trade' = NoTrade
  /\ drawdown' = MaxDrawdown(book'.curve)
  /\ done' = TRUE
  /\ UNCHANGED <<kind, winners, rec, seen, clock, window, lastTs, pending, since, marked>>

ReplayStep(r) ==
  \/ OracleStep(r) \/ MomentumStep(r) \/ ConvergenceStep(r)
  \/ SnipeStep(r) \/ SnipeStops(r) \/ VolConvStep(r) \/ RLStep(r)
  \/ \E lag \in 0..MaxLag : LeadLagStep(r, TimeOf(r) + lag)

ReplayNext == (\E r \in Records : ReplayStep(r)) \/ EndOfFile

ReplaySpec == ReplayInit /\ [][ReplayNext]_replayVars
-------------------------------------------------------------------------------
\* No strategy trades a window twice, whether it holds to the end, is stopped out
\* or settles at once: the trades in the books and the open one are of one window
\* after the other (the settling turn and the marks of every `run` loop).
OneTradeAWindow ==
  /\ \A j \in 1..Len(book.trades) : \A i \in 1..(j-1) :
       book.trades[i].window < book.trades[j].window
  /\ trade # NoTrade =>
       \A i \in 1..Len(book.trades) : book.trades[i].window < trade.window

\* Every trade was paid for from the bankroll that the trades before it left.
PaidFromBankroll(b) ==
  \A k \in 1..Len(b.trades) : b.trades[k].shares * b.trades[k].price <= b.curve[k]

\* The deepest fall of a curve, read off its pairs of points.
DeepestFall(curve, worst) ==
  LET Falls == {((curve[p[1]] - curve[p[2]]) * 1000) \div curve[p[1]] :
                  p \in {q \in (DOMAIN curve) \X (DOMAIN curve) :
                           q[1] <= q[2] /\ curve[q[1]] >= curve[q[2]] /\ curve[q[1]] > 0}}
  IN  worst \in Falls \cup {0} /\ \A fall \in Falls : fall <= worst

\* What a replay reports is what its trades made: the curve goes from trade to
\* trade, wins and losses count them all, no trade costs more than the bankroll
\* held when it was sized, and the drawdown is the deepest fall of the curve
\* (settle_trade, the stop-loss, compute_max_drawdown).
LedgerAddsUp ==
  /\ AddsUp(book)
  /\ PaidFromBankroll(book)
  /\ done => DeepestFall(book.curve, drawdown)
===============================================================================
