------------------------------- MODULE Simulator -------------------------------
(***************************************************************************)
(* The window simulator (backtest/simulator.py).  Each recorded window is   *)
(* put to every strategy in turn; a decision is settled at once by the      *)
(* outcome that the window carries.  A strategy that has traded sits out    *)
(* the next window, one with too many losses in a row the rest of the run.  *)
(*                                                                         *)
(* A window holds the quotes of UP, the side the numbers favour at each     *)
(* sample (momentum, z-score, edge, regime: the filters of                  *)
(* _evaluate_candidate and of the legacy skills), and its outcome.          *)
(***************************************************************************)
EXTENDS ReplayLedger, FiniteSets, Sums

CONSTANTS
  Runners,       \* the strategies, in the order they were added
  Confirming,    \* those that are V2MomentumBacktestRunner
  RunWindows,    \* bound: how many windows are simulated
  Samples,       \* prices per window
  Walks,         \* what the samples of a window may favour
  QuoteSets,     \* what the token may be quoted at in a window
  EntryAges,     \* the samples after min_entry_age and before entry_deadline
  LegacySample,  \* the one sample a legacy strategy looks at
  Warmup, LegacyWarmup,  \* prices a strategy needs
  HistoryLimit, HistoryKept,  \* a history beyond the one is cut to the other
  PriceBand,     \* min_price..max_price
  Stake,         \* the notional of a trade
  Slips,         \* slippage that occurs, in ticks
  Confirms,      \* confirmations_required
  LossLimit      \* losses in a row that stop a strategy

ASSUME SimulatorAssumption ==
  /\ Runners \in Seq(STRING) /\ RunWindows \in Nat /\ Samples \in Nat \ {0}
  /\ Walks \subseteq [1..Samples -> Sides \cup {None}]
  /\ \A Q \in QuoteSets : Q \subseteq [t : 0..Samples, up : 1..(Tick-1)]
  /\ EntryAges \subseteq 1..Samples /\ LegacySample \in 1..Samples
  /\ Warmup \in Nat /\ LegacyWarmup \in Nat /\ HistoryLimit \in Nat /\ HistoryKept \in 0..HistoryLimit
  /\ PriceBand \subseteq 1..(Tick-1) /\ Stake \in Nat /\ Stake >= Tick
  /\ Slips \subseteq Nat /\ Confirms \in Nat \ {0} /\ LossLimit \in Nat \ {0}

VARIABLES
  index,        \* which window is simulated
  current,      \* _current_window, NoInput once all are done
  next,         \* whose turn it is
  history,      \* how long price_history is
  cooldownUntil, consecutiveLosses,
  equity, peak, simDrawdown,
  simTrades,
  equityCurve,
  report        \* <<total_pnl, peak_equity>> once the run is over

simulatorVars == <<index, current, next, history, cooldownUntil, consecutiveLosses,
                   equity, peak, simDrawdown, simTrades, equityCurve, report>>

Inputs == [walk : Walks, quotes : QuoteSets, outcome : Sides]

NoInput == [outcome |-> None]

RunnerNames == {Runners[k] : k \in DOMAIN Runners}

SimulatorInit ==
  /\ index = 0
  /\ current \in (IF RunWindows > 0 THEN Inputs ELSE {NoInput})
  /\ next = 1 /\ history = 0
  /\ cooldownUntil = [s \in RunnerNames |-> 0]
  /\ consecutiveLosses = [s \in RunnerNames |-> 0]
  /\ equity = Start /\ peak = Start /\ simDrawdown = 0
  /\ simTrades = <<>> /\ equityCurve = <<>> /\ report = <<>>

-------------------------------------------------------------------------------
\* _find_past_price: the latest quote at or before a time, 0 if there is none.
PastPrice(quotes, side, at) ==
  LET past == {q \in quotes : q.t <= at}
  IN  IF past = {} THEN 0
      ELSE LET q == CHOOSE q \in past : \A other \in past : other.t <= q.t
           IN  IF side = "UP" THEN q.up ELSE Tick - q.up

\* The side favoured at a sample, if enough prices are known and it is quoted in
\* the band.
Favoured(k, needed) ==
  IF /\ history + k >= needed
     /\ current.walk[k] # None
     /\ PastPrice(current.quotes, current.walk[k], k) \in PriceBand
  THEN current.walk[k] ELSE None

SideAt(k) == Favoured(k, Warmup)

\* LegacyStrategyRunner.evaluate: the older skills need more prices.
LegacySide(k) == Favoured(k, LegacyWarmup)

\* Plausible bug: a sample that wants nothing leaves the count as it is.
ConfirmedInAll ==
  LET Agreeing(k) == {j \in EntryAges : j <= k /\ SideAt(j) = SideAt(k)}
      enough == {k \in EntryAges :
                   SideAt(k) # None /\ Cardinality(Agreeing(k)) >= Confirms}
  IN  IF enough = {} THEN 0 ELSE CHOOSE k \in enough : \A j \in enough : k <= j

\* evaluate_window: samples that agree are counted, one after the other; one that
\* wants nothing starts the count again.
AgreedAfter(count, k) ==
  IF k \notin EntryAges THEN count
  ELSE IF SideAt(k) = None THEN [side |-> None, n |-> 0]
  ELSE [side |-> SideAt(k), n |-> IF SideAt(k) = count.side THEN count.n + 1 ELSE 1]

Agreed ==
  LET count[k \in 0..Samples] ==
        IF k = 0 THEN [side |-> None, n |-> 0] ELSE AgreedAfter(count[k-1], k)
  IN  count

\* The sample that decides, or 0.
ConfirmedAt ==
  LET enough == {k \in EntryAges : Agreed[k].n >= Confirms}
  IN  IF enough = {} THEN 0 ELSE CHOOSE k \in enough : \A j \in enough : k <= j

LegacyAt == IF LegacySide(LegacySample) # None THEN LegacySample ELSE 0

DecidedAt(s) == IF s \in Confirming THEN ConfirmedAt ELSE LegacyAt

\* Plausible bug: losses are counted, and nobody is stopped.
MayAlways(s) == cooldownUntil[s] <= index

MayTrade(s) == cooldownUntil[s] <= index /\ consecutiveLosses[s] < LossLimit

\* _settle_decision: the trade at a price that slipped, paid by the outcome.
SettledAt(s, k, slip) ==
  LET side   == current.walk[k]
      fill   == PastPrice(current.quotes, side, k) + slip
      shares == Stake \div fill
      fees   == Fee(shares, fill)
      pnl    == IF side = current.outcome THEN shares * (Tick - fill) - fees ELSE 0 - Stake - fees
  IN  [window |-> index, strategy |-> s, side |-> side, at |-> k, pnl |-> pnl, won |-> pnl > 0]

\* A fill more than 3 % above the signal is refused.
SlipsTooFar(k, slip) ==
  LET signal == PastPrice(current.quotes, current.walk[k], k)
  IN  (signal + slip) * 100 > signal * 103

Higher(a, b) == IF a > b THEN a ELSE b

\* Plausible bug: only losses of the bankroll count.
FallOfBankroll(pnl) == Higher(0, Start - (equity + pnl))

\* How far equity is below its peak after a trade.
FallAfter(pnl) == Higher(peak, equity + pnl) - (equity + pnl)

-------------------------------------------------------------------------------
(* The loop of `run`.                                                       *)

Running == index < RunWindows /\ next <= Len(Runners)

\* The strategy sits out, wants nothing, or its fill is refused.
NoTradeBy(s) ==
  /\ Running /\ s = Runners[next]
  /\ \/ ~MayTrade(s)
     \/ DecidedAt(s) = 0
     \/ DecidedAt(s) # 0 /\ \E slip \in Slips : SlipsTooFar(DecidedAt(s), slip)
  /\ next' = next + 1
  /\ UNCHANGED <<index, current, history, cooldownUntil, consecutiveLosses, equity, peak,
                 simDrawdown, simTrades, equityCurve, report>>

TradeBy(s, slip) ==
  LET t == SettledAt(s, DecidedAt(s), slip)
  IN  /\ Running /\ s = Runners[next]
      /\ MayTrade(s)
      /\ DecidedAt(s) # 0 /\ ~SlipsTooFar(DecidedAt(s), slip)
      /\ simTrades' = Append(simTrades, t)
      /\ equity' = equity + t.pnl
      /\ peak' = Higher(peak, equity')
      /\ simDrawdown' = Higher(simDrawdown, FallAfter(t.pnl))
      /\ consecutiveLosses' =
           [consecutiveLosses EXCEPT ![s] = IF t.won THEN 0 ELSE @ + 1]
      /\ cooldownUntil' = [cooldownUntil EXCEPT ![s] = index + 2]
      /\ next' = next + 1
      /\ UNCHANGED <<index, current, history, equityCurve, report>>

\* All strategies have had their turn: the next window, and its prices are history.
NextWindow(input) ==
  /\ index < RunWindows /\ next > Len(Runners)
  /\ index' = index + 1 /\ next' = 1
  /\ history' = IF history + Samples > HistoryLimit THEN HistoryKept ELSE history + Samples
  /\ equityCurve' = Append(equityCurve, equity)
  /\ current' = IF index' < RunWindows THEN input ELSE NoInput
  /\ UNCHANGED <<cooldownUntil, consecutiveLosses, equity, peak, simDrawdown, simTrades, report>>

EndOfRun ==
  /\ index = RunWindows /\ report = <<>>
  /\ report' = <<equity - Start, peak>>
  /\ UNCHANGED <<index, current, next, history, cooldownUntil, consecutiveLosses,
                 equity, peak, simDrawdown, simTrades, equityCurve>>

SimulatorNext ==
  \/ \E s \in RunnerNames : NoTradeBy(s) \/ (\E slip \in Slips : TradeBy(s, slip))
  \/ \E input \in Inputs : NextWindow(input)
  \/ EndOfRun

SimulatorSpec == SimulatorInit /\ [][SimulatorNext]_simulatorVars

-------------------------------------------------------------------------------
\* The trades of one strategy among the i-th to the j-th.
TradesOf(s, i, j) == {k \in i..j : simTrades[k].strategy = s}

\* A strategy sits out the window after a trade and stops for good at its limit
\* of losses in a row; and a trade that has to be confirmed rests on samples in a
\* row that all wanted its side (run, evaluate_window).
StrategiesStop ==
  /\ \A j \in 1..Len(simTrades) : \A i \in 1..(j-1) :
       LET s == simTrades[j].strategy
       IN  /\ simTrades[i].strategy = s => simTrades[j].window >= simTrades[i].window + 2
           /\ Cardinality(TradesOf(s, i, j-1)) >= LossLimit =>
                \E k \in TradesOf(s, i, j-1) : simTrades[k].won
  /\ \A i \in 1..Len(simTrades) :
       LET t == simTrades[i]
       IN  t.strategy \in Confirming /\ t.window = index =>
             \E j \in EntryAges :
               LET samples == {k \in EntryAges : j <= k /\ k <= t.at}
               IN  /\ Cardinality(samples) >= Confirms
                   /\ \A k \in samples : SideAt(k) = t.side

\* Equity after so many trades.
EquityAfter(n) ==
  Start + PartialSums([i \in 1..Len(simTrades) |-> simTrades[i].pnl], Len(simTrades))[n]

\* The report is made of the trades: equity, its curve at the end of every window,
\* and the deepest fall after any trade, also within a window (run).
SimulatorAddsUp ==
  /\ equity = EquityAfter(Len(simTrades))
  /\ Len(equityCurve) = index
  /\ \A i \in 1..index :
       \E n \in 0..Len(simTrades) :
         /\ \A k \in 1..Len(simTrades) : k <= n <=> simTrades[k].window < i
         /\ equityCurve[i] = EquityAfter(n)
  /\ \E a, b \in 0..Len(simTrades) : a <= b /\ simDrawdown = EquityAfter(a) - EquityAfter(b)
  /\ \A a, b \in 0..Len(simTrades) : a <= b => EquityAfter(a) - EquityAfter(b) <= simDrawdown
  /\ report # <<>> => report[1] = EquityAfter(Len(simTrades)) - Start
===============================================================================
