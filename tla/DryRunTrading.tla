----------------------------- MODULE DryRunTrading -----------------------------
(***************************************************************************)
(* Paper trading end to end: the main loop of main.py with its risk checks, *)
(* the pipeline every signal goes through (risk gate, capital gate,         *)
(* executor), the fill callback that updates positions and capital, the     *)
(* settlement of a rolling market when its window ends, the kill switch and *)
(* the shutdown.                                                            *)
(*                                                                         *)
(* One thread runs all of it, so a handler is one step unless it fires      *)
(* several fills; then each fill is a step and `todo` or `entries` says     *)
(* which fills are left.  A token is a pair <<window, side>>.               *)
(* A signal that a gate rejects changes nothing: it is a stuttering step.   *)
(***************************************************************************)
EXTENDS CapitalAllocator, Positions, FillTerms, Sequences

CONSTANTS
  Traders,         \* the strategies that submit signals
  Sellers,         \* those of them that also submit SELL signals
  LastWindow,      \* number of windows of the rolling market (a bound of the model)
  Prices,          \* prices a signal may name and an order may fill at
  ExitPrices,      \* prices the stop-loss, kill-switch and shutdown sales fill at
  OrderSizes,      \* sizes a strategy asks for
  MaxPosition,     \* max_position_size_usdc
  MaxExposure,     \* max_total_exposure_usdc
  MaxDrawdownPct,  \* max_drawdown_pct
  StopLossPct,     \* stop_loss_pct
  LogResults,      \* whether the trade log's write succeeds, of a fill
  MaxSignals       \* number of signals that reach the executor (a bound of the model)

Sides == {"UP", "DOWN"}

\* The fill sources that are not strategies.
SystemSources == {"settlement", "stop_loss", "kill_switch", "shutdown_close"}

ASSUME TradingAssumption ==
  /\ LastWindow \in Nat \ {0}
  /\ Markets = (1..LastWindow) \X Sides
  /\ Strategies = Traders \cup SystemSources
  /\ Sellers \subseteq Traders
  /\ LogResults \subseteq BOOLEAN
  /\ Prices \cup ExitPrices \subseteq 1..(One - 1)
  /\ OrderSizes \subseteq Nat \ {0}
  /\ {MaxPosition, MaxExposure, MaxDrawdownPct, StopLossPct, MaxSignals} \subseteq Nat

VARIABLES
  pos,        \* OMS positions, by token
  realized,   \* OMS total_realized_pnl
  cash,       \* history: money paid and received for shares really held
  halted,     \* RiskEngine.halted
  peak,       \* RiskEngine._peak_portfolio_value
  window,     \* the window whose tokens the provider shows
  key,        \* the window of the runner's _last_window_key
  entries,    \* _open_entries of the runner: the sizes tracked for each token
  due,        \* the entries the running settlement has not come to
  outcome,    \* the oracle's answer for the window being settled
  todo,       \* tokens the running sell loop has not come to
  untracked,  \* history: tokens bought by a fill that the runner never heard of
  resold,     \* history: some sale took shares that an entry tracks, or more than is held
  signals,    \* signals that reached the executor
  phase       \* where the main loop is

money == <<cap, pos, realized, cash>>
risk == <<halted, peak>>
runner == <<window, key, entries, due, outcome>>
history == <<untracked, resold>>
vars == <<money, risk, runner, todo, history, signals, phase>>

\* "stopped" after a shutdown that came to its end, "crashed" after one that raised.
Phases == {"check", "stops", "kill", "close", "stopped", "crashed", "refresh", "settle", "signals"}

Tracking == [Markets -> Seq(Nat \ {0})]

NoEntries == [t \in Markets |-> <<>>]

TypeOK ==
  /\ cap \in Ledgers
  /\ pos \in [Markets -> PositionRecord]
  /\ realized \in Int
  /\ cash \in Int
  /\ halted \in BOOLEAN
  /\ peak \in Nat
  /\ window \in 1..LastWindow
  /\ key \in 1..LastWindow
  /\ entries \in Tracking
  /\ due \in Tracking
  /\ outcome \in Sides \cup {"none"}
  /\ todo \in SUBSET Markets
  /\ untracked \in SUBSET Markets
  /\ resold \in BOOLEAN
  /\ signals \in Nat
  /\ phase \in Phases

Init ==
  /\ cap = EmptyLedger
  /\ pos = [t \in Markets |-> Flat]
  /\ realized = 0
  /\ cash = 0
  /\ halted = FALSE
  /\ peak = TotalCapital
  /\ window = 1
  /\ key = 1
  /\ entries = NoEntries
  /\ due = NoEntries
  /\ outcome = "none"
  /\ todo = {}
  /\ untracked = {}
  /\ resold = FALSE
  /\ signals = 0
  /\ phase = "check"

-------------------------------------------------------------------------------
(* The fill callbacks: OMS first, then the allocator, then the trade log.   *)
(* Nothing guards them (_fire_fill): when the last raises, the two before   *)
(* have the fill and whoever fired it sees the exception.                   *)

RecordBuy(t, n, price) ==
  /\ pos' = [pos EXCEPT ![t] = AfterBuy(@, n, price)]
  /\ cash' = cash - n * price
  /\ UNCHANGED realized

RecordSell(t, n, price) ==
  /\ pos' = [pos EXCEPT ![t] = AfterSell(@, n)]
  /\ realized' = realized + RealizedOn(pos[t], n, price)
  /\ cash' = cash + Fewer(pos[t].size, n) * price

\* The allocator after a SELL fill of n shares of t, starting from ledger c.
AfterSellRelease(c, source, t, n) ==
  LET freed == CapitalFreed(pos[t], n)
  IN  IF freed > 0 THEN Released(c, source, t, freed) ELSE c

\* A SELL fill of a loop that sells what is in todo; n = 0 stands for no fill.
SellFromTodo(source, t, n, price) ==
  /\ t \in todo
  /\ cap' = AfterSellRelease(cap, source, t, n)
  /\ RecordSell(t, n, price)

\* A sale of n shares of t leaves an entry that tracks them, or is of more than there are.
Resells(t, n) == n > 0 /\ pos[t].size > 0 /\ (entries[t] # <<>> \/ n > pos[t].size)

-------------------------------------------------------------------------------
(* RiskEngine.check_all, at the top of every iteration                     *)

OpenTokensOfWindow == {t \in Markets : pos[t].size > 0 /\ t[1] = window}

OpenTokens == {t \in Markets : pos[t].size > 0}

MarketOrder == Enumeration(Markets)

OverMarkets(f) == SumAlong(MarketOrder, Cardinality(Markets), f)

Exposure == OverMarkets([t \in Markets |-> Notional(pos[t])])

Equity == TotalCapital + realized + OverMarkets([t \in Markets |-> Unrealized(pos[t])])

PeakNow == IF Equity > peak THEN Equity ELSE peak

DrawdownBreached == PeakNow > 0 /\ (PeakNow - Equity) * 100 > MaxDrawdownPct * PeakNow

ExposureBreached == Exposure > MaxExposure

\* Tokens whose loss, marked at the last price the OMS saw, exceeds the stop.
StopTokens ==
  {t \in OpenTokens : pos[t].cost > 0 /\ -Unrealized(pos[t]) * 100 > StopLossPct * pos[t].cost}

AtLoopTop == phase = "check" /\ ~halted

CheckDrawdownFails ==
  /\ AtLoopTop
  /\ DrawdownBreached
  /\ halted' = TRUE
  /\ peak' = PeakNow
  /\ todo' = OpenTokens
  /\ phase' = "kill"
  /\ UNCHANGED <<money, runner, history, signals>>

\* Nothing that check_all itself does lowers the exposure: the loop only sleeps.
CheckExposureFails ==
  /\ AtLoopTop
  /\ ~DrawdownBreached
  /\ ExposureBreached
  /\ peak' = PeakNow
  /\ UNCHANGED <<money, halted, runner, todo, history, signals, phase>>

CheckStopsFail ==
  /\ AtLoopTop
  /\ ~DrawdownBreached
  /\ ~ExposureBreached
  /\ StopTokens # {}
  /\ peak' = PeakNow
  /\ todo' = StopTokens
  /\ phase' = "stops"
  /\ UNCHANGED <<money, halted, runner, history, signals>>

CheckPasses ==
  /\ AtLoopTop
  /\ ~DrawdownBreached
  /\ ~ExposureBreached
  /\ StopTokens = {}
  /\ peak' = PeakNow
  /\ phase' = "refresh"
  /\ UNCHANGED <<money, halted, runner, todo, history, signals>>

\* The next sale of a loop.  A callback that raises leaves check_all and with it the
\* main loop, whose finally clause shuts the system down; without a fill none is called.
SaleGoesOn(t, n, logged) ==
  IF logged \/ n = 0
  THEN todo' = todo \ {t} /\ UNCHANGED phase
  ELSE todo' = {x \in Markets : pos'[x].size > 0} /\ phase' = "close"

\* The stop-loss order bypasses the pipeline; the book may take any part of it.
StopLossSell(t, logged) ==
  /\ phase = "stops"
  /\ \E n \in 0..pos[t].size, price \in ExitPrices :
       /\ SellFromTodo("stop_loss", t, n, price)
       /\ SaleGoesOn(t, n, logged)
       /\ resold' = (resold \/ Resells(t, n))
  /\ UNCHANGED <<risk, runner, untracked, signals>>

StopsDone ==
  /\ phase = "stops"
  /\ todo = {}
  /\ phase' = "check"
  /\ UNCHANGED <<money, risk, runner, todo, history, signals>>

KillSwitchSell(t, logged) ==
  /\ phase = "kill"
  /\ \E n \in 0..pos[t].size, price \in ExitPrices :
       SellFromTodo("kill_switch", t, n, price) /\ SaleGoesOn(t, n, logged)
  /\ UNCHANGED <<risk, runner, history, signals>>

-------------------------------------------------------------------------------
(* Leaving the loop: shutdown and _close_all_positions                     *)

BeginClose ==
  /\ phase' = "close"
  /\ todo' = OpenTokens
  /\ UNCHANGED <<money, risk, runner, history, signals>>

KillSwitchDone ==
  /\ phase = "kill"
  /\ todo = {}
  /\ BeginClose

\* KeyboardInterrupt: the finally clause of run() shuts the system down.  At any
\* other point of the loop it would meet the same state as at one of these two.
Interrupt ==
  /\ phase \in {"check", "settle"}
  /\ BeginClose

\* Paper positions are closed by a fill of the whole size, past the simulator.  A
\* callback that raises ends the shutdown: what is still in todo is never sold.
CloseOne(t, logged) ==
  /\ phase = "close"
  /\ \E price \in ExitPrices : SellFromTodo("shutdown_close", t, pos[t].size, price)
  /\ todo' = todo \ {t}
  /\ phase' = IF logged THEN phase ELSE "crashed"
  /\ UNCHANGED <<risk, runner, history, signals>>

CloseDone ==
  /\ phase = "close"
  /\ todo = {}
  /\ phase' = "stopped"
  /\ UNCHANGED <<money, risk, runner, todo, history, signals>>

Terminated == phase \in {"stopped", "crashed"} /\ UNCHANGED vars

-------------------------------------------------------------------------------
(* The runner's step: refresh, settle the window that ended, take signals  *)

\* What a refresh makes of the window.
Shown == {w \in {window, window + 1} : w <= LastWindow}

\* No context is valid: the step returns before it looks for a roll, though the provider
\* may show the next window by now.
RefreshFails ==
  /\ phase = "refresh"
  /\ window' \in Shown
  /\ phase' = "check"
  /\ UNCHANGED <<money, risk, key, entries, due, outcome, todo, history, signals>>

SameWindow ==
  /\ phase = "refresh"
  /\ window = key
  /\ phase' = "signals"
  /\ UNCHANGED <<money, risk, runner, todo, history, signals>>

\* Positions in the tokens shown before the refresh that no entry tracks get one of their
\* whole size.
Reconciled ==
  [t \in Markets |-> IF t[1] = window /\ entries[t] = <<>> /\ pos[t].size > 0
                     THEN <<pos[t].size>> ELSE entries[t]]

\* The window shown is not the one of the last step that came this far.
RollDetected ==
  /\ phase = "refresh"
  /\ window' \in Shown \ {key}

Roll(answer) ==
  /\ RollDetected
  /\ entries' = Reconciled
  /\ due' = Reconciled
  /\ outcome' = answer
  /\ phase' = "settle"
  /\ UNCHANGED <<money, risk, key, todo, history, signals>>

\* The oracle has no answer: the entries are dropped, the positions stay.
RollWithoutOutcome ==
  /\ RollDetected
  /\ key' = window'
  /\ entries' = NoEntries
  /\ phase' = "signals"
  /\ UNCHANGED <<money, risk, due, outcome, todo, history, signals>>

Payout(t) == IF t[2] = outcome THEN One ELSE 0

\* The fill of the next entry.  The entries are cleared after the last one only: a
\* callback that raises leaves all of them, and the last window key as it was, so that
\* the next step detects the roll again and settles them again, by another outcome.
SettleEntry(t, logged) ==
  /\ phase = "settle"
  /\ due[t] # <<>>
  /\ cap' = AfterSellRelease(cap, "settlement", t, Head(due[t]))
  /\ RecordSell(t, Head(due[t]), Payout(t))
  /\ IF logged
     THEN due' = [due EXCEPT ![t] = Tail(@)] /\ UNCHANGED <<outcome, phase>>
     ELSE due' = NoEntries /\ outcome' = "none" /\ phase' = "check"
  /\ resold' = (resold \/ ~logged)
  /\ UNCHANGED <<risk, window, key, entries, todo, untracked, signals>>

SettlementDone ==
  /\ phase = "settle"
  /\ due = NoEntries
  /\ key' = window
  /\ entries' = NoEntries
  /\ outcome' = "none"
  /\ phase' = "signals"
  /\ UNCHANGED <<money, risk, window, due, todo, history, signals>>

-------------------------------------------------------------------------------
(* The pipeline                                                            *)

\* check_position_size does not look at the side of the trade.
PositionSizeOK(p, notional) == Notional(p) + notional <= MaxPosition

\* The capital gate shrinks an order to what was granted, in whole shares.
SizeGranted(grant, price, n) == IF grant < price * n THEN grant \div price ELSE n

\* Risk gate and capital gate for a signal; the grant is positive when both let it pass.
PassesGates(source, t, notional, grant) ==
  /\ phase = "signals"
  /\ ~halted
  /\ signals < MaxSignals
  /\ t[1] = window
  /\ PositionSizeOK(pos[t], notional)
  /\ grant = Granted(cap, source, t, notional)
  /\ grant > 0

\* An order that fails after capital was granted gives all of it back; the market
\* is then remembered as the failed strategy's.
OrderFails(source, t, price, n) ==
  LET grant == Granted(cap, source, t, price * n)
  IN  /\ PassesGates(source, t, price * n, grant)
      /\ cap' = Released(Booked(cap, source, t, grant), source, t, grant)
      /\ signals' = signals + 1
      /\ UNCHANGED <<pos, realized, cash, risk, runner, todo, history, phase>>

\* The runner tracks every filled order of a token with an entry of its own.
TrackedLatest(t, n) == <<n>>

Tracked(t, n) == Append(entries[t], n)

\* A callback that raises: the exception leaves the runner's step before the entry is
\* tracked, and the loop goes on.
BuySignal(source, t, price, n, logged) ==
  LET grant == Granted(cap, source, t, price * n)
      size  == SizeGranted(grant, price, n)
  IN  /\ PassesGates(source, t, price * n, grant)
      /\ \E filled \in 1..size, fillPrice \in Prices :
           /\ MayFill("BUY", price, size, filled, filled * fillPrice)
           /\ RecordBuy(t, filled, fillPrice)
           /\ entries' = IF logged THEN [entries EXCEPT ![t] = Tracked(t, filled)] ELSE entries
      /\ cap' = Booked(cap, source, t, grant)
      /\ untracked' = IF logged THEN untracked ELSE untracked \cup {t}
      /\ signals' = signals + 1
      /\ phase' = IF logged THEN phase ELSE "check"
      /\ UNCHANGED <<risk, window, key, due, outcome, todo, resold>>

\* A SELL signal books capital like a BUY; its fill frees only the cost of the
\* shares sold, and the runner's entry for the token is not reduced.
SellSignal(source, t, price, n, logged) ==
  LET grant == Granted(cap, source, t, price * n)
      size  == SizeGranted(grant, price, n)
  IN  /\ PassesGates(source, t, price * n, grant)
      /\ \E filled \in 1..size, fillPrice \in Prices :
           /\ MayFill("SELL", price, size, filled, filled * fillPrice)
           /\ cap' = AfterSellRelease(Booked(cap, source, t, grant), source, t, filled)
           /\ RecordSell(t, filled, fillPrice)
           /\ resold' = (resold \/ Resells(t, filled))
      /\ signals' = signals + 1
      /\ phase' = IF logged THEN phase ELSE "check"
      /\ UNCHANGED <<risk, runner, todo, untracked>>

StepDone ==
  /\ phase = "signals"
  /\ phase' = "check"
  /\ UNCHANGED <<money, risk, runner, todo, history, signals>>

-------------------------------------------------------------------------------

RiskChecks == CheckDrawdownFails \/ CheckExposureFails \/ CheckStopsFail \/ CheckPasses

SellLoops ==
  \/ \E t \in Markets, logged \in LogResults :
       StopLossSell(t, logged) \/ KillSwitchSell(t, logged) \/ CloseOne(t, logged)
  \/ StopsDone \/ KillSwitchDone \/ CloseDone

Refresh == RefreshFails \/ SameWindow \/ RollWithoutOutcome \/ \E answer \in Sides : Roll(answer)

Settlement == SettlementDone \/ \E t \in Markets, logged \in LogResults : SettleEntry(t, logged)

Signals ==
  \/ StepDone
  \/ \E s \in Traders, t \in Markets, price \in Prices, n \in OrderSizes :
       OrderFails(s, t, price, n) \/ \E logged \in LogResults : BuySignal(s, t, price, n, logged)
  \/ \E s \in Sellers, t \in Markets, price \in Prices, n \in OrderSizes, logged \in LogResults :
       SellSignal(s, t, price, n, logged)

Next == RiskChecks \/ SellLoops \/ Refresh \/ Settlement \/ Signals \/ Interrupt \/ Terminated

Spec == Init /\ [][Next]_vars

\* The loops that sell and settle contain no wait: a running process finishes them.
FairSpec == Spec /\ WF_vars(RiskChecks \/ SellLoops \/ Settlement)

-------------------------------------------------------------------------------
(* Properties                                                              *)

\* _on_fill releases what a sale took out of the position, settlement and shutdown
\* included, so whatever the OMS still holds is backed by booked capital.
CapitalCoversCost == \A t \in Markets : pos[t].cost <= cap.market[t]

\* Two strategies on one token hand each other's capital back (release_capital pays
\* the market's last grantee), yet the budgets together still cover all that is held.
AllocationCoversExposure == Exposure <= Deployed(cap)

\* End to end: what the book holds at cost never reaches into the system reserve.
ExposureRespectsReserve == Exposure + Reserve <= TotalCapital

\* "computes real P&L" (position_manager.py:4-5): realized profit plus what the open
\* positions cost is exactly the money paid and received.  A settlement after a stop-loss,
\* a SELL signal or an interrupted settlement of the same shares refutes it.
RealPnl == cash = realized - Exposure

\* Nothing else does: as long as no sale took shares that an entry goes on tracking, or
\* more than was held, the profit is real, whoever buys and sells, also when fills are
\* untracked, settlements skip windows and the kill switch or a shutdown is cut off.
RealUntilResold == ~resold => RealPnl

\* "On window roll: settles open positions" (runner.py:12): the entries of several
\* strategies, also of a token that a stop-loss has partly sold or whose settlement was
\* interrupted, add up to all that is held, so that the windows that ended are flat when
\* a settlement is done, but for tokens with a fill the runner never heard of.
SettledWindowFlat ==
  [][phase = "settle" /\ phase' = "signals" =>
       \A t \in Markets \ untracked : key <= t[1] /\ t[1] < window => pos[t].size = 0]_vars

\* The kill switch ends with the process stopped and every position closed, also the
\* tokens of earlier windows that no settlement reached and those that its own sales left
\* when one of them raised, unless a sale of the shutdown itself raises.
HaltFlattens ==
  halted ~> (phase = "stopped" /\ \A t \in Markets : pos[t].size = 0) \/ phase = "crashed"
===============================================================================
