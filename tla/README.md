# TLA+ models and proofs of the trading system

This directory specifies the trading system in the repository: what its positions,
capital, windows and live orders may become under every interleaving of signals, fills,
failed requests, cancellations, settlements and shutdowns; and the programs around it:
the old five-minute bot, the backtests, the research tools, the analysis of sessions and
the KOL package.  TLC checks the models on small instances; TLAPS proves the main safety
properties for every value of the constants.

Paths and line numbers refer to the repository (`main.py`, `oms/...`, `ems/...`).

## 1. The system

One process runs one loop (`TradingSystem.run`, main.py:738-789).  An iteration checks
risk, in live mode reconciles positions and polls order statuses, and then steps the
runners: refresh the market, settle the window that ended, ask every strategy for
signals and submit each signal to the pipeline.  All of this is one thread; in live
mode a second one sends heartbeats.  What makes the system hard is therefore not
locking but *partial progress*: handlers that raise half way, requests that fail or
answer late, an exchange and a clock that move between any two steps, state read
before a refresh and used after it, and books kept in five places (allocator, OMS,
runner, execution engine, exchange) that are supposed to agree.

| Component | State | Operations | Interacts with |
|---|---|---|---|
| Capital allocator, `oms/capital_allocator.py` | booked capital by budget key and by market, last grantee of a market, locked collateral | request, release, lock, unlock | pipeline requests, fill callback releases |
| Position manager (OMS), `oms/position_manager.py` | size, average price, last price per token; realized profit | record_fill, sync_from_api | fill callback, reconciliation; read by risk engine and runner |
| Risk engine, `risk/risk_engine.py` | halted, peak equity, breaker timers | check_all (drawdown, exposure, stops), check_position_size, kill_switch | reads OMS, sells through the execution engine |
| Pipeline, `pipeline/*.py` | statistics only | submit: risk gate, capital gate, executor | runner calls it; calls allocator and execution engine |
| Execution engine, `ems/execution.py`, `ems/dry_run_sim.py` | open order ids, live orders with filled sizes, fills by id | place_order, check_live_fills, cancel_all | fires fill callbacks: OMS, trade log, analyzer |
| Rolling runner, `strategies/v2/runner.py` | last window key, open entries, previous tokens | step, _on_window_roll | provider, oracle, pipeline, OMS |
| Market provider, `data_pipeline/market_provider.py` | current window, tokens, strike, end | refresh, _discover_window | Gamma API, oracle, books |
| Settlement oracle, `data_pipeline/oracle.py` | cache of prices | start price, settlement price, outcome | Binance klines |
| Main loop, `main.py` | running, timers | run, _on_fill, shutdown, _close_all_positions | everything above |
| Strategies, `strategies/v2/*.py` | locks, confirmations, once-a-window marks, cooldowns, price buffers | step, on_fill, on_cancel | runner |
| Portfolio, `strategies/v2/portfolio.py` | accepted windows, open notional, its children's state | step with arbitration, on_fill, on_cancel | runner; steps, restores and frees its children |
| Market maker and mean reversion, `strategies/v2/mm.py`, `meanrev.py` | inventory; positions with their stops | step, on_fill | runner |
| Whale copying, `strategies/v2/whale.py` | whales, their known positions | a cycle: leaderboard, looks, signals | leaderboard and data API |
| Multi-leg execution, `ems/leg_handler.py`, `strategies/arbitrage/arb_detector.py` | none between calls | scans, execute_multi_leg with unwinding, execute_arb | execution engine |
| Five-minute bot, `strategies/btc_5m_old_version/` | window, strike, position or pair, statistics | its own loop: roll, resolve, enter, stop | execution engine, OMS |
| Price feeds, `data_pipeline/price_feeds.py`, `market_data.py` | quote cache, book cache | get price, get book | threads that ask for prices |
| Recorder and reports, `analytics/*.py` | open and completed round trips | record a fill, report at shutdown | fill callback |
| Learner, `analytics/learner.py` | parameters, disabled strategies | load_history, apply_learning | reports of sessions, configuration |
| Backtests, `backtest/*.py` | ledgers of a replay or simulation, recorded data | replay, portfolio of replays, simulate, record | offline |
| Research, `research/*.py` | results of experiments, emitted signals | run, gate, rank, evaluate | offline; runs replays |
| KOL package, `prediction-market-kol-intelligence/` | fetched tweets, statistics of accounts | fetch in slices, screen, rank, discover | X, a language model; none of trading |

What makes the trading components correct:

- *Capital*: no budget, market cap or reserve is exceeded, and whatever is held is
  backed by capital that is booked.
- *Positions*: what the OMS holds is what was really bought and not yet sold; realized
  profit is money really received.
- *Windows*: a token is bought before its settlement only, settled after its window's end,
  once, by its own window's strike and end price, and flat afterwards.
- *Live orders*: fills are neither invented nor lost nor counted twice, and no order is
  left at the exchange that the system does not know of.
- *Locks*: a strategy enters once, is locked while its entry is open, and is free again
  afterwards, whatever became of its order.
- *Stopping*: the kill switch and the shutdown end with everything sold and cancelled.

What makes the programs around them correct:

- *Records and parameters*: what a session reports is the money that came and went; what
  the learner makes of the reports stays within its bounds, however many there are.
- *Backtests and research*: no trade that could not be made, books that are what the
  trades made, nothing promoted that did not pass, no signal that looks ahead.
- *KOL*: nothing that the server gave is lost or counted twice, whatever fails.

## 2. Modules

| Module | Models |
|---|---|
| `Sums` | the total of a dictionary's values, and of a sequence's elements |
| `CapitalAllocator` | the allocator, on its own and as operators for the system |
| `Positions` | what one fill does to one position and to the money |
| `FillTerms` | the terms of an order: how much it may fill, for how much |
| `OrderBooks` | the walk of a book |
| `OrderExecution` | one call of `place_order`, on paper or live, against any book; EXTENDS the two above |
| `DryRunTrading` | paper trading end to end: EXTENDS allocator, positions and terms, adds the loop, risk checks, pipeline, settlement, kill switch, shutdown |
| `WindowLifecycle` | abstract: what may happen to a token in the life of its window |
| `RollingWindows` | runner, provider and oracle under a clock; implements `WindowLifecycle` |
| `LiveOrders` | live order tracking against an exchange |
| `StrategyLocks` | entry locks of the strategies and the portfolio, with the runner's callbacks |
| `BtcFiveMinutes` | the five-minute bot of before the v2 runner |
| `QuotingStrategies` | the market maker and the mean reversion, with books of their own |
| `WhaleCopies` | whale copying against whales that trade |
| `MultiLeg` | the scans for arbitrage and both ways to execute it |
| `TradeRecords`, `Learner` | round trips and the report of a session; what sessions teach |
| `QuoteCache` | the quote cache under several callers |
| `Experiments`, `SignalResearch` | the research orchestrator; the evaluation of signals |
| `ReplayLedger` | the books of a replay, used by the three next |
| `Replay`, `ReplayPortfolio` | the loops of the replay strategies, and the portfolio made of them |
| `Simulator` | the window simulator |
| `TweetFetch`, `FetchPool` | fetching the tweets of a user in slices; the threads and their limiter |
| `KolScreening`, `KolDiscovery` | scoring and ranking of accounts; their discovery by searches |
| `MC...` | constants for TLC; `MCBacktests`, `MCKol` and `MCStandalone` run several programs side by side |
| `...Proofs` | theorems: of the module they are named after; `SumsProofs` the lemmas about totals; `OfflineProofs` of the backtests and the KOL package; `StandaloneProofs` of the parts that share no state with the trading loop |

### CapitalAllocator

`cap` is one record: the ledgers by key (`strategy`) and market (`market`), the last
grantee (`by`), `locked`.  `Granted` is the arithmetic of `request_capital` (the three
limits and the minimum grant), `Booked` its assignments, `Released` all of
`release_capital`, with its two surprises: what is released is credited to the key that
was *last granted* on the market, and both ledgers stop at zero.  Sources are mapped to
budget keys by `KeyOf`, which need not be injective.  Amounts are integers.

### FillTerms, OrderBooks, OrderExecution

`MayFill` says what the engine promises of an order, with the limit price rounded to the
tick: no more shares than asked, on average no worse than the slippage limit, and a BUY
no dearer than its whole size at the limit.  `DryRunTrading` takes fills by it;
`OrderExecution` shows that `place_order` keeps it.  There, a call starts with any request
and any book and ends with an answer: it is refused (`Refused`, `BookRefuses`), becomes
one order (`WithoutBook`, `TakesDepth`) or, fill-or-kill and larger than the depth, a
sequence of chunks (`SplitsInChunks`), each of which is placed, fails or raises in a fill
callback.  Paper orders fill as `simulate_fill` does, where chance only decides whether a
GTC order fails; live, what is placed is what the exchange accepted, and the reply to an
accepted order may be lost (`SingleLost`, `ChunkLost`): the caller is then told that
nothing was placed, and the history variable `lost` remembers that this is not so.
Averages are kept as cost and shares, sizes are whole parts of a share, and divisions round
down, to the advantage of the limit, where the code has floating-point numbers.  The snapshot of the
book does not change during a call, because nothing fetches one, and paper fills take
nothing out of it.

### DryRunTrading

Phases follow the loop: `check` (top), `stops` and `kill` (the two sell loops of the
risk engine), `refresh`, `settle`, `signals`, `close`, and at the end `stopped` or
`crashed`.  A handler is one step unless it fires several fills; then every fill is a step
and `todo`, or in a settlement `due`, says what is left.  A BUY signal is one step through
risk gate, capital gate, executor, fill callback and the runner's tracking; the order may
also fail, and the grant returns.  Rejected signals change nothing.

The fill callbacks are the OMS, the allocator and the trade log, in this order and without
protection (execution.py:420-423).  Every fill of the model may find the trade log's write
failing (`logged`), with the OMS and the allocator done, and what follows is what the
exception meets: a BUY is never tracked and the step ends; a SELL signal ends the step; a
stop-loss or kill-switch sale leaves the main loop, whose `finally` clause shuts down; a
sale of the shutdown ends the process with the rest unsold (`crashed`); a settlement fill
leaves all entries tracked and `key`, the runner's last window key, behind, so that the
next step settles them again, by the window shown by then.

Two history variables name what the code gets wrong, so that properties can say that
nothing else goes wrong: `untracked` has the tokens with a fill that the runner never heard
of, `resold` tells of a sale that took shares an entry goes on tracking, or more than were
held.

Abstractions: prices are cents and sizes whole shares; divisions round down (a cost
taken out of a position is the floor of its share); an order fills in one piece and any way
`MayFill` allows; the minimum grant is scaled to the prices; the volatility
breaker can only reject and is not modelled; there is one rolling market, and a refresh
shows its window or the next, with or without a valid context (`RollingWindows` has clock,
strikes and discovery).  Nothing ever calls `update_mark_prices`, so the price that risk
checks see is the last buy's, here as in the code.

### RollingWindows and WindowLifecycle

Time is in minutes.  A window is the minute it starts at, a token a pair of window and
side.  `opens`, the price at the start of each minute, is chosen in `Init` and read only
for minutes that have begun; a candle in progress closes at any price.  `Refresh` is the
provider's refresh with everything that may go wrong: the window not served yet, the
next one served instead, no strike, no book.  `RefreshInvalid`, `RefreshSameWindow` and
`RefreshRolls` are the three ways `step` goes on; the roll is then its reconciliation,
the oracle's answer or the lack of one, and one fill per entry, each of which may raise.
The clock ticks between any two of these.

The event's end date is taken to be there and right.  The oracle's cache of start prices
is left out: a start price does not change.  Sizes and money are in `DryRunTrading`.

`WindowLifecycle` is the promise: a token is bought from the start of its window on and
never after its first settlement, sold at will, and settled after the end; every
settlement is counted, and there is a second one only of a token in `again`, where an
interrupted settlement puts the tokens it had come to.  The refinement maps `holding` to
what the OMS holds, `count` to the settlement fills fired of each token (`fills`, history),
`again` to the tokens of settlements that raised (`raised`, history) and `clock` to the
clock.  So a second settlement fill is a step of the abstract specification like the first
and needs its reason.

### LiveOrders

One token.  The exchange (external) matches and closes orders in any phase.  `tracked`
is `live_orders` (and `open_order_ids`: the two hold the same ids), `filled` the filled
size of each tracked order, `pos` the OMS position, `chain` the truth.  The loop is
`top`, `reconcile`, `poll`, `polling`, `signals`; stopping is `kill`, `close`, `closing`,
`last_poll`, `stopped`.  A request that places an order is accepted, rejected, or
accepted with the reply lost; a status request fails or answers with any matched size up
to the current one, and with or without a remaining size; a cancellation succeeds or
fails; a fill callback may raise.  `todo` and `over` are the orders the running poll has not
come to and those it will drop; `assumed`, history, has the orders that the poll took for
filled in full because an answer told neither a matched nor a remaining size.

Abstractions: every share costs one unit, so that sizes are notionals; capital is left
out; of a price only `stop` remains, whether the position is under its stop-loss.  The
heartbeat only keeps the exchange from closing orders, which it may do here anyway.

### StrategyLocks

The strategies of one runner, by how they keep themselves from a second entry:

| Class | Locked by | Freed by |
|---|---|---|
| `Momenta`: `Momentum` | its fill, after `Confirmations` equal wishes in a row | a settlement fill only |
| `Movers`: `OracleFrontrun`, `LeadLag` | their own signal | a settlement fill, a roll |
| `Snipers`: `LastSecondsSnipe`, `VolatilityConvexityArb` | their fill; their signal marks the window | a settlement fill, a roll |
| `Wrapped`: children of `PortfolioRegimeStrategy` | the fill of the portfolio's order | a roll |

`locked` is every `_has_position`, `signalled` every `_signaled_window`, `pending` a
Momentum's `_pending_signal_key` and `_count`; `accepted` and `open` are the portfolio's.
A step of the runner is the phases `refresh` (`SameWindow`, `Roll`), `outcome` and
`settle` (the roll after its `on_cancel` calls), `step` (strategies asked by `turn`) and
`submit` (their signals by `turn`).  A child that gives a signal is restored, as
`_capture_state` and `_restore_state` do, one that gives none keeps what it did
(`ChildrenAfter`); one candidate is accepted by priority and budget.  An order fills, is
accepted live, comes to nothing or raises; an exception ends the step with the other
signals lost, and on paper the fill may be booked although no strategy and no runner
learns of it.

Abstractions: what the market makes a strategy want is any wish at any step, so that
cooldowns and price conditions are among the wishes; the time that remains is the
portfolio's regime, and a strategy's own limits are sets of regimes; a sniper notices the
new window at the roll, not at its next step, which is the first to look; the notional
of the window counts after an acceptance only, when no other can follow.  Entries that
the roll's reconciliation adds belong to no strategy and are left out; a stop-loss sale
tells no strategy, so it is no action.  `placed`, a history variable, counts to two.

### BtcFiveMinutes

One pass of `run` is the steps `poll`, `roll`, `check`, `pair`, `single` and `sleep`, and
time passes between any two of them, since requests block.  `win` and `strike` are the
window it is in, `position` and `pair` what it believes to have, `held` the OMS.  A roll
resolves what is left of the last window by the price at that time, a pass may also
resolve after the end, and both legs of a pair are two orders of which each may fail or
raise.  An order or a settlement fill that raises ends the bot (`raised`), after the OMS has
booked it and before the bot has.  `entries`, `unknown`, `broken` and `lateEntries` are history: what was entered,
what was settled without a price, the windows whose pair was left with one leg, and the
entries made after a limit was reached.

Prices are parts of a dollar; the probability model is any value of `FairValues`; what a
walk of the book adds is one of `Slippage`.

### QuotingStrategies, WhaleCopies, MultiLeg, QuoteCache

`QuotingStrategies` is a runner on one token in paper trading with the market maker, the
mean reversion or both.  A step queues the quotes and the signal, and each of them is
then rejected, filled in part or whole, or raises with the OMS told or not.  `inventory`
and `reversion` are what the strategies believe, `shares` is the OMS, `tracked` the shares
in the runner's entries of each.  When the window rolls (`over`), the entries are dropped or
settled one by one, each fill is told to its strategy (runner.py:302-305), and a callback
that raises leaves all entries to be settled again.  What reconciliation adds and an
untracked fill are settled without a strategy being told.  Prices, cooldowns and the sizes
of Kelly are free.

`WhaleCopies`: whales trade between any two looks, a look and the first snapshot too show a
position or do not, since both ask for 50 rows, and a cycle ends at its cap of signals.  `known` is `_known_positions`; `gained` and
`copied`, history, are what a whale added since its first snapshot and what was copied of
that.

`MultiLeg`: the legs come from the scans, on any of the prices of `MarketPrices`.  The
handler places them one by one, and at the first that is refused (or has no price or
liquidity) looks at those before it and reverses them.  A leg may fill in part, be refused
although it filled (a lost reply), or raise in a fill callback: the exception leaves
`execute_multi_leg`, also out of a reversal, and nothing more is reversed.  `loose` are the
legs whose exposure the handler does not see: filled in part, filled without an answer, or
not reversed.  `execute_arb` places all legs whatever is refused.

`QuoteCache`: a price is the moment at which it was the price.  A caller looks at the
cache, asks without the lock, and stores the answer when it comes, so that a slow answer
may overwrite a newer one; `get_asset_price_cached` and a failed request use what is there.

### TradeRecords, Learner

`TradeRecords` joins entries at their average price, closes them, and makes the report at
the shutdown.  `Learner` is a history of sessions: each reads the reports of all before
it and takes strategies off, unless it was started without learning (`--no-learn`), and
leaves a report or crashes.  `redeemed` are the strategies whose losing streak such a
session may have ended.

### Experiments, SignalResearch

`Experiments` goes through the experiments of a specification: each runs or fails, its
artifact is there or not, and what it measured is any of `Measurements`; then results
are gated and ranked.  `SignalResearch` takes records in the order of their times; three
forecasters stand for the ways to look at the prices: not at all, at the own past, at the
past of another asset.

### ReplayLedger, Replay, ReplayPortfolio, Simulator

`Replay` is the loop of any of seven strategies over the records of one asset.  What
their numeric filters say is a free input of the record (`sig`), and what the loops do
with it is in the model: settling, cooldowns, confirmations, marks, stop-loss, sizes and
fees.  The winner of a window is fixed in advance and its last record must show it, since
the code looks through the file first.  `ReplayPortfolio` starts from what the children's
replays traded, at most one trade a window, which `OneTradeAWindow` shows of them.
`Simulator` puts each window to every strategy; V2 momentum is modelled sample by sample.
The synthetic Brownian and stochastic data sources of the simulator are left out: a
window is any that the constants allow.

### TweetFetch, FetchPool, KolScreening, KolDiscovery

`TweetFetch` keeps the recursive calls of a fetch as a stack of slices; the server
answers any page and any cursor.  A request is one step there; how it is tried again,
by how many threads and at which distance, is `FetchPool`, where writing a user's tweets
may also break off in the middle, and the user is then a failed one with a part of the
tweets in the output.  Tweets without an id, which the code drops
(fetch_complete_tweets.py:404), are left out.  `KolScreening` reads rows one by one, with a judge that may be out of calls or fail, and ranks the accounts, by heuristic or by a
language model.  `KolDiscovery` plans searches (by hand, from a
template, by a language model) and counts authors over pages that repeat tweets.

## 3. Runs

Runs that pass:

| Run | Question | Size |
|---|---|---|
| `paper_trading` | is what is held always backed, is profit real money but for shares sold twice, is an ended window flat after its settlement, and does the kill switch sell everything, with a trade log that may fail at any fill? | 364 k states, 2 traders, 2 windows, 2 orders |
| `rolling_windows` | are windows settled after their end, by their own strike, once but for interrupted settlements? | 940 k states, 2 windows of 3 minutes and the next |
| `live_orders` | are fills those of the exchange, orders dropped only when recorded, and the matches of a tracked order recorded in the end? | 100 k states, 2 orders |
| `strategy_locks` | can a strategy enter twice, be locked for nothing or for ever, or the portfolio count wrong? | 457 k states, 3 strategies and 3 children |
| `backtests` | do replays, their portfolio and the simulator trade a window once, keep caps and stops, and add up? | 360 k states |
| `kol` | is anything fetched, judged or found lost or counted twice; does the pool of threads end? | 112 k states |
| `standalone` | do the parts that share no state with the loop keep what they promise? | 1.3 M states, 11 parts |

Why the bounds suffice.  In paper trading two strategies on one token are what it takes
to mix up bookings and entries, two windows what it takes for a position to be left
behind, and two orders are a buy by each strategy, or a buy and a sale, with stop-losses and
settlements, repeated ones too, on top; prices 40 and 60 make a loss beyond the stop and
the drawdown limit possible, and one pair of orders exceeds the exposure limit.  In `RollingWindows`
an interval of three minutes gives the oracle's look-back of two minutes both of its cases, and six minutes hold two windows, early discovery of the next and a
settlement a window late; `MaxFills` ends the repetition of interrupted settlements, and two
settlements of a token show one.  In `LiveOrders` two orders of two shares show every
interference: a position bought in two parts, or bought and sold, with a part matched.  In
`StrategyLocks` each class occurs alone and as a child (lead-lag is one more mover), and any of the four strategies asked may raise before the others; two
confirmations show a count kept and lost; the weights are the shipped ones, and with a
bankroll of six they leave some children in some stages less than the least notional.

In `MCBacktests` a file has four records of two windows of three seconds: enough for an
entry, a stop-loss and a second entry, for two confirmations and for a trade that is
settled a window late, by seven strategies; the portfolio has two assets in one window
and one in the next, so that a trade ends while another is open; the simulator runs five
windows with a limit of two losses, so that cooldown, stop and a history cut occur
together.  In `MCKol` pages repeat tweets of other pages and of themselves, two
months have weeks that overlap them, three users meet two workers and two attempts, three
rows of eight kinds meet a judge with two calls.

In `MCStandalone` the allocator has two keys, one shared by two sources, two markets, and
limits each of which binds; the bot lives for two windows, with books in which both
outcomes are cheap and in which they are not, two losses in a row and a daily limit; four
fills make an entry, a join, a partial and a whole exit; five sessions reach every rule of
the learner with and without crashes; two whales hold two tokens for three cycles under a
cap of one and two signals; three legs put a failure before, between and behind fills;
three records of two markets of different assets come in any order; two callers overtake each
other; quotes of two and of one share reach the market maker's limit of two, and go beyond
it, from either side, and a settlement goes beyond that.  In its orders half shares and half
ticks make rounding, resizing and a rest of less than a share occur, with two levels a side for averages; the theorems cover every
book.

Runs that TLC refutes, each a statement of the repository about itself (section
`findings` of PROJECT.json has the quotes and the reasons):

| Run | Refuted | Because |
|---|---|---|
| `rolling_own_window` | entries settle by their own window's strike and end | the saved values are already the next window's |
| `live_double_count` | the OMS holds no more than the chain | reconciliation and poll count one match |
| `live_invented_fill` | fills are emitted only when the exchange reports matched size | an answer without a remaining size counts as a full fill |
| `paper_profit` | the OMS computes real P&L | what a stop-loss sold the settlement sells again, and the profit is booked |
| `locks_stuck` | a locked Momentum waits for a settlement | without an outcome its entry is dropped and no fill comes |

The models also show, without a run of its own, what the code makes of these cases; the
properties name the first four as exceptions:

- a loop that is paused by a stop-loss does not poll (main.py:747), so what was matched is
  not recorded while it lasts: `MatchesRecorded` has the exception `Paused`;
- a trade-log write that fails after the OMS recorded a buy leaves the buy untracked, and
  another entry of the token hides it from the roll's reconciliation (runner.py:226), so
  that it is not settled: `SettledWindowFlat` has the exception `untracked`;
- a settlement that raises is repeated from its first entry on, perhaps by the outcome of
  another window (runner.py:299), a stop-loss or SELL signal leaves the entry of what it
  sold, and `record_fill` realizes what is sold twice in full (position_manager.py:107):
  `RealUntilResold` stops there, and `LifecycleSpec` counts the repeated settlements;
- an exception out of a fill callback ends the shutdown with the rest of the positions open
  (main.py:855): `HaltFlattens` has the exception `crashed`;
- the candle that settles a window is, right after its end, the one that opens at the end:
  the outcome is by the price a minute later, or by one still moving (oracle.py:112,
  against market_provider.py:324-325);
- live, no fill reaches a strategy (runner.py:147): Momentum gives a signal at every step
  that its conditions hold;
- the portfolio's cap on total exposure never binds, on paper or live: it accepts once a
  window, and `on_cancel` zeroes its open notional at every roll (portfolio.py:168, 213);
- a winning entry of a child takes its payout, not its cost, out of the portfolio's open
  notional (portfolio.py:158), which on_cancel has cleared by then, so that it does no harm;
- the position limit adds a sale to the position it closes (risk_engine.py:133), and
  counts no order in flight (line 131);
- the allocator books grants and releases costs, so that the difference stays booked on
  a settled token (main.py:140);
- live, an order whose reply is lost is told to have failed (execution.py:669-671, 716-718):
  its grant is given back although it may fill;
- a signal's price off the tick is rounded after its capital was granted, so that the fill
  may cost more than the grant (execution.py:473): `ExposureRespectsReserve` fails with
  `Tick = 2` and odd prices;
- chunks of a fill-or-kill order fill on paper beyond the depth of the book, which is the
  same snapshot for each of them (execution.py:549);
- a cancellation that fails forgets the orders it did not cancel, so that a shutdown
  cancels nothing (execution.py:838, against README.md:298);
- equity includes unrealized profit, against README.md:317 (risk_engine.py:68-70);
- a window discovered without its strike stays untradable (market_provider.py:185, 281);
- what was matched between the last poll and a cancellation gets no fill
  (execution.py:840);
- a price of before the end, taken as a fallback, is cached under the window's end
  (oracle.py:125);
- a step that raises before a strategy's signal is submitted loses the signal, although
  the strategy has marked the window (runner.py:135).

Of the programs around the loop:

- the five-minute bot may enter once after a limit, because a roll records a loss in the
  middle of a pass; the legs of a pair are never sold in the OMS, losses of unwinding are
  not in the daily profit, a second leg that raises leaves the first unsold, and the
  strike is the price at discovery (btc_5m.py);
- a settlement tells the market maker of shares it sold before (runner.py:302-305), so that
  its inventory of the ended token falls below `-Reach`; nothing quotes that token again;
- the market maker's position limit (mm.py:91) is checked for each quote against the
  inventory of before the step, so that three fills carry it 28 shares beyond 500; a sale of
  what is not held lowers the inventory and not the OMS, which may then hold twice as
  much: `Reach` and `InventoryInReach` say how far;
- the mean reversion writes its entry down before the order is placed, so that it exits
  what never filled, and forgets what a partial exit or a short entry leaves in the OMS
  (meanrev.py:74, 150): `HeldIsKnown` speaks of what is left;
- `NoMoveCopiedTwice` holds of whales seen whole at every look only: a look that ends at
  its third signal forgets the positions behind it and copies them again, and a whale
  found later, or whose first snapshot failed or did not hold all its rows, has a baseline
  with the gaps that whale.py:8 excludes;
- `execute_arb` says that all legs must fill or none (arb_detector.py:190) and goes on
  after a refused one; an unwinding sells what was ordered, not what was filled, and
  nothing is unwound when a leg raises (leg_handler.py:96, 143), which is why `NoNakedLeg`
  leaves out the legs that are `loose` and says only what is held after an exception;
- a round trip that is closed in part has the result of the whole, and an exit larger than
  the entry forgets the rest (models.py:78-81): `RecordsAddUp` speaks of sessions without
  either;
- the learner says that it disables every losing strategy, and the program takes off only
  the market maker and the whale strategy, for good, unless a session without learning
  (main.py:668) ends their losing streak;
- an order on which the five-minute bot raises is in the OMS and not in the bot
  (btc_5m.py:690): `NothingForgotten` leaves it out;
- in the replays the momentum's confirmations need not be in a row, lead-lag settles only
  when the leader moves, the direction check of the snipe can
  never fail, and the portfolio's caps are of the starting bankroll (replay.py);
- the orchestrator ranks replays and signal evaluations on one scale, takes a row of
  another strategy when it finds none of its own, and loses all results to an unreadable
  artifact (orchestrator.py); unfinished windows are scored by their last record, and a
  look back with no old price takes the oldest (signal_eval.py);
- a re-ranking by a language model mixes its scores of 0 to 100 with heuristic ones
  without bound; a failing search or judge loses the run; `min_query_quality` has no
  effect (search_discovery.py:622); a run without failures leaves the file of failures of
  the run before (fetch_complete_tweets.py).

Fairness.  In paper trading the loop of `run` has no wait but its sleeps and every step
of a risk check, sell loop or settlement ends, so `FairSpec` has weak fairness of these
three; none is assumed of signals or refreshes.  Live, `Loop` is weakly fair for the same
reason; that a poll starts again and again after its interval, and that the exchange
answers some of the polls of an order with its current status, are strong fairness
conditions on the environment.  Nothing is assumed of matching or cancelling.  In
`StrategyLocks` a step of the runner goes on to its end, which is weak fairness of its
parts after the refresh, and the provider finds a next window again and again, which is
strong fairness of `Rolls`; `LocksEnd` asks nothing more, no fill and no outcome.  In
`FetchPool` time passes, every thread that can go on does in the end, and the main thread
collects what is done (weak fairness of each): requests have a time limit and sleeps end.
Nothing is assumed of their success.

## 4. Proofs

All are theorems of the specifications for every value of the constants, under the named
assumptions in the modules (`<Part>Assumption`, one in each), which TLC evaluates on the
constants of the runs.  They type the constants and say: sizes are positive, prices lie
between nothing and a dollar, books are sorted as the snapshot sorts them, budgets are
natural numbers, sets that are added up over are finite.  Some say more, because the code
does:

- `LedgerAssumption`: a fee is at most the whole of what it is taken of; and
  `ReplayAssumption`: a rule stakes at most half of the bankroll (`part` is 2 or more), as
  the replays modelled here do.  Without them a trade could cost more than there is;
- `PortfolioAssumption`: the ranks of the portfolio differ, since they are places in a list;
- `FetchPoolAssumption`: there is a value `Nobody` for the free lock that is no user;
- `ExperimentAssumption`: specifications are sequences of experiments and not empty.

`TypeOK` is proved without any hypothesis on behaviours.  The hypotheses of single
theorems are in their statements and explained where the theorem is.

- `SumsProofs`: a total changes by what one summand changes, is monotonic and zero for
  zeros; the total of a sequence grows by what is appended and shrinks by its head.  The
  fixed enumeration in `Sums` makes this provable by induction over the partial sums
  without RECURSIVE operators; `RecursionDefined` does the same for any recursive function
  on an interval, which the other modules' proofs instantiate.
- `OrderExecutionProofs`: `WalkAverage` shows by induction over the levels that a smaller
  order has no worse an average than a larger one, and is served in full if the larger one
  took as much.  `IInv` adds to the terms that the intended size is affordable at the
  average of the first walk (`Affords`) and that what the chunks have placed is at that
  average or better (`AtGoodPrices`); a chunk takes no more of the book than that walk.
  `WalksAreBest` compares the walk with any other way to take as many shares: up to every
  level the walk has taken no fewer (`WalkTakesDepth`), and what the other has still to
  take it takes at this level's price or a worse one (`WalkAhead`, by induction over the
  levels), so that at the last level, where both have taken the same, the walk is no worse.
- `DryRunTradingProofs`, the allocator: the invariant is the conjunction of types, budgets,
  market caps and the reserve.  A grant is the minimum of the rooms left, so each limit is
  kept by the summand it changes; a release only lowers ledgers, whoever is credited.
- `DryRunTradingProofs`, capital: types hold whatever limit prices are.  Under `PricesOnTick`,
  that no limit price is above its signal's price (the case `ExposureRespectsReserve`
  needs, see above), `CapitalCoversCost` is inductive together with `TypeOK`: a BUY
  costs no more than its grant (the executor resizes to keep the cost), and a sale
  releases the floor of the cost it takes out of the position, no more than was booked.
  Per-token cover sums up to `AllocationCoversExposure`; with the allocator's reserve,
  that gives `ExposureRespectsReserve`.  With `MaxExposure` at least the total less the
  reserve, as shipped (config/settings.py:31-48), the exposure check can thus never fail
  in paper trading.
- `DryRunTradingProofs`, settlement: `WindowSettlesFlat` rests on `EntriesCover`: on every
  token of the last window traded the tracked entries together are what the OMS holds, or
  more, but for tokens in `untracked`; while they are settled, so are the entries still due
  (`due`).  An interrupted settlement keeps all entries, so it keeps the cover.  The windows
  between the last key and the one shown hold nothing (`KeyBehind`).
- `DryRunTradingProofs`, profit: `PnlIsReal` rests on `EntriesHeld`: until a sale takes
  shares that an entry goes on tracking, what the entries of a token are is held.  Then no
  sale is of more than is held, and the profit `record_fill` books, price less average for
  the whole fill, is that of shares that were paid for.  There are no hypotheses on
  strategies, stops or the trade log.
- `RollingWindowsProofs`: `IInv` adds to the two safety properties that the provider
  never goes back behind the last window key or ahead of the next window (`Forward`),
  and what the phases of a step guarantee (`DuringStep`).  Windows are multiples of the
  interval, so two that differ do not overlap; hence a settlement at a roll is after the
  end of the window it settles, and no token is bought after its own.  `Repeats` says that a
  tracked token with a settlement fill is either done in the running settlement or waits
  for the repetition of one that raised.  `ImplementsLifecycle` maps each step to a step of
  the abstract specification or to a stutter, and every settlement fill to a settlement.
- `LiveOrdersProofs`: `IInv` adds that matches stay within an order, that a full order is
  closed, that `filled` agrees with what the OMS got, that an order completed by a guess is
  recorded in its whole size (`AssumedInFull`) and that a poll marks for removal only
  orders that are over and recorded, or completed by a guess (`OverRecorded`).
- `StrategyLocksProofs`: `IInv` says whose a signal is (`Owned`), that an outstanding one is
  its owner's first of the window and the owner has no open entry (`FirstOrder`,
  `NoneOpen`), that whoever has an order in the window has spent what keeps him from
  another (`OrdersSpent`), and where in the runner's step which of this holds (`Control`).
  `EntriesLocked` adds that an entry is open only once and only while its owner is
  locked.  `ExposureAddsUp` sums the entries' costs: each call of a strategy changes one
  entry and the open notional by the same amount, and a roll zeroes the notional before it
  drops the entries, which `NothingOpen` bridges.  The theorems hold for any number of
  strategies asked in any order, any weights and caps.
- `StandaloneProofs`, the quote cache and the learner: no answer of the quote cache is older
  than the greatest age, for any number of callers: whatever overwrites whatever, a quote is
  dated by the time its request was sent, no later than it was the price
  (`DatedByRequest`).  A learned parameter is within 30 percent of its default after any
  history, since every session starts from the defaults; a strategy that is off stays off,
  since what took it off stays in its history, to which it adds nothing (`Reasons`), unless
  a session without learning has let it trade.
- `StandaloneProofs`, the five-minute bot: it makes at most one entry after a limit
  (`PassEnds`: an entry beyond a limit ends its pass, and the next begins at the limits).
  `BotsBooksAgree`: entries are of windows that are over for the bot (`EntriesPast`), it
  looks for an entry only in a window it has not entered (`Looking`), and every entry is in
  one of the places from which exactly one result follows.
- `StandaloneProofs`, several legs and whales: the handler of legs holds what was ordered and
  not yet unwound, but for the loose legs (`HeldAsOrdered`), and it unwinds after its last
  order failed and returns only when it has looked at all before it (`HandlerControl`).  What was copied of a whale
  and what its holdings now exceed the known ones by are together no more than it has added
  (`MovesCounted`), for whoever was seen whole at every look.
- `StandaloneProofs`, research: `TheBestIsPromoted`: every result was judged by its own
  gates (`Judged`), what is written is what was ranked (`Written`), and the order by score,
  count and place is strict and total, so exactly one result has nobody before it and the
  ranks, how many are before, differ.
- `StandaloneProofs`, records: `RecordsAreTheAccount`.  A fill changes one token, and what it
  adds to the money, to the stake and to the results is nothing together
  (`OneTokenChanges`); the report adds the same results up by names, trade by trade
  (`NamesShareTheTotal`).  All of it stands under `odd = {}`: no exit so far had another
  size than its entry.
- `StandaloneProofs`, strategies with books of their own: `StrategiesKnowTheirBooks`.  The
  invariant is about the orders still queued: were all of a side filled, the inventory
  would be within reach (`QueueInReach`).  The quotes of one step keep it
  (`QuotesWithinReach`, by induction over the levels), a fill takes out of the queue at
  least what it adds.  `OneReversion` says what the one queued order of MeanReversion finds
  in the OMS.  After the roll nothing is queued and the inventory only falls
  (`SettlingInv`); a settlement fill ends the position of MeanReversion, and counts as a
  partial exit if it was for less.
- `StandaloneProofs`, the evaluation of signals: `SignalsAreInOrder`.  The prices kept of an
  asset are as many as there were, up to the most that are kept, in order, and whatever is
  not among them is no younger than the first (`RecentKept`), so a look back finds the
  youngest price that is old enough; no signal is younger than the last one of its
  forecaster and window, which is a signal itself (`SignalsTimed`).
- `OfflineProofs`, the KOL package: the limiter's slots are an interval apart and the thread
  in its critical section has the next one (`PoolInv`); an author's count is the number of
  his tweets seen (`CountInv`); a fetch keeps what is to be kept of the pages served
  (`KeepsAll`), every call on its stack has what the calls below returned (`SoundStack`),
  and every slice of the time is asked for or still on the stack (`Due`).  Types of slices
  are assumptions: a slice is refined into weeks only if it is a slice of its own.
- `OfflineProofs`, the screening: `ScreeningIsSound`.  A tweet changes the numbers of one
  account by what its signal adds to the signals of that account (`Account`, by counts over
  index sets), and every call of the judge is one verdict (`Judged`).  To come before
  somebody is transitive, so a ranking is sorted through and through and its first rows are
  the best (`CutListed`); what is reranked are the first rows of such a ranking
  (`RankedFirst`), as many as will be listed at least.
- `OfflineProofs`, the replay: `OrderInv` says that what is in the books comes before the
  window the loop is in, up to the stop-loss of the snipe, which has marked its window
  (`StoppedOut`); so no window is traded twice.  `MoneyInv` says that the open trade was
  paid for: a trade is within the bankroll since a fee is no more than what it is taken of,
  and the curve never gets below nothing, so that the drawdown computed along it is the
  deepest fall between any two of its points (induction over the curve).
- `OfflineProofs`, the portfolio: admitted are at most one trade of a window and asset
  (`Apart`), in the order of time (`AfterAll`), within the cap at each (`CapKept`); the
  books are those of the admitted trades by recursion over them.
- `OfflineProofs`, the simulator: a confirmed trade rests on a run of samples of its side
  (`AgreedSound`); a strategy rests after a trade (`Rested`) and its losses in a row are
  those counted (`LossesCounted`), so it stops at its limit; equity, curve, peak and
  drawdown are those of the trades so far (`PointOf`, `PeakOf`, `FallIn`).

Every invariant and every action property of the passing runs is one of these theorems.
Only model-checked:

- liveness (`HaltFlattens`, `MatchesRecorded`, `LocksEnd`, `FetchEnds`), since fairness
  needs ENABLED, which the prover does not treat;
- all refuted properties.

## 5. Not modelled, and the plan

Not modelled for good: signing and transport, parsing, logging and the layout of reports,
downloading, converting and loading data, numeric filters and probability models (their
verdicts are free inputs), the strategies and skills that nothing constructs, and the
command lines.  A crash has no model: positions, entries and live orders live in memory
only, a restart begins with empty books, and the repository says nothing of what it should
recover.

Done, in this order: capital, positions and paper trading; windows and their settlement,
with the life cycle as abstract specification and the refinement proved; live orders;
`OrderExecution`; `StrategyLocks`; the quote cache and the learner; the five-minute bot,
whales and legs; the market maker and the mean reversion; records, research and
backtests; the KOL package.

Left, most important first:

1. the recorder's rotation of files and the episodes of the training environment;
2. the merge of complete sets and `update_mark_prices`, once something calls them.
