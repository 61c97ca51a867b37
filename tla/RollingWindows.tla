---------------------------- MODULE RollingWindows ----------------------------
(***************************************************************************)
(* The runner of a rolling up/down market, with the provider that discovers *)
(* its windows and the oracle that prices them: strategies/v2/runner.py,    *)
(* data_pipeline/market_provider.py and data_pipeline/oracle.py, in paper   *)
(* trading.  Every request may fail; minutes pass between (and, with the    *)
(* oracle's retries, during) the phases of a step.                          *)
(*                                                                         *)
(* A window is the minute it starts at, a token a pair <<window, side>>.    *)
(* Sizes and money are left to DryRunTrading.                               *)
(***************************************************************************)
EXTENDS Integers

CONSTANTS
  Interval,     \* minutes a window lasts
  Horizon,      \* last minute of the market (a bound of the model)
  Prices,       \* prices of the asset
  Paths,        \* the ways it may go: its price at the start of each minute
  LogResults,   \* whether the fill callbacks after the OMS succeed
  MaxFills      \* settlement fills of a token that may raise (a bound of the model)

ASSUME WindowsAssumption ==
  /\ Interval \in Nat \ {0}
  /\ Horizon \in Nat
  /\ Prices \subseteq Nat \ {0}
  /\ Paths \subseteq [0..(Horizon + 1) -> Prices]
  /\ LogResults \subseteq BOOLEAN
  /\ MaxFills \in Nat

Sides == {"UP", "DOWN"}

NoWindow == -1

Windows == {w \in 0..(Horizon + Interval) : w % Interval = 0}

Tokens == Windows \X Sides

VARIABLES
  now,        \* the current minute
  opens,      \* the path the asset takes; nothing reads a minute that has not begun
  cache,      \* the oracle's cached settlement price of each window, 0 for none
  market,     \* the provider: its window and that window's strike, 0 if missing
  valid,      \* sides with a valid context, in the step that runs
  lastKey,    \* the runner's _last_window_key
  prev,       \* what step saved of the provider before the refresh
  entries,    \* _open_entries of the runner
  todo,       \* entries the running settlement has not come to
  outcome,    \* the oracle's answer to the running settlement
  held,       \* tokens the OMS holds
  fills,      \* history: the number of settlement fills of each token
  raised,     \* history: tokens settled by a settlement that raised, and not since
  phase       \* where the runner is

book == <<held, fills, raised>>
runner == <<lastKey, prev, entries, todo, outcome, book>>
vars == <<now, opens, cache, market, valid, runner, phase>>

MarketRecord == [window : Windows \cup {NoWindow}, strike : Prices \cup {0}]

TypeOK ==
  /\ now \in 0..Horizon
  /\ opens \in Paths
  /\ cache \in [Windows -> Prices \cup {0}]
  /\ market \in MarketRecord
  /\ valid \in SUBSET Sides
  /\ lastKey \in Windows \cup {NoWindow}
  /\ prev \in MarketRecord
  /\ entries \in SUBSET Tokens
  /\ todo \in SUBSET entries
  /\ outcome \in Sides \cup {"none"}
  /\ held \in SUBSET Tokens
  /\ fills \in [Tokens -> Nat]
  /\ raised \in SUBSET Tokens
  /\ phase \in {"idle", "roll", "settle", "signals"}

Nothing == [window |-> NoWindow, strike |-> 0]

Init ==
  /\ now = 0
  /\ opens \in Paths
  /\ cache = [w \in Windows |-> 0]
  /\ market = Nothing
  /\ valid = {}
  /\ lastKey = NoWindow
  /\ prev = Nothing
  /\ entries = {}
  /\ todo = {}
  /\ outcome = "none"
  /\ held = {}
  /\ fills = [t \in Tokens |-> 0]
  /\ raised = {}
  /\ phase = "idle"

EndOf(w) == w + Interval

Tick ==
  /\ now < Horizon
  /\ now' = now + 1
  /\ UNCHANGED <<opens, cache, market, valid, runner, phase>>

-------------------------------------------------------------------------------
(* The oracle                                                              *)

\* The price when the window is found, begun or not.
StartPriceAtDiscovery(w) == {opens[now]}

\* The open of the window's first candle; a minute that has not begun has none.
StartPrice(w) == IF w <= now THEN {opens[w]} ELSE {}

\* Close of the candle of minute m; the one in progress closes at any price yet.
CandleClose(m) == IF m < now THEN {opens[m + 1]} ELSE Prices

\* get_settlement_price asks for the candles from two minutes before the end on.  The
\* first to close at the end or later is the one that opens there; without it, the last.
SettlementPrice(w) ==
  IF cache[w] # 0 THEN {cache[w]}
  ELSE IF EndOf(w) <= now THEN CandleClose(EndOf(w))
  ELSE IF EndOf(w) - 2 <= now THEN CandleClose(now)
  ELSE {}

Outcome(price, strike) == IF price >= strike THEN "UP" ELSE "DOWN"

-------------------------------------------------------------------------------
(* The provider: refresh and _discover_window                              *)

CurrentWindow == now - (now % Interval)

Shown(w) == {[window |-> w, strike |-> s] : s \in StartPrice(w) \cup {0}}

\* What a refresh can make of the provider.  The clock's window is asked for unless it
\* is the one shown already; if it is not served, the next one; a strike that cannot be
\* had is 0 and is not asked for again.
Discoverable ==
  IF market.window = CurrentWindow THEN {market}
  ELSE {market} \cup UNION {Shown(w) : w \in {CurrentWindow, CurrentWindow + Interval}}

\* A context is valid if its book is there, the window has not ended and has a strike.
ValidSides(shown, books) ==
  IF shown.strike > 0 /\ now < EndOf(shown.window) THEN books ELSE {}

Refresh(shown, books) ==
  /\ phase = "idle"
  /\ shown \in Discoverable
  /\ market' = shown
  /\ valid' = ValidSides(shown, books)
  /\ UNCHANGED <<now, opens, cache, entries, todo, outcome, book>>

\* No context is valid: step returns at once, and the window that ended stays unsettled.
RefreshInvalid ==
  \E shown \in Discoverable, books \in SUBSET Sides :
    /\ Refresh(shown, books)
    /\ ValidSides(shown, books) = {}
    /\ UNCHANGED <<lastKey, prev, phase>>

RollDetected(shown) == lastKey \notin {NoWindow, shown.window}

RefreshSameWindow ==
  \E shown \in Discoverable, books \in SUBSET Sides :
    /\ Refresh(shown, books)
    /\ ValidSides(shown, books) # {}
    /\ ~RollDetected(shown)
    /\ lastKey' = shown.window
    /\ phase' = "signals"
    /\ UNCHANGED prev

\* The window, strike and end the settlement goes by are those of before this refresh.
RefreshRolls ==
  \E shown \in Discoverable, books \in SUBSET Sides :
    /\ Refresh(shown, books)
    /\ ValidSides(shown, books) # {}
    /\ RollDetected(shown)
    /\ prev' = market
    /\ phase' = "roll"
    /\ UNCHANGED lastKey

-------------------------------------------------------------------------------
(* _on_window_roll                                                         *)

ReconciledAllHeld == entries \cup held

\* Positions in the tokens shown before the refresh that no entry tracks get one.
Reconciled == entries \cup {t \in held : t[1] = prev.window}

RollOverKeepingEntries ==
  /\ lastKey' = market.window
  /\ prev' = Nothing
  /\ outcome' = "none"
  /\ todo' = {}
  /\ UNCHANGED entries
  /\ phase' = "signals"

RollOver ==
  /\ lastKey' = market.window
  /\ prev' = Nothing
  /\ outcome' = "none"
  /\ todo' = {}
  /\ entries' = {}
  /\ phase' = "signals"

NothingToSettle ==
  /\ phase = "roll"
  /\ Reconciled = {}
  /\ RollOver
  /\ UNCHANGED <<now, opens, cache, market, valid, book>>

\* No strike, no candle or no answer: the entries are dropped, the positions stay.
NoOutcome ==
  /\ phase = "roll"
  /\ Reconciled # {}
  /\ RollOver
  /\ UNCHANGED <<now, opens, cache, market, valid, book>>

OutcomeKnown ==
  /\ phase = "roll"
  /\ Reconciled # {}
  /\ prev.strike > 0
  /\ \E price \in SettlementPrice(prev.window) :
       /\ cache' = [cache EXCEPT ![prev.window] = price]
       /\ outcome' = Outcome(price, prev.strike)
  /\ entries' = Reconciled
  /\ todo' = Reconciled
  /\ phase' = "settle"
  /\ UNCHANGED <<now, opens, market, valid, lastKey, prev, book>>

SettleFill(t) ==
  /\ phase = "settle"
  /\ t \in todo
  /\ held' = held \ {t}
  /\ fills' = [fills EXCEPT ![t] = @ + 1]

SettleEntry(t) ==
  /\ TRUE \in LogResults
  /\ SettleFill(t)
  /\ todo' = todo \ {t}
  /\ raised' = raised \ {t}
  /\ UNCHANGED <<now, opens, cache, market, valid, lastKey, prev, entries, outcome, phase>>

\* A callback after the OMS raises: the exception leaves step with the entries still
\* tracked, those settled before included, and the window key unchanged, so the next
\* step rolls again.
SettlementRaises(t) ==
  /\ FALSE \in LogResults
  /\ fills[t] < MaxFills
  /\ SettleFill(t)
  /\ raised' = raised \cup {t} \cup (entries \ todo)
  /\ todo' = {}
  /\ prev' = Nothing
  /\ outcome' = "none"
  /\ valid' = {}
  /\ phase' = "idle"
  /\ UNCHANGED <<now, opens, cache, market, lastKey, entries>>

SettlementDone ==
  /\ phase = "settle"
  /\ todo = {}
  /\ RollOver
  /\ UNCHANGED <<now, opens, cache, market, valid, book>>

-------------------------------------------------------------------------------
(* Trading                                                                 *)

Buy(side, logged) ==
  /\ phase = "signals"
  /\ side \in valid
  /\ held' = held \cup {<<market.window, side>>}
  /\ entries' = IF logged THEN entries \cup {<<market.window, side>>} ELSE entries
  /\ phase' = IF logged THEN phase ELSE "idle"
  /\ valid' = IF logged THEN valid ELSE {}
  /\ UNCHANGED <<now, opens, cache, market, lastKey, prev, todo, outcome, fills, raised>>

\* A SELL signal or the stop-loss of the main loop; the entry stays.
SellOut(t) ==
  /\ phase \in {"idle", "signals"}
  /\ t \in held
  /\ held' = held \ {t}
  /\ UNCHANGED <<now, opens, cache, market, valid, lastKey, prev, entries, todo, outcome, fills, raised, phase>>

StepDone ==
  /\ phase = "signals"
  /\ phase' = "idle"
  /\ valid' = {}
  /\ UNCHANGED <<now, opens, cache, market, runner>>

Next ==
  \/ Tick
  \/ RefreshInvalid \/ RefreshSameWindow \/ RefreshRolls
  \/ NothingToSettle \/ NoOutcome \/ OutcomeKnown
  \/ \E t \in Tokens : SettleEntry(t) \/ SettlementRaises(t) \/ SellOut(t)
  \/ SettlementDone
  \/ \E side \in Sides, logged \in LogResults : Buy(side, logged)
  \/ StepDone

Spec == Init /\ [][Next]_vars

-------------------------------------------------------------------------------
(* Properties                                                              *)

\* A token is settled after its window has ended, and once, though discovery may jump
\* ahead and come back, steps return early and reconciliation makes up entries; only
\* those that an interrupted settlement had come to are settled again, once for each
\* interruption; and a token that was settled is never bought again.  The contract of
\* WindowLifecycle, in which a second settlement fill is a step like the first.
Lifecycle == INSTANCE WindowLifecycle WITH
  clock <- now, holding <- held, count <- fills, again <- raised

LifecycleSpec == Lifecycle!Spec

\* "Binance 1m candle open aligned to the window start ... rather than the bot's
\* discovery-time spot price" (oracle.py:151-153), also for a window found early.
StrikeIsOpen == market.strike > 0 => market.window <= now /\ market.strike = opens[market.window]

\* Whatever is settled at a roll belongs to the window that was traded last, although
\* reconciliation goes by the tokens the provider showed before the refresh.
EntriesOfLastKey == \A t \in entries : t[1] = lastKey

\* "Uses the *previous* window's strike and end timestamp" (runner.py:208).
SettledByOwnWindow == phase = "settle" => \A t \in todo : t[1] = prev.window
===============================================================================
