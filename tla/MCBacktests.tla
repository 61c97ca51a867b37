----------------------------- MODULE MCBacktests ------------------------------
(***************************************************************************)
(* The three backtests side by side: a behaviour runs one of them.          *)
(***************************************************************************)
EXTENDS Replay, ReplayPortfolio, Simulator

VARIABLE program

\* Windows of three seconds; every limit of time and price cuts some records off.
MCRules ==
  [k \in Strategies |->
     CASE k = "oracle"      -> [minLeft |-> 1, maxLeft |-> 2, low |-> 2, high |-> 5, part |-> 20, most |-> 60]
       [] k = "momentum"    -> [minLeft |-> 0, maxLeft |-> 1, low |-> 2, high |-> 5, part |-> 20, most |-> 60]
       [] k = "leadlag"     -> [minLeft |-> 1, maxLeft |-> 2, low |-> 2, high |-> 5, part |-> 20, most |-> 60]
       [] k = "convergence" -> [minLeft |-> 0, maxLeft |-> 1, low |-> 0, high |-> 9, part |-> 10, most |-> 60]
       [] k = "snipe"       -> [minLeft |-> 0, maxLeft |-> 2, low |-> 5, high |-> 8, part |-> 20, most |-> 60]
       [] k = "volconv"     -> [minLeft |-> 1, maxLeft |-> 2, low |-> 2, high |-> 5, part |-> 100, most |-> 60]
       [] k = "rl"          -> [minLeft |-> 0, maxLeft |-> 2, low |-> 2, high |-> 8, part |-> 10, most |-> 900]]

MCCooldown ==
  [k \in Strategies |-> CASE k \in {"oracle", "leadlag"} -> 2 [] k = "rl" -> 4 [] OTHER -> 0]

\* Two assets in one window and one of them in the next.
MCSlots ==
  {<<"snipe", "btc", 0>>, <<"oracle", "btc", 0>>, <<"oracle", "eth", 0>>,
   <<"snipe", "btc", 1>>, <<"oracle", "btc", 1>>}

MCOfferTerms ==
  {[left |-> 8, size |-> 200, gain |-> 1], [left |-> 40, size |-> 200, gain |-> -1],
   [left |-> 150, size |-> 60, gain |-> 1], [left |-> 250, size |-> 200, gain |-> 0]}

MCRank == [snipe |-> 4, oracle |-> 3]

MCWeights ==
  [g \in Regimes |-> [c \in DOMAIN MCRank |->
     CASE g = "deadzone" -> 0
       [] g = "endgame" /\ c = "snipe" -> 15
       [] g = "warmup" /\ c = "snipe" -> 0
       [] OTHER -> 10]]

\* Agreeing samples, a gap between two of them, and a change of mind.
MCWalks ==
  {<<"UP", "UP", "DOWN">>, <<"UP", None, "UP">>, <<"DOWN", "UP", "UP">>}

MCRunners == <<"momentum", "oracle">>

MCQuoteSets == {{[t |-> 0, up |-> 5]}, {[t |-> 2, up |-> 4]}}

ReplayIdle ==
  /\ kind = "oracle" /\ winners = [w \in Windows |-> "UP"]
  /\ rec = NoRecord /\ seen = 0 /\ clock = 0 /\ window = NoWindow /\ trade = NoTrade
  /\ lastTs = 0 /\ pending = Nothing /\ since = LongAgo /\ marked = {}
  /\ book = EmptyBook /\ drawdown = 0 /\ done = TRUE

PortfolioIdle ==
  /\ offers = [s \in Slots |-> NoOffer]
  /\ waiting = <<>> /\ admitted = <<>> /\ results = <<>>

SimulatorIdle ==
  /\ index = 0 /\ current = NoInput /\ next = 1 /\ history = 0
  /\ cooldownUntil = [s \in RunnerNames |-> 0]
  /\ consecutiveLosses = [s \in RunnerNames |-> 0]
  /\ equity = Start /\ peak = Start /\ simDrawdown = 0
  /\ simTrades = <<>> /\ equityCurve = <<>> /\ report = <<>>

Init ==
  \/ program = "replay"    /\ ReplayInit /\ PortfolioIdle /\ SimulatorIdle
  \/ program = "portfolio" /\ ReplayIdle /\ PortfolioInit /\ SimulatorIdle
  \/ program = "simulator" /\ ReplayIdle /\ PortfolioIdle /\ SimulatorInit

ReplayRuns ==
  program = "replay" /\ ReplayNext /\ UNCHANGED <<program, portfolioVars, simulatorVars>>

PortfolioRuns ==
  program = "portfolio" /\ PortfolioNext /\ UNCHANGED <<program, replayVars, simulatorVars>>

SimulatorRuns ==
  program = "simulator" /\ SimulatorNext /\ UNCHANGED <<program, replayVars, portfolioVars>>

Next == ReplayRuns \/ PortfolioRuns \/ SimulatorRuns

Spec == Init /\ [][Next]_<<program, replayVars, portfolioVars, simulatorVars>>
===============================================================================
