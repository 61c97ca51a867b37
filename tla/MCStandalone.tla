------------------------------ MODULE MCStandalone ------------------------------
(***************************************************************************)
(* Parts that share no state with the trading loop of the other models, or  *)
(* that are looked at on their own, side by side: a behaviour runs one of   *)
(* them while the others stay in one idle state.                           *)
(***************************************************************************)
EXTENDS CapitalAllocator, BtcFiveMinutes, TradeRecords, Learner, WhaleCopies, MultiLeg,
        Experiments, SignalResearch, QuoteCache, OrderExecution, QuotingStrategies

VARIABLE program

\* Two budget keys, one of them shared by two sources, and limits tight enough that
\* each of the four binds for some request.
MCStrategies == {"momentum", "snipe", "mm"}
MCKeys == {"btc5m", "stoikov_mm"}
MCKeyOf == [s \in MCStrategies |-> IF s = "mm" THEN "stoikov_mm" ELSE "btc5m"]
MCBudget == [k \in MCKeys |-> IF k = "btc5m" THEN 4 ELSE 5]

\* Books in which both outcomes are cheap together, and in which they are not.
MCQuotes ==
  {[up |-> 4, down |-> 4, upBid |-> 3, downBid |-> 0],
   [up |-> 4, down |-> 6, upBid |-> 3, downBid |-> 0]}

MCReportName ==
  [s \in {"mm_quote", "whale_copy_x"} |->
     IF s = "mm_quote" THEN "market_making" ELSE "whale_copy"]

\* A good session, a bad one, and one of a narrow profit.
MCSessionResults ==
  {[trades |-> 20, wins |-> 17, pnl |-> 5, narrow |-> TRUE, factor |-> 150],
   [trades |-> 5, wins |-> 1, pnl |-> -7, narrow |-> TRUE, factor |-> 50]}

MCLevels == <<2, 1>>

MCPrices == {<<4, 5, 6>>, <<3, 4>>, <<7, 2, 3>>, <<5, 5>>}

Ex(m, count, measure) == [mode |-> m, minCount |-> count, minMeasure |-> measure]
MCSpecs ==
  {<<Ex("replay", 2, -1), Ex("signal_eval", -1, 5), Ex("replay", -1, -1)>>,
   <<Ex("signal_eval", 1, -1), Ex("signal_eval", 1, 5)>>}

Metrics(count, measure, score, own) ==
  [count |-> count, measure |-> measure, score |-> score, own |-> own]
MCMeasurements ==
  {Metrics(0, -1, 0, TRUE), Metrics(1, 5, 7, TRUE), Metrics(3, 6, 7, FALSE),
   Metrics(2, 4, 9, TRUE), Metrics(2, -1, 3, TRUE)}

MCSlugAsset == [s \in Slugs |-> IF s = "eth1" THEN "eth" ELSE "btc"]

\* Half shares and half ticks, so that rounding, resizing and a rest of less than a
\* share occur; books of no, one or two levels on either side.
MCRequests ==
  [side : {"BUY", "SELL"}, price : {9, 11, 13}, size : 1..7, type : OrderTypes]

MCSides(best, next) ==
  {<<>>} \cup {<<[price |-> best, size |-> n]>> : n \in {1, 3, 4}}
    \cup {<<[price |-> best, size |-> n], [price |-> next, size |-> m]>> : n \in {1, 2}, m \in {1, 3}}

MCBooks ==
  {NoBook} \cup [asks : MCSides(12, 14), bids : {<<>>}] \cup [asks : {<<>>}, bids : MCSides(12, 10)]

BtcIdle ==
  /\ time = 0 /\ spot = 1 /\ step = "stopped"
  /\ win = NoWin /\ strike = 0 /\ position = "none" /\ pair = 0
  /\ cached = {} /\ retryAfter = [w \in BtcWindows |-> 0]
  /\ odds = NoOdds /\ fair = 0
  /\ held = [t \in BtcWindows \X Legs |-> NothingHeld]
  /\ stats = [trades |-> 0, wins |-> 0, losses |-> 0, inRow |-> 0, pnl |-> 0]
  /\ entries = <<>> /\ unknown = 0 /\ broken = {} /\ lateEntries = 0

WhaleIdle ==
  /\ holds = NothingOf /\ moves = 0 /\ cycles = 0 /\ whales = <<>> /\ known = NothingOf
  /\ initialized = FALSE /\ looking = Idle /\ signals = <<>>
  /\ gained = NothingOf /\ copied = NothingOf /\ flawed = {}

LegIdle ==
  /\ executor = "arb" /\ legs = <<>> /\ orders = <<>> /\ exposure = <<>>
  /\ loose = {} /\ executing = "returned" /\ unwound = 0

ResearchIdle ==
  /\ spec = <<>> /\ dryRun = TRUE /\ judged = <<>> /\ ranks = <<>> /\ advice = <<>>
  /\ research = "invalid"

OrderIdle ==
  /\ mode = "paper" /\ request = CHOOSE r \in Requests : TRUE
  /\ levels = NoBook /\ size = request.size /\ chunk = 0 /\ remaining = 0
  /\ done = None /\ answer = "nothing" /\ lost = FALSE /\ phase = "returned"

QuotingIdle ==
  /\ runs = {"stoikov_mm"} /\ queued = <<>> /\ shares = 0 /\ inventory = 0
  /\ reversion = NoReversion /\ missed = FALSE /\ flawedBook = FALSE
  /\ over = FALSE /\ tracked = NoEntries /\ due = NoEntries

\* The programs with one initial state are idle in it.
StandaloneInit ==
  /\ AllocInit /\ RecordInit /\ LearnInit /\ SignalInit /\ QuoteInit
  /\ program \in {"allocator", "records", "learner", "signals", "quotes",
                  "btc_5m", "whales", "legs", "research", "order", "quoting"}
  /\ IF program = "btc_5m"   THEN BtcInit      ELSE BtcIdle
  /\ IF program = "whales"   THEN WhaleInit    ELSE WhaleIdle
  /\ IF program = "legs"     THEN LegInit      ELSE LegIdle
  /\ IF program = "research" THEN ResearchInit ELSE ResearchIdle
  /\ IF program = "order"    THEN Init         ELSE OrderIdle
  /\ IF program = "quoting"  THEN QuotingInit  ELSE QuotingIdle

AllocatorRuns ==
  /\ program = "allocator" /\ AllocNext
  /\ UNCHANGED <<program, btcVars, recordVars, learnVars, whaleVars, legVars, researchVars,
                 signalVars, quoteVars, vars, quotingVars>>

BtcRuns ==
  /\ program = "btc_5m" /\ BtcNext
  /\ UNCHANGED <<program, cap, recordVars, learnVars, whaleVars, legVars, researchVars,
                 signalVars, quoteVars, vars, quotingVars>>

RecordsRun ==
  /\ program = "records" /\ RecordNext
  /\ UNCHANGED <<program, cap, btcVars, learnVars, whaleVars, legVars, researchVars,
                 signalVars, quoteVars, vars, quotingVars>>

LearnerRuns ==
  /\ program = "learner" /\ LearnNext
  /\ UNCHANGED <<program, cap, btcVars, recordVars, whaleVars, legVars, researchVars,
                 signalVars, quoteVars, vars, quotingVars>>

WhalesRun ==
  /\ program = "whales" /\ WhaleNext
  /\ UNCHANGED <<program, cap, btcVars, recordVars, learnVars, legVars, researchVars,
                 signalVars, quoteVars, vars, quotingVars>>

LegsRun ==
  /\ program = "legs" /\ LegNext
  /\ UNCHANGED <<program, cap, btcVars, recordVars, learnVars, whaleVars, researchVars,
                 signalVars, quoteVars, vars, quotingVars>>

ResearchRuns ==
  /\ program = "research" /\ ResearchNext
  /\ UNCHANGED <<program, cap, btcVars, recordVars, learnVars, whaleVars, legVars,
                 signalVars, quoteVars, vars, quotingVars>>

SignalsRun ==
  /\ program = "signals" /\ SignalNext
  /\ UNCHANGED <<program, cap, btcVars, recordVars, learnVars, whaleVars, legVars,
                 researchVars, quoteVars, vars, quotingVars>>

QuotesRun ==
  /\ program = "quotes" /\ QuoteNext
  /\ UNCHANGED <<program, cap, btcVars, recordVars, learnVars, whaleVars, legVars,
                 researchVars, signalVars, vars, quotingVars>>

OrderRuns ==
  /\ program = "order" /\ Next
  /\ UNCHANGED <<program, cap, btcVars, recordVars, learnVars, whaleVars, legVars,
                 researchVars, signalVars, quoteVars, quotingVars>>

QuotingRuns ==
  /\ program = "quoting" /\ QuotingNext
  /\ UNCHANGED <<program, cap, btcVars, recordVars, learnVars, whaleVars, legVars,
                 researchVars, signalVars, quoteVars, vars>>

StandaloneNext ==
  \/ AllocatorRuns \/ BtcRuns \/ RecordsRun \/ LearnerRuns \/ WhalesRun \/ LegsRun
  \/ ResearchRuns \/ SignalsRun \/ QuotesRun \/ OrderRuns \/ QuotingRuns

StandaloneSpec ==
  StandaloneInit /\ [][StandaloneNext]_<<program, cap, btcVars, recordVars, learnVars,
    whaleVars, legVars, researchVars, signalVars, quoteVars, vars, quotingVars>>
===============================================================================
