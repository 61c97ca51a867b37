---------------------------- MODULE StandaloneProofs ----------------------------
(***************************************************************************)
(* Proofs about the quote cache, the learner, the five-minute bot, the     *)
(* execution of several legs, whale copying, the research orchestrator,    *)
(* the trade records, the strategies with books of their own and the       *)
(* evaluation of signals, which share no state with each other.            *)
(***************************************************************************)
EXTENDS QuoteCache, Learner, BtcFiveMinutes, MultiLeg, WhaleCopies, Experiments, TradeRecords,
        QuotingStrategies, SignalResearch, SumsProofs, FiniteSetTheorems, SequenceTheorems, TLAPS

-------------------------------------------------------------------------------
(* The quote cache.  A stored quote is no older than the request that       *)
(* fetched it, whichever request stored it last; so its date bounds its age. *)

QuoteTypes ==
  /\ moment \in Int
  /\ calling \in [Callers -> Int]
  /\ quote # NoQuote => quote \in [price : Int, fetchedAt : Int]
  /\ DOMAIN served = Callers
  /\ \A c \in Callers : served[c] # NoQuote => served[c] \in [price : Int, since : Int, at : Int]

DatedByRequest == quote # NoQuote => quote.price >= quote.fetchedAt

QuoteInv == QuoteTypes /\ DatedByRequest /\ QuoteIsYoung

\* What is served from the cache within the greatest age is young, whatever request it
\* is the answer to.
LEMMA ServedYoung ==
  ASSUME QuoteInv, NEW c \in Callers, NEW since \in Int, quote # NoQuote,
         moment - quote.fetchedAt <= GreatestAge, Serve(c, quote.price, since)
  PROVE  /\ QuoteIsYoung'
         /\ DOMAIN served' = Callers
         /\ \A d \in Callers :
              served'[d] # NoQuote => served'[d] \in [price : Int, since : Int, at : Int]
  BY QuoteAssumption DEF QuoteInv, QuoteTypes, DatedByRequest, QuoteIsYoung, Serve

\* What the service has just answered is no older than its request.
LEMMA AnsweredYoung ==
  ASSUME QuoteInv, NEW c \in Callers, NEW price \in Int, price >= calling[c],
         Serve(c, price, calling[c])
  PROVE  /\ QuoteIsYoung'
         /\ DOMAIN served' = Callers
         /\ \A d \in Callers :
              served'[d] # NoQuote => served'[d] \in [price : Int, since : Int, at : Int]
  BY QuoteAssumption DEF QuoteInv, QuoteTypes, QuoteIsYoung, Serve

LEMMA QuoteInvInit == QuoteInit => QuoteInv
  BY DEF QuoteInit, QuoteInv, QuoteTypes, DatedByRequest, QuoteIsYoung, NotCalling

LEMMA QuoteInvStep == QuoteInv /\ [QuoteNext]_quoteVars => QuoteInv'
<1> SUFFICES ASSUME QuoteInv, [QuoteNext]_quoteVars PROVE QuoteInv'
  OBVIOUS
<1> USE QuoteAssumption
<1>1. CASE MomentPasses
  BY <1>1 DEF MomentPasses, QuoteInv, QuoteTypes, DatedByRequest, QuoteIsYoung
<1>2. ASSUME NEW c \in Callers, FromCache(c) PROVE QuoteInv'
  <2>1. quote # NoQuote /\ moment - quote.fetchedAt <= GreatestAge
    BY <1>2 DEF FromCache, IsFresh, QuoteInv, QuoteTypes
  <2>2. moment \in Int /\ Serve(c, quote.price, moment) /\ UNCHANGED <<moment, quote, calling>>
    BY <1>2 DEF FromCache, QuoteInv, QuoteTypes
  <2> QED BY <2>1, <2>2, ServedYoung DEF QuoteInv, QuoteTypes, DatedByRequest
<1>3. ASSUME NEW c \in Callers, AskForQuote(c) PROVE QuoteInv'
  BY <1>3 DEF AskForQuote, QuoteInv, QuoteTypes, DatedByRequest, QuoteIsYoung
<1>4. ASSUME NEW c \in Callers, NotQuoted(c) PROVE QuoteInv'
  <2>1. calling[c] \in Int /\ calling' \in [Callers -> Int] /\ UNCHANGED <<moment, quote>>
    BY <1>4 DEF NotQuoted, NotCalling, QuoteInv, QuoteTypes
  <2>2. CASE IsUsable
    BY <1>4, <2>1, <2>2, ServedYoung
    DEF NotQuoted, IsUsable, QuoteInv, QuoteTypes, DatedByRequest
  <2>3. CASE ~IsUsable
    BY <1>4, <2>1, <2>3 DEF NotQuoted, QuoteInv, QuoteTypes, DatedByRequest, QuoteIsYoung
  <2> QED BY <2>2, <2>3
<1>5. ASSUME NEW c \in Callers, NEW price \in 0..LastMoment, Quoted(c, price) PROVE QuoteInv'
  <2>1. calling[c] \in Int /\ price \in Int /\ price >= calling[c]
    BY <1>5 DEF Quoted, QuoteInv, QuoteTypes
  <2>2. calling' \in [Callers -> Int] /\ moment' \in Int
    BY <1>5 DEF Quoted, NotCalling, QuoteInv, QuoteTypes
  <2>3. quote' \in [price : Int, fetchedAt : Int] /\ quote'.price >= quote'.fetchedAt
    BY <1>5, <2>1 DEF Quoted, FetchedAt
  <2> QED BY <1>5, <2>1, <2>2, <2>3, AnsweredYoung DEF Quoted, QuoteInv, QuoteTypes, DatedByRequest
<1>6. CASE UNCHANGED quoteVars
  BY <1>6 DEF quoteVars, QuoteInv, QuoteTypes, DatedByRequest, QuoteIsYoung
<1> QED BY <1>1, <1>2, <1>3, <1>4, <1>5, <1>6 DEF QuoteNext

\* No caller of the shared quote cache is given a price older than the greatest age
\* that is older than its own request, for any number of callers, however their
\* requests overtake each other (get_asset_price, get_asset_price_cached).
THEOREM QuotesAreYoung == QuoteSpec => []QuoteIsYoung
<1>1. QuoteInv => QuoteIsYoung
  BY DEF QuoteInv
<1> QED BY <1>1, QuoteInvInit, QuoteInvStep, PTL DEF QuoteSpec

-------------------------------------------------------------------------------
(* The learner.  Every session starts from the configuration, so that what  *)
(* is adjusted is bounded by one step; and a strategy taken off has no      *)
(* trades in a report, so that the reason for taking it off stays.           *)

Reasons == disabled \ redeemed \subseteq Removed

Histories ==
  [trades : Nat, wins : Nat, pnl : Int, factors : Nat, narrow : BOOLEAN, sessions : Nat, negative : Nat]

LearnInv == history \in [Names -> Histories] /\ Reasons /\ LearnedWithinBounds

Parameters == [gamma : Nat, whaleRate : Nat, minEdge : Nat]

LEMMA AdjustedMM ==
  ASSUME NEW h, NEW s \in Parameters, s.gamma = 5000
  PROVE  AdjustMM(h, s) \in Parameters /\ 3500 <= AdjustMM(h, s).gamma /\ AdjustMM(h, s).gamma <= 6500
         /\ AdjustMM(h, s).whaleRate = s.whaleRate /\ AdjustMM(h, s).minEdge = s.minEdge
<1> DEFINE wider == IF h.narrow /\ h.sessions >= 3 THEN Clamped((s.gamma * 115) \div 100, s.gamma)
                    ELSE s.gamma
           g == IF WinsAbove(h, 80) /\ h.trades >= ManyTrades
                THEN Clamped((wider * 90) \div 100, wider) ELSE wider
<1>1. Clamped((s.gamma * 115) \div 100, s.gamma) = 5750
  BY DEF Clamped, Less, More
<1>2. wider \in {5000, 5750}
  BY <1>1
<1>3. Clamped((5000 * 90) \div 100, 5000) = 4500 /\ Clamped((5750 * 90) \div 100, 5750) = 5175
  BY DEF Clamped, Less, More
<1>4. g \in {5000, 5750, 4500, 5175}
  BY <1>2, <1>3
<1>5. AdjustMM(h, s) = [s EXCEPT !.gamma = g]
  BY DEF AdjustMM
<1> HIDE DEF wider, g
<1> QED BY <1>4, <1>5 DEF Parameters

LEMMA AdjustedWhale ==
  ASSUME NEW h, NEW s \in Parameters, s.whaleRate = 8000
  PROVE  AdjustWhale(h, s) \in Parameters /\ 7700 <= AdjustWhale(h, s).whaleRate /\ AdjustWhale(h, s).whaleRate <= 8500
         /\ AdjustWhale(h, s).gamma = s.gamma /\ AdjustWhale(h, s).minEdge = s.minEdge
  BY DEF AdjustWhale, Less, More, Parameters

LEMMA AdjustedBtc ==
  ASSUME NEW h, NEW s \in Parameters, s.minEdge = 1600
  PROVE  AdjustBtc(h, s) \in Parameters /\ 1500 <= AdjustBtc(h, s).minEdge /\ AdjustBtc(h, s).minEdge <= 1800
         /\ AdjustBtc(h, s).gamma = s.gamma /\ AdjustBtc(h, s).whaleRate = s.whaleRate
<1> DEFINE raised == IF WinsBelow(h, 45) \/ FactorBelow(h, 100)
                     THEN Less(More(s.minEdge + 200, 1400), 2000) ELSE s.minEdge
           e == IF WinsAbove(h, 65) /\ FactorAbove(h, 120) THEN More(raised - 100, 800) ELSE raised
<1>1. Less(More(s.minEdge + 200, 1400), 2000) = 1800
  BY DEF Less, More
<1>2. raised \in {1600, 1800}
  BY <1>1
<1>3. e \in {1500, 1600, 1700, 1800}
  <2>1. More(1600 - 100, 800) = 1500 /\ More(1800 - 100, 800) = 1700
    BY DEF More
  <2> QED BY <1>2, <2>1
<1>4. AdjustBtc(h, s) = IF h.trades < BtcMinTrades \/ h.sessions < 3 THEN s ELSE [s EXCEPT !.minEdge = e]
  BY DEF AdjustBtc
<1> HIDE DEF raised, e
<1> QED BY <1>3, <1>4 DEF Parameters

LEMMA RangesAreWithin ==
  ASSUME NEW d \in Parameters, NEW l \in Parameters,
         d.gamma = 5000, d.whaleRate = 8000, d.minEdge = 1600,
         3500 <= l.gamma, l.gamma <= 6500, 7700 <= l.whaleRate, l.whaleRate <= 8500,
         1500 <= l.minEdge, l.minEdge <= 1800
  PROVE  \A p \in DOMAIN d : Within(l[p], d[p])
<1>1. Within(l.gamma, d.gamma) /\ Within(l.whaleRate, d.whaleRate) /\ Within(l.minEdge, d.minEdge)
  BY DEF Within, Parameters
<1>2. DOMAIN d = {"gamma", "whaleRate", "minEdge"}
  BY DEF Parameters
<1> QED BY <1>1, <1>2

\* Each name adjusts another parameter, so that the steps do not add up.
LEMMA LearnedBounded ==
  \A p \in DOMAIN Defaults : Within(Learned[p], Defaults[p])
<1> DEFINE mm == IF Knows("market_making") THEN AdjustMM(history["market_making"], Defaults)
                 ELSE Defaults
           whale == IF Knows("whale_copy") THEN AdjustWhale(history["whale_copy"], mm) ELSE mm
<1>1. /\ Defaults \in Parameters
      /\ Defaults.gamma = 5000 /\ Defaults.whaleRate = 8000 /\ Defaults.minEdge = 1600
      /\ DOMAIN Defaults = {"gamma", "whaleRate", "minEdge"}
  BY DEF Defaults, Parameters
<1>2. mm = AdjustMM(history["market_making"], Defaults) \/ mm = Defaults
  OBVIOUS
<1>3. whale = AdjustWhale(history["whale_copy"], mm) \/ whale = mm
  OBVIOUS
<1>4. Learned = AdjustBtc(history["btc_5m"], whale) \/ Learned = whale
  BY DEF Learned, StartsFrom
<1> HIDE DEF mm, whale
<1>5. mm \in Parameters /\ 3500 <= mm.gamma /\ mm.gamma <= 6500 /\ mm.whaleRate = 8000 /\ mm.minEdge = 1600
  BY <1>1, <1>2, AdjustedMM DEF Parameters
<1>6. /\ whale \in Parameters /\ 3500 <= whale.gamma /\ whale.gamma <= 6500 /\ 7700 <= whale.whaleRate /\ whale.whaleRate <= 8500
      /\ whale.minEdge = 1600
  BY <1>3, <1>5, AdjustedWhale DEF Parameters
<1>7. /\ Learned \in Parameters
      /\ 3500 <= Learned.gamma /\ Learned.gamma <= 6500 /\ 7700 <= Learned.whaleRate /\ Learned.whaleRate <= 8500
      /\ 1500 <= Learned.minEdge /\ Learned.minEdge <= 1800
  BY <1>4, <1>6, AdjustedBtc DEF Parameters
<1> QED BY <1>1, <1>7, RangesAreWithin

LEMMA LearnInvInit == LearnInit => LearnInv
  BY DEF LearnInit, LearnInv, Reasons, Histories, NoHistory, LearnedWithinBounds, Within, Defaults

\* A report adds to the history of a strategy; a loss keeps its losing streak.
LEMMA HistoryGrows ==
  ASSUME NEW h \in Histories, NEW r \in SessionResults \cup {NoTrades}
  PROVE  /\ Processed(h, r) \in Histories
         /\ (r.trades = 0 \/ r.pnl < 0) /\ h.negative >= 3 /\ h.pnl < 0 =>
              Processed(h, r).negative >= 3 /\ Processed(h, r).pnl < 0
<1>1. r \in [trades : Nat, wins : Nat, pnl : Int, narrow : BOOLEAN, factor : Nat]
  <2>1. CASE r \in SessionResults
    BY <2>1, LearnerAssumption DEF LearnerAssumption
  <2>2. CASE r = NoTrades
    <3>1. TRUE \in BOOLEAN /\ 0 \in Nat /\ 0 \in Int
      OBVIOUS
    <3> QED BY <2>2, <3>1, Zenon DEF NoTrades
  <2> QED BY <2>1, <2>2
<1> QED BY <1>1 DEF Processed, Histories

\* What took a strategy off is still in the history at the next start that learns, unless
\* a session that did not learn has redeemed it.
LEMMA LearnInvStep ==
  LearnInv /\ [LearnNext]_learnVars => LearnInv' /\ (disabled \ redeemed \subseteq disabled')
<1> SUFFICES ASSUME LearnInv, [LearnNext]_learnVars
             PROVE  LearnInv' /\ (disabled \ redeemed \subseteq disabled')
  OBVIOUS
<1>1. CASE Start(TRUE)
  <2>1. Reasons' /\ (disabled \ redeemed \subseteq disabled')
    BY <1>1 DEF Start, LearnInv, Reasons, Removed, Disabled
  <2>2. LearnedWithinBounds'
    BY <1>1, LearnedBounded DEF Start, LearnedWithinBounds
  <2> QED BY <1>1, <2>1, <2>2 DEF LearnInv, Start
<1>2. CASE Start(FALSE)
  <2>1. Reasons' /\ disabled' = disabled
    BY <1>2 DEF Start, LearnInv, Reasons, Removed, Disabled
  <2>2. settings' = Defaults
    BY <1>2 DEF Start, StartsFrom
  <2>3. LearnedWithinBounds'
    BY <2>2 DEF LearnedWithinBounds, Within, Defaults
  <2> QED BY <1>2, <2>1, <2>3 DEF LearnInv, Start
<1>3. CASE EndUnreported
  BY <1>3 DEF EndUnreported, LearnInv, Reasons, Removed, Disabled, LearnedWithinBounds
<1>4. ASSUME NEW results \in [Names -> SessionResults \cup {NoTrades}], End(results)
      PROVE  LearnInv' /\ (disabled \ redeemed \subseteq disabled')
  <2>1. /\ history' = [n \in Names |-> Processed(history[n], results[n])]
        /\ redeemed' = redeemed \cup {n \in disabled : results[n].trades > 0 /\ results[n].pnl >= 0}
        /\ UNCHANGED <<session, settings, disabled>>
    BY <1>4 DEF End
  <2>2. history' \in [Names -> Histories]
    BY <2>1, HistoryGrows DEF LearnInv
  <2>3. ASSUME NEW n \in disabled \ redeemed' PROVE n \in Removed'
    <3>1. /\ n \in Names /\ n \in {"market_making", "whale_copy"} /\ history[n] \in Histories
          /\ history[n].negative >= 3 /\ history[n].pnl < 0
          /\ history'[n] = Processed(history[n], results[n])
      BY <2>1, <2>3 DEF LearnInv, Reasons, Removed, Disabled
    <3>2. results[n].trades \in Nat /\ results[n].pnl \in Int
      BY <3>1, LearnerAssumption DEF LearnerAssumption, NoTrades
    <3>3. results[n].trades = 0 \/ results[n].pnl < 0
      BY <2>1, <2>3, <3>2
    <3>4. history'[n].negative >= 3 /\ history'[n].pnl < 0
      BY <3>1, <3>3, HistoryGrows
    <3> QED BY <3>1, <3>4 DEF Removed, Disabled
  <2>4. Reasons'
    BY <2>1, <2>3 DEF Reasons
  <2> QED BY <2>1, <2>2, <2>4 DEF LearnInv, LearnedWithinBounds
<1>5. CASE UNCHANGED learnVars
  BY <1>5 DEF learnVars, LearnInv, Reasons, Removed, Disabled, LearnedWithinBounds
<1> QED BY <1>1, <1>2, <1>3, <1>4, <1>5 DEF LearnNext

LEMMA LearnInvariance == LearnSpec => []LearnInv
  BY LearnInvInit, LearnInvStep, PTL DEF LearnSpec

\* No session runs with a parameter more than 30 percent from its default, whatever
\* reports of however many sessions were read before (apply_learning).
THEOREM LearningIsBounded == LearnSpec => []LearnedWithinBounds
<1>1. LearnInv => LearnedWithinBounds
  BY DEF LearnInv
<1> QED BY <1>1, LearnInvariance, PTL

\* A strategy taken off by its losses is off in every later session that learns, whatever
\* the sessions report and however many of them crash, unless it trades in a session with
\* --no-learn and does not lose (get_disabled_strategies, run).
THEOREM OffForGood == LearnSpec => DisabledForGood
<1>1. LearnInv /\ [LearnNext]_learnVars => [disabled \ redeemed \subseteq disabled']_learnVars
  BY LearnInvStep
<1> QED BY <1>1, LearnInvariance, PTL DEF LearnSpec, DisabledForGood

-------------------------------------------------------------------------------
(* The five-minute bot.  An entry beyond a limit ends its pass, and the next *)
(* pass begins by looking at the limits, which nothing but a result moves.   *)

PassEnds ==
  /\ {"inRow", "pnl"} \subseteq DOMAIN stats
  /\ lateEntries \in 0..1
  /\ lateEntries = 1 => Stops /\ step \in {"sleep", "poll", "stopped"}

\* An entry is late by the limits as they stood when it was made, and leaves them so.
LEMMA EnteringEndsPass ==
  ASSUME PassEnds, step \in {"pair", "single"}, NEW p, EntersAs(p), NEW k \in Int,
         stats' = [stats EXCEPT !.trades = @ + k]
  PROVE  PassEnds'
<1>1. lateEntries = 0
  BY DEF PassEnds
<1>2. stats'.inRow = stats.inRow /\ stats'.pnl = stats.pnl /\ {"inRow", "pnl"} \subseteq DOMAIN stats'
  BY DEF PassEnds
<1>3. Stops' <=> Stops
  BY <1>2 DEF Stops
<1> QED BY <1>1, <1>2, <1>3 DEF EntersAs, PassOver, PassEnds, Stops

LEMMA PassEndsInit == BtcInit => PassEnds
  BY DEF BtcInit, PassEnds

LEMMA RecordKeepsFields ==
  ASSUME PassEnds, Record PROVE {"inRow", "pnl"} \subseteq DOMAIN stats'
<1>1. \A profit, won : DOMAIN WithResult(stats, profit, won) = DOMAIN stats
  BY DEF WithResult
<1>2. DOMAIN stats' = DOMAIN stats
  BY <1>1 DEF Record, RecordPair, RecordSingle
<1> QED BY <1>2 DEF PassEnds

LEMMA PassEndsStep == PassEnds /\ [BtcNext]_btcVars => PassEnds'
<1> SUFFICES ASSUME PassEnds, [BtcNext]_btcVars PROVE PassEnds'
  OBVIOUS
<1>1. CASE KeepWindow
  BY <1>1 DEF KeepWindow, historyVars, PassEnds, Stops
<1>2. CASE Expire
  <2>1. lateEntries = 0 /\ lateEntries' = 0
    BY <1>2 DEF Expire, historyVars, PassEnds
  <2>2. {"inRow", "pnl"} \subseteq DOMAIN stats'
    BY <1>2, RecordKeepsFields DEF Expire
  <2> QED BY <2>1, <2>2 DEF PassEnds
<1>3. CASE Wait
  BY <1>3 DEF Wait, PassOver, historyVars, PassEnds, Stops
<1>4. CASE NoPair
  BY <1>4 DEF NoPair, historyVars, PassEnds, Stops
<1>5. CASE NoSingle
  BY <1>5 DEF NoSingle, PassOver, historyVars, PassEnds, Stops
<1>6. CASE TimePasses
  BY <1>6 DEF TimePasses, historyVars, PassEnds, Stops
<1>7. ASSUME NEW p \in SpotPrices, Poll(p) PROVE PassEnds'
  BY <1>7 DEF Poll, historyVars, PassEnds, Stops
<1>8. ASSUME NEW this, NEW next, RollWindow(this, next) PROVE PassEnds'
  <2>1. lateEntries = 0 /\ lateEntries' = 0
    BY <1>8 DEF RollWindow, historyVars, PassEnds
  <2>2. {"inRow", "pnl"} \subseteq DOMAIN stats'
    BY <1>8, RecordKeepsFields DEF RollWindow
  <2> QED BY <2>1, <2>2 DEF PassEnds
<1>9. ASSUME NEW q, NEW v, Look(q, v) PROVE PassEnds'
  BY <1>9 DEF Look, PassOver, historyVars, PassEnds, Stops
<1>10. ASSUME NEW n, NEW up, NEW down, NEW a, NEW b, BuyPair(n, up, down, a, b) PROVE PassEnds'
  BY <1>10, EnteringEndsPass DEF BuyPair
<1>11. ASSUME NEW leg, NEW n, NEW up, NEW down, NEW a, NEW b,
              PairBreaks(leg, n, up, down, a, b) PROVE PassEnds'
  BY <1>11 DEF PairBreaks, PassEnds, Stops
<1>12. ASSUME NEW n, NEW x, NEW got, BuySingle(n, x, got) PROVE PassEnds'
  BY <1>12, EnteringEndsPass DEF BuySingle
<1>13. CASE UNCHANGED btcVars
  BY <1>13 DEF btcVars, PassEnds, Stops
<1>14. CASE RecordRaises
  <2>1. step \in {"roll", "check"} /\ lateEntries' = lateEntries /\ DOMAIN stats' = DOMAIN stats
    BY <1>14 DEF RecordRaises, historyVars
  <2> QED BY <2>1 DEF PassEnds
<1>15. ASSUME NEW n, NEW up, NEW down, NEW a, NEW b, PairRaises(n, up, down, a, b) PROVE PassEnds'
  BY <1>15 DEF PairRaises, PassEnds, Stops
<1>16. ASSUME NEW n, NEW x, NEW got, BuySingleRaises(n, x, got) PROVE PassEnds'
  BY <1>16 DEF BuySingleRaises, historyVars, PassEnds, Stops
<1> QED
  BY <1>1, <1>2, <1>3, <1>4, <1>5, <1>6, <1>7, <1>8, <1>9, <1>10, <1>11, <1>12, <1>13, <1>14, <1>15,
     <1>16 DEF BtcNext

\* After a limit is reached the bot makes one more entry at most, for any limits, books
\* and prices: a roll may record the loss in the middle of a pass (run).
THEOREM BotStops == BtcSpec => []StopsAtLimits
<1>1. PassEnds => StopsAtLimits
  BY DEF PassEnds, StopsAtLimits
<1> QED BY <1>1, PassEndsInit, PassEndsStep, PTL DEF BtcSpec

-------------------------------------------------------------------------------
(* The books of the five-minute bot.  Between two results there is one entry *)
(* at most, since windows only go forward and whoever may look for an entry  *)
(* has none in the window he is in (EntriesPast, Looking).                   *)

Bets == Legs \cup {"BOTH"}

StatsTyped ==
  /\ DOMAIN stats = {"trades", "wins", "losses", "inRow", "pnl"}
  /\ {stats.trades, stats.wins, stats.losses} \subseteq Int

Sizes(h) ==
  /\ DOMAIN h = BtcWindows \X Legs
  /\ \A t \in BtcWindows \X Legs : h[t].size \in Int

HeldTyped == Sizes(held)

BtcTypes ==
  /\ time \in 0..LastTick /\ unknown \in Int
  /\ win \in BtcWindows \cup {NoWin}
  /\ position \in Bets \cup {"none"}
  /\ entries \in Seq([window : Int, position : Bets])
  /\ StatsTyped /\ HeldTyped

\* The first window that no entry can be of any more.
FirstNotEntered ==
  IF win = NoWin THEN Now ELSE IF position = "none" THEN win ELSE win + 1

EntriesPast ==
  /\ win <= Now + 1
  /\ \A i \in DOMAIN entries : entries[i].window < FirstNotEntered

Looking ==
  /\ step \in {"pair", "single"} => position = "none" /\ win # NoWin /\ win <= Now
  /\ win = NoWin => position = "none"

BtcInv == BtcTypes /\ EntriesPast /\ Looking /\ BooksAgree

\* Windows only go forward.
LEMMA NowAdvances ==
  ASSUME NEW s \in Nat, NEW t \in Nat, s <= t
  PROVE  s \div Span \in Nat /\ s \div Span <= t \div Span
<1> DEFINE p == s \div Span
           q == t \div Span
<1>1. Span \in Nat /\ Span > 0
  BY BtcAssumption
<1>2. p \in Nat /\ q \in Nat /\ Span * p <= s /\ t < Span * q + Span
  BY <1>1
<1> HIDE DEF p, q
<1>3. ~(q + 1 <= p)
  <2> SUFFICES ASSUME q + 1 <= p PROVE FALSE
    OBVIOUS
  <2>1. Span * (q + 1) <= Span * p
    BY <1>1, <1>2
  <2>2. Span * (q + 1) = Span * q + Span
    BY <1>1, <1>2
  <2> QED BY <1>1, <1>2, <2>1, <2>2
<1> QED BY <1>2, <1>3 DEF p, q

LEMMA NowIsWindow ==
  ASSUME time \in 0..LastTick
  PROVE  Now \in Nat /\ Now \in BtcWindows /\ Now + 1 \in BtcWindows
<1>1. LastTick \in Nat /\ time \in Nat /\ time <= LastTick
  BY BtcAssumption
<1>2. time \div Span \in Nat /\ LastTick \div Span \in Nat /\ time \div Span <= LastTick \div Span
  BY <1>1, NowAdvances
<1> QED BY <1>2 DEF Now, BtcWindows

\* A window that has ended is a window of the past, one that has begun is not to come.
LEMMA WindowOver ==
  ASSUME NEW w \in Nat, NEW t \in Nat
  PROVE  /\ (w + 1) * Span - t <= 0 => w < t \div Span
         /\ t - w * Span >= 0 => w <= t \div Span
<1> DEFINE q == t \div Span
<1>1. Span \in Nat /\ Span > 0
  BY BtcAssumption
<1>2. q \in Nat /\ t < Span * q + Span
  BY <1>1
<1> HIDE DEF q
<1>3. ASSUME NEW v \in Nat, v * Span <= t PROVE v <= q
  <2> SUFFICES ASSUME q + 1 <= v PROVE FALSE
    BY <1>2
  <2>1. Span * (q + 1) <= Span * v
    BY <1>1, <1>2
  <2>2. Span * (q + 1) = Span * q + Span /\ Span * v = v * Span
    BY <1>1, <1>2
  <2> QED BY <1>1, <1>2, <1>3, <2>1, <2>2
<1>4. (w + 1) * Span - t <= 0 => (w + 1) * Span <= t
  BY <1>1
<1>5. t - w * Span >= 0 => w * Span <= t
  BY <1>1
<1>6. (w + 1) * Span - t <= 0 => w + 1 <= q
  BY <1>3, <1>4
<1> QED BY <1>2, <1>3, <1>5, <1>6 DEF q

\* How many of the entries are pairs.
PairsIn(s) == {i \in DOMAIN s : s[i].position = "BOTH"}

LEMMA PairsCounted ==
  ASSUME NEW s \in Seq([window : Int, position : Bets]), NEW e
  PROVE  /\ Cardinality(PairsIn(s)) \in Nat
         /\ Cardinality(PairsIn(Append(s, e)))
              = Cardinality(PairsIn(s)) + (IF e.position = "BOTH" THEN 1 ELSE 0)
<1> DEFINE z == Append(s, e)
           n == Len(s)
<1>1. n \in Nat /\ DOMAIN s = 1..n /\ DOMAIN z = 1..(n+1) /\ z[n+1] = e
      /\ \A i \in 1..n : z[i] = s[i]
  OBVIOUS
<1> HIDE DEF z
<1>2. PairsIn(s) \subseteq 1..n /\ IsFiniteSet(1..n)
  BY <1>1, FS_Interval DEF PairsIn
<1>3. IsFiniteSet(PairsIn(s)) /\ n + 1 \notin PairsIn(s)
  BY <1>1, <1>2, FS_Subset
<1>4. Cardinality(PairsIn(s)) \in Nat
  BY <1>3, FS_CardinalityType
<1>5. PairsIn(z) = IF e.position = "BOTH" THEN PairsIn(s) \cup {n + 1} ELSE PairsIn(s)
  BY <1>1 DEF PairsIn
<1>6. Cardinality(PairsIn(s) \cup {n + 1}) = Cardinality(PairsIn(s)) + 1
  BY <1>3, FS_AddElement
<1> QED
  BY <1>4, <1>5, <1>6 DEF z

LEMMA BtcInvInit == BtcInit => BtcInv
<1> SUFFICES ASSUME BtcInit PROVE BtcInv
  OBVIOUS
<1>1. time \in 0..LastTick /\ time = 0
  BY BtcAssumption DEF BtcInit
<1>2. Now \in Nat
  BY <1>1, NowIsWindow
<1>3. entries = <<>> /\ DOMAIN entries = {} /\ Len(entries) = 0
      /\ entries \in Seq([window : Int, position : Bets])
  BY DEF BtcInit
<1>4. Cardinality({i \in DOMAIN entries : entries[i].position = "BOTH"}) = 0
  BY <1>3, FS_EmptySet
<1>5. BtcTypes
  BY <1>1, <1>3 DEF BtcInit, BtcTypes, StatsTyped, HeldTyped, Sizes, NothingHeld
<1>6. EntriesPast /\ Looking
  BY <1>2, <1>3 DEF BtcInit, EntriesPast, Looking, NoWin
<1>7. ResultsCounted
  BY <1>3, <1>4 DEF BtcInit, ResultsCounted
<1>8. NothingForgotten
  <2>1. \A w \in BtcWindows, leg \in Legs : held[<<w, leg>>].size = 0
    BY DEF BtcInit, NothingHeld
  <2> QED BY <2>1 DEF NothingForgotten
<1> QED BY <1>5, <1>6, <1>7, <1>8 DEF BtcInv, BooksAgree

LEMMA EntryTypes ==
  ASSUME NEW s \in Seq([window : Int, position : Bets])
  PROVE  Len(s) \in Nat /\ DOMAIN s = 1..Len(s) /\ \A i \in DOMAIN s : s[i].window \in Int
<1>1. \A i \in 1..Len(s) : s[i] \in [window : Int, position : Bets]
  BY ElementOfSeq
<1> QED BY <1>1

\* A step that neither enters nor records leaves the books as they are.
LEMMA BooksStay ==
  ASSUME BtcInv, UNCHANGED <<win, position, held, stats, unknown, entries, broken>>,
         step # "raised" \/ step' = step, time' \in time..LastTick, Looking'
  PROVE  BtcInv'
<1>1. time \in 0..LastTick /\ time' \in 0..LastTick /\ time \in Nat /\ time' \in Nat /\ time <= time'
  BY BtcAssumption DEF BtcInv, BtcTypes
<1>2. Now \in Nat /\ Now <= Now'
  BY <1>1, NowAdvances DEF Now
<1>3. Now' \in Nat
  BY <1>1, NowAdvances DEF Now
<1>4. EntriesPast'
  <2>1. win' = win /\ entries' = entries /\ position' = position
    OBVIOUS
  <2>2. win \in Int /\ \A i \in DOMAIN entries : entries[i].window \in Int
    <3>1. LastTick \div Span \in Nat
      BY BtcAssumption, NowAdvances
    <3>2. win \in BtcWindows \cup {NoWin} /\ entries \in Seq([window : Int, position : Bets])
      BY DEF BtcInv, BtcTypes
    <3>3. win \in Int
      BY <3>1, <3>2 DEF BtcWindows, NoWin
    <3> QED BY <3>2, <3>3, EntryTypes
  <2>3. win' <= Now' + 1
    <3>1. win <= Now + 1
      BY DEF BtcInv, EntriesPast
    <3>2. \A w, m, n \in Int : w <= m + 1 /\ m <= n => w <= n + 1
      OBVIOUS
    <3>3. win \in Int /\ Now \in Int /\ Now' \in Int /\ Now <= Now'
      BY <1>2, <1>3, <2>2
    <3>4. win <= Now' + 1
      BY <3>1, <3>2, <3>3
    <3> QED BY <2>1, <3>4
  <2>4. FirstNotEntered \in Int /\ FirstNotEntered' \in Int /\ FirstNotEntered <= FirstNotEntered'
    BY <1>2, <1>3, <2>1, <2>2 DEF FirstNotEntered
  <2>5. \A i \in DOMAIN entries : entries[i].window < FirstNotEntered'
    BY <2>2, <2>4 DEF BtcInv, EntriesPast
  <2> QED BY <2>1, <2>3, <2>5 DEF EntriesPast
<1>5. BtcTypes'
  BY <1>1 DEF BtcInv, BtcTypes, StatsTyped, HeldTyped, Sizes
<1>6. BooksAgree'
  BY DEF BtcInv, BooksAgree, ResultsCounted, NothingForgotten
<1> QED BY <1>4, <1>5, <1>6 DEF BtcInv

\* A result settles the entry there is, and leaves nothing but what nobody remembers.
LEMMA RecordSettles ==
  ASSUME BtcInv, Record, step # "raised"
  PROVE  /\ StatsTyped' /\ HeldTyped' /\ unknown' \in Int
         /\ stats'.trades = stats.trades
         /\ Len(entries) = stats'.wins + stats'.losses + unknown'
         /\ \A w \in BtcWindows, leg \in Legs :
              held'[<<w, leg>>].size > 0 =>
                \/ w \in broken
                \/ \E i \in DOMAIN entries : entries[i] = [window |-> w, position |-> "BOTH"]
<1>1. StatsTyped /\ HeldTyped /\ unknown \in Int /\ ResultsCounted /\ NothingForgotten
      /\ position \in Bets \cup {"none"} /\ Len(entries) \in Nat
  BY DEF BtcInv, BtcTypes, BooksAgree
<1>2. \A profit, won :
        LET s == WithResult(stats, profit, won)
        IN  /\ DOMAIN s = {"trades", "wins", "losses", "inRow", "pnl"}
            /\ s.trades = stats.trades
            /\ {s.wins, s.losses} \subseteq Int
            /\ s.wins + s.losses = stats.wins + stats.losses + 1
  BY <1>1 DEF StatsTyped, WithResult
<1>3. CASE position = "none" /\ UNCHANGED <<held, stats, pair, unknown>>
  <2>1. StatsTyped' /\ HeldTyped' /\ unknown' \in Int /\ stats' = stats /\ unknown' = unknown
    BY <1>1, <1>3 DEF StatsTyped, HeldTyped, Sizes
  <2>2. Len(entries) = stats.wins + stats.losses + unknown
    BY <1>1, <1>3 DEF ResultsCounted, StatsTyped
  <2>3. held' = held
    BY <1>3
  <2> QED BY <1>1, <1>3, <2>1, <2>2, <2>3 DEF NothingForgotten, Legs
<1>4. CASE position = "BOTH" /\ RecordPair
  <2>1. held' = held
    BY <1>4 DEF RecordPair
  <2>2. \/ unknown' = unknown + 1 /\ stats' = stats
        \/ unknown' = unknown /\ stats' = WithResult(stats, PairProfit, PairProfit >= 0)
    BY <1>4 DEF RecordPair
  <2>3. StatsTyped' /\ unknown' \in Int /\ stats'.trades = stats.trades
        /\ Len(entries) = stats'.wins + stats'.losses + unknown'
    <3>1. Len(entries) = stats.wins + stats.losses + unknown + 1
      BY <1>1, <1>4 DEF ResultsCounted
    <3>2. CASE unknown' = unknown + 1 /\ stats' = stats
      BY <1>1, <3>1, <3>2 DEF StatsTyped
    <3>3. CASE unknown' = unknown /\ stats' = WithResult(stats, PairProfit, PairProfit >= 0)
      BY <1>1, <1>2, <3>1, <3>3 DEF StatsTyped
    <3> QED BY <2>2, <3>2, <3>3
  <2>4. HeldTyped'
    BY <1>1, <2>1 DEF HeldTyped, Sizes
  <2> QED BY <1>1, <1>4, <2>1, <2>3, <2>4 DEF NothingForgotten, Legs
<1>5. CASE position \in Legs /\ RecordSingle
  <2>1. PICK profit : stats' = WithResult(stats, profit, Won) /\ unknown' = unknown
    BY <1>5 DEF RecordSingle
  <2>2. Len(entries) = stats.wins + stats.losses + unknown + 1
    BY <1>1, <1>5 DEF ResultsCounted, Legs
  <2>3. held' = [held EXCEPT ![<<win, position>>] = NothingHeld]
    BY <1>5 DEF RecordSingle, SettledInOms
  <2>4. HeldTyped' /\ \A w \in BtcWindows, leg \in Legs :
          held'[<<w, leg>>] = IF w = win /\ leg = position THEN NothingHeld ELSE held[<<w, leg>>]
    <3>1. DOMAIN held' = BtcWindows \X Legs
      BY <1>1, <2>3 DEF HeldTyped, Sizes
    <3>2. \A t \in BtcWindows \X Legs :
            held'[t] = IF t = <<win, position>> THEN NothingHeld ELSE held[t]
      BY <1>1, <2>3 DEF HeldTyped, Sizes
    <3>3. \A t \in BtcWindows \X Legs : held'[t].size \in Int
      BY <1>1, <3>2 DEF HeldTyped, Sizes, NothingHeld
    <3>4. \A w \in BtcWindows, leg \in Legs :
            held'[<<w, leg>>] = IF w = win /\ leg = position THEN NothingHeld ELSE held[<<w, leg>>]
      BY <3>2
    <3> QED BY <3>1, <3>3, <3>4 DEF HeldTyped, Sizes
  <2>5. NothingHeld.size = 0
    BY DEF NothingHeld
  <2>6. StatsTyped' /\ stats'.trades = stats.trades
    <3>1. stats.trades \in Int
      BY <1>1 DEF StatsTyped
    <3> QED BY <1>2, <2>1, <3>1 DEF StatsTyped
  <2>7. Len(entries) = stats'.wins + stats'.losses + unknown'
    BY <1>1, <1>2, <2>1, <2>2 DEF StatsTyped
  <2>8. ASSUME NEW w \in BtcWindows, NEW leg \in Legs, held'[<<w, leg>>].size > 0
        PROVE  \/ w \in broken
               \/ \E i \in DOMAIN entries : entries[i] = [window |-> w, position |-> "BOTH"]
    <3>1. ~(w = win /\ leg = position) /\ held'[<<w, leg>>] = held[<<w, leg>>]
      BY <2>4, <2>5, <2>8
    <3> QED BY <1>1, <2>8, <3>1 DEF NothingForgotten
  <2>9. unknown' \in Int
    BY <1>1, <2>1
  <2> QED BY <2>4, <2>6, <2>7, <2>8, <2>9
<1> QED BY <1>3, <1>4, <1>5 DEF Record

\* What is true of the books after a result, whatever window comes next.
LEMMA AfterResult ==
  ASSUME BtcInv, Record, step # "raised", position' = "none", UNCHANGED <<time, entries, broken>>,
         win' \in BtcWindows \cup {NoWin}, win' <= Now + 1, Looking',
         \A i \in DOMAIN entries : entries[i].window < (IF win' = NoWin THEN Now ELSE win')
  PROVE  BtcInv'
<1>1. Now' = Now
  BY DEF Now
<1>2. EntriesPast'
  BY <1>1 DEF EntriesPast, FirstNotEntered
<1>3. BtcTypes'
  BY RecordSettles DEF BtcInv, BtcTypes
<1>4. ResultsCounted'
  <2>1. ResultsCounted /\ position' = "none" /\ entries' = entries
    BY DEF BtcInv, BooksAgree
  <2>2. /\ stats'.trades = stats.trades /\ StatsTyped' /\ unknown' \in Int
        /\ Len(entries) = stats'.wins + stats'.losses + unknown'
    BY RecordSettles
  <2>3. Len(entries') = stats'.wins + stats'.losses + unknown' + (IF position' = "none" THEN 0 ELSE 1)
    BY <2>1, <2>2 DEF StatsTyped
  <2>4. stats'.trades = Len(entries') + Cardinality({i \in DOMAIN entries' : entries'[i].position = "BOTH"})
    BY <2>1, <2>2 DEF ResultsCounted
  <2> QED BY <2>1, <2>3, <2>4 DEF ResultsCounted
<1>5. NothingForgotten'
  BY RecordSettles DEF NothingForgotten
<1> QED BY <1>2, <1>3, <1>4, <1>5 DEF BtcInv, BooksAgree

\* Buying or selling touches one token.
SameBut(z, h, w, leg) == \A t \in BtcWindows \X Legs : t # <<w, leg>> => z[t] = h[t]

LEMMA BoughtOne ==
  ASSUME NEW h, Sizes(h), NEW w \in BtcWindows, NEW leg \in Legs, NEW n \in Int, NEW price
  PROVE  Sizes(Bought(h, <<w, leg>>, n, price)) /\ SameBut(Bought(h, <<w, leg>>, n, price), h, w, leg)
<1>1. <<w, leg>> \in BtcWindows \X Legs
  OBVIOUS
<1> DEFINE t0 == <<w, leg>>
           z == [h EXCEPT ![t0] = [size |-> @.size + n, cost |-> @.cost + n * price]]
<1>2. DOMAIN z = BtcWindows \X Legs /\ \A t \in BtcWindows \X Legs : t # t0 => z[t] = h[t]
  BY DEF Sizes
<1>3. z[t0].size = h[t0].size + n
  BY <1>1 DEF Sizes
<1>4. \A t \in BtcWindows \X Legs : z[t].size \in Int
  BY <1>1, <1>2, <1>3 DEF Sizes
<1> QED BY <1>2, <1>4 DEF Sizes, SameBut, Bought

LEMMA SoldOne ==
  ASSUME NEW h, Sizes(h), NEW w \in BtcWindows, NEW leg \in Legs, NEW n \in Int
  PROVE  Sizes(Sold(h, <<w, leg>>, n)) /\ SameBut(Sold(h, <<w, leg>>, n), h, w, leg)
<1>1. <<w, leg>> \in BtcWindows \X Legs
  OBVIOUS
<1> DEFINE t0 == <<w, leg>>
           z == [h EXCEPT ![t0] = [size |-> @.size - n, cost |-> @.cost - (@.cost * n) \div @.size]]
<1>2. DOMAIN z = BtcWindows \X Legs /\ \A t \in BtcWindows \X Legs : t # t0 => z[t] = h[t]
  BY DEF Sizes
<1>3. z[t0].size = h[t0].size - n
  BY <1>1 DEF Sizes
<1>4. \A t \in BtcWindows \X Legs : z[t].size \in Int
  BY <1>1, <1>2, <1>3 DEF Sizes
<1> QED BY <1>2, <1>4 DEF Sizes, SameBut, Sold

\* An entry is the first of its window, and the bot remembers what it buys with it.
LEMMA EntryCounted ==
  ASSUME BtcInv, step \in {"pair", "single"}, NEW p \in Bets, EntersAs(p),
         stats' = [stats EXCEPT !.trades = @ + (IF p = "BOTH" THEN 2 ELSE 1)],
         UNCHANGED <<time, win, unknown, broken>>, HeldTyped',
         \A w \in BtcWindows, leg \in Legs :
           held'[<<w, leg>>] # held[<<w, leg>>] => w = win /\ p \in {leg, "BOTH"}
  PROVE  BtcInv'
<1> DEFINE e == [window |-> win, position |-> p]
           n == Len(entries)
<1>1. /\ position = "none" /\ win # NoWin /\ win <= Now
      /\ time \in 0..LastTick /\ win \in BtcWindows /\ unknown \in Int
      /\ entries \in Seq([window : Int, position : Bets]) /\ StatsTyped
      /\ ResultsCounted /\ NothingForgotten /\ EntriesPast /\ HeldTyped
  BY DEF BtcInv, BtcTypes, Looking, BooksAgree, StatsTyped
<1>2. position' = p /\ entries' = Append(entries, e) /\ step' = "sleep"
  BY DEF EntersAs, PassOver
<1>3. p # "none"
  BY DEF Bets, Legs
<1>4. LastTick \div Span \in Nat /\ win \in Int /\ Now \in Nat
  <2>1. LastTick \div Span \in Nat
    BY BtcAssumption, NowAdvances
  <2> QED BY <1>1, <2>1, NowIsWindow DEF BtcWindows
<1>5. /\ n \in Nat /\ DOMAIN entries = 1..n /\ DOMAIN entries' = 1..(n+1) /\ entries'[n+1] = e
      /\ \A i \in 1..n : entries'[i] = entries[i] /\ entries[i].window \in Int
      /\ entries' \in Seq([window : Int, position : Bets]) /\ Len(entries') = n + 1
  <2>1. e \in [window : Int, position : Bets]
    BY <1>4
  <2>2. \A i \in 1..n : entries[i] \in [window : Int, position : Bets]
    BY <1>1, ElementOfSeq
  <2> HIDE DEF e
  <2> QED BY <1>1, <1>2, <2>1, <2>2
<1>6. \A i \in 1..n : entries[i].window < win
  BY <1>1, <1>5 DEF EntriesPast, FirstNotEntered
<1>7. EntriesPast'
  <2>1. Now' = Now /\ win' = win /\ FirstNotEntered' = win + 1
    BY <1>1, <1>2, <1>3 DEF Now, FirstNotEntered
  <2>2. \A i \in 1..(n+1) : entries'[i].window < win + 1
    BY <1>4, <1>5, <1>6
  <2> QED BY <1>1, <1>4, <1>5, <2>1, <2>2 DEF EntriesPast
<1>8. stats'.wins = stats.wins /\ stats'.losses = stats.losses /\ StatsTyped'
      /\ stats'.trades = stats.trades + (IF p = "BOTH" THEN 2 ELSE 1)
  BY <1>1 DEF StatsTyped
<1>9. BtcTypes'
  BY <1>1, <1>2, <1>5, <1>8 DEF BtcTypes
<1>10. Looking'
  BY <1>1, <1>2 DEF Looking
<1>11. ResultsCounted'
  <2>1. \A i, j \in 1..(n+1) : entries'[i].window = entries'[j].window => i = j
    <3>1. \A i, j \in 1..n : entries[i].window = entries[j].window => i = j
      BY <1>1, <1>5 DEF ResultsCounted
    <3>2. \A i \in 1..n : entries'[i].window < win
      BY <1>5, <1>6
    <3>3. entries'[n+1].window = win
      BY <1>5
    <3>4. n \in Nat /\ win \in Int /\ \A i \in 1..n : entries'[i] = entries[i] /\ entries'[i].window \in Int
      BY <1>4, <1>5
    <3> HIDE DEF n, e
    <3>5. \A i, j \in 1..n : entries'[i].window = entries'[j].window => i = j
      BY <3>1, <3>4
    <3>6. \A i \in 1..(n+1) : i \in 1..n \/ i = n + 1
      BY <3>4
    <3> QED BY <3>2, <3>3, <3>4, <3>5, <3>6
  <2>2. n + 1 = stats'.wins + stats'.losses + unknown' + 1
    BY <1>1, <1>5, <1>8 DEF ResultsCounted, StatsTyped
  <2>3. /\ Cardinality(PairsIn(entries)) \in Nat
        /\ Cardinality(PairsIn(entries')) = Cardinality(PairsIn(entries)) + (IF p = "BOTH" THEN 1 ELSE 0)
    <3>1. e.position = p /\ entries' = Append(entries, e)
      BY <1>2
    <3> HIDE DEF e
    <3> QED BY <1>1, <3>1, PairsCounted
  <2>4. stats.trades = n + Cardinality(PairsIn(entries))
    BY <1>1 DEF ResultsCounted, PairsIn
  <2>5. stats'.trades = n + 1 + Cardinality(PairsIn(entries'))
    <3>1. stats.trades \in Int /\ stats'.trades = stats.trades + (IF p = "BOTH" THEN 2 ELSE 1)
      BY <1>1, <1>8 DEF StatsTyped
    <3> HIDE DEF n
    <3> QED BY <1>5, <2>3, <2>4, <3>1
  <2>6. entries' # <<>> /\ entries'[Len(entries')] = [window |-> win', position |-> position']
    BY <1>1, <1>2, <1>5
  <2> QED BY <1>2, <1>3, <1>5, <2>1, <2>2, <2>5, <2>6 DEF ResultsCounted, PairsIn
<1>12. NothingForgotten'
  <2> SUFFICES ASSUME NEW w \in BtcWindows, NEW leg \in Legs, held'[<<w, leg>>].size > 0
               PROVE  \/ w = win' /\ (position' = leg \/ step' = "raised")
                      \/ w \in broken'
                      \/ \E i \in DOMAIN entries' : entries'[i] = [window |-> w, position |-> "BOTH"]
    BY DEF NothingForgotten
  <2>1. CASE held'[<<w, leg>>] # held[<<w, leg>>] /\ p = leg
    BY <1>2, <2>1
  <2>2. CASE held'[<<w, leg>>] # held[<<w, leg>>] /\ p = "BOTH"
    <3>1. n + 1 \in DOMAIN entries' /\ entries'[n+1] = e /\ w = win
      BY <1>5, <2>2
    <3>2. e = [window |-> w, position |-> "BOTH"]
      BY <2>2, <3>1
    <3> QED BY <3>1, <3>2
  <2>3. CASE held'[<<w, leg>>] = held[<<w, leg>>]
    <3>1. position # leg
      BY <1>1 DEF Legs
    <3>2. \/ w \in broken
          \/ \E i \in DOMAIN entries : entries[i] = [window |-> w, position |-> "BOTH"]
      BY <1>1, <2>3, <3>1 DEF NothingForgotten
    <3> QED BY <1>5, <3>2
  <2> QED BY <2>1, <2>2, <2>3
<1> QED BY <1>7, <1>9, <1>10, <1>11, <1>12 DEF BtcInv, BooksAgree

LEMMA BtcInvStep == BtcInv /\ [BtcNext]_btcVars => BtcInv'
<1> SUFFICES ASSUME BtcInv, [BtcNext]_btcVars PROVE BtcInv'
  OBVIOUS
<1>a. /\ time \in 0..LastTick /\ time \in Nat /\ LastTick \in Nat /\ Span \in Nat /\ Span > 0
      /\ MinAge \in Nat /\ Now \in Nat
  BY BtcAssumption, NowIsWindow DEF BtcInv, BtcTypes
<1>b. time \in time..LastTick
  BY <1>a
<1>c. Looking /\ HeldTyped /\ StatsTyped /\ EntriesPast /\ BtcTypes /\ NothingForgotten /\ ResultsCounted
  BY DEF BtcInv, BtcTypes, BooksAgree
<1>1. CASE KeepWindow
  <2>1. Looking'
    BY <1>1, <1>c DEF KeepWindow, Looking
  <2> QED BY <1>1, <1>b, <2>1, BooksStay DEF KeepWindow, historyVars
<1>2. CASE Expire
  <2>1. win \in Nat
    <3>1. LastTick \div Span \in Nat
      BY <1>a
    <3> QED BY <1>2, <1>c, <3>1 DEF Expire, BtcTypes, BtcWindows
  <2>2. (win + 1) * Span - time <= 0
    BY <1>2 DEF Expire, Remaining
  <2>3. win < Now
    BY <1>a, <2>1, <2>2, WindowOver DEF Now
  <2>4. \A i \in DOMAIN entries : entries[i].window < Now
    <3>1. entries \in Seq([window : Int, position : Bets]) /\ win # NoWin
      BY <1>2, <1>c DEF Expire, BtcTypes
    <3>2. \A i \in DOMAIN entries : entries[i].window \in Int /\ entries[i].window < win + 1
      <4>1. \A i \in DOMAIN entries : entries[i].window \in Int
        BY <3>1, EntryTypes
      <4>2. FirstNotEntered \in {win, win + 1}
        BY <3>1 DEF FirstNotEntered
      <4>3. \A i \in DOMAIN entries : entries[i].window < FirstNotEntered
        BY <1>c DEF EntriesPast
      <4> QED BY <2>1, <4>1, <4>2, <4>3
    <3> QED BY <1>a, <2>1, <2>3, <3>2
  <2>5. /\ Record /\ position' = "none" /\ win' = NoWin /\ step' = "sleep"
        /\ UNCHANGED <<time, entries, broken>>
    BY <1>2 DEF Expire, PassOver, historyVars
  <2>a. step # "raised"
    BY <1>2 DEF Expire
  <2>6. Looking' /\ win' <= Now + 1
    BY <1>a, <2>5 DEF Looking, NoWin
  <2> QED BY <2>a, <2>4, <2>5, <2>6, AfterResult
<1>3. CASE Wait
  <2>1. Looking'
    BY <1>3, <1>c DEF Wait, PassOver, Looking
  <2> QED BY <1>3, <1>b, <2>1, BooksStay DEF Wait, historyVars
<1>4. CASE NoPair
  <2>1. Looking'
    BY <1>4, <1>c DEF NoPair, Looking, Now
  <2> QED BY <1>4, <1>b, <2>1, BooksStay DEF NoPair, historyVars
<1>5. CASE NoSingle
  <2>1. Looking'
    BY <1>5, <1>c DEF NoSingle, PassOver, Looking
  <2> QED BY <1>5, <1>b, <2>1, BooksStay DEF NoSingle, historyVars
<1>6. CASE TimePasses
  <2>1. time' = time + 1 /\ time' \in time..LastTick
    BY <1>6, <1>a DEF TimePasses
  <2>2. Now \in Nat /\ Now' \in Nat /\ Now <= Now'
    BY <1>a, <2>1, NowAdvances DEF Now
  <2>3. win' = win /\ position' = position /\ (step' \in {"pair", "single"} => step \in {"pair", "single"})
    BY <1>6 DEF TimePasses
  <2>4. step \in {"pair", "single"} => win \in Int
    <3>1. LastTick \div Span \in Nat
      BY <1>a
    <3> QED BY <1>c, <3>1 DEF BtcTypes, BtcWindows, NoWin
  <2>5. Looking'
    BY <1>c, <2>2, <2>3, <2>4 DEF Looking
  <2> QED BY <1>6, <2>1, <2>5, BooksStay DEF TimePasses, historyVars
<1>7. ASSUME NEW p \in SpotPrices, Poll(p) PROVE BtcInv'
  <2>1. Looking'
    BY <1>7, <1>c DEF Poll, Looking
  <2> QED BY <1>7, <1>b, <2>1, BooksStay DEF Poll, historyVars
<1>8. ASSUME NEW this \in BOOLEAN, NEW next \in BOOLEAN, RollWindow(this, next) PROVE BtcInv'
  <2>1. win' \in {Now, Now + 1, NoWin}
    BY <1>8 DEF RollWindow
  <2>2. /\ Record /\ position' = "none" /\ step' = "check" /\ UNCHANGED <<time, entries, broken>>
        /\ win # Now /\ win # Now + 1 /\ step # "raised"
    BY <1>8 DEF RollWindow, historyVars, WindowValid
  <2>3. Now \in BtcWindows /\ Now + 1 \in BtcWindows
    BY <1>a, NowIsWindow
  <2>4. Looking' /\ win' <= Now + 1 /\ win' \in BtcWindows \cup {NoWin}
    BY <1>a, <2>1, <2>2, <2>3 DEF Looking, NoWin
  <2>5. win \in Int
    <3>1. LastTick \div Span \in Nat
      BY <1>a
    <3> QED BY <1>c, <3>1 DEF BtcTypes, BtcWindows, NoWin
  <2>6. \A i \in DOMAIN entries : entries[i].window \in Int /\ entries[i].window < Now
    <3>1. FirstNotEntered \in Int /\ FirstNotEntered <= Now
      BY <1>a, <1>c, <2>2, <2>5 DEF EntriesPast, FirstNotEntered
    <3>2. \A i \in DOMAIN entries : entries[i].window \in Int /\ entries[i].window < FirstNotEntered
      BY <1>c, EntryTypes DEF EntriesPast, BtcTypes
    <3> QED BY <1>a, <3>1, <3>2
  <2>7. \A i \in DOMAIN entries : entries[i].window < (IF win' = NoWin THEN Now ELSE win')
    BY <1>a, <2>1, <2>6
  <2> QED BY <2>2, <2>4, <2>7, AfterResult
<1>9. ASSUME NEW q, NEW v, Look(q, v) PROVE BtcInv'
  <2>1. win # NoWin /\ position = "none" /\ time - win * Span >= MinAge
    BY <1>9 DEF Look, MayLook, Elapsed
  <2>2. win \in Nat
    <3>1. LastTick \div Span \in Nat
      BY <1>a
    <3> QED BY <1>c, <2>1, <3>1 DEF BtcTypes, BtcWindows
  <2>3. time - win * Span >= 0
    BY <1>a, <2>1, <2>2
  <2>4. win <= Now
    BY <1>a, <2>2, <2>3, WindowOver DEF Now
  <2>5. Looking'
    BY <1>9, <2>1, <2>4 DEF Look, Looking, Now
  <2> QED BY <1>9, <1>b, <2>5, BooksStay DEF Look, historyVars
<1>10. ASSUME NEW n, NEW up, NEW down, NEW a \in Int, NEW b \in Int, BuyPair(n, up, down, a, b)
       PROVE BtcInv'
  <2>1. step = "pair" /\ win \in BtcWindows
    BY <1>10, <1>c DEF BuyPair, Looking, BtcTypes
  <2> DEFINE g == Bought(held, <<win, "UP">>, a, up)
             h == Bought(g, <<win, "DOWN">>, b, down)
  <2>2. /\ held' = h /\ EntersAs("BOTH") /\ stats' = [stats EXCEPT !.trades = @ + 2]
        /\ UNCHANGED <<time, win, unknown, broken>>
    BY <1>10 DEF BuyPair
  <2>a. Sizes(held) /\ "UP" \in Legs /\ "DOWN" \in Legs
    BY <1>c DEF HeldTyped, Legs
  <2>3. Sizes(g) /\ SameBut(g, held, win, "UP")
    BY <2>a, <2>1, BoughtOne
  <2> HIDE DEF g
  <2>4. Sizes(h) /\ SameBut(h, g, win, "DOWN")
    BY <2>a, <2>1, <2>3, BoughtOne
  <2> HIDE DEF h
  <2>5. HeldTyped'
    BY <2>2, <2>4 DEF HeldTyped, Sizes
  <2>6. \A w \in BtcWindows, leg \in Legs :
          held'[<<w, leg>>] # held[<<w, leg>>] => w = win /\ "BOTH" \in {leg, "BOTH"}
    BY <2>2, <2>3, <2>4 DEF SameBut
  <2>7. "BOTH" \in Bets
    BY DEF Bets
  <2>8. stats' = [stats EXCEPT !.trades = @ + (IF "BOTH" = "BOTH" THEN 2 ELSE 1)]
    BY <2>2
  <2> QED BY <2>1, <2>2, <2>5, <2>6, <2>7, <2>8, EntryCounted
<1>11. ASSUME NEW leg \in Legs, NEW n, NEW up, NEW down, NEW a \in Int, NEW b \in Int,
              PairBreaks(leg, n, up, down, a, b)
       PROVE BtcInv'
  <2>1. step = "pair" /\ win \in BtcWindows /\ position = "none" /\ win # NoWin /\ win <= Now
    BY <1>11, <1>c DEF PairBreaks, Looking, BtcTypes
  <2> DEFINE g == Bought(held, <<win, leg>>, a, IF leg = "UP" THEN up ELSE down)
  <2>2. /\ held' = g \/ held' = Sold(g, <<win, leg>>, b)
        /\ broken' = broken \cup {win} /\ step' = "single"
        /\ UNCHANGED <<time, win, position, stats, entries, unknown>>
    BY <1>11 DEF PairBreaks
  <2>3. Sizes(g) /\ SameBut(g, held, win, leg)
    BY <1>c, <2>1, BoughtOne DEF HeldTyped
  <2> HIDE DEF g
  <2>4. Sizes(held') /\ SameBut(held', g, win, leg)
    <3>1. Sizes(Sold(g, <<win, leg>>, b)) /\ SameBut(Sold(g, <<win, leg>>, b), g, win, leg)
      BY <2>1, <2>3, SoldOne
    <3>2. SameBut(g, g, win, leg)
      BY DEF SameBut
    <3> QED BY <2>2, <2>3, <3>1, <3>2
  <2>5. Looking' /\ EntriesPast'
    BY <1>c, <2>1, <2>2 DEF Looking, EntriesPast, FirstNotEntered, Now
  <2>6. BtcTypes'
    BY <1>c, <2>2, <2>4 DEF BtcTypes, StatsTyped, HeldTyped, Sizes
  <2>7. ResultsCounted'
    BY <1>c, <2>2 DEF ResultsCounted
  <2>8. ASSUME NEW w \in BtcWindows, NEW l \in Legs, held'[<<w, l>>].size > 0
        PROVE  \/ w = win' /\ (position' = l \/ step' = "raised")
               \/ w \in broken'
               \/ \E i \in DOMAIN entries' : entries'[i] = [window |-> w, position |-> "BOTH"]
    <3>1. CASE w = win
      BY <2>2, <3>1
    <3>2. CASE w # win
      <4>1. held'[<<w, l>>] = held[<<w, l>>]
        BY <2>3, <2>4, <3>2 DEF SameBut
      <4> QED BY <1>c, <2>2, <2>8, <3>2, <4>1 DEF NothingForgotten
    <3> QED BY <3>1, <3>2
  <2>9. NothingForgotten'
    BY <2>8 DEF NothingForgotten
  <2> QED BY <2>5, <2>6, <2>7, <2>9 DEF BtcInv, BooksAgree
<1>12. ASSUME NEW n, NEW x, NEW got \in Int, BuySingle(n, x, got) PROVE BtcInv'
  <2>1. step = "single" /\ win \in BtcWindows /\ Side \in Legs /\ Side # "BOTH" /\ Side \in Bets
    BY <1>12, <1>c DEF BuySingle, Looking, BtcTypes, Side, Legs, Bets
  <2> DEFINE h == Bought(held, <<win, Side>>, got, Ask + x)
  <2>2. /\ held' = h /\ EntersAs(Side) /\ stats' = [stats EXCEPT !.trades = @ + 1]
        /\ UNCHANGED <<time, win, unknown, broken>>
    BY <1>12 DEF BuySingle
  <2>3. Sizes(h) /\ SameBut(h, held, win, Side)
    <3> DEFINE s == Side
               p == Ask + x
    <3>1. s \in Legs /\ Sizes(held)
      BY <1>c, <2>1 DEF HeldTyped
    <3> HIDE DEF s, p
    <3>2. Sizes(Bought(held, <<win, s>>, got, p)) /\ SameBut(Bought(held, <<win, s>>, got, p), held, win, s)
      BY <2>1, <3>1, BoughtOne
    <3> QED BY <3>2 DEF s, p
  <2> HIDE DEF h
  <2>4. HeldTyped'
    BY <2>2, <2>3 DEF HeldTyped, Sizes
  <2>5. \A w \in BtcWindows, leg \in Legs :
          held'[<<w, leg>>] # held[<<w, leg>>] => w = win /\ Side \in {leg, "BOTH"}
    BY <2>2, <2>3 DEF SameBut
  <2>6. stats' = [stats EXCEPT !.trades = @ + (IF Side = "BOTH" THEN 2 ELSE 1)]
    BY <2>1, <2>2
  <2> QED BY <2>1, <2>2, <2>4, <2>5, <2>6, EntryCounted
<1>13. CASE UNCHANGED btcVars
  <2>1. Looking'
    BY <1>13, <1>c DEF btcVars, Looking, Now
  <2> QED BY <1>13, <1>b, <2>1, BooksStay DEF btcVars
<1>16. CASE RecordRaises
  <2> DEFINE t0 == <<win, position>>
  <2>1. /\ position \in Legs /\ step' = "raised" /\ step # "raised" /\ held' = [held EXCEPT ![t0] = NothingHeld]
        /\ UNCHANGED <<time, win, position, unknown, entries, broken>>
    BY <1>16 DEF RecordRaises, SettledInOms, historyVars
  <2>2. PICK k : stats' = [stats EXCEPT !.pnl = k]
    BY <1>16 DEF RecordRaises
  <2>3. StatsTyped' /\ stats'.wins = stats.wins /\ stats'.losses = stats.losses /\ stats'.trades = stats.trades
    BY <1>c, <2>2 DEF StatsTyped
  <2>4. HeldTyped' /\ \A t \in BtcWindows \X Legs : held'[t] = held[t] \/ held'[t].size = 0
    BY <1>c, <2>1 DEF HeldTyped, Sizes, NothingHeld
  <2>5. BtcTypes'
    BY <1>c, <2>1, <2>3, <2>4 DEF BtcTypes
  <2>6. Looking' /\ EntriesPast'
    BY <1>c, <2>1 DEF Looking, EntriesPast, FirstNotEntered, Now
  <2>7. ResultsCounted'
    BY <1>c, <2>1, <2>3 DEF ResultsCounted
  <2>8. NothingForgotten'
    <3> SUFFICES ASSUME NEW w \in BtcWindows, NEW l \in Legs, held'[<<w, l>>].size > 0
                 PROVE  \/ w = win' /\ (position' = l \/ step' = "raised")
                        \/ w \in broken'
                        \/ \E i \in DOMAIN entries' : entries'[i] = [window |-> w, position |-> "BOTH"]
      BY DEF NothingForgotten
    <3>1. held[<<w, l>>].size > 0
      BY <2>4
    <3> QED BY <1>c, <2>1, <3>1 DEF NothingForgotten
  <2> QED BY <2>5, <2>6, <2>7, <2>8 DEF BtcInv, BooksAgree
<1>17. ASSUME NEW n, NEW up, NEW down, NEW a \in Int, NEW b \in Int, PairRaises(n, up, down, a, b)
       PROVE BtcInv'
  <2>1. step = "pair" /\ win \in BtcWindows /\ position = "none" /\ win # NoWin /\ win <= Now
    BY <1>17, <1>c DEF PairRaises, Looking, BtcTypes
  <2> DEFINE g == Bought(held, <<win, "UP">>, a, up)
             h == Bought(g, <<win, "DOWN">>, b, down)
  <2>2. /\ held' = h /\ broken' = broken \cup {win} /\ step' = "single"
        /\ UNCHANGED <<time, win, position, stats, entries, unknown>>
    BY <1>17 DEF PairRaises
  <2>a. Sizes(held) /\ "UP" \in Legs /\ "DOWN" \in Legs
    BY <1>c DEF HeldTyped, Legs
  <2>3. Sizes(g) /\ SameBut(g, held, win, "UP")
    BY <2>a, <2>1, BoughtOne
  <2> HIDE DEF g
  <2>4. Sizes(h) /\ SameBut(h, g, win, "DOWN")
    BY <2>a, <2>1, <2>3, BoughtOne
  <2> HIDE DEF h
  <2>5. Looking' /\ EntriesPast'
    BY <1>c, <2>1, <2>2 DEF Looking, EntriesPast, FirstNotEntered, Now
  <2>6. BtcTypes'
    BY <1>c, <2>2, <2>4 DEF BtcTypes, StatsTyped, HeldTyped, Sizes
  <2>7. ResultsCounted'
    BY <1>c, <2>2 DEF ResultsCounted
  <2>8. ASSUME NEW w \in BtcWindows, NEW l \in Legs, held'[<<w, l>>].size > 0
        PROVE  \/ w = win' /\ (position' = l \/ step' = "raised")
               \/ w \in broken'
               \/ \E i \in DOMAIN entries' : entries'[i] = [window |-> w, position |-> "BOTH"]
    <3>1. CASE w = win
      BY <2>2, <3>1
    <3>2. CASE w # win
      <4>1. held'[<<w, l>>] = held[<<w, l>>]
        BY <2>2, <2>3, <2>4, <3>2 DEF SameBut
      <4> QED BY <1>c, <2>2, <2>8, <3>2, <4>1 DEF NothingForgotten
    <3> QED BY <3>1, <3>2
  <2>9. NothingForgotten'
    BY <2>8 DEF NothingForgotten
  <2> QED BY <2>5, <2>6, <2>7, <2>9 DEF BtcInv, BooksAgree
<1>18. ASSUME NEW n, NEW x, NEW got \in Int, BuySingleRaises(n, x, got) PROVE BtcInv'
  <2>1. step = "single" /\ win \in BtcWindows /\ Side \in Legs
    BY <1>18, <1>c DEF BuySingleRaises, Looking, BtcTypes, Side, Legs
  <2> DEFINE h == Bought(held, <<win, Side>>, got, Ask + x)
  <2>2. /\ held' = h /\ step' = "raised"
        /\ UNCHANGED <<time, win, position, stats, unknown, entries, broken>>
    BY <1>18 DEF BuySingleRaises, historyVars
  <2>3. Sizes(h) /\ SameBut(h, held, win, Side)
    <3> DEFINE s == Side
               p == Ask + x
    <3>1. s \in Legs /\ Sizes(held)
      BY <1>c, <2>1 DEF HeldTyped
    <3> HIDE DEF s, p
    <3>2. Sizes(Bought(held, <<win, s>>, got, p)) /\ SameBut(Bought(held, <<win, s>>, got, p), held, win, s)
      BY <2>1, <3>1, BoughtOne
    <3> QED BY <3>2 DEF s, p
  <2> HIDE DEF h
  <2>5. Looking' /\ EntriesPast'
    BY <1>c, <2>1, <2>2 DEF Looking, EntriesPast, FirstNotEntered, Now
  <2>6. BtcTypes'
    BY <1>c, <2>2, <2>3 DEF BtcTypes, StatsTyped, HeldTyped, Sizes
  <2>7. ResultsCounted'
    BY <1>c, <2>2 DEF ResultsCounted
  <2>8. NothingForgotten'
    <3> SUFFICES ASSUME NEW w \in BtcWindows, NEW l \in Legs, held'[<<w, l>>].size > 0
                 PROVE  \/ w = win' /\ (position' = l \/ step' = "raised")
                        \/ w \in broken'
                        \/ \E i \in DOMAIN entries' : entries'[i] = [window |-> w, position |-> "BOTH"]
      BY DEF NothingForgotten
    <3>1. CASE w = win
      BY <2>2, <3>1
    <3>2. CASE w # win
      <4>1. held'[<<w, l>>] = held[<<w, l>>]
        BY <2>2, <2>3, <3>2 DEF SameBut
      <4> QED BY <1>c, <2>2, <3>2, <4>1 DEF NothingForgotten
    <3> QED BY <3>1, <3>2
  <2> QED BY <2>5, <2>6, <2>7, <2>8 DEF BtcInv, BooksAgree
<1>14. (\A n \in PairSizes : n \in Int) /\ (\A n \in BetSizes : n \in Int)
  <2>1. PairSizes \subseteq Nat \ {0} /\ BetSizes \subseteq Nat \ {0}
    BY BtcAssumption
  <2> QED BY <2>1
<1>15. \A n \in Int : \A k \in 0..n : k \in Int
  OBVIOUS
<1> QED
  BY <1>1, <1>2, <1>3, <1>4, <1>5, <1>6, <1>7, <1>8, <1>9, <1>10, <1>11, <1>12, <1>13, <1>14,
     <1>15, <1>16, <1>17, <1>18 DEF BtcNext

\* The statistics and the OMS tell of the same entries, for any windows, prices, fills
\* failures of a leg and exceptions: every window is entered once, every entry has one
\* result, and nothing is held but what is remembered, was a pair, was left by a pair that
\* broke, or was bought by the order whose exception ended the bot.
THEOREM BotsBooksAgree == BtcSpec => []BooksAgree
<1>1. BtcInv => BooksAgree
  BY DEF BtcInv
<1> QED BY <1>1, BtcInvInit, BtcInvStep, PTL DEF BtcSpec

-------------------------------------------------------------------------------
(* Several legs.  Legs are placed from the first on and reversed from the    *)
(* first on, so that a number tells which of them are held.                  *)

LegTypes ==
  /\ Len(legs) \in Nat /\ DOMAIN legs = 1..Len(legs)
  /\ orders \in Seq(BOOLEAN) /\ Len(orders) <= Len(legs)
  /\ executing = "placing" => Len(orders) < Len(legs)
  /\ exposure \in [1..Len(legs) -> Int]
  /\ unwound \in Nat

\* What is held of a leg whose orders did what the handler thinks.
HeldAsOrdered ==
  \A i \in 1..Len(legs) : i \notin loose =>
    exposure[i] = IF i \in 1..Len(orders) /\ orders[i] /\ i > unwound
                  THEN Shares(legs[i], LegSize) ELSE 0

AllAccepted == \A i \in 1..Len(orders) : orders[i]

LastFailed ==
  /\ Len(orders) > 0 /\ ~orders[Len(orders)]
  /\ \A i \in 1..(Len(orders) - 1) : orders[i]

HandlerControl ==
  /\ executing = "placing" => AllAccepted /\ unwound = 0
  /\ executing = "unwinding" => LastFailed /\ unwound < Len(orders)
  /\ executing = "returned" =>
       \/ AllAccepted /\ unwound = 0 /\ Len(orders) = Len(legs)
       \/ LastFailed /\ unwound = Len(orders) - 1

\* A leg that is still to be reversed is held one way only.
LegSized ==
  \A i \in 1..Len(legs) :
    /\ exposure[i] \in -LegSize..LegSize
    /\ i > unwound => \E m \in 0..LegSize : exposure[i] = Shares(legs[i], m)

LegInv == LegTypes /\ LegSized /\ (executor = "handler" => HeldAsOrdered /\ HandlerControl)

LEMMA SharesType ==
  ASSUME NEW leg, NEW n \in Nat
  PROVE  Shares(leg, n) \in Int
BY DEF Shares

LEMMA EitherWay ==
  ASSUME NEW leg, NEW n \in Nat
  PROVE  Shares(leg, n) \in Int /\ (Shares(leg, n) = n \/ Shares(leg, n) + n = 0)
BY DEF Shares

LEMMA NoShares ==
  ASSUME NEW leg
  PROVE  Shares(leg, 0) = 0
<1>1. Shares(leg, 0) \in Int /\ (Shares(leg, 0) = 0 \/ Shares(leg, 0) + 0 = 0)
  BY EitherWay
<1> QED BY <1>1

LEMMA SharesSigned ==
  ASSUME NEW leg, NEW m \in 0..LegSize
  PROVE  Shares(leg, m) \in -LegSize..LegSize
BY LegAssumption DEF LegAssumption, Shares

LEMMA ReversalSized ==
  ASSUME NEW leg, NEW m \in 0..LegSize, NEW got \in 0..LegSize
  PROVE  Shares(leg, m) - Shares(leg, got) \in -LegSize..LegSize
BY LegAssumption DEF LegAssumption, Shares

\* The scans find a sequence of legs.
LEMMA ScansFindLegs ==
  ASSUME NEW prices \in MarketPrices, NEW found, found \in {SumLegs(prices), MonotonicLegs(prices)}
  PROVE  Len(found) \in Nat /\ DOMAIN found = 1..Len(found)
<1>1. prices \in Seq(Nat) /\ Len(prices) \in Nat /\ DOMAIN prices = 1..Len(prices)
  BY LegAssumption DEF LegAssumption
<1>2. ASSUME found = SumLegs(prices) PROVE Len(found) \in Nat /\ DOMAIN found = 1..Len(found)
  <2>1. CASE found = <<>>
    BY <2>1
  <2>2. CASE found # <<>>
    <3>1. found = [i \in 1..Len(prices) |-> Leg(i, "SELL")]
      BY <1>1, <1>2, <2>2 DEF SumLegs
    <3>2. QED BY <1>1, <3>1
  <2>3. QED BY <2>1, <2>2
<1>3. ASSUME found = MonotonicLegs(prices) PROVE Len(found) \in Nat /\ DOMAIN found = 1..Len(found)
  <2> DEFINE n == Cardinality(Violations(prices))
  <2>1. n \in Nat
    <3>1. IsFiniteSet(1..(Len(prices) - 1))
      BY <1>1, FS_Interval
    <3>2. Violations(prices) \subseteq 1..(Len(prices) - 1)
      BY DEF Violations
    <3>3. QED BY <3>1, <3>2, FS_Subset, FS_CardinalityType
  <2>2. \E g : found = [k \in 1..(2 * n) |-> g[k]]
    <3> DEFINE at == SetToSortSeq(Violations(prices), <)
               g == [k \in 1..(2 * n) |->
                       IF k % 2 = 1 THEN Leg(at[(k + 1) \div 2] + 1, "SELL")
                       ELSE Leg(at[k \div 2], "BUY")]
    <3>1. found = g
      BY <1>3 DEF MonotonicLegs
    <3>2. g = [k \in 1..(2 * n) |-> g[k]]
      OBVIOUS
    <3>3. QED BY <3>1, <3>2
  <2> HIDE DEF n
  <2>3. 2 * n \in Nat
    BY <2>1
  <2>4. QED BY <2>2, <2>3
<1>4. QED BY <1>2, <1>3

LEMMA LegInvInit == LegInit => LegInv
<1> SUFFICES ASSUME LegInit PROVE LegInv
  OBVIOUS
<1>1. PICK prices \in MarketPrices : \E found \in {SumLegs(prices), MonotonicLegs(prices)} :
        /\ found # <<>>
        /\ \/ legs \in Orderings(found) /\ executing = "placing"
           \/ executor = "arb" /\ legs = found
        /\ orders = <<>> /\ exposure = [i \in DOMAIN legs |-> 0] /\ unwound = 0
  BY DEF LegInit
<1>2. PICK found \in {SumLegs(prices), MonotonicLegs(prices)} :
        /\ found # <<>>
        /\ \/ legs \in Orderings(found) /\ executing = "placing"
           \/ executor = "arb" /\ legs = found
        /\ orders = <<>> /\ exposure = [i \in DOMAIN legs |-> 0] /\ unwound = 0
  BY <1>1
<1>3. Len(found) \in Nat /\ DOMAIN found = 1..Len(found)
  BY <1>2, ScansFindLegs
<1>4. Len(legs) = Len(found) /\ DOMAIN legs = DOMAIN found
  <2>1. CASE legs \in Orderings(found)
    <3>1. \E f : legs = [i \in DOMAIN found |-> found[f[i]]]
      BY <2>1 DEF Orderings
    <3>2. QED BY <1>3, <3>1
  <2>2. CASE legs = found
    BY <2>2
  <2>3. QED BY <1>2, <2>1, <2>2
<1>5. LegTypes
  BY <1>2, <1>3, <1>4 DEF LegTypes
<1>9. LegSized
  <2>1. LegSize \in Nat
    BY LegAssumption DEF LegAssumption
  <2>2. 0 \in -LegSize..LegSize /\ 0 \in 0..LegSize
    BY <2>1
  <2>3. ASSUME NEW i \in 1..Len(legs) PROVE exposure[i] = 0 /\ Shares(legs[i], 0) = 0
    <3>1. exposure[i] = 0
      BY <1>2, <1>3, <1>4
    <3>2. Shares(legs[i], 0) = 0
      BY NoShares
    <3>3. QED BY <3>1, <3>2
  <2>4. QED BY <2>2, <2>3 DEF LegSized
<1>6. HeldAsOrdered
  BY <1>2, <1>4, <1>3 DEF HeldAsOrdered
<1>7. executor = "handler" => HandlerControl
  BY <1>2, <1>3, <1>4 DEF HandlerControl, AllAccepted
<1>8. QED BY <1>5, <1>6, <1>7, <1>9 DEF LegInv

\* One more order: what was ordered before stays as it was.
LEMMA OrderAppended ==
  ASSUME LegInv, NEW ordered \in BOOLEAN, orders' = Append(orders, ordered)
  PROVE  /\ orders' \in Seq(BOOLEAN) /\ Len(orders) \in Nat /\ Len(orders') = Len(orders) + 1
         /\ \A i \in 1..Len(orders) : orders'[i] = orders[i]
         /\ orders'[Len(orders) + 1] = ordered
BY DEF LegInv, LegTypes

\* What one order does to the legs.
LEMMA LegOrdered ==
  ASSUME LegInv, executing = "placing", NEW got \in 0..LegSize, Ordered(got),
         UNCHANGED <<legs, unwound>>
  PROVE  /\ Len(orders) + 1 \in 1..Len(legs)
         /\ exposure' \in [1..Len(legs) -> Int] /\ LegSized'
         /\ exposure'[Len(orders) + 1] = Shares(legs[Len(orders) + 1], got)
         /\ \A i \in 1..Len(legs) : i # Len(orders) + 1 => exposure'[i] = exposure[i]
<1> DEFINE k == Len(orders) + 1
<1>a. LegSize \in Nat
  BY LegAssumption DEF LegAssumption
<1>1. k \in 1..Len(legs)
  BY DEF LegInv, LegTypes
<1>2. exposure' = [exposure EXCEPT ![k] = Shares(legs[k], got)]
  BY DEF Ordered, AtLeg
<1>3. Shares(legs[k], got) \in -LegSize..LegSize /\ Shares(legs[k], got) \in Int
  BY <1>a, SharesSigned, SharesType
<1> HIDE DEF k
<1>4. /\ exposure' \in [1..Len(legs) -> Int] /\ exposure'[k] = Shares(legs[k], got)
      /\ \A i \in 1..Len(legs) : i # k => exposure'[i] = exposure[i]
  BY <1>1, <1>2, <1>3 DEF LegInv, LegTypes
<1>5. LegSized'
  <2> SUFFICES ASSUME NEW i \in 1..Len(legs)
               PROVE  /\ exposure'[i] \in -LegSize..LegSize
                      /\ i > unwound => \E m \in 0..LegSize : exposure'[i] = Shares(legs[i], m)
    BY DEF LegSized, Shares
  <2>1. CASE i = k
    BY <1>3, <1>4, <2>1
  <2>2. CASE i # k
    BY <1>4, <2>2 DEF LegInv, LegSized
  <2>3. QED BY <2>1, <2>2
<1>6. QED BY <1>1, <1>4, <1>5 DEF k

\* What a reversal does to them, whatever it fills.
LEMMA LegReversed ==
  ASSUME LegInv, NEW got \in 0..LegSize, Reversed(got)
  PROVE  /\ executing = "unwinding" /\ unwound + 1 \in 1..Len(orders) /\ orders[unwound + 1]
         /\ unwound' = unwound + 1 /\ UNCHANGED <<executor, legs, orders>>
         /\ exposure' \in [1..Len(legs) -> Int] /\ LegSized'
         /\ exposure'[unwound + 1] = exposure[unwound + 1] - Shares(legs[unwound + 1], got)
         /\ \A i \in 1..Len(legs) : i # unwound + 1 => exposure'[i] = exposure[i]
<1> DEFINE j == unwound + 1
<1>a. LegSize \in Nat
  BY LegAssumption DEF LegAssumption
<1>1. /\ executing = "unwinding" /\ unwound < Len(orders) /\ orders[j] /\ unwound' = j
      /\ exposure' = [exposure EXCEPT ![j] = exposure[j] - Shares(legs[j], got)]
      /\ UNCHANGED <<executor, legs, orders>>
  BY DEF Reversed
<1>2. j \in 1..Len(orders) /\ j \in 1..Len(legs) /\ j > unwound
  BY <1>1 DEF LegInv, LegTypes
<1>3. PICK part \in 0..LegSize : exposure[j] = Shares(legs[j], part)
  BY <1>2 DEF LegInv, LegSized
<1>4. /\ exposure[j] - Shares(legs[j], got) \in -LegSize..LegSize
      /\ exposure[j] - Shares(legs[j], got) \in Int
  BY <1>a, <1>3, ReversalSized
<1> HIDE DEF j
<1>5. /\ exposure' \in [1..Len(legs) -> Int] /\ exposure'[j] = exposure[j] - Shares(legs[j], got)
      /\ \A i \in 1..Len(legs) : i # j => exposure'[i] = exposure[i]
  BY <1>1, <1>2, <1>4 DEF LegInv, LegTypes
<1>6. LegSized'
  <2> SUFFICES ASSUME NEW i \in 1..Len(legs)
               PROVE  /\ exposure'[i] \in -LegSize..LegSize
                      /\ i > j => \E m \in 0..LegSize : exposure'[i] = Shares(legs[i], m)
    BY <1>1 DEF LegSized, Shares
  <2>1. CASE i = j
    BY <1>2, <1>4, <1>5, <2>1
  <2>2. CASE i # j
    <3>1. i > j => i > unwound
      BY DEF LegInv, LegTypes, j
    <3>2. QED BY <1>5, <2>2, <3>1 DEF LegInv, LegSized
  <2>3. QED BY <2>1, <2>2
<1>7. QED BY <1>1, <1>2, <1>5, <1>6 DEF j

LEMMA LegInvStep == LegInv /\ [LegNext]_legVars => LegInv'
<1> SUFFICES ASSUME LegInv, [LegNext]_legVars PROVE LegInv'
  OBVIOUS
<1> DEFINE n == Len(orders)
<1>a. LegSize \in Nat
  BY LegAssumption DEF LegAssumption
<1>b. n \in Nat /\ Len(legs) \in Nat /\ unwound \in Nat
  BY DEF LegInv, LegTypes
<1>1. ASSUME NEW got \in 0..LegSize, LegAccepted(got) PROVE LegInv'
  <2>1. /\ executing = "placing" /\ orders' = Append(orders, TRUE) /\ Ordered(got)
        /\ loose' = IF got < LegSize THEN loose \cup {n + 1} ELSE loose
        /\ executing' = IF n + 1 = Len(legs) THEN "returned" ELSE "placing"
        /\ UNCHANGED <<executor, legs, unwound>>
    BY <1>1 DEF LegAccepted, AtLeg
  <2>2. /\ orders' \in Seq(BOOLEAN) /\ Len(orders') = n + 1
        /\ \A i \in 1..n : orders'[i] = orders[i]
        /\ orders'[n + 1] = TRUE
    BY <2>1, OrderAppended
  <2>3. /\ n + 1 \in 1..Len(legs) /\ exposure' \in [1..Len(legs) -> Int] /\ LegSized'
        /\ exposure'[n + 1] = Shares(legs[n + 1], got)
        /\ \A i \in 1..Len(legs) : i # n + 1 => exposure'[i] = exposure[i]
    BY <2>1, LegOrdered
  <2> HIDE DEF n
  <2>5. LegTypes'
    <3>2. Len(orders') <= Len(legs) /\ (executing' = "placing" => Len(orders') < Len(legs))
      BY <1>b, <2>1, <2>2, <2>3
    <3>3. QED BY <2>1, <2>2, <2>3, <3>2 DEF LegInv, LegTypes
  <2>6. ASSUME executor = "handler" PROVE HeldAsOrdered' /\ HandlerControl'
    <3>1. HeldAsOrdered /\ AllAccepted /\ unwound = 0
      BY <2>1, <2>6 DEF LegInv, HandlerControl
    <3>2. HeldAsOrdered'
      <4> SUFFICES ASSUME NEW i \in 1..Len(legs), i \notin loose'
                   PROVE  exposure'[i] = IF i \in 1..(n + 1) /\ orders'[i] /\ i > unwound
                                         THEN Shares(legs[i], LegSize) ELSE 0
        BY <2>1, <2>2 DEF HeldAsOrdered
      <4>1. CASE i = n + 1
        <5>1. exposure'[n + 1] = Shares(legs[n + 1], got)
          BY <2>3
        <5>2. got = LegSize
          BY <1>a, <2>1, <4>1
        <5>3. n + 1 \in 1..(n + 1) /\ n + 1 > unwound
          BY <1>b, <3>1
        <5>4. QED BY <2>2, <4>1, <5>1, <5>2, <5>3
      <4>2. CASE i # n + 1
        <5>1. exposure'[i] = exposure[i] /\ i \notin loose
          BY <2>1, <2>3, <4>2
        <5>2. exposure[i] = IF i \in 1..n /\ orders[i] /\ i > unwound
                            THEN Shares(legs[i], LegSize) ELSE 0
          BY <3>1, <5>1 DEF HeldAsOrdered, n
        <5>3. i \in 1..(n + 1) <=> i \in 1..n
          BY <1>b, <4>2
        <5>4. QED BY <2>2, <5>1, <5>2, <5>3
      <4>3. QED BY <4>1, <4>2
    <3>3. AllAccepted'
      BY <1>b, <2>2, <3>1 DEF AllAccepted, n
    <3>4. HandlerControl'
      BY <2>1, <2>2, <3>1, <3>3 DEF HandlerControl
    <3>5. QED BY <3>2, <3>4
  <2>7. QED BY <2>1, <2>3, <2>5, <2>6 DEF LegInv
<1>2. ASSUME NEW got \in 0..LegSize, ReverseLeg(got) \/ ReversalRaises(got) PROVE LegInv'
  <2> DEFINE j == unwound + 1
  <2>1. /\ Reversed(got) /\ executing' \in {"unwinding", "raised"}
        /\ loose \subseteq loose' /\ (j \in loose' \/ got = LegSize)
    <3>1. CASE ReverseLeg(got)
      BY <1>a, <3>1 DEF ReverseLeg, Reversed
    <3>2. CASE ReversalRaises(got)
      BY <3>2 DEF ReversalRaises
    <3>3. QED BY <1>2, <3>1, <3>2
  <2>2. /\ executing = "unwinding" /\ j \in 1..n /\ orders[j]
        /\ unwound' = j /\ UNCHANGED <<executor, legs, orders>>
        /\ exposure' \in [1..Len(legs) -> Int] /\ LegSized'
        /\ exposure'[j] = exposure[j] - Shares(legs[j], got)
        /\ \A i \in 1..Len(legs) : i # j => exposure'[i] = exposure[i]
    BY <2>1, LegReversed
  <2>3. j \in 1..Len(legs) /\ Shares(legs[j], got) \in Int
    BY <1>a, <1>b, <2>2, SharesType DEF LegInv, LegTypes
  <2> HIDE DEF j
  <2>4. LegTypes'
    BY <1>b, <2>1, <2>2 DEF LegInv, LegTypes
  <2>5. ASSUME executor = "handler" PROVE HeldAsOrdered' /\ HandlerControl'
    <3>1. HeldAsOrdered /\ LastFailed
      BY <2>2, <2>5 DEF LegInv, HandlerControl
    <3>2. HeldAsOrdered'
      <4> SUFFICES ASSUME NEW i \in 1..Len(legs), i \notin loose'
                   PROVE  exposure'[i] = IF i \in 1..n /\ orders[i] /\ i > j
                                         THEN Shares(legs[i], LegSize) ELSE 0
        BY <2>2 DEF HeldAsOrdered
      <4>1. i \notin loose
        BY <2>1
      <4>2. exposure[i] = IF i \in 1..n /\ orders[i] /\ i > unwound
                          THEN Shares(legs[i], LegSize) ELSE 0
        BY <3>1, <4>1 DEF HeldAsOrdered
      <4>3. CASE i = j
        <5>1. got = LegSize
          BY <2>1, <4>3
        <5>2. exposure[j] = Shares(legs[j], LegSize)
          BY <1>b, <2>2, <4>2, <4>3 DEF j
        <5>3. exposure'[j] = 0
          BY <2>2, <2>3, <5>1, <5>2
        <5>4. ~(i > j)
          BY <1>b, <4>3 DEF j
        <5>5. QED BY <4>3, <5>3, <5>4
      <4>4. CASE i # j
        <5>1. exposure'[i] = exposure[i]
          BY <2>2, <4>4
        <5>2. i > unwound <=> i > j
          BY <1>b, <4>4 DEF j
        <5>3. QED BY <4>2, <5>1, <5>2
      <4>5. QED BY <4>3, <4>4
    <3>3. j < n
      BY <1>b, <2>2, <3>1 DEF LastFailed
    <3>4. LastFailed'
      BY <2>2, <3>1 DEF LastFailed
    <3>5. HandlerControl'
      BY <2>1, <2>2, <3>3, <3>4 DEF HandlerControl
    <3>6. QED BY <3>2, <3>5
  <2>6. QED BY <2>2, <2>4, <2>5 DEF LegInv
<1>3. ASSUME NEW ordered \in BOOLEAN, NEW got \in 0..LegSize, LegFails(ordered, got) PROVE LegInv'
  <2>1. /\ executing = "placing" /\ executor = "handler" /\ orders' = Append(orders, FALSE)
        /\ executing' = "unwinding" /\ Ordered(got) /\ UNCHANGED <<executor, legs, unwound>>
        /\ loose' = IF got > 0 THEN loose \cup {n + 1} ELSE loose
    BY <1>3 DEF LegFails, AfterFailure, Unanswered, AtLeg
  <2>2. /\ orders' \in Seq(BOOLEAN) /\ Len(orders') = n + 1
        /\ \A i \in 1..n : orders'[i] = orders[i]
        /\ orders'[n + 1] = FALSE
    BY <2>1, OrderAppended
  <2>3. HeldAsOrdered /\ AllAccepted /\ unwound = 0 /\ n < Len(legs)
    BY <2>1 DEF LegInv, LegTypes, HandlerControl
  <2>9. /\ exposure' \in [1..Len(legs) -> Int] /\ LegSized'
        /\ exposure'[n + 1] = Shares(legs[n + 1], got)
        /\ \A i \in 1..Len(legs) : i # n + 1 => exposure'[i] = exposure[i]
    BY <2>1, LegOrdered
  <2> HIDE DEF n
  <2>4. LegTypes'
    BY <1>b, <2>1, <2>2, <2>3, <2>9 DEF LegInv, LegTypes
  <2>5. HeldAsOrdered'
    <3> SUFFICES ASSUME NEW i \in 1..Len(legs), i \notin loose'
                 PROVE  exposure'[i] = IF i \in 1..(n + 1) /\ orders'[i] /\ i > unwound
                                       THEN Shares(legs[i], LegSize) ELSE 0
      BY <2>1, <2>2 DEF HeldAsOrdered
    <3>1. CASE i = n + 1
      <4>1. got = 0
        BY <1>a, <2>1, <3>1
      <4>2. exposure'[i] = 0
        BY <2>9, <3>1, <4>1, NoShares
      <4>3. QED BY <2>2, <3>1, <4>2
    <3>2. CASE i # n + 1
      <4>1. exposure[i] = IF i \in 1..n /\ orders[i] /\ i > unwound
                          THEN Shares(legs[i], LegSize) ELSE 0
        BY <2>1, <2>3 DEF HeldAsOrdered, n
      <4>2. i \in 1..(n + 1) /\ orders'[i] <=> i \in 1..n /\ orders[i]
        BY <1>b, <2>2, <3>2
      <4>3. QED BY <2>9, <3>2, <4>1, <4>2
    <3>3. QED BY <3>1, <3>2
  <2>6. LastFailed'
    BY <1>b, <2>2, <2>3 DEF LastFailed, AllAccepted, n
  <2>7. HandlerControl'
    BY <1>b, <2>1, <2>2, <2>3, <2>6 DEF HandlerControl
  <2>8. QED BY <2>4, <2>5, <2>7, <2>9 DEF LegInv
<1>4. ASSUME NEW got \in 0..LegSize, LegIgnored(got) PROVE LegInv'
  <2>1. /\ executing = "placing" /\ executor = "arb" /\ executor' = "arb"
        /\ orders' = Append(orders, FALSE) /\ Ordered(got)
        /\ executing' = IF n + 1 = Len(legs) THEN "returned" ELSE "placing"
        /\ UNCHANGED <<legs, unwound>>
    BY <1>4 DEF LegIgnored, AtLeg, Unanswered
  <2>2. orders' \in Seq(BOOLEAN) /\ Len(orders') = n + 1
    BY <2>1, OrderAppended
  <2>3. n < Len(legs) /\ exposure' \in [1..Len(legs) -> Int] /\ LegSized'
    BY <2>1, LegOrdered DEF LegInv, LegTypes
  <2>4. Len(orders') <= Len(legs) /\ (executing' = "placing" => Len(orders') < Len(legs))
    BY <1>b, <2>1, <2>2, <2>3
  <2>5. QED BY <2>1, <2>2, <2>3, <2>4 DEF LegInv, LegTypes
<1>8. ASSUME NEW got \in 0..LegSize, LegRaises(got) PROVE LegInv'
  <2>1. /\ executing = "placing" /\ executing' = "raised" /\ Ordered(got)
        /\ loose' = loose \cup {n + 1} /\ UNCHANGED <<executor, legs, orders, unwound>>
    BY <1>8 DEF LegRaises, AtLeg
  <2>2. /\ exposure' \in [1..Len(legs) -> Int] /\ LegSized'
        /\ \A i \in 1..Len(legs) : i # n + 1 => exposure'[i] = exposure[i]
    BY <2>1, LegOrdered
  <2>3. LegTypes'
    BY <2>1, <2>2 DEF LegInv, LegTypes
  <2>4. ASSUME executor = "handler" PROVE HeldAsOrdered' /\ HandlerControl'
    <3>1. HeldAsOrdered
      BY <2>4 DEF LegInv
    <3>2. ASSUME NEW i \in 1..Len(legs), i \notin loose' PROVE i \notin loose /\ exposure'[i] = exposure[i]
      BY <2>1, <2>2, <3>2
    <3>3. HeldAsOrdered'
      BY <2>1, <3>1, <3>2 DEF HeldAsOrdered, Shares
    <3>4. QED BY <2>1, <3>3 DEF HandlerControl
  <2>5. QED BY <2>1, <2>2, <2>3, <2>4 DEF LegInv
<1>5. CASE Unwound
  <2>1. /\ executing = "unwinding" /\ executing' = "returned"
        /\ unwound = n \/ ~orders[unwound + 1]
        /\ UNCHANGED <<executor, legs, orders, exposure, loose, unwound>>
    BY <1>5 DEF Unwound
  <2>2. LegTypes' /\ LegSized' /\ (executor = "handler" => HeldAsOrdered')
    BY <2>1 DEF LegInv, LegTypes, LegSized, HeldAsOrdered, Shares
  <2>3. ASSUME executor = "handler" PROVE HandlerControl'
    <3>1. LastFailed /\ unwound < n
      BY <2>1, <2>3 DEF LegInv, HandlerControl
    <3>2. unwound = n - 1
      BY <1>b, <2>1, <3>1 DEF LastFailed
    <3>3. LastFailed' /\ Len(orders') = n
      BY <2>1, <3>1 DEF LastFailed
    <3>4. QED BY <2>1, <3>2, <3>3 DEF HandlerControl
  <2>4. QED BY <2>1, <2>2, <2>3 DEF LegInv
<1>6. CASE UNCHANGED legVars
  BY <1>6 DEF legVars, LegInv, LegTypes, LegSized, HeldAsOrdered, HandlerControl, AllAccepted,
              LastFailed, Shares
<1>7. QED BY <1>1, <1>2, <1>3, <1>4, <1>5, <1>6, <1>8 DEF LegNext

\* When the handler of several legs returns, all of them are held or none is, but for those
\* of which an order or its reversal filled in part or lost its reply; an exception leaves
\* it with the legs that were not reversed till then; and none is ever larger than it was
\* ordered, for any legs that the scans find and in any order (execute_multi_leg).
THEOREM NoLegIsNaked == LegSpec => []NoNakedLeg
<1>1. LegInv => NoNakedLeg
  <2> SUFFICES ASSUME LegInv, executor = "handler" PROVE NoNakedLeg
    BY DEF NoNakedLeg
  <2> DEFINE filled == \A i \in DOMAIN orders : orders[i]
             Whole(i, yes) == exposure[i] = IF yes THEN Shares(legs[i], LegSize) ELSE 0
  <2>1. DOMAIN orders = 1..Len(orders) /\ DOMAIN legs = 1..Len(legs) /\ Len(orders) \in Nat
    BY DEF LegInv, LegTypes
  <2>2. ASSUME executing = "returned"
        PROVE  /\ filled => Len(orders) = Len(legs)
               /\ \A i \in DOMAIN legs \ loose : Whole(i, filled)
    <3>1. CASE AllAccepted /\ unwound = 0 /\ Len(orders) = Len(legs)
      BY <2>1, <3>1 DEF LegInv, HeldAsOrdered, AllAccepted
    <3>2. CASE LastFailed /\ unwound = Len(orders) - 1
      <4>1. \A i \in 1..Len(orders) : orders[i] => ~(i > unwound)
        BY <2>1, <3>2 DEF LastFailed
      <4>2. \A i \in DOMAIN legs \ loose : exposure[i] = 0
        BY <2>1, <4>1 DEF LegInv, HeldAsOrdered
      <4>3. ~filled
        BY <2>1, <3>2 DEF LastFailed
      <4>4. QED BY <4>2, <4>3
    <3>3. QED BY <2>2, <3>1, <3>2 DEF LegInv, HandlerControl
  <2>3. \A i \in DOMAIN legs \ loose : Whole(i, i \in DOMAIN orders /\ orders[i] /\ i > unwound)
    BY <2>1 DEF LegInv, HeldAsOrdered
  <2>4. \A i \in DOMAIN legs : exposure[i] \in -LegSize..LegSize
    BY <2>1 DEF LegInv, LegSized
  <2>5. QED BY <2>2, <2>3, <2>4 DEF NoNakedLeg
<1>2. QED BY <1>1, LegInvInit, LegInvStep, PTL DEF LegSpec

-------------------------------------------------------------------------------
(* Whale copying.  What a whale has added since its snapshot and was not     *)
(* copied is at least what its holdings exceed the known ones by.            *)

PerToken(R) == [Whales -> [WhaleTokens -> R]]

WhaleTypes ==
  /\ holds \in PerToken(Nat) /\ known \in PerToken(Int)
  /\ gained \in PerToken(Nat) /\ copied \in PerToken(Int)
  /\ whales \in Seq(Whales) /\ initialized \in BOOLEAN
  /\ looking # Idle => looking \in Seq(Whales) /\ ToSet(looking) \subseteq ToSet(whales)

Snapped(w) == w \in ToSet(whales) /\ (initialized \/ w \notin ToSet(looking))

MovesCounted ==
  \A w \in Whales \ flawed : Snapped(w) =>
    \A t \in WhaleTokens : copied[w][t] + (holds[w][t] - known[w][t]) <= gained[w][t]

BeforeSnapshots ==
  ~initialized =>
    /\ looking = Idle => whales = <<>>
    /\ \A w \in Whales, t \in WhaleTokens : copied[w][t] = 0

WhaleInv == WhaleTypes /\ MovesCounted /\ BeforeSnapshots /\ NoMoveCopiedTwice

LEMMA NotIdle == \A s \in Seq(Whales) : s # Idle
<1> SUFFICES ASSUME NEW s \in Seq(Whales), s = Idle PROVE FALSE
  OBVIOUS
<1>1. s[1] \in Whales /\ s[1] = "idle"
  BY DEF Idle
<1>2. QED BY <1>1, WhaleAssumption DEF WhaleAssumption

\* The next whale, and those behind it.
LEMMA NextToLook ==
  ASSUME NEW s \in Seq(Whales), s # <<>>
  PROVE  /\ Head(s) \in Whales /\ Head(s) \in ToSet(s) /\ Tail(s) \in Seq(Whales)
         /\ ToSet(Tail(s)) \subseteq ToSet(s) /\ ToSet(s) \subseteq ToSet(Tail(s)) \cup {Head(s)}
<1>1. Len(s) \in Nat /\ Len(s) > 0 /\ DOMAIN s = 1..Len(s)
  OBVIOUS
<1>2. Head(s) = s[1] /\ Head(s) \in Whales
  BY <1>1
<1>3. /\ Tail(s) \in Seq(Whales) /\ DOMAIN Tail(s) = 1..(Len(s) - 1)
      /\ \A i \in 1..(Len(s) - 1) : Tail(s)[i] = s[i + 1]
  BY <1>1
<1>4. ToSet(Tail(s)) \subseteq ToSet(s)
  BY <1>1, <1>3 DEF ToSet
<1>5. ASSUME NEW i \in 1..Len(s) PROVE s[i] \in ToSet(Tail(s)) \cup {Head(s)}
  <2>1. CASE i = 1
    BY <1>2, <2>1
  <2>2. CASE i # 1
    <3>1. i - 1 \in 1..(Len(s) - 1) /\ Tail(s)[i - 1] = s[i]
      BY <1>1, <1>3, <2>2
    <3>2. QED BY <1>3, <3>1 DEF ToSet
  <2>3. QED BY <2>1, <2>2
<1>6. QED BY <1>1, <1>2, <1>3, <1>4, <1>5 DEF ToSet

LEMMA FoundTypes ==
  ASSUME NEW found \in {<<>>} \cup {<<w>> : w \in Whales \ ToSet(whales)} \cup
                       (IF whales = <<>> THEN {SetToSeq(Whales)} ELSE {})
  PROVE  found \in Seq(Whales)
<1>1. CASE found = SetToSeq(Whales)
  <2>1. Cardinality(Whales) \in Nat /\ Bijection(1..Cardinality(Whales), Whales) # {}
    BY WhaleAssumption, FS_CardinalityType DEF WhaleAssumption, ExistsBijection
  <2>2. \E f \in [1..Cardinality(Whales) -> Whales] : IsInjective(f)
    BY <2>1 DEF Bijection, Injection
  <2>3. found \in [1..Cardinality(Whales) -> Whales]
    BY <1>1, <2>2 DEF SetToSeq
  <2>4. QED BY <2>1, <2>3
<1>2. CASE \E w \in Whales : found = <<w>>
  BY <1>2
<1>3. CASE found = <<>>
  BY <1>3
<1>4. QED BY <1>1, <1>2, <1>3

LEMMA JoinedWhales ==
  ASSUME NEW s \in Seq(Whales), NEW r \in Seq(Whales)
  PROVE  s \o r \in Seq(Whales) /\ ToSet(s \o r) = ToSet(s) \cup ToSet(r)
<1>1. /\ Len(s) \in Nat /\ Len(r) \in Nat /\ s \o r \in Seq(Whales)
      /\ DOMAIN s = 1..Len(s) /\ DOMAIN r = 1..Len(r) /\ DOMAIN (s \o r) = 1..(Len(s) + Len(r))
      /\ \A i \in 1..(Len(s) + Len(r)) : (s \o r)[i] = IF i <= Len(s) THEN s[i] ELSE r[i - Len(s)]
  OBVIOUS
<1>2. ToSet(s \o r) \subseteq ToSet(s) \cup ToSet(r)
  BY <1>1 DEF ToSet
<1>3. ToSet(s) \subseteq ToSet(s \o r)
  BY <1>1 DEF ToSet
<1>4. ASSUME NEW i \in 1..Len(r) PROVE r[i] \in ToSet(s \o r)
  <2>1. i + Len(s) \in 1..(Len(s) + Len(r)) /\ (s \o r)[i + Len(s)] = r[i]
    BY <1>1
  <2>2. QED BY <1>1, <2>1 DEF ToSet
<1>5. QED BY <1>1, <1>2, <1>3, <1>4 DEF ToSet

\* A look that is whole knows what the whale holds.
LEMMA WholeLook ==
  ASSUME NEW w \in Whales, holds \in PerToken(Nat), NEW rows \in Rows(w), NEW tails,
         ToSet(rows) = Held(w), ~(LastRow(w, rows, tails) < Len(rows))
  PROVE  SeenIn(w, rows, LastRow(w, rows, tails), tails) = holds[w]
<1>1. rows \in Seq(Held(w)) /\ Len(rows) \in Nat /\ DOMAIN rows = 1..Len(rows)
  <2>1. Cardinality(WhaleTokens) \in Nat
    BY WhaleAssumption, FS_CardinalityType DEF WhaleAssumption
  <2>2. PICK m \in 0..Cardinality(WhaleTokens) : rows \in [1..m -> Held(w)]
    BY DEF Rows, BoundedSeq, SeqOf
  <2>3. m \in Nat
    BY <2>1
  <2>4. QED BY <2>2, <2>3
<1>2. LastRow(w, rows, tails) \in 1..Len(rows) \/ LastRow(w, rows, tails) = Len(rows)
  BY <1>1 DEF LastRow
<1>3. LastRow(w, rows, tails) = Len(rows)
  BY <1>1, <1>2
<1>4. SubSeq(rows, 1, Len(rows)) = rows
  BY <1>1, SubSeqFull
<1>5. \A t \in WhaleTokens : holds[w][t] = IF t \in Held(w) THEN holds[w][t] ELSE 0
  BY DEF Held, PerToken
<1>6. holds[w] = [t \in WhaleTokens |-> holds[w][t]]
  BY DEF PerToken
<1>7. QED BY <1>3, <1>4, <1>5, <1>6 DEF SeenIn, KnownOf


LEMMA WhaleInvInit == WhaleInit => WhaleInv
<1> SUFFICES ASSUME WhaleInit PROVE WhaleInv
  OBVIOUS
<1>1. WhaleTypes
  <2>1. holds \in PerToken(Nat)
    <3>1. Holdings \subseteq Nat /\ holds \in [Whales -> [WhaleTokens -> Holdings]]
      BY WhaleAssumption DEF WhaleAssumption, WhaleInit
    <3>2. QED BY <3>1 DEF PerToken
  <2>2. NothingOf \in PerToken(Nat) /\ NothingOf \in PerToken(Int)
    BY DEF NothingOf, PerToken
  <2>3. <<>> \in Seq(Whales)
    OBVIOUS
  <2>4. holds \in PerToken(Nat) /\ known = NothingOf /\ gained = NothingOf /\ copied = NothingOf
        /\ whales = <<>> /\ initialized = FALSE /\ looking = Idle
    BY <2>1 DEF WhaleInit
  <2>5. QED BY <2>2, <2>3, <2>4 DEF WhaleTypes
<1>2. ToSet(whales) = {}
  BY DEF WhaleInit, ToSet
<1>3. MovesCounted /\ BeforeSnapshots
  BY <1>2 DEF WhaleInit, MovesCounted, Snapped, BeforeSnapshots, NothingOf
<1>4. NoMoveCopiedTwice
  BY DEF WhaleInit, NothingOf, NoMoveCopiedTwice
<1>5. QED BY <1>1, <1>3, <1>4 DEF WhaleInv

\* A whale trades: what it adds it gains.
LEMMA TradeCounted ==
  ASSUME WhaleInv, NEW w \in Whales, NEW t \in WhaleTokens, NEW size \in Holdings,
         Trade(w, t, size)
  PROVE  WhaleInv'
<1> DEFINE more == IF size > holds[w][t] THEN size - holds[w][t] ELSE 0
<1>1. /\ holds' = [holds EXCEPT ![w][t] = size]
      /\ gained' = [gained EXCEPT ![w][t] = gained[w][t] + more]
      /\ UNCHANGED <<whales, known, initialized, looking, copied, flawed>>
  BY DEF Trade
<1>2. size \in Nat
  BY WhaleAssumption DEF WhaleAssumption
<1>3. holds \in PerToken(Nat) /\ gained \in PerToken(Nat) /\ known \in PerToken(Int)
      /\ copied \in PerToken(Int)
  BY DEF WhaleInv, WhaleTypes
<1>4. holds[w][t] \in Nat /\ gained[w][t] \in Nat
  BY <1>3 DEF PerToken
<1>5. more \in Nat /\ size - holds[w][t] <= more
  BY <1>2, <1>4
<1> HIDE DEF more
<1>6. holds' \in PerToken(Nat) /\ gained' \in PerToken(Nat)
  BY <1>1, <1>2, <1>3, <1>4, <1>5 DEF PerToken
<1>7. WhaleTypes'
  BY <1>1, <1>6 DEF WhaleInv, WhaleTypes
<1>8. \A v \in Whales, u \in WhaleTokens :
        /\ holds'[v][u] \in Nat /\ gained'[v][u] \in Nat
        /\ holds[v][u] \in Nat /\ gained[v][u] \in Nat
        /\ known[v][u] \in Int /\ copied[v][u] \in Int
        /\ holds'[v][u] = IF v = w /\ u = t THEN size ELSE holds[v][u]
        /\ gained'[v][u] = IF v = w /\ u = t THEN gained[v][u] + more ELSE gained[v][u]
  BY <1>1, <1>3, <1>6 DEF PerToken
<1>9. \A v \in Whales, u \in WhaleTokens :
        gained[v][u] <= gained'[v][u] /\ holds'[v][u] - holds[v][u] <= gained'[v][u] - gained[v][u]
  BY <1>4, <1>5, <1>8
<1>10. MovesCounted'
  <2> SUFFICES ASSUME NEW v \in Whales \ flawed, Snapped(v), NEW u \in WhaleTokens
               PROVE  copied[v][u] + (holds'[v][u] - known[v][u]) <= gained'[v][u]
    BY <1>1 DEF MovesCounted, Snapped
  <2>1. copied[v][u] + (holds[v][u] - known[v][u]) <= gained[v][u]
    BY DEF WhaleInv, MovesCounted
  <2>2. QED BY <1>8, <1>9, <2>1
<1>11. NoMoveCopiedTwice'
  <2> SUFFICES ASSUME NEW v \in Whales \ flawed, NEW u \in WhaleTokens
               PROVE  copied[v][u] <= gained'[v][u]
    BY <1>1 DEF NoMoveCopiedTwice
  <2>1. copied[v][u] <= gained[v][u]
    BY DEF WhaleInv, NoMoveCopiedTwice
  <2>2. QED BY <1>8, <1>9, <2>1
<1>12. BeforeSnapshots'
  BY <1>1 DEF WhaleInv, BeforeSnapshots
<1>13. QED BY <1>7, <1>10, <1>11, <1>12 DEF WhaleInv

\* The whale that is looked at is known as it is, or flawed; what is copied of it is
\* some of what was added.
LEMMA LookCounted ==
  ASSUME WhaleInv, initialized, looking # Idle, looking # <<>>, NEW w, w = Head(looking),
         NEW X \in SUBSET WhaleTokens,
         known' \in PerToken(Int), \A v \in Whales \ {w} : known'[v] = known[v],
         copied' = [copied EXCEPT ![w] = [t \in WhaleTokens |->
                      copied[w][t] + (IF t \in X THEN Added(w, t) ELSE 0)]],
         \/ flawed' = flawed \cup {w}
         \/ /\ flawed' = flawed
            /\ known'[w] = holds[w] \/ (known' = known /\ X = {}),
         looking' \in {<<>>, Tail(looking)},
         UNCHANGED <<holds, whales, initialized, gained>>
  PROVE  WhaleInv'
<1>1. looking \in Seq(Whales) /\ ToSet(looking) \subseteq ToSet(whales)
  BY DEF WhaleInv, WhaleTypes
<1>2. w \in Whales /\ w \in ToSet(whales)
  BY <1>1, NextToLook
<1>3. looking' \in Seq(Whales) /\ ToSet(looking') \subseteq ToSet(whales)
  <2>1. CASE looking' = <<>>
    BY <2>1 DEF ToSet
  <2>2. CASE looking' = Tail(looking)
    BY <1>1, <2>2, NextToLook
  <2>3. QED BY <2>1, <2>2
<1>4. holds \in PerToken(Nat) /\ gained \in PerToken(Nat) /\ known \in PerToken(Int)
      /\ copied \in PerToken(Int)
  BY DEF WhaleInv, WhaleTypes
<1>5. \A t \in WhaleTokens : Added(w, t) \in Int /\ Added(w, t) = holds[w][t] - known[w][t]
  BY <1>2, <1>4 DEF Added, PerToken
<1>6. [t \in WhaleTokens |-> copied[w][t] + (IF t \in X THEN Added(w, t) ELSE 0)]
        \in [WhaleTokens -> Int]
  <2>1. \A t \in WhaleTokens : copied[w][t] \in Int
    BY <1>2, <1>4 DEF PerToken
  <2>2. \A t \in WhaleTokens : copied[w][t] + (IF t \in X THEN Added(w, t) ELSE 0) \in Int
    BY <2>1, <1>5
  <2>3. QED BY <2>2
<1>7. /\ copied' \in PerToken(Int) /\ \A v \in Whales \ {w} : copied'[v] = copied[v]
      /\ \A t \in WhaleTokens :
           copied'[w][t] = copied[w][t] + (IF t \in X THEN Added(w, t) ELSE 0)
  BY <1>2, <1>4, <1>6 DEF PerToken
<1>8. WhaleTypes'
  BY <1>3, <1>7 DEF WhaleInv, WhaleTypes
<1>9. \A t \in WhaleTokens :
         /\ copied[w][t] \in Int /\ holds[w][t] \in Nat /\ known[w][t] \in Int /\ gained[w][t] \in Nat
  BY <1>2, <1>4 DEF PerToken
<1>10. ASSUME w \notin flawed', NEW t \in WhaleTokens
       PROVE  /\ copied'[w][t] <= gained[w][t]
              /\ copied'[w][t] + (holds[w][t] - known'[w][t]) <= gained[w][t]
  <2>1. w \notin flawed /\ (known'[w] = holds[w] \/ (known' = known /\ X = {}))
    BY <1>10
  <2>2. /\ copied[w][t] <= gained[w][t]
        /\ copied[w][t] + (holds[w][t] - known[w][t]) <= gained[w][t]
    BY <1>2, <2>1 DEF WhaleInv, NoMoveCopiedTwice, MovesCounted, Snapped
  <2>3. CASE known'[w] = holds[w]
    BY <1>5, <1>7, <1>9, <2>2, <2>3
  <2>4. CASE known' = known /\ X = {}
    BY <1>7, <1>9, <2>2, <2>4
  <2>5. QED BY <2>1, <2>3, <2>4
<1>11. flawed \subseteq flawed'
  OBVIOUS
<1>12. MovesCounted'
  <2> SUFFICES ASSUME NEW v \in Whales \ flawed', Snapped(v)', NEW u \in WhaleTokens
               PROVE  copied'[v][u] + (holds[v][u] - known'[v][u]) <= gained[v][u]
    BY DEF MovesCounted
  <2>1. CASE v = w
    BY <1>10, <2>1
  <2>2. CASE v # w
    <3>1. Snapped(v) /\ v \notin flawed
      BY <1>11 DEF Snapped
    <3>2. copied[v][u] + (holds[v][u] - known[v][u]) <= gained[v][u]
      BY <3>1 DEF WhaleInv, MovesCounted
    <3>3. QED BY <1>7, <2>2, <3>2
  <2>3. QED BY <2>1, <2>2
<1>13. NoMoveCopiedTwice'
  <2> SUFFICES ASSUME NEW v \in Whales \ flawed', NEW u \in WhaleTokens
               PROVE  copied'[v][u] <= gained[v][u]
    BY DEF NoMoveCopiedTwice
  <2>1. CASE v = w
    BY <1>10, <2>1
  <2>2. CASE v # w
    BY <1>7, <1>11, <2>2 DEF WhaleInv, NoMoveCopiedTwice
  <2>3. QED BY <2>1, <2>2
<1>14. BeforeSnapshots'
  BY DEF BeforeSnapshots
<1>15. QED BY <1>8, <1>12, <1>13, <1>14 DEF WhaleInv

LEMMA WhaleInvStep == WhaleInv /\ [WhaleNext]_whaleVars => WhaleInv'
<1> SUFFICES ASSUME WhaleInv, [WhaleNext]_whaleVars PROVE WhaleInv'
  OBVIOUS
<1>1. CASE SnapshotDone
  <2>1. looking = <<>> /\ ~initialized /\ initialized' = TRUE /\ looking' = Idle
        /\ UNCHANGED <<holds, whales, known, gained, copied, flawed>>
    BY <1>1 DEF SnapshotDone
  <2>2. ToSet(looking) = {}
    BY <2>1 DEF ToSet
  <2>3. MovesCounted'
    BY <2>1, <2>2 DEF WhaleInv, MovesCounted, Snapped
  <2>4. WhaleTypes' /\ BeforeSnapshots' /\ NoMoveCopiedTwice'
    BY <2>1 DEF WhaleInv, WhaleTypes, BeforeSnapshots, NoMoveCopiedTwice
  <2>5. QED BY <2>3, <2>4 DEF WhaleInv
<1>2. CASE CycleDone
  <2>1. initialized /\ initialized' /\ looking' = Idle
        /\ UNCHANGED <<holds, whales, known, gained, copied, flawed, initialized>>
    BY <1>2 DEF CycleDone
  <2>2. MovesCounted'
    BY <2>1 DEF WhaleInv, MovesCounted, Snapped
  <2>3. WhaleTypes' /\ BeforeSnapshots' /\ NoMoveCopiedTwice'
    BY <2>1 DEF WhaleInv, WhaleTypes, BeforeSnapshots, NoMoveCopiedTwice
  <2>4. QED BY <2>2, <2>3 DEF WhaleInv
<1>3. ASSUME NEW w \in Whales, NEW t \in WhaleTokens, NEW n \in Holdings, Trade(w, t, n)
      PROVE  WhaleInv'
  BY <1>3, TradeCounted
<1>4. ASSUME NEW found \in {<<>>} \cup {<<w>> : w \in Whales \ ToSet(whales)} \cup
                           (IF whales = <<>> THEN {SetToSeq(Whales)} ELSE {}),
             Begin(found)
      PROVE  WhaleInv'
  <2>1. /\ looking = Idle /\ whales' = whales \o found /\ looking' = whales \o found
        /\ flawed' = IF initialized THEN flawed \cup ToSet(found) ELSE flawed
        /\ UNCHANGED <<holds, known, initialized, gained, copied>>
    BY <1>4 DEF Begin
  <2>2. whales \in Seq(Whales) /\ found \in Seq(Whales)
    BY FoundTypes DEF WhaleInv, WhaleTypes
  <2>3. whales' \in Seq(Whales) /\ ToSet(whales') = ToSet(whales) \cup ToSet(found)
    BY <2>1, <2>2, JoinedWhales
  <2>4. looking' # Idle
    BY <2>1, <2>3, NotIdle
  <2>5. WhaleTypes'
    BY <2>1, <2>3 DEF WhaleInv, WhaleTypes
  <2>6. MovesCounted'
    <3> SUFFICES ASSUME NEW w \in Whales \ flawed', Snapped(w)', NEW t \in WhaleTokens
                 PROVE  copied[w][t] + (holds[w][t] - known[w][t]) <= gained[w][t]
      BY <2>1 DEF MovesCounted
    <3>1. w \in ToSet(whales) /\ initialized /\ w \notin flawed
      BY <2>1, <2>3 DEF Snapped
    <3>2. QED BY <3>1 DEF WhaleInv, MovesCounted, Snapped
  <2>7. NoMoveCopiedTwice'
    BY <2>1 DEF WhaleInv, NoMoveCopiedTwice
  <2>8. BeforeSnapshots'
    BY <2>1, <2>4 DEF WhaleInv, BeforeSnapshots
  <2>9. QED BY <2>5, <2>6, <2>7, <2>8 DEF WhaleInv
<1>5. ASSUME NEW shown \in SUBSET WhaleTokens, Snapshot(shown) PROVE WhaleInv'
  <2> DEFINE w == Head(looking)
  <2>1. /\ looking # Idle /\ ~initialized /\ looking # <<>> /\ looking' = Tail(looking)
        /\ known' = [known EXCEPT ![w] = KnownOf(w, shown)]
        /\ gained' = [gained EXCEPT ![w] = NothingOf[w]]
        /\ flawed' = IF shown = Held(w) THEN flawed ELSE flawed \cup {w}
        /\ UNCHANGED <<holds, whales, initialized, copied>>
    BY <1>5 DEF Snapshot
  <2>2. looking \in Seq(Whales) /\ ToSet(looking) \subseteq ToSet(whales)
    BY <2>1 DEF WhaleInv, WhaleTypes
  <2>3. /\ w \in Whales /\ looking' \in Seq(Whales)
        /\ ToSet(looking') \subseteq ToSet(looking) /\ ToSet(looking) \subseteq ToSet(looking') \cup {w}
    BY <2>1, <2>2, NextToLook
  <2>4. looking' # Idle
    BY <2>3, NotIdle
  <2>5. /\ holds \in PerToken(Nat) /\ known \in PerToken(Int) /\ gained \in PerToken(Nat)
        /\ NothingOf[w] \in [WhaleTokens -> Nat] /\ \A t \in WhaleTokens : NothingOf[w][t] = 0
    BY <2>3 DEF WhaleInv, WhaleTypes, NothingOf
  <2>6. /\ KnownOf(w, shown) \in [WhaleTokens -> Int]
        /\ shown = Held(w) => \A t \in WhaleTokens : KnownOf(w, shown)[t] = holds[w][t]
    BY <2>3, <2>5 DEF PerToken, KnownOf, Held
  <2> HIDE DEF w
  <2>7. known' \in PerToken(Int) /\ gained' \in PerToken(Nat)
    BY <2>1, <2>3, <2>5, <2>6 DEF PerToken
  <2>8. /\ \A v \in Whales \ {w} : known'[v] = known[v] /\ gained'[v] = gained[v]
        /\ gained'[w] = NothingOf[w] /\ known'[w] = KnownOf(w, shown)
    BY <2>1, <2>3, <2>5 DEF PerToken
  <2>9. WhaleTypes'
    BY <2>1, <2>2, <2>3, <2>7 DEF WhaleInv, WhaleTypes
  <2>10. \A v \in Whales, t \in WhaleTokens : copied[v][t] = 0 /\ gained'[v][t] \in Nat
    BY <2>1, <2>7 DEF WhaleInv, BeforeSnapshots, PerToken
  <2>11. MovesCounted'
    <3> SUFFICES ASSUME NEW v \in Whales \ flawed', Snapped(v)', NEW t \in WhaleTokens
                 PROVE  copied[v][t] + (holds[v][t] - known'[v][t]) <= gained'[v][t]
      BY <2>1 DEF MovesCounted
    <3>1. CASE v = w
      <4>1. shown = Held(w) /\ known'[v][t] = holds[v][t] /\ gained'[v][t] = 0
        BY <2>1, <2>5, <2>6, <2>8, <3>1
      <4>2. copied[v][t] = 0 /\ holds[v][t] \in Nat
        BY <2>5, <2>10 DEF PerToken
      <4>3. QED BY <4>1, <4>2
    <3>2. CASE v # w
      <4>1. Snapped(v) /\ v \notin flawed
        BY <2>1, <2>3, <3>2 DEF Snapped
      <4>2. copied[v][t] + (holds[v][t] - known[v][t]) <= gained[v][t]
        BY <4>1 DEF WhaleInv, MovesCounted
      <4>3. QED BY <2>8, <3>2, <4>2
    <3>3. QED BY <3>1, <3>2
  <2>12. NoMoveCopiedTwice'
    BY <2>1, <2>10 DEF NoMoveCopiedTwice
  <2>13. BeforeSnapshots'
    BY <2>1, <2>4 DEF WhaleInv, BeforeSnapshots
  <2>14. QED BY <2>9, <2>11, <2>12, <2>13 DEF WhaleInv
<1>6. ASSUME looking # Idle, looking # <<>>, NEW rows \in Rows(Head(looking)),
             NEW tails \in SUBSET WhaleTokens, Check(rows, tails)
      PROVE  WhaleInv'
  <2> DEFINE w    == Head(looking)
             last == LastRow(w, rows, tails)
             new  == Fitting(SignalsOfRows(w, rows, last, tails))
             X    == WhaleTokens \cap ToSet(new)
  <2>1. /\ initialized /\ known' = [known EXCEPT ![w] = SeenIn(w, rows, last, tails)]
        /\ flawed' = IF last < Len(rows) \/ ToSet(rows) # Held(w) THEN flawed \cup {w} ELSE flawed
        /\ looking' \in {<<>>, Tail(looking)}
        /\ UNCHANGED <<holds, whales, initialized, gained>>
    BY <1>6 DEF Check, NextWhale
  <2>2. copied' = [copied EXCEPT ![w] = [t \in WhaleTokens |->
                     copied[w][t] + (IF t \in X THEN Added(w, t) ELSE 0)]]
    BY <1>6 DEF Check, Copies
  <2>3. w \in Whales
    BY <1>6, NextToLook DEF WhaleInv, WhaleTypes
  <2>4. holds \in PerToken(Nat) /\ known \in PerToken(Int)
    BY DEF WhaleInv, WhaleTypes
  <2>5. SeenIn(w, rows, last, tails) \in [WhaleTokens -> Int]
    BY <2>3, <2>4 DEF SeenIn, KnownOf, PerToken
  <2>6. ~(last < Len(rows)) /\ ToSet(rows) = Held(w) => known'[w] = holds[w]
    BY <2>1, <2>3, <2>4, WholeLook DEF PerToken
  <2> HIDE DEF w, last, X
  <2>7. known' \in PerToken(Int) /\ \A v \in Whales \ {w} : known'[v] = known[v]
    BY <2>1, <2>3, <2>4, <2>5 DEF PerToken
  <2>8. \/ flawed' = flawed \cup {w}
        \/ flawed' = flawed /\ known'[w] = holds[w]
    BY <2>1, <2>6
  <2>9. w = Head(looking) /\ X \subseteq WhaleTokens
    BY DEF w, X
  <2>10. /\ looking # Idle /\ looking # <<>> /\ initialized /\ looking' \in {<<>>, Tail(looking)}
         /\ UNCHANGED <<holds, whales, initialized, gained>>
    BY <1>6, <2>1
  <2>11. \/ flawed' = flawed \cup {w}
         \/ /\ flawed' = flawed
            /\ known'[w] = holds[w] \/ (known' = known /\ X = {})
    BY <2>8
  <2> HIDE DEF new
  <2>12. QED BY <2>2, <2>7, <2>9, <2>10, <2>11, LookCounted
<1>7. ASSUME looking # Idle, looking # <<>>, NEW rows \in Rows(Head(looking)),
             NEW tails \in SUBSET WhaleTokens, CheckRaises(rows, tails)
      PROVE  WhaleInv'
  <2> DEFINE w   == Head(looking)
             new == Fitting(SignalsOfRows(w, rows, Len(rows), tails))
             X   == WhaleTokens \cap ToSet(new)
  <2>1. /\ initialized /\ flawed' = IF new = <<>> THEN flawed ELSE flawed \cup {w}
        /\ looking' \in {<<>>, Tail(looking)}
        /\ UNCHANGED <<holds, whales, known, initialized, gained>>
    BY <1>7 DEF CheckRaises, NextWhale
  <2>2. copied' = [copied EXCEPT ![w] = [t \in WhaleTokens |->
                     copied[w][t] + (IF t \in X THEN Added(w, t) ELSE 0)]]
    BY <1>7 DEF CheckRaises, Copies
  <2>3. new = <<>> => X = {}
    BY DEF ToSet
  <2> HIDE DEF w, new, X
  <2>4. \/ flawed' = flawed \cup {w}
        \/ flawed' = flawed /\ known' = known /\ X = {}
    BY <2>1, <2>3
  <2>5. w = Head(looking) /\ X \subseteq WhaleTokens
    BY DEF w, X
  <2>6. known' \in PerToken(Int) /\ \A v \in Whales \ {w} : known'[v] = known[v]
    BY <2>1 DEF WhaleInv, WhaleTypes
  <2>7. QED BY <1>7, <2>1, <2>2, <2>4, <2>5, <2>6, LookCounted
<1>8. CASE UNCHANGED whaleVars
  BY <1>8 DEF whaleVars, WhaleInv, WhaleTypes, MovesCounted, Snapped, BeforeSnapshots,
              NoMoveCopiedTwice
<1>9. QED BY <1>1, <1>2, <1>3, <1>4, <1>5, <1>6, <1>7, <1>8 DEF WhaleNext

\* A whale that was seen whole at every look is never copied for more than it has added
\* since its snapshot, for any whales, tokens and caps, whatever they trade between two
\* looks (_check_whale, "no false signals from empty baseline").
THEOREM MovesCopiedOnce == WhaleSpec => []NoMoveCopiedTwice
<1>1. WhaleInv => NoMoveCopiedTwice
  BY DEF WhaleInv
<1>2. QED BY <1>1, WhaleInvInit, WhaleInvStep, PTL DEF WhaleSpec

-------------------------------------------------------------------------------
(* The research orchestrator.  Results are judged one by one, and each says  *)
(* what its gates say of its own experiment (Judged); the ranking is by an   *)
(* order in which no two results are equal, so that ranks differ and one of  *)
(* those that pass is first.                                                 *)

Gates == {"count", "measure", "missing", "nothing", "dry_run", "command"}
Metric == [count : Nat, measure : Nat \cup {-1}, score : Int, own : BOOLEAN]
Result == [metrics : Metric, failures : SUBSET Gates]

ResultsTyped ==
  /\ spec \in Specs /\ dryRun \in BOOLEAN
  /\ judged \in Seq(Result) /\ Len(judged) <= Len(spec)

\* What passes was run, has measured something, and is above the gates that measure.
Deserved(r, e) ==
  /\ r.metrics.count > 0 /\ r.metrics.count >= e.minCount
  /\ e.mode = "signal_eval" => r.metrics.measure >= e.minMeasure

Judged == \A i \in DOMAIN judged : Passes(judged[i]) => ~dryRun /\ Deserved(judged[i], spec[i])

\* Once the ranking is written it is the ranking of the results.
Written ==
  research = "written" =>
    /\ Len(judged) = Len(spec)
    /\ ranks = [i \in DOMAIN judged |-> RankOf(i)]
    /\ advice = [i \in DOMAIN judged |->
                   CASE RankOf(i) = 0 -> "reject" [] RankOf(i) = 1 -> "promote_candidate"
                     [] OTHER -> "keep_testing"]

ResearchInv == ResultsTyped /\ Judged /\ Written

Gated == [mode : {"replay", "signal_eval"}, minCount : Nat \cup {-1}, minMeasure : Nat \cup {-1}]

LEMMA ResearchInvInit == ResearchInit => ResearchInv
<1> SUFFICES ASSUME ResearchInit PROVE ResearchInv
  OBVIOUS
<1>1. judged = <<>> /\ judged \in Seq(Result) /\ Len(judged) = 0 /\ DOMAIN judged = {}
      /\ spec \in Specs /\ dryRun \in BOOLEAN /\ research # "written"
  BY DEF ResearchInit
<1>2. spec \in Seq(Gated)
  BY <1>1, ExperimentAssumption DEF Gated
<1>3. Len(spec) \in Nat
  BY <1>2
<1> QED BY <1>1, <1>3 DEF ResearchInv, ResultsTyped, Judged, Written

\* The gates say of an experiment what it deserves.
LEMMA GatesHold ==
  ASSUME NEW e \in Gated, NEW m \in Metric, Failures(e, m) = {}
  PROVE  /\ m.count > 0 /\ m.count >= e.minCount
         /\ e.mode = "signal_eval" => m.measure >= e.minMeasure
<1> DEFINE measured == IF e.mode = "replay" /\ m.measure = -1 THEN 0 ELSE m.measure
<1>1. /\ e.mode \in {"replay", "signal_eval"} /\ e.minCount \in Nat \cup {-1}
      /\ e.minMeasure \in Nat \cup {-1} /\ m.count \in Nat /\ m.measure \in Nat \cup {-1}
  BY DEF Gated, Metric
<1>2. /\ ~(e.minCount # -1 /\ m.count < e.minCount)
      /\ ~(e.minMeasure # -1 /\ measured # -1 /\ measured < e.minMeasure)
      /\ ~(e.minMeasure # -1 /\ measured = -1)
      /\ m.count # 0
  BY DEF Failures
<1> QED BY <1>1, <1>2

LEMMA FailuresType ==
  ASSUME NEW e, NEW m PROVE Failures(e, m) \in SUBSET Gates
  BY DEF Failures, Gates

\* The row that is picked is one of the rows, or the metrics of none.
LEMMA PickedType ==
  ASSUME NEW rows \in RowSets PROVE Picked(rows) \in Metric
<1>1. Measurements \subseteq Metric /\ MaxRows \in Nat
  BY ExperimentAssumption DEF Metric
<1>2. PICK n \in 0..MaxRows : rows \in [1..n -> Measurements]
  BY DEF RowSets
<1>3. NoMetrics \in Metric
  BY DEF NoMetrics, Metric
<1>4. CASE \E i \in 1..n : rows[i].own
  <2> DEFINE First(i) == rows[i].own /\ \A j \in 1..(i - 1) : ~rows[j].own
             S == {k \in Nat : k <= n /\ (\E i \in 1..k : rows[i].own) => \E i \in 1..n : First(i)}
  <2>1. 0 \in S
    OBVIOUS
  <2>2. ASSUME NEW k \in Nat, k \in S PROVE k + 1 \in S
    <3> SUFFICES ASSUME k + 1 <= n, \E i \in 1..(k+1) : rows[i].own
                 PROVE  \E i \in 1..n : First(i)
      OBVIOUS
    <3>1. n \in Nat /\ k <= n
      BY <1>1
    <3>2. CASE \E i \in 1..k : rows[i].own
      BY <2>2, <3>1, <3>2
    <3>3. CASE ~ \E i \in 1..k : rows[i].own
      <4>1. rows[k+1].own
        BY <3>1, <3>3
      <4>2. k + 1 \in 1..n /\ (k + 1) - 1 = k
        BY <3>1
      <4>3. First(k + 1)
        BY <3>3, <4>1, <4>2
      <4> QED BY <4>2, <4>3
    <3> QED BY <3>2, <3>3
  <2>3. n \in S /\ n \in Nat
    <3>1. \A k \in Nat : k \in S => k + 1 \in S
      BY <2>2
    <3> HIDE DEF S
    <3> QED BY <1>1, <2>1, <3>1, NatSetInduction
  <2>4. \E i \in 1..n : First(i)
    BY <1>4, <2>3
  <2>5. DOMAIN rows = 1..n
    BY <1>2
  <2> DEFINE c == CHOOSE i \in DOMAIN rows : First(i)
  <2>6. c \in 1..n
    BY <2>4, <2>5
  <2>7. rows # <<>>
    BY <1>4, <2>5
  <2>8. Picked(rows) = rows[c]
    BY <1>4, <2>5, <2>7 DEF Picked
  <2> QED BY <1>1, <1>2, <2>6, <2>8
<1>5. CASE ~ \E i \in 1..n : rows[i].own
  <2>1. CASE rows = <<>>
    BY <1>3, <2>1 DEF Picked
  <2>2. CASE rows # <<>>
    <3>1. DOMAIN rows = 1..n /\ n # 0
      BY <1>2, <2>2
    <3>2. Picked(rows) = rows[1] /\ 1 \in 1..n
      BY <1>1, <1>5, <2>2, <3>1 DEF Picked
    <3> QED BY <1>1, <1>2, <3>2
  <2> QED BY <2>1, <2>2
<1> QED BY <1>4, <1>5

\* One more result.
LEMMA JudgeKeeps ==
  ASSUME ResearchInv, Running, NEW m \in Metric, NEW f \in SUBSET Gates, Judge(m, f),
         f = {} => /\ ~dryRun /\ Failures(Experiment, m) = {}
  PROVE  ResearchInv'
<1> DEFINE n == Len(judged)
           r == [metrics |-> m, failures |-> f]
<1>1. /\ judged \in Seq(Result) /\ spec \in Specs /\ dryRun \in BOOLEAN /\ n < Len(spec)
      /\ judged' = Append(judged, r) /\ research = "running"
      /\ UNCHANGED <<spec, dryRun, ranks, advice, research>>
  BY DEF ResearchInv, ResultsTyped, Judge, Running
<1>2. spec \in Seq(Gated) /\ Len(spec) \in Nat
  <2>1. spec \in Seq(Gated)
    BY <1>1, ExperimentAssumption DEF Gated
  <2> QED BY <2>1
<1>3. r \in Result
  BY DEF Result
<1>4. /\ n \in Nat /\ DOMAIN judged = 1..n /\ DOMAIN judged' = 1..(n+1) /\ Len(judged') = n + 1
      /\ judged' \in Seq(Result) /\ judged'[n+1] = r
      /\ \A i \in 1..n : judged'[i] = judged[i]
  <2> HIDE DEF r
  <2> QED BY <1>1, <1>3
<1>5. ResultsTyped'
  BY <1>1, <1>2, <1>4 DEF ResultsTyped
<1>6. Experiment = spec[n+1] /\ Experiment \in Gated
  BY <1>1, <1>2, <1>4 DEF Experiment
<1>7. f = {} => ~dryRun /\ Deserved(r, spec[n+1])
  <2> SUFFICES ASSUME f = {} PROVE ~dryRun /\ Deserved(r, spec[n+1])
    OBVIOUS
  <2>1. Failures(Experiment, m) = {} /\ ~dryRun
    OBVIOUS
  <2>2. /\ m.count > 0 /\ m.count >= Experiment.minCount
        /\ Experiment.mode = "signal_eval" => m.measure >= Experiment.minMeasure
    BY <1>6, <2>1, GatesHold
  <2> QED BY <1>6, <2>1, <2>2 DEF Deserved
<1>8. Judged'
  <2>1. \A i \in 1..n : Passes(judged[i]) => ~dryRun /\ Deserved(judged[i], spec[i])
    BY <1>4 DEF ResearchInv, Judged
  <2>2. r.failures = f
    OBVIOUS
  <2> HIDE DEF r
  <2>3. \A i \in 1..(n+1) : i \in 1..n \/ i = n + 1
    BY <1>4
  <2>4. \A i \in 1..(n+1) : Passes(judged'[i]) => ~dryRun /\ Deserved(judged'[i], spec[i])
    BY <1>4, <1>7, <2>1, <2>2, <2>3 DEF Passes
  <2> QED BY <1>1, <1>4, <2>4 DEF Judged
<1>9. Written'
  BY <1>1 DEF Written
<1> QED BY <1>5, <1>8, <1>9 DEF ResearchInv

LEMMA ResearchInvStep == ResearchInv /\ [ResearchNext]_researchVars => ResearchInv'
<1> SUFFICES ASSUME ResearchInv, [ResearchNext]_researchVars PROVE ResearchInv'
  OBVIOUS
<1>a. NoMetrics \in Metric /\ {"dry_run"} \in SUBSET Gates /\ {"command"} \in SUBSET Gates
  BY DEF NoMetrics, Metric, Gates
<1>b. Measurements \subseteq Metric
  BY ExperimentAssumption DEF Metric
<1>1. CASE NotRun
  BY <1>1, <1>a, JudgeKeeps DEF NotRun
<1>2. CASE CommandFails
  BY <1>2, <1>a, JudgeKeeps DEF CommandFails
<1>3. CASE ArtifactUnreadable
  BY <1>3 DEF ArtifactUnreadable, ResearchInv, ResultsTyped, Judged, Deserved, Written
<1>4. CASE RankResults
  <2>1. UNCHANGED <<spec, dryRun, judged>> /\ Len(judged) = Len(spec)
    BY <1>4 DEF RankResults
  <2>2. \A i : RankOf(i)' = RankOf(i)
    BY <2>1 DEF RankOf, Passing, Passes, Before, Score
  <2>3. /\ ranks' = [i \in DOMAIN judged |-> RankOf(i)]
        /\ advice' = [i \in DOMAIN judged |->
                        CASE RankOf(i) = 0 -> "reject" [] RankOf(i) = 1 -> "promote_candidate"
                          [] OTHER -> "keep_testing"]
    BY <1>4 DEF RankResults
  <2>4. Written'
    BY <2>1, <2>2, <2>3 DEF Written
  <2>5. ResultsTyped' /\ Judged'
    BY <2>1 DEF ResearchInv, ResultsTyped, Judged, Deserved
  <2> QED BY <2>4, <2>5 DEF ResearchInv
<1>5. ASSUME NEW m \in Measurements, ReplayDone(m) PROVE ResearchInv'
  <2>1. m \in Metric /\ Failures(Experiment, m) \in SUBSET Gates
    BY <1>b, FailuresType
  <2> QED BY <1>5, <2>1, JudgeKeeps DEF ReplayDone
<1>6. ASSUME NEW rows \in RowSets, SignalsDone(rows) PROVE ResearchInv'
  <2>1. Picked(rows) \in Metric /\ Failures(Experiment, Picked(rows)) \in SUBSET Gates
    BY PickedType, FailuresType
  <2> QED BY <1>6, <2>1, JudgeKeeps DEF SignalsDone
<1>7. CASE UNCHANGED researchVars
  <2>1. UNCHANGED <<spec, dryRun, judged, ranks, advice, research>>
    BY <1>7 DEF researchVars
  <2>2. \A i : RankOf(i)' = RankOf(i)
    BY <2>1 DEF RankOf, Passing, Passes, Before, Score
  <2>3. Written'
    BY <2>1, <2>2 DEF ResearchInv, Written
  <2> QED BY <2>1, <2>3 DEF ResearchInv, ResultsTyped, Judged, Deserved
<1> QED BY <1>1, <1>2, <1>3, <1>4, <1>5, <1>6, <1>7 DEF ResearchNext

-------------------------------------------------------------------------------
\* The order of the results is strict and total.
LEMMA BeforeOrders ==
  ASSUME ResultsTyped
  PROVE  /\ Passing \subseteq 1..Len(judged) /\ Len(judged) \in Nat
         /\ IsFiniteSet(Passing)
         /\ \A i \in 1..Len(judged) : Score(i) \in Int
         /\ \A i \in 1..Len(judged) : ~Before(i, i)
         /\ \A i, j \in 1..Len(judged) : i = j \/ Before(i, j) \/ Before(j, i)
         /\ \A i, j, k \in 1..Len(judged) : Before(i, j) /\ Before(j, k) => Before(i, k)
<1>1. Len(judged) \in Nat /\ DOMAIN judged = 1..Len(judged)
      /\ \A i \in 1..Len(judged) : judged[i] \in Result
  BY DEF ResultsTyped
<1>2. \A i \in 1..Len(judged) : Score(i) \in Int
  BY <1>1 DEF Score, Result, Metric
<1>3. Passing \subseteq 1..Len(judged)
  BY <1>1 DEF Passing
<1>4. IsFiniteSet(Passing)
  <2>1. IsFiniteSet(1..Len(judged))
    BY <1>1, FS_Interval
  <2> QED BY <1>3, <2>1, FS_Subset
<1> DEFINE n == Len(judged)
<1>5. n \in Nat
  BY <1>1
<1> HIDE DEF n
<1>6. /\ \A i \in 1..n : ~Before(i, i)
      /\ \A i, j \in 1..n : i = j \/ Before(i, j) \/ Before(j, i)
      /\ \A i, j, k \in 1..n : Before(i, j) /\ Before(j, k) => Before(i, k)
  BY <1>2, <1>5 DEF Before, n
<1> QED BY <1>1, <1>2, <1>3, <1>4, <1>6 DEF n

\* A strict total order has a first element in every set of numbers up to a bound.
LEMMA FirstOfOrder ==
  ASSUME NEW n \in Nat, NEW P \in SUBSET (1..n), P # {}, NEW R,
         \A i \in 1..n : <<i, i>> \notin R,
         \A i, j, k \in 1..n : <<i, j>> \in R /\ <<j, k>> \in R => <<i, k>> \in R
  PROVE  \E i \in P : \A j \in P : <<j, i>> \notin R
<1> DEFINE U(k) == {i \in P : i <= k}
           First(k) == \E i \in U(k) : \A j \in U(k) : <<j, i>> \notin R
           S == {k \in 0..n : U(k) # {} => First(k)}
<1>0. \A i \in P : i \in Int /\ 1 <= i /\ i <= n
  OBVIOUS
<1>1. 0 \in S
  <2>1. \A i \in P : ~(i <= 0)
    BY <1>0
  <2>2. U(0) = {}
    BY <2>1
  <2>3. 0 \in 0..n
    OBVIOUS
  <2> QED BY <2>2, <2>3
<1>2. ASSUME NEW k \in 0..n, k + 1 \in 0..n, k \in S PROVE k + 1 \in S
  <2>1. CASE k + 1 \notin P
    <3>1. U(k + 1) = U(k)
      <4>1. \A i \in P : i <= k + 1 <=> i <= k
        BY <1>0, <2>1
      <4> QED BY <4>1
    <3> QED BY <1>2, <3>1
  <2>2. CASE k + 1 \in P
    <3>1. U(k + 1) = U(k) \cup {k + 1} /\ U(k) \subseteq 1..n /\ k + 1 \in 1..n
      <4>1. \A i \in P : i <= k + 1 <=> i <= k \/ i = k + 1
        BY <1>0
      <4>2. \A i : i \in U(k + 1) <=> i \in U(k) \cup {k + 1}
        <5>1. k + 1 <= k + 1 /\ k + 1 \in P
          BY <2>2
        <5> QED BY <4>1, <5>1
      <4>3. U(k) \subseteq 1..n /\ k + 1 \in 1..n
        BY <2>2
      <4> HIDE DEF U
      <4> QED BY <4>2, <4>3
    <3> HIDE DEF U
    <3>2. CASE U(k) = {}
      BY <1>2, <3>1, <3>2
    <3>3. CASE U(k) # {}
      <4>1. PICK i \in U(k) : \A j \in U(k) : <<j, i>> \notin R
        BY <1>2, <3>3
      <4>2. CASE <<k + 1, i>> \in R
        <5>1. \A j \in U(k) : <<j, k + 1>> \notin R
          BY <3>1, <4>1, <4>2
        <5> QED BY <1>2, <3>1, <5>1
      <4>3. CASE <<k + 1, i>> \notin R
        BY <1>2, <3>1, <4>1, <4>3
      <4> QED BY <4>2, <4>3
    <3> QED BY <3>2, <3>3
  <2> QED BY <2>1, <2>2
<1>3. n \in S
  <2> HIDE DEF S
  <2>1. 0..n \subseteq S
    BY <1>1, <1>2, BoundedSetInduction
  <2> QED BY <2>1
<1>4. U(n) = P
  BY <1>0
<1> QED BY <1>3, <1>4

\* Among those that pass one comes before all others.
LEMMA OneIsFirst ==
  ASSUME ResultsTyped, Passing # {}
  PROVE  \E i \in Passing : \A j \in Passing : ~Before(j, i)
<1> DEFINE n == Len(judged)
           R == {p \in (1..n) \X (1..n) : Before(p[1], p[2])}
<1>1. n \in Nat /\ Passing \in SUBSET (1..n)
  BY BeforeOrders
<1>2. \A i, j \in 1..n : <<i, j>> \in R <=> Before(i, j)
  OBVIOUS
<1>3. \A i \in 1..n : ~Before(i, i)
  BY BeforeOrders
<1>4. \A i, j, k \in 1..n : Before(i, j) /\ Before(j, k) => Before(i, k)
  BY BeforeOrders
<1> HIDE DEF R, n
<1>5. /\ \A i \in 1..n : <<i, i>> \notin R
      /\ \A i, j, k \in 1..n : <<i, j>> \in R /\ <<j, k>> \in R => <<i, k>> \in R
  BY <1>2, <1>3, <1>4
<1>6. \E i \in Passing : \A j \in Passing : <<j, i>> \notin R
  BY <1>1, <1>5, FirstOfOrder
<1> QED BY <1>1, <1>2, <1>6

\* Ranks of results that pass count from one, and differ.
LEMMA RanksDiffer ==
  ASSUME ResultsTyped
  PROVE  /\ \A i \in Passing : /\ RankOf(i) \in Nat \ {0}
                               /\ RankOf(i) = 1 <=> \A j \in Passing : ~Before(j, i)
         /\ \A i, j \in Passing : Before(i, j) => RankOf(i) < RankOf(j)
<1> DEFINE Ahead(i) == {j \in Passing : Before(j, i)}
<1>1. \A i : IsFiniteSet(Ahead(i)) /\ Cardinality(Ahead(i)) \in Nat
  <2>1. \A i : Ahead(i) \in SUBSET Passing
    OBVIOUS
  <2> QED BY <2>1, BeforeOrders, FS_Subset, FS_CardinalityType
<1>2. \A i \in Passing : RankOf(i) = 1 + Cardinality(Ahead(i))
  BY DEF RankOf
<1>3. \A i \in Passing : Cardinality(Ahead(i)) = 0 <=> Ahead(i) = {}
  BY <1>1, FS_EmptySet
<1>4. ASSUME NEW i \in Passing, NEW j \in Passing, Before(i, j) PROVE RankOf(i) < RankOf(j)
  <2>1. Passing \subseteq 1..Len(judged)
    BY BeforeOrders
  <2>2. i \notin Ahead(i)
    BY <2>1, BeforeOrders
  <2>3. Ahead(i) \cup {i} \subseteq Ahead(j)
    BY <1>4, <2>1, BeforeOrders
  <2> HIDE DEF Ahead
  <2>4. /\ IsFiniteSet(Ahead(i) \cup {i})
        /\ Cardinality(Ahead(i) \cup {i}) = Cardinality(Ahead(i)) + 1
    BY <1>1, <2>2, FS_AddElement
  <2>5. Cardinality(Ahead(i) \cup {i}) <= Cardinality(Ahead(j))
    BY <1>1, <2>3, FS_Subset
  <2> QED BY <1>1, <1>2, <2>4, <2>5
<1>5. \A i \in Passing : /\ RankOf(i) \in Nat \ {0}
                         /\ RankOf(i) = 1 <=> \A j \in Passing : ~Before(j, i)
  <2>1. \A i \in Passing : Ahead(i) = {} <=> \A j \in Passing : ~Before(j, i)
    OBVIOUS
  <2> HIDE DEF Ahead
  <2> QED BY <1>1, <1>2, <1>3, <2>1
<1> QED BY <1>4, <1>5

LEMMA ResearchPromotes == ResearchInv => PromotesTheBest
<1> SUFFICES ASSUME ResearchInv, research = "written" PROVE PromotesTheBest
  BY DEF PromotesTheBest
<1>1. /\ ResultsTyped /\ Judged /\ Len(judged) = Len(spec)
      /\ ranks = [i \in DOMAIN judged |-> RankOf(i)]
      /\ advice = [i \in DOMAIN judged |->
                     CASE RankOf(i) = 0 -> "reject" [] RankOf(i) = 1 -> "promote_candidate"
                       [] OTHER -> "keep_testing"]
  BY DEF ResearchInv, Written
<1>2. /\ Len(judged) \in Nat /\ DOMAIN judged = 1..Len(judged) /\ Passing \subseteq DOMAIN judged
      /\ \A i \in DOMAIN judged : i \in Passing <=> Passes(judged[i])
  BY <1>1 DEF ResultsTyped, Passing
<1>3. \A i \in DOMAIN judged : i \notin Passing => RankOf(i) = 0
  BY DEF RankOf
<1>4. /\ \A i \in Passing : /\ RankOf(i) \in Nat \ {0}
                            /\ RankOf(i) = 1 <=> \A j \in Passing : ~Before(j, i)
      /\ \A i, j \in Passing : Before(i, j) => RankOf(i) < RankOf(j)
  BY <1>1, RanksDiffer
<1>5. \A i \in DOMAIN judged :
        /\ advice[i] # "reject" => i \in Passing
        /\ advice[i] = "promote_candidate" <=> i \in Passing /\ RankOf(i) = 1
  BY <1>1, <1>3, <1>4
<1>6. DOMAIN advice = DOMAIN judged
  BY <1>1
<1>7. \A i, j \in Passing : i = j \/ Before(i, j) \/ Before(j, i)
  BY <1>1, <1>2, BeforeOrders
<1>8. \A i, j \in Passing : RankOf(i) = RankOf(j) => i = j
  BY <1>4, <1>7
<1> DEFINE Promoted == {i \in DOMAIN advice : advice[i] = "promote_candidate"}
<1>9. Cardinality(Promoted) = IF Passing = {} THEN 0 ELSE 1
  <2>1. CASE Passing = {}
    <3>1. Promoted = {}
      BY <1>5, <1>6, <2>1
    <3> QED BY <2>1, <3>1, FS_EmptySet
  <2>2. CASE Passing # {}
    <3>1. PICK i \in Passing : \A j \in Passing : ~Before(j, i)
      BY <1>1, <2>2, OneIsFirst
    <3>2. RankOf(i) = 1
      BY <1>4, <3>1
    <3>3. Promoted = {i}
      BY <1>2, <1>5, <1>6, <1>8, <3>1, <3>2
    <3> HIDE DEF Promoted
    <3> QED BY <2>2, <3>3, FS_Singleton
  <2> QED BY <2>1, <2>2
<1>10. ASSUME NEW i \in DOMAIN advice, advice[i] = "promote_candidate" PROVE Best(i)
  <2>1. i \in Passing /\ \A j \in Passing : ~Before(j, i)
    BY <1>4, <1>5, <1>6, <1>10
  <2>2. \A j \in Passing : Score(j) \in Int /\ Score(i) \in Int
    BY <1>1, <1>2, <2>1, BeforeOrders
  <2> QED BY <2>1, <2>2 DEF Best, Before
<1>11. ASSUME NEW i \in DOMAIN advice, advice[i] # "reject"
       PROVE  /\ ~dryRun /\ judged[i].metrics.count > 0
              /\ judged[i].metrics.count >= spec[i].minCount
              /\ spec[i].mode = "signal_eval" => judged[i].metrics.measure >= spec[i].minMeasure
  <2>1. ~dryRun /\ Deserved(judged[i], spec[i])
    BY <1>1, <1>2, <1>5, <1>6, <1>11 DEF Judged
  <2> QED BY <2>1 DEF Deserved
<1>12. ASSUME NEW i \in DOMAIN advice, NEW j \in DOMAIN advice, ranks[i] = ranks[j], ranks[i] # 0
       PROVE  i = j
  <2>1. ranks[i] = RankOf(i) /\ ranks[j] = RankOf(j)
    BY <1>1, <1>6
  <2>2. i \in Passing /\ j \in Passing
    BY <1>3, <1>6, <1>12, <2>1
  <2> QED BY <1>8, <1>12, <2>1, <2>2
<1> QED BY <1>1, <1>9, <1>10, <1>11, <1>12 DEF PromotesTheBest

\* Of the results that pass, one with the best score is promoted and no other, ranks
\* differ, and whatever is promoted or kept was run, measured something and is above its
\* gates, for any experiments, measurements and rows (apply_ranking, evaluate_gates).
THEOREM TheBestIsPromoted == ResearchSpec => []PromotesTheBest
<1> QED BY ResearchInvInit, ResearchInvStep, ResearchPromotes, PTL DEF ResearchSpec

-------------------------------------------------------------------------------
(* The trade records.  A fill changes one token: what it adds to the money, *)
(* to the stake and to the results together is nothing.  The report adds    *)
(* the same results up, each under the one name of its strategy.            *)

Trades == [strategy : Sources, pnl : Int]

RecordTypes ==
  /\ net \in [RecTokens -> Int] /\ cash \in [RecTokens -> Int]
  /\ completed \in Seq(Trades)
  /\ DOMAIN openTrades = RecTokens
  /\ \A t \in RecTokens :
       \/ openTrades[t] = NoTrade
       \/ /\ openTrades[t] \in [side : {"BUY", "SELL"}, size : Nat, cost : Int, strategy : Sources]
          /\ openTrades[t].size > 0

Accounts == [t \in RecTokens |-> cash[t] + Stake(t)]

RecordInv ==
  odd = {} =>
    /\ RecordTypes
    /\ \A t \in RecTokens : net[t] = Signed(openTrades[t].side, openTrades[t].size)
    /\ TotalOf(completed) = TotalAlong(RecTokens, Accounts)
    /\ report # NoReport =>
         /\ report.session.pnl = TotalOf(completed)
         /\ TotalAlong(ReportNames, [n \in ReportNames |-> report.strategies[n].pnl])
              = TotalOf(completed)

\* The results of trades are integers, one for each.
LEMMA ResultsOfTrades ==
  ASSUME NEW c \in Seq(Trades)
  PROVE  /\ DOMAIN c = 1..Len(c)
         /\ [i \in DOMAIN c |-> c[i].pnl] \in Seq(Int)
         /\ Len([i \in DOMAIN c |-> c[i].pnl]) = Len(c)
<1>1. /\ Len(c) \in Nat /\ DOMAIN c = 1..Len(c)
      /\ \A i \in 1..Len(c) : c[i] \in Trades
  OBVIOUS
<1>2. [i \in 1..Len(c) |-> c[i].pnl] \in [1..Len(c) -> Int]
  BY <1>1 DEF Trades
<1> QED
  BY <1>1, <1>2

\* One more trade adds its result.
LEMMA OneMoreTrade ==
  ASSUME NEW c \in Seq(Trades), NEW r \in Trades
  PROVE  TotalOf(Append(c, r)) = TotalOf(c) + r.pnl
<1> DEFINE s == [i \in DOMAIN c |-> c[i].pnl]
           a == [i \in DOMAIN Append(c, r) |-> Append(c, r)[i].pnl]
<1>1. s \in Seq(Int) /\ Len(s) = Len(c) /\ Len(c) \in Nat
  BY ResultsOfTrades
<1>2. Append(c, r) \in Seq(Trades) /\ Len(Append(c, r)) = Len(c) + 1
  OBVIOUS
<1>3. a \in Seq(Int) /\ Len(a) = Len(c) + 1
  BY <1>2, ResultsOfTrades
<1>4. \A i \in 1..Len(s) : a[i] = s[i]
  BY <1>1, <1>2, ResultsOfTrades
<1>5. a[Len(s)+1] = r.pnl
  BY <1>1, <1>2, ResultsOfTrades
<1> HIDE DEF s, a
<1>6. SeqTotal(a) = SeqTotal(s) + a[Len(s)+1]
  BY <1>1, <1>3, <1>4, SeqTotalExtend
<1> QED
  BY <1>5, <1>6 DEF TotalOf, s, a

\* The results under the names that reports use, one name after the other, are all.
LEMMA NamesShareTheTotal ==
  ASSUME completed \in Seq(Trades)
  PROVE  TotalAlong(ReportNames, [n \in ReportNames |-> Analyzed(Named(n)).pnl]) = TotalOf(completed)
<1> DEFINE L == Len(completed)
           all == [i \in 1..L |-> completed[i].pnl]
           of(n) == [i \in 1..L |-> IF i \in Named(n) THEN completed[i].pnl ELSE 0]
           upTo(i) == [n \in ReportNames |-> PartialSums(of(n), L)[i]]
           Sum(f) == SumAlong(Enumeration(ReportNames), Cardinality(ReportNames), f)
           S == {i \in 0..L : Sum(upTo(i)) = PartialSums(all, L)[i]}
<1>1. /\ L \in Nat /\ DOMAIN completed = 1..L
      /\ \A i \in 1..L : completed[i] \in Trades
  OBVIOUS
<1>2. /\ all \in [1..L -> Int]
      /\ \A n \in ReportNames : of(n) \in [1..L -> Int]
  BY <1>1 DEF Trades
<1>3. IsFiniteSet(ReportNames)
  <2>1. IsFiniteSet(Sources)
    BY RecordAssumption
  <2> DEFINE name == [s \in Sources |-> ReportName[s]]
  <2>2. name \in Surjection(Sources, ReportNames)
    BY DEF ReportNames, Surjection
  <2> HIDE DEF name
  <2> QED
    BY <2>1, <2>2, FS_Surjection
<1>4. \A i \in 0..L : upTo(i) \in [ReportNames -> Int]
  BY <1>1, <1>2, PartialSumsType
<1>5. 0 \in S
  <2>1. \A n \in ReportNames : PartialSums(of(n), L)[0] = 0
    BY <1>1, <1>2, PartialSumsStep
  <2>2. PartialSums(all, L)[0] = 0
    BY <1>1, <1>2, PartialSumsStep
  <2>3. \A n \in ReportNames : upTo(0)[n] = 0
    BY <2>1
  <2>4. upTo(0) \in [ReportNames -> Int]
    BY <1>1, <1>4
  <2> HIDE DEF upTo, of, all
  <2>5. Sum(upTo(0)) = 0
    BY <1>3, <2>3, <2>4, SumZero
  <2> QED
    BY <1>1, <2>2, <2>5
<1>6. ASSUME NEW i \in 0..L, i + 1 \in 0..L, i \in S PROVE i + 1 \in S
  <2> DEFINE x == ReportName[completed[i+1].strategy]
  <2>1. i + 1 \in 1..L
    BY <1>1, <1>6
  <2>2. x \in ReportNames /\ completed[i+1].pnl \in Int
    BY <1>1, <2>1 DEF ReportNames, Trades
  <2>3. of(x)[i+1] = completed[i+1].pnl
    BY <1>1, <2>1 DEF Named
  <2>4. \A n \in ReportNames : n # x => of(n)[i+1] = 0
    BY <1>1, <2>1 DEF Named
  <2>5. all[i+1] = completed[i+1].pnl
    BY <2>1
  <2>6. \A n \in ReportNames :
          /\ PartialSums(of(n), L)[i] \in Int
          /\ PartialSums(of(n), L)[i+1] = PartialSums(of(n), L)[i] + of(n)[i+1]
    BY <1>1, <1>2, <1>6, PartialSumsStep, PartialSumsType
  <2>7. PartialSums(all, L)[i+1] = PartialSums(all, L)[i] + all[i+1]
    BY <1>1, <1>2, <1>6, PartialSumsStep
  <2>8. upTo(i) \in [ReportNames -> Int] /\ upTo(i+1) \in [ReportNames -> Int]
    BY <1>4, <1>6
  <2>9. \A n \in ReportNames : n # x => upTo(i+1)[n] = upTo(i)[n]
    BY <2>4, <2>6
  <2>10. upTo(i+1)[x] - upTo(i)[x] = completed[i+1].pnl
    <3>1. upTo(i+1)[x] = PartialSums(of(x), L)[i+1] /\ upTo(i)[x] = PartialSums(of(x), L)[i]
      BY <2>2
    <3>2. /\ PartialSums(of(x), L)[i] \in Int
          /\ PartialSums(of(x), L)[i+1] = PartialSums(of(x), L)[i] + of(x)[i+1]
      <4> HIDE DEF x, of, L
      <4> QED
        BY <2>2, <2>6
    <3> HIDE DEF upTo, of, L, x
    <3> QED
      BY <2>2, <2>3, <3>1, <3>2
  <2>11. Sum(upTo(i)) = PartialSums(all, L)[i]
    BY <1>6
  <2>12. Sum(upTo(i)) \in Int /\ upTo(i)[x] \in Int /\ upTo(i+1)[x] \in Int
    <3>1. upTo(i)[x] \in Int /\ upTo(i+1)[x] \in Int
      BY <2>2, <2>8
    <3> HIDE DEF upTo, of, all, x
    <3> QED
      BY <1>3, <2>8, <3>1, SumType
  <2> HIDE DEF upTo, of, all, x
  <2>13. Sum(upTo(i+1)) = Sum(upTo(i)) + upTo(i+1)[x] - upTo(i)[x]
    BY <1>3, <2>2, <2>8, <2>9, SumUpdate
  <2>14. Sum(upTo(i+1)) = PartialSums(all, L)[i+1]
    BY <2>2, <2>5, <2>7, <2>10, <2>11, <2>12, <2>13
  <2> QED
    BY <1>6, <2>14
<1>7. 0..L \subseteq S
  <2> HIDE DEF S, L
  <2> QED
    BY <1>1, <1>5, <1>6, BoundedSetInduction
<1>8. Sum(upTo(L)) = PartialSums(all, L)[L]
  <2>1. L \in S
    <3>1. L \in 0..L
      BY <1>1
    <3> HIDE DEF S, L
    <3> QED
      BY <1>7, <3>1
  <2> QED
    BY <2>1
<1>9. PartialSums(all, L)[L] = TotalOf(completed)
  BY <1>1, <1>2 DEF TotalOf, SeqTotal
<1>10. \A n \in ReportNames : upTo(L)[n] = Analyzed(Named(n)).pnl
  BY <1>1, <1>2 DEF Analyzed, SeqTotal
<1>11. upTo(L) = [n \in ReportNames |-> Analyzed(Named(n)).pnl]
  BY <1>10
<1> QED
  BY <1>8, <1>9, <1>11 DEF TotalAlong

\* What a fill adds to the account of its token is what it adds to the results.
LEMMA OneTokenChanges ==
  ASSUME RecordTypes, RecordTypes', NEW t \in RecTokens,
         \A u \in RecTokens : u # t => openTrades'[u] = openTrades[u] /\ cash'[u] = cash[u]
  PROVE  /\ TotalAlong(RecTokens, Accounts) \in Int
         /\ Accounts[t] \in Int /\ Accounts'[t] \in Int
         /\ TotalAlong(RecTokens, Accounts') = TotalAlong(RecTokens, Accounts) + Accounts'[t] - Accounts[t]
<1>1. Accounts \in [RecTokens -> Int]
  <2>1. ASSUME NEW u \in RecTokens PROVE Stake(u) \in Int
    <3>1. CASE openTrades[u] = NoTrade
      BY <3>1 DEF Stake, Signed, NoTrade
    <3>2. CASE openTrades[u].cost \in Int
      BY <3>2 DEF Stake, Signed
    <3> QED
      BY <3>1, <3>2 DEF RecordTypes
  <2> QED
    BY <2>1 DEF RecordTypes, Accounts
<1>2. Accounts' \in [RecTokens -> Int]
  <2>1. ASSUME NEW u \in RecTokens PROVE Stake(u)' \in Int
    <3>1. CASE openTrades'[u] = NoTrade
      BY <3>1 DEF Stake, Signed, NoTrade
    <3>2. CASE openTrades'[u].cost \in Int
      BY <3>2 DEF Stake, Signed
    <3> QED
      BY <3>1, <3>2 DEF RecordTypes
  <2> QED
    BY <2>1 DEF RecordTypes, Accounts
<1>3. \A u \in RecTokens : u # t => Accounts'[u] = Accounts[u]
  BY DEF Accounts, Stake
<1>4. IsFiniteSet(RecTokens)
  BY RecordAssumption
<1> HIDE DEF Accounts
<1>5. TotalAlong(RecTokens, Accounts) \in Int
  BY <1>1, <1>4, SumType DEF TotalAlong
<1> QED
  BY <1>1, <1>2, <1>3, <1>4, <1>5, SumUpdate DEF TotalAlong

LEMMA RecordFill ==
  ASSUME RecordInv, odd' = {}, NEW t \in RecTokens, NEW side \in {"BUY", "SELL"},
         NEW p \in FillPrices, NEW n \in FillSizes, NEW s \in Sources, OnFill(t, side, p, n, s)
  PROVE  RecordInv'
<1> DEFINE r == openTrades[t]
           exits == r.size > 0 /\ r.side # side
<1>1. odd = {} /\ (exits => n = r.size)
  BY DEF OnFill
<1>2. /\ RecordTypes /\ TotalOf(completed) = TotalAlong(RecTokens, Accounts)
      /\ \A u \in RecTokens : net[u] = Signed(openTrades[u].side, openTrades[u].size)
  BY <1>1 DEF RecordInv
<1>3. p \in Nat /\ n \in Nat /\ n > 0 /\ p * n \in Nat
  <2>1. p \in Nat /\ n \in Nat /\ n > 0
    BY RecordAssumption
  <2> QED
    BY <2>1
<1>4. /\ report' = NoReport
      /\ net' = [net EXCEPT ![t] = @ + Signed(side, n)]
      /\ cash' = [cash EXCEPT ![t] = @ - Signed(side, p * n)]
  BY DEF OnFill, NoReport
<1>5. Signed(side, n) \in Int /\ Signed(side, p * n) \in Int
  BY <1>3 DEF Signed
<1>6. net' \in [RecTokens -> Int] /\ cash' \in [RecTokens -> Int]
  BY <1>2, <1>4, <1>5 DEF RecordTypes
<1>7. /\ DOMAIN openTrades' = RecTokens
      /\ \A u \in RecTokens : u # t => openTrades'[u] = openTrades[u] /\ cash'[u] = cash[u]
                                        /\ net'[u] = net[u]
  BY <1>2, <1>4 DEF RecordTypes, OnFill
<1>8. /\ cash'[t] = cash[t] - Signed(side, p * n) /\ cash[t] \in Int
      /\ net'[t] = net[t] + Signed(side, n) /\ net[t] \in Int
  BY <1>2, <1>4 DEF RecordTypes
<1>9. CASE exits
  <2>1. openTrades'[t] = NoTrade /\ completed' = Append(completed, [strategy |-> r.strategy, pnl |-> Outcome(r, p)])
    <3>1. Remainder(r, n) = NoTrade
      BY <1>1, <1>3, <1>9 DEF Remainder
    <3>2. r.size # 0
      BY <1>9
    <3> QED
      BY <1>2, <1>9, <3>1, <3>2 DEF OnFill, RecordTypes
  <2>2. /\ r.side \in {"BUY", "SELL"} /\ r.cost \in Int /\ r.strategy \in Sources
        /\ r.size = n /\ r.side # side
    BY <1>1, <1>2, <1>9 DEF RecordTypes, NoTrade
  <2>3. /\ Outcome(r, p) \in Int
        /\ Outcome(r, p) = - Signed(side, p * n) - Signed(r.side, r.cost)
    BY <1>3, <2>2 DEF Outcome, Signed
  <2>4. [strategy |-> r.strategy, pnl |-> Outcome(r, p)] \in Trades
    BY <2>2, <2>3 DEF Trades
  <2>5. completed' \in Seq(Trades) /\ TotalOf(completed') = TotalOf(completed) + Outcome(r, p)
    <3>1. completed \in Seq(Trades)
      BY <1>2 DEF RecordTypes
    <3> QED
      BY <2>1, <2>4, <3>1, OneMoreTrade
  <2>6. RecordTypes'
    BY <1>2, <1>6, <1>7, <2>1, <2>5 DEF RecordTypes
  <2>7. Accounts'[t] - Accounts[t] = Outcome(r, p)
    <3>1. Accounts[t] = cash[t] + Signed(r.side, r.cost)
      BY DEF Accounts, Stake
    <3>2. Accounts'[t] = cash'[t]
      BY <1>6, <1>8, <2>1 DEF Accounts, Stake, Signed, NoTrade, RecordTypes
    <3>3. Signed(r.side, r.cost) \in Int /\ cash[t] \in Int
      BY <1>8, <2>2 DEF Signed
    <3> QED
      BY <1>5, <1>8, <2>3, <3>1, <3>2, <3>3
  <2>8. TotalOf(completed') = TotalAlong(RecTokens, Accounts')
    BY <1>2, <1>7, <2>3, <2>5, <2>6, <2>7, OneTokenChanges
  <2>9. \A u \in RecTokens : net'[u] = Signed(openTrades'[u].side, openTrades'[u].size)
    <3>1. net'[t] = Signed(openTrades'[t].side, openTrades'[t].size)
      <4>1. net'[t] = Signed(r.side, n) + Signed(side, n)
        BY <1>2, <1>8, <2>2
      <4>2. Signed(r.side, n) + Signed(side, n) = 0
        BY <1>3, <2>2 DEF Signed
      <4>3. Signed(openTrades'[t].side, openTrades'[t].size) = 0
        <5>1. openTrades'[t].side = "none" /\ openTrades'[t].size = 0
          BY <2>1 DEF NoTrade
        <5>2. \A k \in Int : Signed("none", k) = -k
          BY DEF Signed
        <5> QED
          BY <5>1, <5>2
      <4> QED
        BY <4>1, <4>2, <4>3
    <3> QED
      BY <1>2, <1>7, <3>1
  <2> QED
    BY <1>4, <2>6, <2>8, <2>9 DEF RecordInv
<1>10. CASE ~exits
  <2> DEFINE q == openTrades'[t]
  <2>1. /\ completed' = completed
        /\ q = IF r.size = 0 THEN [side |-> side, size |-> n, cost |-> p * n, strategy |-> s]
               ELSE Joined(r, p, n)
    BY <1>2, <1>10 DEF OnFill, RecordTypes
  <2>2. /\ q \in [side : {"BUY", "SELL"}, size : Nat, cost : Int, strategy : Sources]
        /\ q.size > 0
        /\ Signed(q.side, q.size) = Signed(r.side, r.size) + Signed(side, n)
        /\ Signed(q.side, q.cost) = Signed(r.side, r.cost) + Signed(side, p * n)
        /\ Signed(r.side, r.cost) \in Int
    <3>1. CASE r = NoTrade
      BY <1>3, <2>1, <3>1 DEF NoTrade, Signed
    <3>2. CASE r # NoTrade
      <4>1. /\ r \in [side : {"BUY", "SELL"}, size : Nat, cost : Int, strategy : Sources]
            /\ r.size > 0 /\ r.side = side
        BY <1>2, <1>10, <3>2 DEF RecordTypes
      <4>2. q = [r EXCEPT !.size = @ + n, !.cost = @ + p * n]
        BY <2>1, <4>1 DEF Joined
      <4> DEFINE pn == p * n
      <4>3. pn \in Nat
        BY <1>3
      <4>4. q = [r EXCEPT !.size = @ + n, !.cost = @ + pn]
        BY <4>2
      <4> HIDE DEF pn, q, r
      <4>5. /\ q \in [side : {"BUY", "SELL"}, size : Nat, cost : Int, strategy : Sources]
            /\ q.side = side /\ q.size = r.size + n /\ q.cost = r.cost + pn
        <5>1. /\ DOMAIN r = {"side", "size", "cost", "strategy"}
              /\ r.side = side /\ r.size \in Nat /\ r.cost \in Int /\ r.strategy \in Sources
          BY <4>1
        <5>2. q = [side |-> r.side, size |-> r.size + n, cost |-> r.cost + pn, strategy |-> r.strategy]
          BY <4>1, <4>4
        <5> QED
          BY <1>3, <4>3, <5>1, <5>2
      <4>6. /\ q.size > 0 /\ r.size \in Int /\ r.cost \in Int
            /\ Signed(side, r.size + n) = Signed(side, r.size) + Signed(side, n)
            /\ Signed(side, r.cost + pn) = Signed(side, r.cost) + Signed(side, pn)
            /\ Signed(side, r.cost) \in Int
        BY <1>3, <4>1, <4>3, <4>5 DEF Signed
      <4> QED
        BY <4>1, <4>5, <4>6 DEF pn
    <3> QED
      BY <3>1, <3>2
  <2>3. RecordTypes'
    BY <1>2, <1>6, <1>7, <2>1, <2>2 DEF RecordTypes
  <2>4. Accounts'[t] = Accounts[t]
    <3>1. Accounts[t] = cash[t] + Signed(r.side, r.cost)
      BY DEF Accounts, Stake
    <3>2. Accounts'[t] = cash'[t] + Signed(q.side, q.cost)
      BY DEF Accounts, Stake
    <3> HIDE DEF q, r
    <3> QED
      BY <1>5, <1>8, <2>2, <3>1, <3>2
  <2>5. TotalOf(completed') = TotalAlong(RecTokens, Accounts')
    BY <1>2, <1>7, <2>1, <2>3, <2>4, OneTokenChanges
  <2>6. \A u \in RecTokens : net'[u] = Signed(openTrades'[u].side, openTrades'[u].size)
    <3>1. net'[t] = Signed(openTrades'[t].side, openTrades'[t].size)
      BY <1>2, <1>8, <2>2
    <3> QED
      BY <1>2, <1>7, <3>1
  <2> QED
    BY <1>4, <2>3, <2>5, <2>6 DEF RecordInv
<1> QED
  BY <1>9, <1>10

\* The report is made of what is complete.
LEMMA RecordReport ==
  ASSUME RecordInv, RunAnalysis
  PROVE  RecordInv'
<1> SUFFICES ASSUME odd = {} PROVE RecordInv'
  BY DEF RecordInv, RunAnalysis
<1>1. RecordTypes /\ TotalOf(completed) = TotalAlong(RecTokens, Accounts)
  BY DEF RecordInv
<1>2. completed \in Seq(Trades)
  BY <1>1 DEF RecordTypes
<1>3. /\ report'.session.pnl = Analyzed(DOMAIN completed).pnl
      /\ report'.strategies = [m \in ReportNames |-> Analyzed(Named(m))]
  BY DEF RunAnalysis
<1>4. Analyzed(DOMAIN completed).pnl = TotalOf(completed)
  <2>1. [i \in DOMAIN completed |-> IF i \in DOMAIN completed THEN completed[i].pnl ELSE 0]
          = [i \in DOMAIN completed |-> completed[i].pnl]
    OBVIOUS
  <2> QED
    BY <2>1 DEF Analyzed, TotalOf
<1>5. TotalAlong(ReportNames, [m \in ReportNames |-> report'.strategies[m].pnl]) = TotalOf(completed)
  <2>1. [m \in ReportNames |-> report'.strategies[m].pnl] = [m \in ReportNames |-> Analyzed(Named(m)).pnl]
    BY <1>3
  <2> QED
    BY <1>2, <2>1, NamesShareTheTotal
<1>6. UNCHANGED <<openTrades, completed, net, cash, odd>>
  BY DEF RunAnalysis
<1>7. RecordTypes'
  BY <1>1, <1>6 DEF RecordTypes
<1>8. Accounts' = Accounts
  BY <1>6 DEF Accounts, Stake
<1>9. \A t \in RecTokens : net'[t] = Signed(openTrades'[t].side, openTrades'[t].size)
  BY <1>6 DEF RecordInv
<1>10. TotalOf(completed') = TotalAlong(RecTokens, Accounts')
  BY <1>1, <1>6, <1>8
<1> QED
  BY <1>3, <1>4, <1>5, <1>6, <1>7, <1>9, <1>10 DEF RecordInv

LEMMA RecordStart ==
  ASSUME RecordInit
  PROVE  RecordInv
<1>1. RecordTypes
  BY DEF RecordInit, RecordTypes, NoTrade
<1>2. \A t \in RecTokens : net[t] = Signed(openTrades[t].side, openTrades[t].size)
  BY DEF RecordInit, NoTrade, Signed
<1>3. TotalOf(completed) = 0
  <2>1. [i \in DOMAIN completed |-> completed[i].pnl] = <<>>
    BY DEF RecordInit
  <2> QED
    BY <2>1, SeqTotalEmpty DEF TotalOf
<1>4. TotalAlong(RecTokens, Accounts) = 0
  <2>1. Accounts \in [RecTokens -> Int] /\ \A t \in RecTokens : Accounts[t] = 0
    BY DEF RecordInit, Accounts, Stake, Signed, NoTrade
  <2>2. IsFiniteSet(RecTokens)
    BY RecordAssumption
  <2> HIDE DEF Accounts
  <2> QED
    BY <2>1, <2>2, SumZero DEF TotalAlong
<1>5. report = NoReport
  BY DEF RecordInit
<1> QED
  BY <1>1, <1>2, <1>3, <1>4, <1>5 DEF RecordInv

LEMMA RecordStep ==
  ASSUME RecordInv, [RecordNext]_recordVars
  PROVE  RecordInv'
<1>1. CASE RunAnalysis
  BY <1>1, RecordReport
<1>2. ASSUME NEW t \in RecTokens, NEW side \in {"BUY", "SELL"}, NEW p \in FillPrices,
             NEW n \in FillSizes, NEW s \in Sources, OnFill(t, side, p, n, s)
      PROVE  RecordInv'
  <2>1. CASE odd' = {}
    BY <1>2, <2>1, RecordFill
  <2>2. CASE odd' # {}
    BY <2>2 DEF RecordInv
  <2> QED
    BY <2>1, <2>2
<1>3. CASE UNCHANGED recordVars
  <2>1. UNCHANGED <<openTrades, completed, net, cash, odd, report>>
    BY <1>3 DEF recordVars
  <2>2. RecordTypes' <=> RecordTypes
    BY <2>1 DEF RecordTypes
  <2>3. Accounts' = Accounts
    BY <2>1 DEF Accounts, Stake
  <2> QED
    BY <2>1, <2>2, <2>3 DEF RecordInv
<1> QED
  BY <1>1, <1>2, <1>3 DEF RecordNext

\* While every exit has the size of its entry, the recorder's trades, the money that came
\* and went, and the report's totals agree, for any tokens, strategies, prices and sizes.
THEOREM RecordsAreTheAccount == RecordSpec => []RecordsAddUp
<1>1. RecordInv => RecordsAddUp
  <2> SUFFICES ASSUME RecordInv, odd = {} PROVE RecordsAddUp
    BY DEF RecordsAddUp
  <2> QED
    BY DEF RecordInv, RecordsAddUp, Accounts
<1> QED
  BY <1>1, RecordStart, RecordStep, PTL DEF RecordSpec

-------------------------------------------------------------------------------
(* The strategies with books of their own.  The quotes that a step makes on *)
(* one side, filled all of them, carry the inventory no further than the    *)
(* reach; every fill takes out of the queue what it adds.                   *)

TradeSides == {"BUY", "SELL"}

Orders == [of : runs, side : TradeSides, size : Nat]

\* What StoikovMM has on one side of a queue of orders.
OfOrder(s, side) == IF s.of = "stoikov_mm" /\ s.side = side THEN s.size ELSE 0

Amount(q, side) == SeqTotal([i \in DOMAIN q |-> OfOrder(q[i], side)])

\* The inventory, counted in the direction of a side.
Toward(side) == IF side = "BUY" THEN inventory ELSE -inventory

LEMMA AmountTerms ==
  ASSUME NEW q \in Seq(Orders), NEW side
  PROVE  /\ [i \in DOMAIN q |-> OfOrder(q[i], side)] \in Seq(Nat)
         /\ [i \in DOMAIN q |-> OfOrder(q[i], side)] \in Seq(Int)
         /\ Len([i \in DOMAIN q |-> OfOrder(q[i], side)]) = Len(q)
         /\ Len(q) \in Nat /\ DOMAIN q = 1..Len(q)
<1>1. /\ Len(q) \in Nat /\ DOMAIN q = 1..Len(q)
      /\ \A i \in 1..Len(q) : q[i] \in Orders
  OBVIOUS
<1>2. [i \in 1..Len(q) |-> OfOrder(q[i], side)] \in [1..Len(q) -> Nat]
  BY <1>1 DEF OfOrder, Orders
<1> QED
  BY <1>1, <1>2

LEMMA AmountType ==
  ASSUME NEW q \in Seq(Orders), NEW side
  PROVE  Amount(q, side) \in Nat
BY AmountTerms, SeqTotalOfNaturals DEF Amount

LEMMA AmountEmpty ==
  ASSUME NEW side
  PROVE  Amount(<<>>, side) = 0
<1>1. [i \in DOMAIN <<>> |-> OfOrder(<<>>[i], side)] = <<>>
  OBVIOUS
<1> QED
  BY <1>1, SeqTotalEmpty DEF Amount

LEMMA AmountAppend ==
  ASSUME NEW q \in Seq(Orders), NEW s \in Orders, NEW side
  PROVE  Amount(Append(q, s), side) = Amount(q, side) + OfOrder(s, side)
<1> DEFINE b == [i \in DOMAIN q |-> OfOrder(q[i], side)]
           a == [i \in DOMAIN Append(q, s) |-> OfOrder(Append(q, s)[i], side)]
<1>1. b \in Seq(Int) /\ Len(b) = Len(q) /\ Len(q) \in Nat /\ DOMAIN q = 1..Len(q)
  BY AmountTerms
<1>2. Append(q, s) \in Seq(Orders) /\ Len(Append(q, s)) = Len(q) + 1
  OBVIOUS
<1>3. a \in Seq(Int) /\ Len(a) = Len(q) + 1
  BY <1>2, AmountTerms
<1>4. \A i \in 1..Len(b) : a[i] = b[i]
  BY <1>1, <1>2
<1>5. a[Len(b)+1] = OfOrder(s, side)
  BY <1>1, <1>2
<1> HIDE DEF a, b
<1>6. SeqTotal(a) = SeqTotal(b) + a[Len(b)+1]
  BY <1>1, <1>3, <1>4, SeqTotalExtend
<1> QED
  BY <1>5, <1>6 DEF Amount, a, b

LEMMA AmountTail ==
  ASSUME NEW q \in Seq(Orders), q # <<>>, NEW side
  PROVE  /\ Head(q) \in Orders /\ Tail(q) \in Seq(Orders) /\ OfOrder(Head(q), side) \in Nat
         /\ Amount(Tail(q), side) = Amount(q, side) - OfOrder(Head(q), side)
<1> DEFINE b == [i \in DOMAIN q |-> OfOrder(q[i], side)]
           a == [i \in DOMAIN Tail(q) |-> OfOrder(Tail(q)[i], side)]
<1>1. b \in Seq(Int) /\ Len(b) = Len(q) /\ Len(q) \in Nat /\ DOMAIN q = 1..Len(q) /\ Len(q) > 0
  <2>1. b \in Seq(Int) /\ Len(b) = Len(q) /\ DOMAIN q = 1..Len(q)
    BY AmountTerms
  <2>2. Len(q) \in Nat /\ Len(q) > 0
    OBVIOUS
  <2> QED
    BY <2>1, <2>2
<1>2. /\ Tail(q) \in Seq(Orders) /\ Len(Tail(q)) = Len(q) - 1
      /\ Head(q) = q[1] /\ Head(q) \in Orders
      /\ \A i \in 1..(Len(q) - 1) : Tail(q)[i] = q[i+1]
  BY <1>1
<1>3. a \in Seq(Int) /\ Len(a) = Len(q) - 1 /\ DOMAIN Tail(q) = 1..(Len(q) - 1)
  BY <1>2, AmountTerms
<1>4. \A i \in 1..(Len(q) - 1) : a[i] = b[i+1]
  BY <1>1, <1>2, <1>3
<1>5. b[1] = OfOrder(Head(q), side)
  BY <1>1, <1>2
<1>6. OfOrder(Head(q), side) \in Nat
  BY <1>2 DEF OfOrder, Orders
<1> HIDE DEF a, b
<1>7. Tail(b) \in Seq(Int) /\ Len(Tail(b)) = Len(q) - 1 /\ b # <<>> /\ Head(b) = b[1]
  BY <1>1
<1>8. Tail(b) = a
  <2>1. \A i \in 1..(Len(q) - 1) : Tail(b)[i] = a[i]
    BY <1>1, <1>4
  <2> QED
    BY <1>3, <1>7, <2>1, SeqEqual
<1>9. SeqTotal(Tail(b)) = SeqTotal(b) - Head(b)
  BY <1>1, <1>7, SeqTotalTail
<1> QED
  BY <1>2, <1>5, <1>6, <1>7, <1>8, <1>9 DEF Amount, a, b

\* One quote more, or none.
LEMMA AmountQuoted ==
  ASSUME NEW q \in Seq(Orders), NEW side \in TradeSides, NEW size \in Nat, inventory \in Int,
         "stoikov_mm" \in runs
  PROVE  /\ q \o SideQuote(side, size) \in Seq(Orders)
         /\ \A other \in TradeSides :
              Amount(q \o SideQuote(side, size), other) =
                Amount(q, other) + (IF other = side /\ Toward(side) + size <= InventoryLimit
                                    THEN size ELSE 0)
<1> DEFINE s == Signal("stoikov_mm", side, size)
<1>1. s \in Orders /\ \A other \in TradeSides : OfOrder(s, other) = IF other = side THEN size ELSE 0
  BY DEF Signal, Orders, OfOrder
<1>2. WithinLimit(s) <=> Toward(side) + size <= InventoryLimit
  BY QuotingAssumption DEF WithinLimit, Toward, Signal, TradeSides
<1>3. CASE WithinLimit(s)
  <2>1. q \o SideQuote(side, size) = Append(q, s)
    <3>1. SideQuote(side, size) = <<s>>
      BY <1>3 DEF SideQuote
    <3> HIDE DEF s
    <3> QED
      BY <1>1, <3>1, AppendIsConcat
  <2>2. Append(q, s) \in Seq(Orders)
    BY <1>1
  <2> HIDE DEF s
  <2>3. \A other \in TradeSides : Amount(Append(q, s), other) = Amount(q, other) + OfOrder(s, other)
    BY <1>1, AmountAppend
  <2> QED
    BY <1>1, <1>2, <1>3, <2>1, <2>2, <2>3
<1>4. CASE ~WithinLimit(s)
  <2>1. q \o SideQuote(side, size) = q
    <3>1. SideQuote(side, size) = <<>>
      BY <1>4 DEF SideQuote
    <3> QED
      BY <3>1, ConcatEmptySeq
  <2>2. \A other \in TradeSides : Amount(q, other) \in Nat
    BY AmountType
  <2> QED
    BY <1>2, <1>4, <2>1, <2>2
<1> QED
  BY <1>3, <1>4

\* The loop over the levels, unfolded once.
LEMMA QuotesLevelByLevel ==
  ASSUME inventory \in Int, "stoikov_mm" \in runs
  PROVE  /\ Len(LevelSizes) \in Nat
         /\ QuotesTo \in [0..Len(LevelSizes) -> Seq(Orders)]
         /\ QuotesTo[0] = <<>>
         /\ \A k \in 1..Len(LevelSizes) : QuotesTo[k] = WithLevel(QuotesTo[k-1], k)
<1> DEFINE n == Len(LevelSizes)
           V == Seq(Orders)
           F == [k \in 1..n |-> [q \in V |-> WithLevel(q, k)]]
           Solves(t) == t = [k \in 0..n |-> IF k = 0 THEN <<>> ELSE WithLevel(t[k-1], k)]
<1>1. n \in Nat /\ \A k \in 1..n : LevelSizes[k] \in Nat
  BY QuotingAssumption
<1>2. F \in [1..n -> [V -> V]]
  <2>1. ASSUME NEW k \in 1..n, NEW q \in V
        PROVE  WithLevel(q, k) \in V
    <3>1. q \o SideQuote("BUY", LevelSizes[k]) \in Seq(Orders)
      BY <1>1, AmountQuoted DEF TradeSides
    <3> QED
      BY <1>1, <3>1, AmountQuoted DEF TradeSides, WithLevel
  <2> QED
    BY <2>1
<1>3. \E t \in [0..n -> V] : t[0] = <<>> /\ \A k \in 1..n : t[k] = F[k][t[k-1]]
  <2>1. <<>> \in V
    OBVIOUS
  <2> HIDE DEF n, V, F
  <2>2. Recursion(n, V, <<>>, F)
    BY <1>1, <1>2, <2>1, RecursionDefined
  <2> QED
    BY <2>2 DEF Recursion
<1>4. PICK t \in [0..n -> V] : t[0] = <<>> /\ \A k \in 1..n : t[k] = F[k][t[k-1]]
  BY <1>3
<1>5. \A k \in 1..n : t[k] = WithLevel(t[k-1], k)
  <2> TAKE k \in 1..n
  <2>1. t[k-1] \in V
    BY <1>1, <1>4, SMTT(30)
  <2>2. t[k] = F[k][t[k-1]]
    BY <1>4
  <2> QED
    BY <2>1, <2>2
<1>6. Solves(t)
  BY <1>1, <1>4, <1>5
<1>7. QuotesTo = CHOOSE u : Solves(u)
  BY DEF QuotesTo
<1>8. Solves(QuotesTo)
  BY <1>6, <1>7
<1>9. ASSUME NEW k \in 0..n PROVE QuotesTo[k] \in V
  <2> DEFINE S == {i \in 0..n : QuotesTo[i] \in V}
  <2>1. 0 \in S
    BY <1>1, <1>8
  <2>2. ASSUME NEW i \in 0..n, i + 1 \in 0..n, i \in S PROVE i + 1 \in S
    <3>1. i + 1 \in 1..n
      BY <1>1, <2>2
    <3>2. F[i+1][QuotesTo[i]] \in V
      BY <1>2, <2>2, <3>1
    <3>3. QuotesTo[i+1] = F[i+1][QuotesTo[i]]
      BY <1>1, <1>8, <2>2, <3>1
    <3> QED
      BY <2>2, <3>2, <3>3
  <2>3. 0..n \subseteq S
    <3> HIDE DEF S
    <3> QED
      BY <1>1, <2>1, <2>2, BoundedSetInduction
  <2> QED
    BY <2>3
<1>10. QuotesTo \in [0..n -> V] /\ QuotesTo[0] = <<>>
  BY <1>1, <1>8, <1>9, SMTT(30)
<1>11. \A k \in 1..n : QuotesTo[k] = WithLevel(QuotesTo[k-1], k)
  BY <1>1, <1>8
<1> QED
  BY <1>1, <1>10, <1>11

\* Reach is what it is for any sizes; the first level is one of them.
LEMMA ReachOfLevels ==
  /\ Len(LevelSizes) \in Nat /\ Len(LevelSizes) > 0
  /\ \A k \in 1..Len(LevelSizes) : LevelSizes[k] \in Nat
  /\ LevelSizes \in [1..Len(LevelSizes) -> Int]
  /\ Reach \in Nat
  /\ Reach = InventoryLimit + PartialSums(LevelSizes, Len(LevelSizes))[Len(LevelSizes)] - LevelSizes[1]
<1> DEFINE n == Len(LevelSizes)
<1>1. /\ n \in Nat /\ n > 0 /\ LevelSizes \in Seq(Nat) /\ InventoryLimit \in Nat
      /\ \A k \in 1..n : LevelSizes[k] \in Nat
      /\ LevelSizes \in [1..n -> Int]
  <2>1. LevelSizes \in Seq(Nat \ {0}) /\ LevelSizes # <<>> /\ InventoryLimit \in Nat
    BY QuotingAssumption
  <2> QED
    BY <2>1
<1>2. Reach = InventoryLimit + PartialSums(LevelSizes, n)[n] - LevelSizes[1]
  BY DEF Reach, SeqTotal
<1>3. Tail(LevelSizes) \in Seq(Nat)
  BY <1>1
<1>4. SeqTotal(Tail(LevelSizes)) = SeqTotal(LevelSizes) - LevelSizes[1] /\ LevelSizes[1] = Head(LevelSizes)
  <2>1. LevelSizes \in Seq(Int) /\ LevelSizes # <<>> /\ Head(LevelSizes) = LevelSizes[1]
    BY <1>1
  <2> QED
    BY <2>1, SeqTotalTail
<1>5. SeqTotal(Tail(LevelSizes)) \in Nat /\ SeqTotal(LevelSizes) \in Nat
  BY <1>1, <1>3, SeqTotalOfNaturals
<1>6. LevelSizes[1] \in Nat
  BY <1>1
<1>7. Reach \in Nat
  BY <1>1, <1>4, <1>5, <1>6 DEF Reach
<1> QED
  BY <1>1, <1>2, <1>7

\* All quotes that a step makes on one side, filled, leave the inventory within reach:
\* the first of those that the limit allows is covered by the limit, and the others come
\* from the other levels.
LEMMA QuotesWithinReach ==
  ASSUME inventory \in Int, "stoikov_mm" \in runs, NEW side \in TradeSides, Toward(side) <= Reach
  PROVE  LevelQuotes \in Seq(Orders) /\ Toward(side) + Amount(LevelQuotes, side) <= Reach
<1> DEFINE n == Len(LevelSizes)
           T(k) == PartialSums(LevelSizes, n)[k]
           B(k) == Amount(QuotesTo[k], side)
           UpTo(k) == B(k) = 0 \/ Toward(side) + B(k) <= InventoryLimit + T(k) - LevelSizes[1]
           S == {k \in 0..n : UpTo(k) /\ (k > 0 => LevelSizes[1] <= T(k))}
<1>1. n \in Nat /\ n > 0 /\ LevelSizes \in [1..n -> Int] /\ \A k \in 1..n : LevelSizes[k] \in Nat
  BY ReachOfLevels
<1>2. /\ QuotesTo \in [0..n -> Seq(Orders)] /\ QuotesTo[0] = <<>>
      /\ \A k \in 1..n : QuotesTo[k] = WithLevel(QuotesTo[k-1], k)
  BY QuotesLevelByLevel
<1>3. T(0) = 0 /\ \A k \in 0..n : T(k) \in Int /\ (k + 1 \in 0..n => T(k+1) = T(k) + LevelSizes[k+1])
  BY <1>1, PartialSumsStep, PartialSumsType
<1>4. \A k \in 0..n : B(k) \in Nat
  BY <1>2, AmountType
<1>5. \A k \in 0..n : k + 1 \in 0..n =>
        B(k+1) = B(k) + (IF Toward(side) + LevelSizes[k+1] <= InventoryLimit
                         THEN LevelSizes[k+1] ELSE 0)
  <2> TAKE k \in 0..n
  <2> HAVE k + 1 \in 0..n
  <2> DEFINE m == LevelSizes[k+1]
             q == QuotesTo[k]
             bid == q \o SideQuote("BUY", m)
             both == bid \o SideQuote("SELL", m)
  <2>1. k + 1 \in 1..n /\ (k + 1) - 1 = k
    BY <1>1
  <2>2. m \in Nat /\ q \in Seq(Orders)
    BY <1>1, <1>2, <2>1
  <2>3. QuotesTo[k+1] = both
    BY <1>2, <2>1 DEF WithLevel
  <2>4. Amount(q, side) \in Nat
    BY <2>2, AmountType
  <2> HIDE DEF m, q
  <2>5. /\ bid \in Seq(Orders)
        /\ Amount(bid, side) =
             Amount(q, side) + (IF side = "BUY" /\ Toward("BUY") + m <= InventoryLimit THEN m ELSE 0)
    BY <2>2, AmountQuoted DEF TradeSides
  <2> HIDE DEF bid
  <2>6. Amount(both, side) =
          Amount(bid, side) + (IF side = "SELL" /\ Toward("SELL") + m <= InventoryLimit THEN m ELSE 0)
    BY <2>2, <2>5, AmountQuoted DEF TradeSides
  <2> HIDE DEF both
  <2>7. Amount(both, side) = Amount(q, side) + (IF Toward(side) + m <= InventoryLimit THEN m ELSE 0)
    BY <2>2, <2>4, <2>5, <2>6 DEF TradeSides
  <2> QED
    BY <2>3, <2>7 DEF q, m
<1>6. 0 \in S
  BY <1>1, <1>2, AmountEmpty
<1>7. Toward(side) \in Int /\ InventoryLimit \in Nat
  BY QuotingAssumption DEF Toward
<1> HIDE DEF n, T, B
<1>8. ASSUME NEW k \in 0..n, k + 1 \in 0..n, k \in S PROVE k + 1 \in S
  <2> DEFINE m == LevelSizes[k+1]
  <2>1. k + 1 \in 1..n /\ m \in Nat /\ LevelSizes[1] \in Nat
    BY <1>1, <1>8
  <2>2. LevelSizes[1] <= T(k+1)
    <3>1. CASE k = 0
      BY <1>3, <1>8, <2>1, <3>1
    <3>2. CASE k > 0
      BY <1>3, <1>8, <2>1, <3>2
    <3> QED
      BY <1>1, <3>1, <3>2
  <2>3. T(k) \in Int /\ T(k+1) = T(k) + m /\ B(k) \in Nat
    BY <1>3, <1>4, <1>8
  <2>4. B(k+1) = B(k) + (IF Toward(side) + m <= InventoryLimit THEN m ELSE 0)
    BY <1>5, <1>8
  <2>5. UpTo(k)
    BY <1>8
  <2> HIDE DEF m
  <2>6. UpTo(k+1)
    <3>1. CASE Toward(side) + m <= InventoryLimit /\ B(k) = 0
      <4>1. B(k+1) = m
        BY <2>1, <2>4, <3>1
      <4> QED
        BY <1>7, <2>1, <2>2, <2>3, <3>1, <4>1
    <3>2. CASE Toward(side) + m <= InventoryLimit /\ B(k) # 0
      <4>1. B(k+1) = B(k) + m
        BY <2>4, <3>2
      <4> QED
        BY <1>7, <2>1, <2>3, <2>5, <3>2, <4>1
    <3>3. CASE ~(Toward(side) + m <= InventoryLimit)
      <4>1. B(k+1) = B(k)
        BY <2>3, <2>4, <3>3
      <4> QED
        BY <1>7, <2>1, <2>3, <2>5, <4>1
    <3> QED
      BY <3>1, <3>2, <3>3
  <2> QED
    BY <1>8, <2>2, <2>6
<1>9. 0..n \subseteq S
  <2> HIDE DEF S
  <2> QED
    BY <1>1, <1>6, <1>8, BoundedSetInduction
<1>10. n \in S
  <2>1. n \in 0..n
    BY <1>1
  <2> HIDE DEF S
  <2> QED
    BY <1>9, <2>1
<1>11. Reach = InventoryLimit + T(n) - LevelSizes[1]
  BY ReachOfLevels DEF T, n
<1>12. LevelQuotes = QuotesTo[n] /\ LevelQuotes \in Seq(Orders)
  BY <1>1, <1>2 DEF LevelQuotes, n
<1>13. Toward(side) + B(n) <= Reach
  BY <1>7, <1>10, <1>11
<1> QED
  BY <1>12, <1>13 DEF B

QuotingTypes ==
  /\ runs \subseteq Quoters /\ queued \in Seq(Orders)
  /\ shares \in Nat /\ inventory \in Int
  /\ reversion = NoReversion \/ reversion \in [side : TradeSides, size : Nat]
  /\ reversion # NoReversion => "mean_rev" \in runs

\* Also when all that is queued on a side is filled.
QueueInReach == \A side \in TradeSides : Toward(side) + Amount(queued, side) <= Reach

SharesInReach == runs = {"stoikov_mm"} /\ ~missed => shares <= inventory + Reach

\* An entry finds nothing held, and an exit the position it is meant for.
OneReversion ==
  runs = {"mean_rev"} /\ ~flawedBook =>
    /\ Len(queued) <= 1
    /\ queued # <<>> =>
         /\ Head(queued).of = "mean_rev" /\ reversion.side = "BUY"
         /\ Head(queued).size = reversion.size
         /\ Head(queued).side = "BUY" => shares = 0
    /\ reversion = NoReversion => shares = 0
    /\ reversion # NoReversion => reversion.side = "BUY" /\ shares <= reversion.size

QuotingInv == QuotingTypes /\ QueueInReach /\ SharesInReach /\ OneReversion

LEMMA QuotingStart ==
  ASSUME QuotingInit
  PROVE  QuotingInv
<1>1. QuotingTypes
  <2>1. <<>> \in Seq(Orders)
    OBVIOUS
  <2>2. runs \in SUBSET Quoters
    BY DEF QuotingInit
  <2> QED
    BY <2>1, <2>2 DEF QuotingInit, QuotingTypes
<1>2. QueueInReach
  BY AmountEmpty, ReachOfLevels DEF QuotingInit, QueueInReach, Toward, TradeSides
<1>3. SharesInReach
  BY ReachOfLevels DEF QuotingInit, SharesInReach
<1>4. OneReversion
  BY DEF QuotingInit, OneReversion
<1> QED
  BY <1>1, <1>2, <1>3, <1>4 DEF QuotingInv

\* A step that asks the strategies queues quotes within reach, and at most one order of
\* the other strategy behind them.
LEMMA AskedWithinReach ==
  ASSUME QuotingInv, NEW extra, extra = <<>> \/ \E o \in Orders : o.of = "mean_rev" /\ extra = <<o>>,
         AskStrategies(extra)
  PROVE  /\ queued' \in Seq(Orders) /\ QueueInReach'
         /\ "stoikov_mm" \notin runs => queued' = extra
<1> DEFINE base == IF "stoikov_mm" \in runs THEN LevelQuotes ELSE <<>>
<1>1. /\ inventory \in Int /\ inventory' = inventory /\ queued = <<>>
      /\ queued' = base \o extra
  BY DEF QuotingInv, QuotingTypes, AskStrategies
<1>2. ASSUME NEW side \in TradeSides PROVE Toward(side) <= Reach /\ Toward(side) \in Int /\ Reach \in Int
  <2>1. Toward(side) + Amount(<<>>, side) <= Reach
    BY <1>1 DEF QuotingInv, QueueInReach
  <2>2. Amount(<<>>, side) = 0
    BY AmountEmpty
  <2>3. Toward(side) \in Int
    BY <1>1 DEF Toward
  <2> QED
    BY <2>1, <2>2, <2>3, ReachOfLevels
<1>3. base \in Seq(Orders) /\ \A side \in TradeSides : Toward(side) + Amount(base, side) <= Reach
  <2>1. CASE "stoikov_mm" \in runs
    <3>1. "BUY" \in TradeSides
      BY DEF TradeSides
    <3>2. LevelQuotes \in Seq(Orders)
      BY <1>1, <1>2, <2>1, <3>1, QuotesWithinReach
    <3>3. \A side \in TradeSides : Toward(side) + Amount(LevelQuotes, side) <= Reach
      BY <1>1, <1>2, <2>1, QuotesWithinReach
    <3> QED
      BY <2>1, <3>2, <3>3
  <2>2. CASE "stoikov_mm" \notin runs
    BY <1>2, <2>2, AmountEmpty
  <2> QED
    BY <2>1, <2>2
<1> HIDE DEF base
<1>4. /\ queued' \in Seq(Orders)
      /\ \A side \in TradeSides : Amount(queued', side) = Amount(base, side)
  <2>1. CASE extra = <<>>
    BY <1>1, <1>3, <2>1, ConcatEmptySeq
  <2>2. ASSUME NEW o \in Orders, o.of = "mean_rev", extra = <<o>>
        PROVE  /\ queued' \in Seq(Orders)
               /\ \A side \in TradeSides : Amount(queued', side) = Amount(base, side)
    <3>1. queued' = Append(base, o)
      BY <1>1, <1>3, <2>2, AppendIsConcat
    <3>2. \A side \in TradeSides : Amount(Append(base, o), side) = Amount(base, side) + OfOrder(o, side)
      BY <1>3, AmountAppend
    <3>3. \A side \in TradeSides : OfOrder(o, side) = 0
      BY <2>2 DEF OfOrder
    <3>4. \A side \in TradeSides : Amount(base, side) \in Nat
      BY <1>3, AmountType
    <3>5. Append(base, o) \in Seq(Orders)
      BY <1>3
    <3> QED
      BY <3>1, <3>2, <3>3, <3>4, <3>5
  <2> QED
    BY <2>1, <2>2
<1>5. QueueInReach'
  <2>1. \A side \in TradeSides : Toward(side)' = Toward(side)
    BY <1>1 DEF Toward
  <2> QED
    BY <1>3, <1>4, <2>1, ReachOfLevels DEF QueueInReach, Reach
<1>6. ASSUME "stoikov_mm" \notin runs PROVE queued' = extra
  <2>1. extra \in Seq(Orders)
    <3>1. CASE extra = <<>>
      BY <3>1
    <3>2. ASSUME NEW o \in Orders, extra = <<o>> PROVE extra \in Seq(Orders)
      BY <3>2
    <3> QED
      BY <3>1, <3>2
  <2> QED
    BY <1>1, <1>6, <2>1, ConcatEmptySeq DEF base
<1> QED
  BY <1>4, <1>5, <1>6

LEMMA AskedInv ==
  ASSUME QuotingInv, KeepsStill \/ Exits \/ \E side \in TradeSides, size \in ReversionSizes : Enters(side, size)
  PROVE  QuotingInv'
<1>1. QuotingTypes /\ QueueInReach /\ SharesInReach /\ OneReversion
  BY DEF QuotingInv
<1>2. CASE KeepsStill
  <2>1. AskStrategies(<<>>) /\ UNCHANGED <<reversion, flawedBook>>
    BY <1>2 DEF KeepsStill
  <2>2. queued' \in Seq(Orders) /\ QueueInReach' /\ ("stoikov_mm" \notin runs => queued' = <<>>)
    BY <2>1, AskedWithinReach
  <2>3. UNCHANGED <<runs, shares, inventory, missed>>
    BY <2>1 DEF AskStrategies
  <2>4. QuotingTypes'
    BY <1>1, <2>1, <2>2, <2>3 DEF QuotingTypes, Orders
  <2>5. SharesInReach'
    BY <1>1, <2>3 DEF SharesInReach, Reach
  <2>6. OneReversion'
    BY <1>1, <2>1, <2>2, <2>3 DEF OneReversion
  <2> QED
    BY <2>2, <2>4, <2>5, <2>6 DEF QuotingInv
<1>3. CASE Exits
  <2> DEFINE o == Signal("mean_rev", OtherSide(reversion.side), reversion.size)
  <2>1. /\ AskStrategies(<<o>>) /\ reversion # NoReversion /\ UNCHANGED <<reversion, flawedBook>>
    BY <1>3 DEF Exits
  <2>2. o \in Orders /\ o.of = "mean_rev" /\ o.size = reversion.size /\ o.side = OtherSide(reversion.side)
    BY <1>1, <2>1 DEF QuotingTypes, Orders, Signal, OtherSide, TradeSides
  <2> HIDE DEF o
  <2>3. queued' \in Seq(Orders) /\ QueueInReach' /\ ("stoikov_mm" \notin runs => queued' = <<o>>)
    BY <2>1, <2>2, AskedWithinReach
  <2>4. UNCHANGED <<runs, shares, inventory, missed>>
    BY <2>1 DEF AskStrategies
  <2>5. QuotingTypes'
    BY <1>1, <2>1, <2>3, <2>4 DEF QuotingTypes, Orders
  <2>6. SharesInReach'
    BY <1>1, <2>4 DEF SharesInReach, Reach
  <2>7. OneReversion'
    <3> SUFFICES ASSUME runs = {"mean_rev"}, ~flawedBook
                 PROVE  OneReversion'
      BY <2>1, <2>4 DEF OneReversion
    <3>1. queued' = <<o>> /\ reversion.side = "BUY" /\ shares <= reversion.size
      BY <1>1, <2>1, <2>3 DEF OneReversion
    <3>2. Len(queued') = 1 /\ Head(queued') = o
      BY <3>1
    <3>3. o.side = "SELL"
      BY <2>2, <3>1 DEF OtherSide
    <3> QED
      BY <2>1, <2>2, <2>4, <3>1, <3>2, <3>3 DEF OneReversion
  <2> QED
    BY <2>3, <2>5, <2>6, <2>7 DEF QuotingInv
<1>4. ASSUME NEW side \in TradeSides, NEW size \in ReversionSizes, Enters(side, size)
      PROVE  QuotingInv'
  <2> DEFINE o == Signal("mean_rev", side, size)
  <2>1. /\ AskStrategies(<<o>>) /\ reversion = NoReversion /\ "mean_rev" \in runs
        /\ reversion' = [side |-> side, size |-> size]
        /\ flawedBook' = (flawedBook \/ side = "SELL")
    BY <1>4 DEF Enters
  <2>2. size \in Nat
    BY QuotingAssumption
  <2>3. o \in Orders /\ o.of = "mean_rev" /\ o.size = size /\ o.side = side
    BY <2>1, <2>2 DEF Orders, Signal
  <2> HIDE DEF o
  <2>4. queued' \in Seq(Orders) /\ QueueInReach' /\ ("stoikov_mm" \notin runs => queued' = <<o>>)
    BY <2>1, <2>3, AskedWithinReach
  <2>5. UNCHANGED <<runs, shares, inventory, missed>>
    BY <2>1 DEF AskStrategies
  <2>6. reversion' \in [side : TradeSides, size : Nat]
    BY <2>1, <2>2
  <2>7. QuotingTypes'
    BY <1>1, <2>1, <2>4, <2>5, <2>6 DEF QuotingTypes, Orders
  <2>8. SharesInReach'
    BY <1>1, <2>5 DEF SharesInReach, Reach
  <2>9. OneReversion'
    <3> SUFFICES ASSUME runs = {"mean_rev"}, ~flawedBook'
                 PROVE  OneReversion'
      BY <2>5 DEF OneReversion
    <3>1. queued' = <<o>> /\ side = "BUY" /\ shares = 0
      BY <1>1, <2>1, <2>4 DEF OneReversion, TradeSides
    <3>2. Len(queued') = 1 /\ Head(queued') = o
      BY <3>1
    <3>3. reversion'.side = "BUY" /\ reversion'.size = size /\ reversion' # NoReversion
      BY <2>1, <3>1 DEF NoReversion
    <3>4. shares' = 0
      BY <2>5, <3>1
    <3> QED
      BY <2>2, <2>3, <3>1, <3>2, <3>3, <3>4 DEF OneReversion
  <2> QED
    BY <2>4, <2>7, <2>8, <2>9 DEF QuotingInv
<1> QED
  BY <1>2, <1>3, <1>4

\* Whatever becomes of the order at the head, the rest of the queue is within reach of an
\* inventory that has all of it, or a part, or nothing.
LEMMA HeadLeaves ==
  ASSUME QuotingInv, queued # <<>>
  PROVE  /\ Head(queued) \in Orders /\ Tail(queued) \in Seq(Orders)
         /\ \A side \in TradeSides :
              /\ Amount(Tail(queued), side) \in Nat /\ Toward(side) \in Int /\ Reach \in Nat
              /\ Toward(side) + Amount(Tail(queued), side) + OfOrder(Head(queued), side) <= Reach
              /\ OfOrder(Head(queued), side) \in Nat
<1>1. queued \in Seq(Orders) /\ inventory \in Int /\ QueueInReach
  BY DEF QuotingInv, QuotingTypes
<1>2. Head(queued) \in Orders /\ Tail(queued) \in Seq(Orders)
  BY <1>1
<1>3. ASSUME NEW side \in TradeSides
      PROVE  /\ Amount(Tail(queued), side) \in Nat /\ Toward(side) \in Int /\ Reach \in Nat
             /\ Toward(side) + Amount(Tail(queued), side) + OfOrder(Head(queued), side) <= Reach
             /\ OfOrder(Head(queued), side) \in Nat
  <2>1. /\ OfOrder(Head(queued), side) \in Nat
        /\ Amount(Tail(queued), side) = Amount(queued, side) - OfOrder(Head(queued), side)
    BY <1>1, AmountTail
  <2>2. Amount(Tail(queued), side) \in Nat /\ Amount(queued, side) \in Nat
    BY <1>1, <1>2, AmountType
  <2>3. Toward(side) \in Int
    BY <1>1 DEF Toward
  <2>4. Toward(side) + Amount(queued, side) <= Reach
    BY <1>1 DEF QueueInReach
  <2> QED
    BY <2>1, <2>2, <2>3, <2>4, ReachOfLevels
<1> QED
  BY <1>2, <1>3

LEMMA NothingInv ==
  ASSUME QuotingInv, ComesToNothing
  PROVE  QuotingInv'
<1>1. /\ queued # <<>> /\ queued' = Tail(queued)
      /\ UNCHANGED <<runs, shares, inventory, reversion, missed, flawedBook>>
  BY DEF ComesToNothing
<1>2. Tail(queued) \in Seq(Orders)
  BY <1>1, HeadLeaves
<1>3. QuotingTypes'
  BY <1>1, <1>2 DEF QuotingInv, QuotingTypes, Orders
<1>4. QueueInReach'
  <2>1. ASSUME NEW side \in TradeSides PROVE (Toward(side) + Amount(queued, side) <= Reach)'
    <3>1. /\ Amount(Tail(queued), side) \in Nat /\ Toward(side) \in Int /\ Reach \in Nat
          /\ Toward(side) + Amount(Tail(queued), side) + OfOrder(Head(queued), side) <= Reach
          /\ OfOrder(Head(queued), side) \in Nat
      BY <1>1, HeadLeaves
    <3>2. Toward(side) + Amount(Tail(queued), side) <= Reach
      BY <3>1
    <3>3. Toward(side)' = Toward(side)
      BY <1>1 DEF Toward
    <3> QED
      BY <1>1, <3>2, <3>3 DEF Reach
  <2> QED
    BY <2>1 DEF QueueInReach
<1>5. SharesInReach'
  BY <1>1 DEF QuotingInv, SharesInReach, Reach
<1>6. OneReversion'
  <2> SUFFICES ASSUME runs = {"mean_rev"}, ~flawedBook PROVE OneReversion'
    BY <1>1 DEF OneReversion
  <2>1. Len(queued) <= 1 /\ queued \in Seq(Orders)
    BY DEF QuotingInv, OneReversion, QuotingTypes
  <2>2. queued' = <<>>
    BY <1>1, <2>1
  <2> QED
    BY <1>1, <2>2 DEF QuotingInv, OneReversion
<1> QED
  BY <1>3, <1>4, <1>5, <1>6 DEF QuotingInv

LEMMA RaisedInv ==
  ASSUME QuotingInv, queued # <<>>, NEW n \in 0..Head(queued).size, Raised(n)
  PROVE  QuotingInv'
<1>1. /\ queued' = <<>> /\ missed' = (missed \/ n > 0)
      /\ shares' = IF n = 0 THEN shares ELSE SharesAfter(Head(queued).side, n)
      /\ UNCHANGED <<runs, inventory, reversion, flawedBook>>
  BY DEF Raised
<1>2. QuotingTypes /\ QueueInReach /\ SharesInReach /\ OneReversion
  BY DEF QuotingInv
<1>3. Head(queued) \in Orders /\ Head(queued).size \in Nat /\ n \in Nat /\ n <= Head(queued).size
  <2>1. Head(queued) \in Orders
    BY HeadLeaves
  <2>2. Head(queued).size \in Nat
    BY <2>1 DEF Orders
  <2> QED
    BY <2>1, <2>2
<1>4. shares \in Nat /\ shares' \in Nat
  BY <1>1, <1>2, <1>3 DEF QuotingTypes, SharesAfter
<1>5. QuotingTypes'
  BY <1>1, <1>2, <1>4 DEF QuotingTypes, Orders
<1>6. QueueInReach'
  <2>1. ASSUME NEW side \in TradeSides PROVE (Toward(side) + Amount(queued, side) <= Reach)'
    <3>1. /\ Amount(Tail(queued), side) \in Nat /\ Toward(side) \in Int /\ Reach \in Nat
          /\ Toward(side) + Amount(Tail(queued), side) + OfOrder(Head(queued), side) <= Reach
          /\ OfOrder(Head(queued), side) \in Nat
      BY HeadLeaves
    <3>2. Toward(side) <= Reach
      BY <3>1
    <3>3. Toward(side)' = Toward(side)
      BY <1>1 DEF Toward
    <3>4. Amount(queued, side)' = 0
      BY <1>1, AmountEmpty
    <3> QED
      BY <3>1, <3>2, <3>3, <3>4 DEF Reach
  <2> QED
    BY <2>1 DEF QueueInReach
<1>7. SharesInReach'
  <2> SUFFICES ASSUME runs = {"stoikov_mm"}, ~missed' PROVE SharesInReach'
    BY <1>1 DEF SharesInReach
  <2>1. ~(missed \/ n > 0)
    BY <1>1
  <2>2. n = 0 /\ ~missed
    BY <1>3, <2>1
  <2> QED
    BY <1>1, <1>2, <2>2 DEF SharesInReach, Reach
<1>8. OneReversion'
  <2> SUFFICES ASSUME runs = {"mean_rev"}, ~flawedBook PROVE OneReversion'
    BY <1>1 DEF OneReversion
  <2>1. /\ reversion.side = "BUY" /\ Head(queued).size = reversion.size
        /\ Head(queued).side = "BUY" => shares = 0
        /\ reversion # NoReversion => shares <= reversion.size
        /\ reversion # NoReversion
    BY <1>2 DEF OneReversion, NoReversion
  <2>2. shares' <= reversion.size
    BY <1>1, <1>3, <1>4, <2>1 DEF SharesAfter
  <2> QED
    BY <1>1, <2>1, <2>2 DEF OneReversion
<1> QED
  BY <1>5, <1>6, <1>7, <1>8 DEF QuotingInv

LEMMA FilledInv ==
  ASSUME QuotingInv, queued # <<>>, NEW n \in 1..Head(queued).size, Filled(n)
  PROVE  QuotingInv'
<1> DEFINE s == Head(queued)
<1>1. /\ queued' = Tail(queued) /\ shares' = SharesAfter(s.side, n)
      /\ UNCHANGED <<runs, missed>>
  BY DEF Filled
<1>2. QuotingTypes /\ QueueInReach /\ SharesInReach /\ OneReversion
  BY DEF QuotingInv
<1>3. /\ s \in Orders /\ s.size \in Nat /\ n \in Nat /\ n > 0 /\ n <= s.size /\ s.side \in TradeSides
      /\ Tail(queued) \in Seq(Orders)
  <2>1. s \in Orders /\ Tail(queued) \in Seq(Orders)
    BY HeadLeaves
  <2>2. s.size \in Nat /\ s.side \in TradeSides
    BY <2>1 DEF Orders
  <2> QED
    BY <2>1, <2>2
<1>4. shares \in Nat /\ shares' \in Nat /\ inventory \in Int
  BY <1>1, <1>2, <1>3 DEF QuotingTypes, SharesAfter
<1>5. ASSUME NEW side \in TradeSides
      PROVE  /\ Amount(Tail(queued), side) \in Nat /\ Toward(side) \in Int /\ Reach \in Nat
             /\ Toward(side) + Amount(Tail(queued), side) + OfOrder(s, side) <= Reach
             /\ OfOrder(s, side) \in Nat
  BY <1>5, HeadLeaves
<1>6. CASE /\ s.of = "stoikov_mm" /\ inventory' = Stocked(s.side, n)
           /\ UNCHANGED <<reversion, flawedBook>>
  <2>1. inventory' = IF s.side = "BUY" THEN inventory + n ELSE inventory - n
    BY <1>6 DEF Stocked
  <2>2. QuotingTypes'
    BY <1>1, <1>2, <1>3, <1>4, <1>6, <2>1 DEF QuotingTypes, Orders
  <2>3. ASSUME NEW side \in TradeSides PROVE (Toward(side) + Amount(queued, side) <= Reach)'
    <3>1. Toward(side)' \in Int /\ Toward(side)' <= Toward(side) + OfOrder(s, side)
      BY <1>3, <1>4, <1>6, <2>1 DEF Toward, OfOrder, TradeSides
    <3>2. Toward(side)' + Amount(Tail(queued), side) <= Reach
      BY <1>5, <3>1
    <3> QED
      BY <1>1, <3>2 DEF Reach
  <2>4. QueueInReach'
    BY <2>3 DEF QueueInReach
  <2>5. SharesInReach'
    <3> SUFFICES ASSUME runs = {"stoikov_mm"}, ~missed PROVE SharesInReach'
      BY <1>1 DEF SharesInReach
    <3>1. shares <= inventory + Reach /\ Reach \in Nat
      BY <1>2, ReachOfLevels DEF SharesInReach
    <3>2. CASE s.side = "BUY"
      <4>1. shares' = shares + n /\ inventory' = inventory + n
        BY <1>1, <2>1, <3>2 DEF SharesAfter
      <4>2. shares' <= inventory' + Reach
        BY <1>3, <1>4, <3>1, <4>1
      <4> QED
        BY <4>2 DEF SharesInReach, Reach
    <3>3. CASE s.side = "SELL"
      <4>1. shares' = (IF n >= shares THEN 0 ELSE shares - n) /\ inventory' = inventory - n
        BY <1>1, <2>1, <3>3 DEF SharesAfter
      <4>2. "SELL" \in TradeSides
        BY DEF TradeSides
      <4>3. Toward("SELL") = -inventory /\ OfOrder(s, "SELL") = s.size
        BY <1>6, <3>3 DEF Toward, OfOrder
      <4>4. n <= inventory + Reach
        BY <1>3, <1>4, <1>5, <3>1, <4>2, <4>3
      <4>5. shares' <= inventory' + Reach
        BY <1>3, <1>4, <3>1, <4>1, <4>4
      <4> QED
        BY <4>5 DEF SharesInReach, Reach
    <3> QED
      BY <1>3, <3>2, <3>3 DEF TradeSides
  <2>6. OneReversion'
    <3>1. ~(runs = {"mean_rev"} /\ ~flawedBook)
      BY <1>2, <1>6 DEF OneReversion
    <3> QED
      BY <1>1, <1>6, <3>1 DEF OneReversion
  <2> QED
    BY <2>2, <2>4, <2>5, <2>6 DEF QuotingInv
<1>7. CASE /\ s.of = "mean_rev"
           /\ reversion' = IF Ends(s.side) THEN NoReversion ELSE reversion
           /\ flawedBook' = (flawedBook \/ (Ends(s.side) /\ n < reversion.size))
           /\ UNCHANGED inventory
  <2>1. QuotingTypes'
    BY <1>1, <1>2, <1>3, <1>4, <1>7 DEF QuotingTypes, Orders
  <2>2. ASSUME NEW side \in TradeSides PROVE (Toward(side) + Amount(queued, side) <= Reach)'
    <3>1. Toward(side)' = Toward(side)
      BY <1>7 DEF Toward
    <3>2. Toward(side)' + Amount(Tail(queued), side) <= Reach
      BY <1>5, <3>1
    <3> QED
      BY <1>1, <3>2 DEF Reach
  <2>3. QueueInReach'
    BY <2>2 DEF QueueInReach
  <2>4. SharesInReach'
    <3>1. "mean_rev" \in runs
      BY <1>3, <1>7 DEF Orders
    <3> QED
      BY <1>1, <3>1 DEF SharesInReach
  <2>5. OneReversion'
    <3> SUFFICES ASSUME runs = {"mean_rev"}, ~flawedBook' PROVE OneReversion'
      BY <1>1 DEF OneReversion
    <3>1. ~flawedBook /\ ~(Ends(s.side) /\ n < reversion.size)
      BY <1>7
    <3>2. /\ Len(queued) <= 1 /\ reversion.side = "BUY" /\ s.size = reversion.size
          /\ s.side = "BUY" => shares = 0
          /\ reversion # NoReversion => shares <= reversion.size
          /\ reversion # NoReversion
      BY <1>2, <3>1 DEF OneReversion, NoReversion
    <3>3. queued' = <<>>
      BY <1>1, <1>2, <3>2 DEF QuotingTypes
    <3>4. CASE s.side = "BUY"
      <4>1. reversion' = reversion /\ shares' = n
        BY <1>1, <1>3, <1>4, <1>7, <3>2, <3>4 DEF Ends, SharesAfter
      <4> QED
        BY <1>3, <3>2, <3>3, <4>1 DEF OneReversion
    <3>5. CASE s.side = "SELL"
      <4>1. Ends(s.side) /\ reversion' = NoReversion
        BY <1>7, <3>2, <3>5 DEF Ends
      <4>2. n = reversion.size /\ shares <= n
        BY <1>3, <3>1, <3>2, <4>1
      <4>3. shares' = 0
        BY <1>1, <3>5, <4>2 DEF SharesAfter
      <4> QED
        BY <3>3, <4>1, <4>3 DEF OneReversion
    <3> QED
      BY <1>3, <3>4, <3>5 DEF TradeSides
  <2> QED
    BY <2>1, <2>3, <2>4, <2>5 DEF QuotingInv
<1> QED
  BY <1>6, <1>7 DEF Filled, Told

\* The window of the token, its entries and those its settlement has still to come to.
WindowTypes == over \in BOOLEAN /\ tracked \in [Quoters -> Nat] /\ due \in [Quoters -> Nat]

\* After the roll nothing is queued, and the inventory only falls.
SettlingInv == QuotingTypes /\ queued = <<>> /\ inventory <= Reach /\ OneReversion

TokenInv == WindowTypes /\ (over => SettlingInv) /\ (~over => QuotingInv)

LEMMA InventoryReached ==
  ASSUME QuotingInv
  PROVE  inventory \in -Reach..Reach /\ Reach \in Nat
<1>1. "BUY" \in TradeSides /\ "SELL" \in TradeSides
  BY DEF TradeSides
<1>2. inventory \in Int /\ queued \in Seq(Orders) /\ Reach \in Nat
  BY ReachOfLevels DEF QuotingInv, QuotingTypes
<1>3. Toward("BUY") = inventory /\ Toward("SELL") = -inventory
  BY DEF Toward
<1>4. Toward("BUY") + Amount(queued, "BUY") <= Reach /\ Toward("SELL") + Amount(queued, "SELL") <= Reach
  BY <1>1 DEF QuotingInv, QueueInReach
<1>5. Amount(queued, "BUY") \in Nat /\ Amount(queued, "SELL") \in Nat
  BY <1>2, AmountType
<1> QED
  BY <1>2, <1>3, <1>4, <1>5

\* An action of the open window leaves the window open.
LEMMA QuotedInWindow ==
  ASSUME TokenInv,
         \/ KeepsStill \/ Exits \/ ComesToNothing
         \/ \E side \in {"BUY", "SELL"}, size \in ReversionSizes : Enters(side, size)
         \/ queued # <<>> /\ \E n \in 1..Head(queued).size : Filled(n)
         \/ queued # <<>> /\ \E n \in 0..Head(queued).size : Raised(n)
  PROVE  TokenInv'
<1>1. ~over
  <2>1. CASE KeepsStill \/ Exits \/ \E side \in {"BUY", "SELL"}, size \in ReversionSizes : Enters(side, size)
    BY <2>1 DEF KeepsStill, Exits, Enters, AskStrategies
  <2>2. CASE queued # <<>>
    BY <2>2 DEF TokenInv, SettlingInv
  <2> QED
    BY <2>1, <2>2 DEF ComesToNothing
<1>2. QuotingInv /\ WindowTypes
  BY <1>1 DEF TokenInv
<1>3. CASE KeepsStill \/ Exits \/ \E side \in {"BUY", "SELL"}, size \in ReversionSizes : Enters(side, size)
  <2>1. QuotingInv'
    BY <1>2, <1>3, AskedInv DEF TradeSides
  <2>2. UNCHANGED <<over, tracked, due>>
    BY <1>3 DEF KeepsStill, Exits, Enters, AskStrategies, window
  <2> QED
    BY <1>1, <1>2, <2>1, <2>2 DEF TokenInv, WindowTypes
<1>4. CASE ComesToNothing
  <2>1. QuotingInv'
    BY <1>2, <1>4, NothingInv
  <2>2. UNCHANGED <<over, tracked, due>>
    BY <1>4 DEF ComesToNothing, window
  <2> QED
    BY <1>1, <1>2, <2>1, <2>2 DEF TokenInv, WindowTypes
<1>5. ASSUME queued # <<>>, NEW n \in 1..Head(queued).size, Filled(n)
      PROVE  TokenInv'
  <2> DEFINE s == Head(queued)
  <2>1. QuotingInv'
    BY <1>2, <1>5, FilledInv
  <2>2. UNCHANGED <<over, due>>
    BY <1>5 DEF Filled
  <2>3. tracked' = IF s.side = "BUY" THEN [tracked EXCEPT ![s.of] = @ + n] ELSE tracked
    BY <1>5 DEF Filled
  <2>4. s \in Orders
    BY <1>2, <1>5, HeadLeaves
  <2>5. s.of \in Quoters /\ s.size \in Nat
    BY <1>2, <2>4 DEF QuotingInv, QuotingTypes, Orders
  <2>6. n \in Nat
    BY <2>5
  <2>7. tracked \in [Quoters -> Nat]
    BY <1>2 DEF WindowTypes
  <2>8. tracked' \in [Quoters -> Nat]
    BY <2>3, <2>5, <2>6, <2>7
  <2> QED
    BY <1>1, <1>2, <2>1, <2>2, <2>8 DEF TokenInv, WindowTypes
<1>6. ASSUME queued # <<>>, NEW n \in 0..Head(queued).size, Raised(n)
      PROVE  TokenInv'
  <2>1. QuotingInv'
    BY <1>2, <1>6, RaisedInv
  <2>2. UNCHANGED <<over, tracked, due>>
    BY <1>6 DEF Raised, window
  <2> QED
    BY <1>1, <1>2, <2>1, <2>2 DEF TokenInv, WindowTypes
<1> QED
  BY <1>3, <1>4, <1>5, <1>6

\* The roll leaves of the books what settlement goes on with.
LEMMA RolledInv ==
  ASSUME TokenInv, WindowRolls
  PROVE  TokenInv'
<1>1. /\ ~over /\ over' = TRUE /\ queued = <<>> /\ due' = tracked
      /\ shares' = shares \/ shares' = 0
      /\ UNCHANGED <<runs, queued, inventory, reversion, missed, flawedBook, tracked>>
  BY DEF WindowRolls
<1>2. QuotingInv /\ WindowTypes
  BY <1>1 DEF TokenInv
<1>3. QuotingTypes /\ OneReversion
  BY <1>2 DEF QuotingInv
<1>4. QuotingTypes'
  BY <1>1, <1>3 DEF QuotingTypes, Orders
<1>5. inventory' <= Reach'
  BY <1>1, <1>2, InventoryReached DEF Reach
<1>6. OneReversion'
  <2>1. CASE shares' = shares
    BY <1>1, <1>3, <2>1 DEF OneReversion
  <2>2. CASE shares' = 0
    <3> SUFFICES ASSUME runs = {"mean_rev"}, ~flawedBook PROVE OneReversion'
      BY <1>1 DEF OneReversion
    <3>1. reversion # NoReversion => reversion.side = "BUY" /\ shares <= reversion.size
      BY <1>3 DEF OneReversion
    <3>2. reversion # NoReversion => 0 <= reversion.size
      BY <1>3 DEF QuotingTypes
    <3>3. Len(queued) = 0
      BY <1>1
    <3> QED
      BY <1>1, <2>2, <3>1, <3>2, <3>3 DEF OneReversion
  <2> QED
    BY <1>1, <2>1, <2>2
<1>7. SettlingInv'
  BY <1>1, <1>4, <1>5, <1>6 DEF SettlingInv
<1>8. WindowTypes'
  BY <1>1, <1>2 DEF WindowTypes
<1> QED
  BY <1>1, <1>7, <1>8 DEF TokenInv

\* A sale of an entry, whoever is told of it, leaves MeanReversion with a position for
\* what is held, or with a book that is flawed.
LEMMA SoldInSettlement ==
  ASSUME SettlingInv, NEW n \in Nat, n > 0, shares' = SharesAfter("SELL", n),
         UNCHANGED <<runs, queued, missed>>,
         \/ \E of \in Quoters : Told(of, "SELL", n)
         \/ UNCHANGED <<inventory, reversion, flawedBook>>
  PROVE  SettlingInv'
<1>1. QuotingTypes /\ queued = <<>> /\ inventory <= Reach /\ OneReversion /\ Reach \in Nat
  BY ReachOfLevels DEF SettlingInv
<1>2. shares \in Nat /\ inventory \in Int
  BY <1>1 DEF QuotingTypes
<1>3. shares' = IF n >= shares THEN 0 ELSE shares - n
  BY DEF SharesAfter
<1>4. shares' \in Nat /\ shares' <= shares
  BY <1>2, <1>3
<1>5. /\ inventory' \in Int /\ inventory' <= inventory
      /\ \/ UNCHANGED <<reversion, flawedBook>>
         \/ /\ reversion' = IF Ends("SELL") THEN NoReversion ELSE reversion
            /\ flawedBook' = (flawedBook \/ (Ends("SELL") /\ n < reversion.size))
  <2>1. CASE UNCHANGED <<inventory, reversion, flawedBook>>
    BY <1>2, <2>1
  <2>2. ASSUME NEW of \in Quoters, Told(of, "SELL", n)
        PROVE  /\ inventory' = inventory \/ inventory' = inventory - n
               /\ \/ UNCHANGED <<reversion, flawedBook>>
                  \/ /\ reversion' = IF Ends("SELL") THEN NoReversion ELSE reversion
                     /\ flawedBook' = (flawedBook \/ (Ends("SELL") /\ n < reversion.size))
    BY <2>2 DEF Told, Stocked
  <2>3. inventory - n \in Int /\ inventory - n <= inventory
    BY <1>2
  <2> QED
    BY <1>2, <2>1, <2>2, <2>3
<1>6. QuotingTypes'
  <2>1. reversion' = reversion \/ reversion' = NoReversion
    BY <1>5
  <2> QED
    BY <1>1, <1>4, <1>5, <2>1 DEF QuotingTypes, Orders
<1>7. inventory' <= Reach'
  BY <1>1, <1>2, <1>5 DEF Reach
<1>8. OneReversion'
  <2> SUFFICES ASSUME runs = {"mean_rev"}, ~flawedBook' PROVE OneReversion'
    BY DEF OneReversion
  <2>1. ~flawedBook
    BY <1>5
  <2>2. /\ reversion = NoReversion => shares = 0
        /\ reversion # NoReversion => reversion.side = "BUY" /\ shares <= reversion.size
    BY <1>1, <2>1 DEF OneReversion
  <2>3. reversion # NoReversion => reversion.size \in Nat
    BY <1>1 DEF QuotingTypes
  <2>4. Len(queued') = 0 /\ queued' = <<>>
    BY <1>1
  <2>5. CASE UNCHANGED <<reversion, flawedBook>>
    BY <1>2, <1>4, <2>2, <2>3, <2>4, <2>5 DEF OneReversion
  <2>6. CASE /\ reversion' = IF Ends("SELL") THEN NoReversion ELSE reversion
             /\ flawedBook' = (flawedBook \/ (Ends("SELL") /\ n < reversion.size))
    <3>1. CASE Ends("SELL")
      <4>1. ~(n < reversion.size) /\ reversion' = NoReversion /\ reversion # NoReversion
        BY <2>6, <3>1 DEF Ends
      <4>2. shares' = 0
        BY <1>2, <1>3, <2>2, <2>3, <4>1
      <4> QED
        BY <2>4, <4>1, <4>2 DEF OneReversion
    <3>2. CASE ~Ends("SELL")
      <4>1. reversion' = reversion
        BY <2>6, <3>2
      <4> QED
        BY <1>2, <1>4, <2>2, <2>3, <2>4, <4>1 DEF OneReversion
    <3> QED
      BY <3>1, <3>2
  <2> QED
    BY <1>5, <2>5, <2>6
<1> QED
  BY <1>1, <1>6, <1>7, <1>8 DEF SettlingInv

LEMMA SettledInv ==
  ASSUME TokenInv, NEW of \in Quoters, NEW n \in 1..due[of],
         Settled(of, n) \/ SettlementRaises(of, n)
  PROVE  TokenInv'
<1>1. over /\ UNCHANGED <<runs, queued, missed, over>> /\ shares' = SharesAfter("SELL", n)
  BY DEF Settled, SettlementRaises
<1>2. SettlingInv /\ WindowTypes
  BY <1>1 DEF TokenInv
<1>3. tracked \in [Quoters -> Nat] /\ due \in [Quoters -> Nat]
  BY <1>2 DEF WindowTypes
<1>4. n \in Nat /\ n > 0 /\ due[of] - n \in Nat
  <2>1. due[of] \in Nat
    BY <1>3
  <2> QED
    BY <2>1
<1>5. SettlingInv'
  BY <1>1, <1>2, <1>4, SoldInSettlement DEF Settled, SettlementRaises
<1>6. tracked' \in [Quoters -> Nat] /\ due' \in [Quoters -> Nat]
  <2>1. CASE Settled(of, n)
    <3>1. /\ due' = [due EXCEPT ![of] = @ - n]
          /\ tracked' = NoEntries \/ tracked' = tracked
      BY <2>1 DEF Settled
    <3>2. NoEntries \in [Quoters -> Nat]
      BY DEF NoEntries
    <3> QED
      BY <1>3, <1>4, <3>1, <3>2
  <2>2. CASE SettlementRaises(of, n)
    BY <1>3, <2>2 DEF SettlementRaises
  <2> QED
    BY <2>1, <2>2
<1> QED
  BY <1>1, <1>2, <1>5, <1>6 DEF TokenInv, WindowTypes

LEMMA QuotingStep ==
  ASSUME TokenInv, [QuotingNext]_quotingVars
  PROVE  TokenInv'
<1>1. CASE \/ KeepsStill \/ Exits \/ ComesToNothing
           \/ \E side \in {"BUY", "SELL"}, size \in ReversionSizes : Enters(side, size)
           \/ queued # <<>> /\ \E n \in 1..Head(queued).size : Filled(n)
           \/ queued # <<>> /\ \E n \in 0..Head(queued).size : Raised(n)
  BY <1>1, QuotedInWindow
<1>2. CASE WindowRolls
  BY <1>2, RolledInv
<1>3. CASE \E of \in Quoters : \E n \in 1..due[of] : Settled(of, n) \/ SettlementRaises(of, n)
  BY <1>3, SettledInv
<1>4. CASE OutcomeUnknown
  <2>1. /\ over /\ tracked' = NoEntries /\ due' = NoEntries
        /\ UNCHANGED <<runs, queued, shares, inventory, reversion, missed, flawedBook, over>>
    BY <1>4 DEF OutcomeUnknown
  <2>2. SettlingInv'
    <3>1. SettlingInv
      BY <2>1 DEF TokenInv
    <3> QED
      BY <2>1, <3>1 DEF SettlingInv, QuotingTypes, Orders, OneReversion, Reach
  <2>3. WindowTypes'
    BY <2>1 DEF TokenInv, WindowTypes, NoEntries
  <2> QED
    BY <2>1, <2>2, <2>3 DEF TokenInv
<1>5. CASE UNCHANGED quotingVars
  <2>1. UNCHANGED <<runs, queued, shares, inventory, reversion, missed, flawedBook, over, tracked, due>>
    BY <1>5 DEF quotingVars, window
  <2>2. QuotingInv' = QuotingInv
    <3>1. QuotingTypes' = QuotingTypes /\ SharesInReach' = SharesInReach /\ OneReversion' = OneReversion
      BY <2>1 DEF QuotingTypes, Orders, SharesInReach, OneReversion, Reach
    <3>2. QueueInReach' = QueueInReach
      BY <2>1 DEF QueueInReach, Toward, Reach
    <3> QED
      BY <3>1, <3>2 DEF QuotingInv
  <2>3. SettlingInv' = SettlingInv
    BY <2>1 DEF SettlingInv, QuotingTypes, Orders, OneReversion, Reach
  <2>4. WindowTypes'
    BY <2>1 DEF TokenInv, WindowTypes
  <2> QED
    BY <2>1, <2>2, <2>3, <2>4 DEF TokenInv
<1> QED
  BY <1>1, <1>2, <1>3, <1>4, <1>5 DEF QuotingNext

\* The books that the strategies keep beside the OMS hold for any levels, limits and sizes:
\* however the orders of a step are filled, in part, not at all or with an exception, the
\* inventory stays within reach of its limit until the window rolls and bounds what the
\* OMS holds; and what MeanReversion has bought is in a position that it will exit, or
\* that settlement ends, also one that an exception interrupts and that is repeated.
THEOREM StrategiesKnowTheirBooks == QuotingSpec => []OwnBooksHold
<1>1. QuotingInit => TokenInv
  <2> SUFFICES ASSUME QuotingInit PROVE TokenInv
    OBVIOUS
  <2>1. over = FALSE /\ tracked = NoEntries /\ due = NoEntries
    BY DEF QuotingInit
  <2>2. WindowTypes
    BY <2>1 DEF WindowTypes, NoEntries
  <2> QED
    BY <2>1, <2>2, QuotingStart DEF TokenInv
<1>2. TokenInv => OwnBooksHold
  <2> SUFFICES ASSUME TokenInv PROVE OwnBooksHold
    OBVIOUS
  <2>1. InventoryInReach
    <3>1. CASE over
      BY <3>1 DEF TokenInv, SettlingInv, InventoryInReach
    <3>2. CASE ~over
      <4>1. QuotingInv
        BY <3>2 DEF TokenInv
      <4>2. inventory \in -Reach..Reach /\ Reach \in Nat
        BY <4>1, InventoryReached
      <4> QED
        BY <4>1, <4>2 DEF QuotingInv, SharesInReach, InventoryInReach
    <3> QED
      BY <3>1, <3>2
  <2>2. HeldIsKnown
    <3>1. QuotingTypes /\ OneReversion
      BY DEF TokenInv, SettlingInv, QuotingInv
    <3> QED
      BY <3>1 DEF QuotingTypes, OneReversion, HeldIsKnown
  <2> QED
    BY <2>1, <2>2 DEF OwnBooksHold
<1>3. TokenInv /\ [QuotingNext]_quotingVars => TokenInv'
  BY QuotingStep
<1> QED
  BY <1>1, <1>2, <1>3, PTL DEF QuotingSpec
-------------------------------------------------------------------------------
(* The evaluation of signals.  The prices that are kept of an asset are its *)
(* youngest, in order; so a look back finds the youngest that is old enough *)
(* or there is none, unless some were dropped.                              *)

PriceRow == [ts : Nat, price : Nat]
MarketRecord == [slug : Slugs, ts : Nat, price : Nat]

GivenSignal == [strategy : Forecasters, slug : Slugs, ts : Nat, against : Nat, up : BOOLEAN]

SignalTypes ==
  /\ records \in Seq(MarketRecord)
  /\ recent \in [RecAssets -> Seq(PriceRow)]
  /\ lastEmit \in [Forecasters \X Slugs -> Nat \cup {-1}]
  /\ emitted \in Seq(GivenSignal)
  /\ forecast \subseteq Forecasters \X Slugs \X Nat

\* The records that priced an asset.
Priced(recs, asset) == {i \in DOMAIN recs : SlugAsset[recs[i].slug] = asset /\ recs[i].price > 0}

\* The rows kept of an asset are as many as there were, up to the most that are kept; they
\* are in the order of their times, each is a record's, and what is not among them is no
\* younger than the first of them.
RowsOf(recs, asset, rows) ==
  /\ Len(rows) = IF Cardinality(Priced(recs, asset)) < MostPrices THEN Cardinality(Priced(recs, asset)) ELSE MostPrices
  /\ \A i, j \in DOMAIN rows : i <= j => rows[i].ts <= rows[j].ts
  /\ \A i \in DOMAIN rows : \E k \in Priced(recs, asset) :
       rows[i].ts = recs[k].ts /\ rows[i].price = recs[k].price
  /\ \A k \in Priced(recs, asset) :
       \/ \E i \in DOMAIN rows : rows[i].ts = recs[k].ts /\ rows[i].price = recs[k].price
       \/ Cardinality(Priced(recs, asset)) > MostPrices /\ recs[k].ts <= rows[1].ts

RecentKept == \A asset \in RecAssets : RowsOf(records, asset, recent[asset])

\* No record is younger than the last.
RecordsInOrder == \A i \in DOMAIN records : records[i].ts <= LastOf(records).ts

\* A signal is of a time that has a record, of momentum one with a price, and no younger
\* than the last one of its forecaster and window; which is a signal itself.
SignalsTimed ==
  /\ \A i \in DOMAIN emitted :
       /\ records # <<>> /\ emitted[i].ts <= LastOf(records).ts
       /\ emitted[i].ts <= lastEmit[<<emitted[i].strategy, emitted[i].slug>>]
       /\ emitted[i].strategy = "momentum" =>
            \E k \in Priced(records, SlugAsset[emitted[i].slug]) : records[k].ts = emitted[i].ts
  /\ \A k \in Forecasters \X Slugs : lastEmit[k] # -1 =>
       \E i \in DOMAIN emitted :
         emitted[i].strategy = k[1] /\ emitted[i].slug = k[2] /\ emitted[i].ts = lastEmit[k]

SignalInv ==
  /\ SignalTypes /\ RecentKept /\ RecordsInOrder /\ SignalsTimed /\ SignalsInOrder

\* The records that priced an asset are finitely many.
LEMMA PricedFinite ==
  ASSUME NEW recs \in Seq(MarketRecord), NEW asset
  PROVE  /\ IsFiniteSet(Priced(recs, asset)) /\ Cardinality(Priced(recs, asset)) \in Nat
         /\ Priced(recs, asset) \subseteq DOMAIN recs
<1>1. DOMAIN recs = 1..Len(recs) /\ Len(recs) \in Nat
  OBVIOUS
<1>2. IsFiniteSet(1..Len(recs))
  BY <1>1, FS_Interval
<1>3. Priced(recs, asset) \in SUBSET (1..Len(recs))
  BY <1>1 DEF Priced
<1>4. IsFiniteSet(Priced(recs, asset))
  BY <1>2, <1>3, FS_Subset
<1> QED
  BY <1>1, <1>3, <1>4, FS_CardinalityType

\* A row is added at the end, and the first one drops out when there are too many.
LEMMA PushedRows ==
  ASSUME NEW rows \in Seq(PriceRow), NEW row \in PriceRow, Len(rows) <= MostPrices
  PROVE  LET p == Pushed(rows, row.ts, row.price)
             m == IF Len(rows) = MostPrices THEN 1 ELSE 0
         IN  /\ p \in Seq(PriceRow) /\ Len(p) = Len(rows) + 1 - m
             /\ p[Len(p)] = row
             /\ \A i \in 1..(Len(p) - 1) : i + m \in 1..Len(rows) /\ p[i] = rows[i + m]
<1> DEFINE all == Append(rows, row)
<1>1. row = [ts |-> row.ts, price |-> row.price]
  BY DEF PriceRow
<1>2. /\ all \in Seq(PriceRow) /\ Len(all) = Len(rows) + 1 /\ all[Len(rows) + 1] = row
      /\ \A i \in 1..Len(rows) : all[i] = rows[i]
      /\ Len(rows) \in Nat
  OBVIOUS
<1>3. Pushed(rows, row.ts, row.price) = IF Len(all) > MostPrices THEN Tail(all) ELSE all
  BY <1>1 DEF Pushed
<1> HIDE DEF all
<1>4. CASE Len(rows) = MostPrices
  <2>1. Pushed(rows, row.ts, row.price) = Tail(all)
    BY <1>2, <1>3, <1>4
  <2>2. /\ Tail(all) \in Seq(PriceRow) /\ Len(Tail(all)) = Len(rows)
        /\ \A i \in 1..Len(rows) : Tail(all)[i] = all[i + 1]
    BY <1>2
  <2>3. Len(rows) > 0
    BY <1>4, ResearchAssumption
  <2> QED
    BY <1>2, <1>4, <2>1, <2>2, <2>3
<1>5. CASE Len(rows) < MostPrices
  <2>1. Pushed(rows, row.ts, row.price) = all
    BY <1>2, <1>3, <1>5, ResearchAssumption
  <2> QED
    BY <1>2, <1>5, <2>1
<1>6. Len(rows) = MostPrices \/ Len(rows) < MostPrices
  BY <1>2, ResearchAssumption
<1> QED
  BY <1>4, <1>5, <1>6

\* What one more record makes of the records that priced an asset.
LEMMA PricedGrows ==
  ASSUME SignalTypes, NEW r \in MarketRecord, records' = Append(records, r), NEW asset
  PROVE  /\ records' \in Seq(MarketRecord) /\ Len(records') = Len(records) + 1
         /\ records'[Len(records) + 1] = r
         /\ \A i \in DOMAIN records : i \in DOMAIN records' /\ records'[i] = records[i]
         /\ DOMAIN records' = DOMAIN records \cup {Len(records) + 1}
         /\ Len(records) + 1 \notin DOMAIN records
         /\ Priced(records', asset) = IF SlugAsset[r.slug] = asset /\ r.price > 0
                             THEN Priced(records, asset) \cup {Len(records) + 1} ELSE Priced(records, asset)
         /\ Cardinality(Priced(records', asset)) =
              Cardinality(Priced(records, asset)) + (IF SlugAsset[r.slug] = asset /\ r.price > 0 THEN 1 ELSE 0)
<1>1. /\ records' \in Seq(MarketRecord) /\ Len(records') = Len(records) + 1
      /\ records'[Len(records) + 1] = r /\ Len(records) \in Nat
      /\ \A i \in DOMAIN records : i \in DOMAIN records' /\ records'[i] = records[i]
      /\ DOMAIN records' = DOMAIN records \cup {Len(records) + 1}
      /\ Len(records) + 1 \notin DOMAIN records
  BY DEF SignalTypes
<1>2. Priced(records', asset) = IF SlugAsset[r.slug] = asset /\ r.price > 0
                       THEN Priced(records, asset) \cup {Len(records) + 1} ELSE Priced(records, asset)
  BY <1>1 DEF Priced
<1>3. /\ IsFiniteSet(Priced(records, asset)) /\ Cardinality(Priced(records, asset)) \in Nat
      /\ Len(records) + 1 \notin Priced(records, asset)
  BY <1>1, PricedFinite DEF SignalTypes
<1>4. Cardinality(Priced(records, asset) \cup {Len(records) + 1}) = Cardinality(Priced(records, asset)) + 1
  BY <1>3, FS_AddElement
<1> QED
  BY <1>1, <1>2, <1>3, <1>4

\* The rows of an asset with its newest price are again its youngest in order.
LEMMA PushKeepsRows ==
  ASSUME SignalTypes, NEW r \in MarketRecord, records' = Append(records, r),
         \A i \in DOMAIN records : records[i].ts <= r.ts,
         r.price > 0, NEW rows \in Seq(PriceRow), RowsOf(records, SlugAsset[r.slug], rows)
  PROVE  RowsOf(records', SlugAsset[r.slug], Pushed(rows, r.ts, r.price))
<1> DEFINE asset == SlugAsset[r.slug]
           row == [ts |-> r.ts, price |-> r.price]
           p == Pushed(rows, r.ts, r.price)
           n == Len(p)
           m == IF Len(rows) = MostPrices THEN 1 ELSE 0
           c == Cardinality(Priced(records, asset))
<1>1. c \in Nat /\ MostPrices \in Nat \ {0} /\ Priced(records, asset) \subseteq DOMAIN records
  BY PricedFinite, ResearchAssumption DEF SignalTypes
<1>2. /\ Priced(records', asset) = Priced(records, asset) \cup {Len(records) + 1}
      /\ Cardinality(Priced(records', asset)) = c + 1
      /\ records'[Len(records) + 1] = r
      /\ \A i \in DOMAIN records : records'[i] = records[i]
  BY PricedGrows, <1>1
<1>3. Len(rows) \in Nat /\ Len(rows) = (IF c < MostPrices THEN c ELSE MostPrices)
  BY DEF RowsOf
<1>4. row \in PriceRow /\ row.ts = r.ts /\ row.price = r.price
  BY DEF MarketRecord, PriceRow
<1>5. /\ p \in Seq(PriceRow) /\ n = Len(rows) + 1 - m /\ p[n] = row
      /\ \A i \in 1..(n - 1) : i + m \in 1..Len(rows) /\ p[i] = rows[i + m]
  <2>1. Len(rows) <= MostPrices
    BY <1>1, <1>3
  <2> QED
    BY <1>4, <2>1, PushedRows DEF n
<1>6. /\ m \in {0, 1} /\ DOMAIN p = 1..n /\ DOMAIN rows = 1..Len(rows) /\ n \in Nat /\ n > 0
      /\ m = 1 => Len(rows) > 0
  BY <1>1, <1>3, <1>5
<1>7. \A i \in 1..Len(rows) : i - m \in 1..(n - 1) \/ (m = 1 /\ i = 1)
  BY <1>3, <1>5, <1>6
<1>8. \A i \in DOMAIN rows : rows[i].ts \in Nat /\ rows[i].ts <= r.ts
  <2> SUFFICES ASSUME NEW i \in DOMAIN rows PROVE rows[i].ts \in Nat /\ rows[i].ts <= r.ts
    OBVIOUS
  <2>1. PICK k \in Priced(records, asset) : rows[i].ts = records[k].ts
    BY DEF RowsOf
  <2>2. k \in DOMAIN records
    BY <1>1
  <2>3. rows[i] \in PriceRow
    OBVIOUS
  <2> QED
    BY <2>1, <2>2, <2>3 DEF PriceRow
<1>9. \A i, j \in 1..Len(rows) : i <= j => rows[i].ts <= rows[j].ts
  BY <1>6 DEF RowsOf
<1> HIDE DEF p, n, m, row
<1>r. p[n].ts = r.ts /\ p[n].price = r.price /\ r.ts \in Nat
  BY <1>4, <1>5 DEF MarketRecord
<1>10. n = IF c + 1 < MostPrices THEN c + 1 ELSE MostPrices
  BY <1>1, <1>3, <1>5 DEF m
<1>11. \A i, j \in DOMAIN p : i <= j => p[i].ts <= p[j].ts
  <2> SUFFICES ASSUME NEW i \in 1..n, NEW j \in 1..n, i <= j PROVE p[i].ts <= p[j].ts
    BY <1>6
  <2>1. CASE j < n
    <3>1. i \in 1..(n - 1) /\ j \in 1..(n - 1)
      BY <1>6, <2>1
    <3>2. /\ i + m \in 1..Len(rows) /\ p[i] = rows[i + m]
          /\ j + m \in 1..Len(rows) /\ p[j] = rows[j + m]
      BY <1>5, <3>1
    <3>3. i + m <= j + m
      BY <1>6, <3>1
    <3> QED
      BY <1>9, <3>2, <3>3
  <2>2. CASE j = n /\ i < n
    <3>1. i + m \in DOMAIN rows /\ p[i] = rows[i + m]
      BY <1>5, <1>6, <2>2
    <3> QED
      BY <1>r, <1>8, <2>2, <3>1
  <2>3. CASE i = n
    BY <1>r, <1>6, <2>3
  <2> QED
    BY <1>6, <2>1, <2>2, <2>3
<1>12. \A i \in DOMAIN p : \E k \in Priced(records', asset) : p[i].ts = records'[k].ts /\ p[i].price = records'[k].price
  <2> SUFFICES ASSUME NEW i \in 1..n
               PROVE  \E k \in Priced(records', asset) : p[i].ts = records'[k].ts /\ p[i].price = records'[k].price
    BY <1>6
  <2>1. CASE i = n
    BY <1>r, <1>2, <2>1
  <2>2. CASE i < n
    <3>1. i + m \in DOMAIN rows /\ p[i] = rows[i + m]
      BY <1>5, <1>6, <2>2
    <3>2. PICK k \in Priced(records, asset) : rows[i+m].ts = records[k].ts /\ rows[i+m].price = records[k].price
      BY <3>1 DEF RowsOf
    <3> QED
      BY <1>1, <1>2, <3>1, <3>2
  <2>3. i = n \/ i < n
    BY <1>6
  <2> QED
    BY <2>1, <2>2, <2>3
<1>13. \A k \in Priced(records', asset) :
         \/ \E i \in DOMAIN p : p[i].ts = records'[k].ts /\ p[i].price = records'[k].price
         \/ c + 1 > MostPrices /\ records'[k].ts <= p[1].ts
  <2> SUFFICES ASSUME NEW k \in Priced(records', asset),
                      ~\E i \in DOMAIN p : p[i].ts = records'[k].ts /\ p[i].price = records'[k].price
               PROVE  c + 1 > MostPrices /\ records'[k].ts <= p[1].ts
    OBVIOUS
  <2>1. k \in Priced(records, asset) /\ records'[k] = records[k]
    <3>1. n \in DOMAIN p
      BY <1>6
    <3>2. k # Len(records) + 1
      BY <1>r, <1>2, <3>1
    <3> QED
      BY <1>1, <1>2, <3>2
  <2>2. CASE \E i \in DOMAIN rows : rows[i].ts = records[k].ts /\ rows[i].price = records[k].price
    <3>1. PICK i \in 1..Len(rows) : rows[i].ts = records[k].ts /\ rows[i].price = records[k].price
      BY <1>6, <2>2
    <3>2. m = 1 /\ i = 1
      <4>1. CASE i - m \in 1..(n - 1)
        <5>1. i - m \in DOMAIN p /\ p[i - m] = rows[i]
          BY <1>5, <1>6, <4>1
        <5> QED
          BY <2>1, <3>1, <5>1
      <4> QED
        BY <1>7, <4>1
    <3>3. p[1].ts >= rows[1].ts
      BY <1>r, <1>5, <1>6, <1>8, <1>9, <3>2
    <3> QED
      BY <1>1, <1>3, <2>1, <3>1, <3>2, <3>3 DEF m
  <2>3. CASE c > MostPrices /\ records[k].ts <= rows[1].ts
    <3>1. m = 1 /\ 1 \in DOMAIN rows /\ 1 \in DOMAIN p
      BY <1>1, <1>3, <1>6, <2>3 DEF m
    <3>2. p[1].ts \in Nat /\ p[1].ts >= rows[1].ts
      <4>1. CASE n = 1
        BY <1>r, <1>8, <3>1, <4>1
      <4>2. CASE n > 1
        <5>1. 1 \in 1..(n - 1) /\ 1 + m \in 1..Len(rows) /\ 1 \in 1..Len(rows) /\ 1 <= 1 + m
          BY <1>5, <1>6, <3>1, <4>2
        <5>2. p[1] = rows[1 + m] /\ rows[1].ts <= rows[1 + m].ts /\ rows[1 + m].ts \in Nat
          BY <1>5, <1>6, <1>8, <1>9, <5>1
        <5> QED
          BY <5>2
      <4> QED
        BY <1>6, <4>1, <4>2
    <3>3. records[k].ts \in Nat /\ rows[1].ts \in Nat
      <4>1. k \in DOMAIN records /\ records \in Seq(MarketRecord)
        BY <1>1, <2>1 DEF SignalTypes
      <4>2. records[k] \in MarketRecord
        BY <4>1
      <4> QED
        BY <1>8, <3>1, <4>2 DEF MarketRecord
    <3> QED
      BY <1>1, <2>1, <2>3, <3>2, <3>3
  <2> QED
    BY <2>1, <2>2, <2>3 DEF RowsOf
<1> QED
  BY <1>2, <1>10, <1>11, <1>12, <1>13 DEF RowsOf, p, n

\* What a record makes of the prices that are kept.
RowsAfter(r) == IF r.price > 0 THEN [recent EXCEPT ![SlugAsset[r.slug]] = Pushed(@, r.ts, r.price)] ELSE recent

LEMMA RecentGrows ==
  ASSUME SignalTypes, RecentKept, NEW r \in MarketRecord, records' = Append(records, r),
         recent' = RowsAfter(r), \A i \in DOMAIN records : records[i].ts <= r.ts
  PROVE  recent' \in [RecAssets -> Seq(PriceRow)] /\ RecentKept'
<1>1. SlugAsset[r.slug] \in RecAssets /\ recent \in [RecAssets -> Seq(PriceRow)]
  BY ResearchAssumption DEF MarketRecord, SignalTypes
<1>2. \A asset \in RecAssets : recent[asset] \in Seq(PriceRow) /\ RowsOf(records, asset, recent[asset])
  BY <1>1 DEF RecentKept
<1>3. ASSUME NEW asset \in RecAssets, asset # SlugAsset[r.slug] \/ ~(r.price > 0)
      PROVE  recent'[asset] = recent[asset] /\ RowsOf(records', asset, recent'[asset])
  <2>1. recent'[asset] = recent[asset]
    BY <1>1, <1>3 DEF RowsAfter
  <2>2. Priced(records', asset) = Priced(records, asset)
    BY <1>3, PricedGrows
  <2>3. \A k \in Priced(records, asset) : records'[k] = records[k]
    BY PricedFinite, PricedGrows DEF SignalTypes
  <2> DEFINE rows == recent[asset]
  <2>4. RowsOf(records, asset, rows)
    BY <1>2
  <2> HIDE DEF rows
  <2>5. RowsOf(records', asset, rows)
    <3>1. \A i \in DOMAIN rows : \E k \in Priced(records', asset) :
            rows[i].ts = records'[k].ts /\ rows[i].price = records'[k].price
      <4> SUFFICES ASSUME NEW i \in DOMAIN rows
                   PROVE  \E k \in Priced(records', asset) :
                            rows[i].ts = records'[k].ts /\ rows[i].price = records'[k].price
        OBVIOUS
      <4>1. PICK k \in Priced(records, asset) : rows[i].ts = records[k].ts /\ rows[i].price = records[k].price
        BY <2>4 DEF RowsOf
      <4> QED
        BY <2>2, <2>3, <4>1
    <3>2. \A k \in Priced(records', asset) :
            \/ \E i \in DOMAIN rows : rows[i].ts = records'[k].ts /\ rows[i].price = records'[k].price
            \/ Cardinality(Priced(records', asset)) > MostPrices /\ records'[k].ts <= rows[1].ts
      <4> SUFFICES ASSUME NEW k \in Priced(records', asset)
                   PROVE  \/ \E i \in DOMAIN rows : rows[i].ts = records'[k].ts /\ rows[i].price = records'[k].price
                          \/ Cardinality(Priced(records', asset)) > MostPrices /\ records'[k].ts <= rows[1].ts
        OBVIOUS
      <4>1. k \in Priced(records, asset) /\ records'[k] = records[k]
        BY <2>2, <2>3
      <4> QED
        BY <2>2, <2>4, <4>1 DEF RowsOf
    <3> QED
      BY <2>2, <2>4, <3>1, <3>2 DEF RowsOf
  <2> QED
    BY <2>1, <2>5 DEF rows
<1>4. ASSUME r.price > 0
      PROVE  LET asset == SlugAsset[r.slug]
             IN  recent'[asset] \in Seq(PriceRow) /\ RowsOf(records', asset, recent'[asset])
  <2> DEFINE rows == recent[SlugAsset[r.slug]]
  <2>1. recent'[SlugAsset[r.slug]] = Pushed(rows, r.ts, r.price)
    BY <1>1, <1>4 DEF RowsAfter
  <2>2. rows \in Seq(PriceRow) /\ RowsOf(records, SlugAsset[r.slug], rows)
    BY <1>1, <1>2
  <2>3. [ts |-> r.ts, price |-> r.price] \in PriceRow /\ Len(rows) <= MostPrices
    BY <1>1, <2>2, PricedFinite, ResearchAssumption DEF RowsOf, MarketRecord, PriceRow, SignalTypes
  <2>4. Pushed(rows, r.ts, r.price) \in Seq(PriceRow)
    <3> DEFINE row == [ts |-> r.ts, price |-> r.price]
    <3>1. row \in PriceRow /\ row.ts = r.ts /\ row.price = r.price
      BY <2>3
    <3> HIDE DEF row, rows
    <3> QED
      BY <2>2, <2>3, <3>1, PushedRows
  <2>5. RowsOf(records', SlugAsset[r.slug], Pushed(rows, r.ts, r.price))
    <3> HIDE DEF rows
    <3> QED
      BY <1>4, <2>2, PushKeepsRows
  <2> QED
    BY <2>1, <2>4, <2>5
<1>5. \A asset \in RecAssets : recent'[asset] \in Seq(PriceRow) /\ RowsOf(records', asset, recent'[asset])
  BY <1>2, <1>3, <1>4
<1>6. recent' \in [RecAssets -> Seq(PriceRow)]
  <2>1. DOMAIN recent' = RecAssets /\ recent' = [a \in RecAssets |-> recent'[a]]
    BY <1>1 DEF RowsAfter
  <2> QED
    BY <1>5, <2>1
<1> QED
  BY <1>5, <1>6 DEF RecentKept

\* What the look back finds: the youngest row that is old enough, or the first one.
LEMMA LooksAtOldest ==
  ASSUME NEW rows \in Seq(PriceRow), rows # <<>>, NEW target \in Int,
         \A i, j \in DOMAIN rows : i <= j => rows[i].ts <= rows[j].ts
  PROVE  \E n \in DOMAIN rows :
           /\ PriceAgo(rows, target) = rows[n].price
           /\ \/ rows[n].ts <= target /\ \A j \in DOMAIN rows : rows[j].ts <= target => rows[j].ts <= rows[n].ts
              \/ n = 1 /\ \A j \in DOMAIN rows : rows[j].ts > target
<1> DEFINE old == {i \in DOMAIN rows : \A j \in 1..i : rows[j].ts <= target}
<1>1. Len(rows) \in Nat /\ Len(rows) > 0 /\ DOMAIN rows = 1..Len(rows)
  OBVIOUS
<1>2. \A i \in DOMAIN rows : rows[i].ts \in Int
  <2>1. \A i \in DOMAIN rows : rows[i] \in PriceRow
    OBVIOUS
  <2> QED
    BY <2>1 DEF PriceRow
<1>3. \A i \in DOMAIN rows : i \in old <=> rows[i].ts <= target
  <2> SUFFICES ASSUME NEW i \in DOMAIN rows, rows[i].ts <= target PROVE i \in old
    BY <1>1
  <2>1. \A j \in 1..i : j \in DOMAIN rows /\ rows[j].ts <= rows[i].ts
    BY <1>1
  <2> QED
    BY <1>2, <2>1
<1>s. old \in SUBSET (1..Len(rows)) /\ \A i \in old : i \in DOMAIN rows
  BY <1>1
<1>p. PriceAgo(rows, target) = IF old = {} THEN rows[1].price ELSE rows[Cardinality(old)].price
  BY DEF PriceAgo
<1> HIDE DEF old
<1>4. CASE old = {}
  <2>1. PriceAgo(rows, target) = rows[1].price
    BY <1>4, <1>p
  <2>2. \A j \in DOMAIN rows : rows[j].ts > target
    BY <1>2, <1>3, <1>4
  <2> QED
    BY <1>1, <2>1, <2>2
<1>5. CASE old # {}
  <2> DEFINE n == Cardinality(old)
  <2>1. IsFiniteSet(1..Len(rows)) /\ Cardinality(1..Len(rows)) = Len(rows)
    BY <1>1, FS_Interval
  <2>2. IsFiniteSet(old) /\ n \in Nat /\ n <= Len(rows)
    BY <1>s, <2>1, FS_Subset, FS_CardinalityType
  <2>3. n > 0
    BY <1>5, <2>2, FS_EmptySet
  <2>n. n = Cardinality(old)
    OBVIOUS
  <2> HIDE DEF n
  <2>4. n \in old
    <3> SUFFICES ASSUME n \notin old PROVE FALSE
      OBVIOUS
    <3>1. n \in DOMAIN rows /\ rows[n].ts > target
      <4>1. n \in DOMAIN rows
        BY <1>1, <2>2, <2>3
      <4> QED
        BY <1>2, <1>3, <4>1
    <3>2. \A i \in old : i < n
      <4> SUFFICES ASSUME NEW i \in old, ~(i < n) PROVE FALSE
        OBVIOUS
      <4>1. i \in DOMAIN rows /\ n <= i /\ rows[n].ts <= rows[i].ts /\ rows[i].ts <= target
        BY <1>1, <1>s, <1>3, <2>2, <3>1
      <4> QED
        BY <1>2, <3>1, <4>1
    <3>3. old \in SUBSET (1..(n - 1))
      BY <1>s, <2>2, <3>2
    <3>4. n - 1 \in Int /\ IsFiniteSet(1..(n - 1)) /\ Cardinality(1..(n - 1)) = n - 1
      <4>1. n - 1 \in Int /\ 1 \in Int /\ (IF 1 > n - 1 THEN 0 ELSE n - 1 - 1 + 1) = n - 1
        BY <2>2, <2>3
      <4> QED
        BY <4>1, <2>2, <2>3, FS_Interval
    <3>5. n <= n - 1
      <4>1. Cardinality(old) <= Cardinality(1..(n - 1))
        BY <3>3, <3>4, FS_Subset
      <4> QED
        BY <2>n, <3>4, <4>1
    <3> QED
      BY <2>2, <3>5
  <2>5. \A j \in DOMAIN rows : rows[j].ts <= target => rows[j].ts <= rows[n].ts
    <3> SUFFICES ASSUME NEW j \in DOMAIN rows, rows[j].ts <= target, ~(rows[j].ts <= rows[n].ts) PROVE FALSE
      OBVIOUS
    <3>1. n < j
      BY <1>1, <1>2, <2>2, <2>3, <2>4
    <3>2. \A i \in 1..j : i \in old
      <4> SUFFICES ASSUME NEW i \in 1..j PROVE i \in old
        OBVIOUS
      <4>1. i \in DOMAIN rows /\ rows[i].ts <= rows[j].ts
        BY <1>1
      <4> QED
        BY <1>2, <1>3, <4>1
    <3>3. 1..j \in SUBSET old /\ Cardinality(1..j) = j
      <4>1. j \in Int /\ 1 \in Int /\ (IF 1 > j THEN 0 ELSE j - 1 + 1) = j
        BY <1>1
      <4> QED
        BY <3>2, <4>1, FS_Interval
    <3>4. j <= n
      BY <2>2, <2>n, <3>3, FS_Subset
    <3> QED
      BY <1>1, <2>2, <3>1, <3>4
  <2>6. PriceAgo(rows, target) = rows[n].price
    BY <1>5, <1>p, <2>n
  <2>7. n \in DOMAIN rows /\ rows[n].ts <= target
    BY <1>s, <1>3, <2>4
  <2> QED
    BY <2>5, <2>6, <2>7
<1> QED
  BY <1>4, <1>5

\* The price a record is compared with was known, and the youngest that is old enough.
LEMMA LookBackFinds ==
  ASSUME NEW recs \in Seq(MarketRecord), NEW asset, NEW rows \in Seq(PriceRow),
         RowsOf(recs, asset, rows), rows # <<>>, NEW target \in Int
  PROVE  LET aged == {k \in Priced(recs, asset) : recs[k].ts <= target}
         IN  \/ \E k \in aged : /\ PriceAgo(rows, target) = recs[k].price
                                /\ \A l \in aged : recs[l].ts <= recs[k].ts
             \/ /\ aged = {} \/ Cardinality(Priced(recs, asset)) > MostPrices
                /\ \E k \in Priced(recs, asset) : PriceAgo(rows, target) = recs[k].price
<1> DEFINE aged == {k \in Priced(recs, asset) : recs[k].ts <= target}
<1>1. \A i, j \in DOMAIN rows : i <= j => rows[i].ts <= rows[j].ts
  BY DEF RowsOf
<1>2. PICK n \in DOMAIN rows :
        /\ PriceAgo(rows, target) = rows[n].price
        /\ \/ rows[n].ts <= target /\ \A j \in DOMAIN rows : rows[j].ts <= target => rows[j].ts <= rows[n].ts
           \/ n = 1 /\ \A j \in DOMAIN rows : rows[j].ts > target
  BY <1>1, LooksAtOldest
<1>3. PICK k \in Priced(recs, asset) : rows[n].ts = recs[k].ts /\ rows[n].price = recs[k].price
  BY DEF RowsOf
<1>4. /\ \A l \in Priced(recs, asset) : recs[l].ts \in Int
      /\ \A j \in DOMAIN rows : rows[j].ts \in Int
      /\ 1 \in DOMAIN rows /\ \A j \in DOMAIN rows : rows[1].ts <= rows[j].ts
  <2>1. \A l \in DOMAIN recs : recs[l] \in MarketRecord
    OBVIOUS
  <2>2. \A j \in DOMAIN rows : rows[j] \in PriceRow
    OBVIOUS
  <2>3. 1 \in DOMAIN rows /\ \A j \in DOMAIN rows : 1 <= j
    OBVIOUS
  <2> QED
    <3>1. \A l \in Priced(recs, asset) : recs[l].ts \in Int
      <4>1. Priced(recs, asset) \subseteq DOMAIN recs
        BY PricedFinite
      <4> QED
        BY <2>1, <4>1 DEF MarketRecord
    <3>2. \A j \in DOMAIN rows : rows[j].ts \in Int
      BY <2>2 DEF PriceRow
    <3> QED
      BY <1>1, <2>3, <3>1, <3>2
<1>5. CASE rows[n].ts <= target /\ \A j \in DOMAIN rows : rows[j].ts <= target => rows[j].ts <= rows[n].ts
  <2>1. k \in aged
    BY <1>3, <1>5
  <2>2. ASSUME NEW l \in aged PROVE recs[l].ts <= recs[k].ts
    <3>1. CASE \E i \in DOMAIN rows : rows[i].ts = recs[l].ts
      BY <1>3, <1>5, <3>1
    <3>2. CASE recs[l].ts <= rows[1].ts
      BY <1>3, <1>4, <3>2
    <3> QED
      BY <3>1, <3>2 DEF RowsOf
  <2> QED
    BY <1>2, <1>3, <2>1, <2>2
<1>6. CASE n = 1 /\ \A j \in DOMAIN rows : rows[j].ts > target
  <2>1. ASSUME NEW l \in aged PROVE Cardinality(Priced(recs, asset)) > MostPrices
    <3>1. ~\E i \in DOMAIN rows : rows[i].ts = recs[l].ts
      BY <1>4, <1>6
    <3> QED
      BY <3>1 DEF RowsOf
  <2> QED
    BY <1>2, <1>3, <2>1
<1> QED
  BY <1>2, <1>5, <1>6

\* Who has a forecast for a record, and whose becomes a signal.
Sampled(r) == {f \in Forecasters : Reference(f, r, RowsAfter(r)) > 0}
Sent(r) == {f \in Sampled(r) : ShouldEmit(f, r)}
SignalsOf(r) == [f \in Forecasters |-> SignalFor(f, r, RowsAfter(r))]
SentBy(f, r) == IF f \in Sent(r) THEN <<SignalFor(f, r, RowsAfter(r))>> ELSE <<>>

\* What a forecaster compares with is a price.
LEMMA ReferenceType ==
  ASSUME NEW recs \in Seq(MarketRecord), NEW now \in [RecAssets -> Seq(PriceRow)],
         \A asset \in RecAssets : RowsOf(recs, asset, now[asset]),
         NEW r \in MarketRecord, NEW f \in Forecasters
  PROVE  Reference(f, r, now) \in Nat
<1>1. SlugAsset[r.slug] \in RecAssets /\ Leader \in RecAssets /\ r.ts - Back \in Int
  BY ResearchAssumption DEF MarketRecord
<1>2. ASSUME NEW asset \in RecAssets, now[asset] # <<>>
      PROVE  PriceAgo(now[asset], r.ts - Back) \in Nat
  <2> DEFINE rows == now[asset]
             target == r.ts - Back
  <2>1. rows \in Seq(PriceRow) /\ RowsOf(recs, asset, rows) /\ rows # <<>> /\ target \in Int
    BY <1>1, <1>2
  <2> HIDE DEF rows, target
  <2>2. PICK k \in Priced(recs, asset) : PriceAgo(rows, target) = recs[k].price
    BY <2>1, LookBackFinds
  <2>3. k \in DOMAIN recs
    BY PricedFinite
  <2>4. recs[k] \in MarketRecord
    BY <2>3
  <2> QED
    BY <2>2, <2>4 DEF MarketRecord, rows, target
<1>3. f \in {"baseline", "momentum", "leadlag"}
  BY DEF Forecasters
<1> QED
  BY <1>1, <1>2, <1>3 DEF Reference

\* A signal has its forecaster, window and time.
LEMMA SignalForType ==
  ASSUME NEW r \in MarketRecord, NEW f \in Forecasters, NEW rows, Reference(f, r, rows) \in Nat
  PROVE  /\ SignalFor(f, r, rows) \in GivenSignal
         /\ SignalFor(f, r, rows).strategy = f /\ SignalFor(f, r, rows).slug = r.slug
         /\ SignalFor(f, r, rows).ts = r.ts
         /\ SignalFor(f, r, rows).against = Reference(f, r, rows)
<1>1. (Current(f, r, rows) >= Reference(f, r, rows)) \in BOOLEAN
  OBVIOUS
<1> QED
  BY <1>1 DEF SignalFor, GivenSignal, MarketRecord

\* A sequence and, if f sends, its signal.
OneMore(s, t, sent, Of, f) ==
  /\ Len(t) = Len(s) + (IF f \in sent THEN 1 ELSE 0)
  /\ \A i \in 1..Len(s) : t[i] = s[i]
  /\ f \in sent => t[Len(s) + 1] = Of[f]

LEMMA AddsOne ==
  ASSUME NEW s \in Seq(GivenSignal), NEW sent, NEW Of, NEW f, f \in sent => Of[f] \in GivenSignal,
         NEW t, f \in sent => t = s \o <<Of[f]>>, f \notin sent => t = s
  PROVE  t \in Seq(GivenSignal) /\ OneMore(s, t, sent, Of, f)
<1>1. CASE f \in sent
  <2>1. Of[f] \in GivenSignal /\ <<Of[f]>> \in Seq(GivenSignal) /\ t = Append(s, Of[f])
    BY <1>1
  <2> QED
    BY <1>1, <2>1 DEF OneMore
<1>2. CASE f \notin sent
  <2>1. t = s
    BY <1>2
  <2> QED
    BY <1>2, <2>1 DEF OneMore
<1> QED
  BY <1>1, <1>2

\* The signals of a record come after those there are, one of each forecaster that sends.
GivenFor(sent, Of, s, t) ==
  /\ Len(t) >= Len(s)
  /\ \A i \in 1..Len(s) : t[i] = s[i]
  /\ \A i \in 1..Len(t) : i > Len(s) => \E f \in sent : t[i] = Of[f]
  /\ \A f \in sent : \E i \in 1..Len(t) : i > Len(s) /\ t[i] = Of[f]
  /\ \A i, j \in 1..Len(t) : Len(s) < i /\ i < j =>
       \E f, g \in sent : f # g /\ t[i] = Of[f] /\ t[j] = Of[g]

LEMMA SignalsAdded ==
  ASSUME NEW sent \in SUBSET Forecasters, NEW Of, NEW s \in Seq(GivenSignal),
         NEW a \in Seq(GivenSignal), NEW b \in Seq(GivenSignal), NEW t \in Seq(GivenSignal),
         OneMore(s, a, sent, Of, "baseline"), OneMore(a, b, sent, Of, "momentum"),
         OneMore(b, t, sent, Of, "leadlag")
  PROVE  GivenFor(sent, Of, s, t)
<1> DEFINE k == Len(s)
           l == Len(a)
           m == Len(b)
           n == Len(t)
<1>1. k \in Nat /\ l \in Nat /\ m \in Nat /\ n \in Nat
  OBVIOUS
<1>2. /\ l = k + (IF "baseline" \in sent THEN 1 ELSE 0)
      /\ m = l + (IF "momentum" \in sent THEN 1 ELSE 0)
      /\ n = m + (IF "leadlag" \in sent THEN 1 ELSE 0)
  BY DEF OneMore
<1>3. /\ \A i \in 1..k : a[i] = s[i]
      /\ \A i \in 1..l : b[i] = a[i]
      /\ \A i \in 1..m : t[i] = b[i]
      /\ "baseline" \in sent => a[k + 1] = Of["baseline"]
      /\ "momentum" \in sent => b[l + 1] = Of["momentum"]
      /\ "leadlag" \in sent => t[m + 1] = Of["leadlag"]
  BY DEF OneMore
<1> HIDE DEF k, l, m, n
<1>4. k <= l /\ l <= m /\ m <= n
  BY <1>1, <1>2
<1>5. \A i \in 1..k : t[i] = s[i]
  <2> SUFFICES ASSUME NEW i \in 1..k PROVE t[i] = s[i]
    OBVIOUS
  <2>1. i \in 1..l /\ i \in 1..m
    BY <1>1, <1>4
  <2> QED
    BY <1>3, <2>1
<1>6. /\ "baseline" \in sent => k + 1 \in 1..n /\ t[k + 1] = Of["baseline"]
      /\ "momentum" \in sent => l + 1 \in 1..n /\ t[l + 1] = Of["momentum"]
      /\ "leadlag" \in sent => m + 1 \in 1..n /\ t[m + 1] = Of["leadlag"]
  <2>1. ASSUME "baseline" \in sent PROVE k + 1 \in 1..l /\ k + 1 \in 1..m /\ k + 1 \in 1..n
    BY <1>1, <1>2, <1>4, <2>1
  <2>2. ASSUME "momentum" \in sent PROVE l + 1 \in 1..m /\ l + 1 \in 1..n
    BY <1>1, <1>2, <1>4, <2>2
  <2>3. ASSUME "leadlag" \in sent PROVE m + 1 \in 1..n
    BY <1>1, <1>2, <1>4, <2>3
  <2> QED
    BY <1>3, <2>1, <2>2, <2>3
<1>7. ASSUME NEW i \in 1..n, i > k
      PROVE  \/ i = k + 1 /\ i <= l /\ "baseline" \in sent
             \/ i = l + 1 /\ i <= m /\ "momentum" \in sent
             \/ i = m + 1 /\ i <= n /\ "leadlag" \in sent
  BY <1>1, <1>2, <1>7
<1>8. ASSUME NEW i \in 1..n, i > k PROVE \E f \in sent : t[i] = Of[f]
  BY <1>6, <1>7, <1>8
<1>9. ASSUME NEW f \in sent PROVE \E i \in 1..n : i > k /\ t[i] = Of[f]
  <2>1. f \in {"baseline", "momentum", "leadlag"}
    BY DEF Forecasters
  <2>2. k + 1 > k /\ l + 1 > k /\ m + 1 > k
    BY <1>1, <1>4
  <2> QED
    BY <1>6, <2>1, <2>2
<1>10. ASSUME NEW i \in 1..n, NEW j \in 1..n, k < i, i < j
       PROVE  \E f, g \in sent : f # g /\ t[i] = Of[f] /\ t[j] = Of[g]
  <2>1. j > k
    BY <1>1, <1>10
  <2>2. \/ i = k + 1 /\ "baseline" \in sent /\ j = l + 1 /\ "momentum" \in sent
        \/ i = k + 1 /\ "baseline" \in sent /\ j = m + 1 /\ "leadlag" \in sent
        \/ i = l + 1 /\ "momentum" \in sent /\ j = m + 1 /\ "leadlag" \in sent
    <3>1. \/ i = k + 1 /\ i <= l /\ "baseline" \in sent
          \/ i = l + 1 /\ i <= m /\ "momentum" \in sent
          \/ i = m + 1 /\ i <= n /\ "leadlag" \in sent
      BY <1>7, <1>10
    <3>2. \/ j = k + 1 /\ j <= l /\ "baseline" \in sent
          \/ j = l + 1 /\ j <= m /\ "momentum" \in sent
          \/ j = m + 1 /\ j <= n /\ "leadlag" \in sent
      BY <1>7, <2>1
    <3> QED
      BY <1>1, <1>4, <1>10, <3>1, <3>2
  <2> QED
    BY <1>6, <2>2
<1> QED
  BY <1>1, <1>4, <1>5, <1>8, <1>9, <1>10 DEF k, n, GivenFor

\* What looked back to a price of its time still does when a record of later is taken.
LEMMA LooksBackStays ==
  ASSUME SignalTypes, NEW r \in MarketRecord, records' = Append(records, r),
         NEW s \in GivenSignal, LooksBack(s), s.ts <= r.ts,
         \E k \in Priced(records, SlugAsset[s.slug]) : records[k].ts = s.ts
  PROVE  LooksBack(s)'
<1> DEFINE asset == SlugAsset[s.slug]
           new == Len(records) + 1
           priced == Known(asset, s.ts)
           later == Known(asset, s.ts)'
           Aged(K, recs) == {k \in K : recs[k].ts <= s.ts - Back}
<1>1. /\ \A k \in DOMAIN records : k \in DOMAIN records' /\ records'[k] = records[k]
      /\ DOMAIN records' = DOMAIN records \cup {new} /\ records'[new] = r
      /\ new \notin DOMAIN records
  BY PricedGrows
<1>2. s.ts \in Nat /\ Back \in Nat /\ r.ts \in Nat
  BY ResearchAssumption DEF GivenSignal, MarketRecord
<1>3. priced \subseteq DOMAIN records /\ priced \subseteq later /\ later \subseteq priced \cup {new}
  BY <1>1 DEF Known
<1>4. \A k \in priced : records[k].ts \in Nat /\ records[k].ts <= s.ts
  <2>1. \A k \in DOMAIN records : records[k] \in MarketRecord
    BY DEF SignalTypes
  <2> QED
    BY <2>1 DEF Known, MarketRecord
<1>5. IsFiniteSet(later) /\ Cardinality(priced) \in Nat /\ Cardinality(later) \in Nat
      /\ Cardinality(priced) <= Cardinality(later)
  <2>1. records' \in Seq(MarketRecord) /\ later \in SUBSET (1..Len(records')) /\ Len(records') \in Nat
    <3>1. records' \in Seq(MarketRecord)
      BY PricedGrows
    <3>2. DOMAIN records' = 1..Len(records') /\ Len(records') \in Nat
      BY <3>1
    <3>3. later \subseteq DOMAIN records'
      BY DEF Known
    <3> QED
      BY <3>1, <3>2, <3>3
  <2>2. IsFiniteSet(later)
    <3>1. IsFiniteSet(1..Len(records'))
      BY <2>1, FS_Interval
    <3> HIDE DEF later
    <3> QED
      BY <2>1, <3>1, FS_Subset
  <2> QED
    BY <1>3, <2>2, FS_Subset, FS_CardinalityType
<1>6. PICK now \in priced : records[now].ts = s.ts
  <2>1. PICK now \in Priced(records, asset) : records[now].ts = s.ts
    OBVIOUS
  <2>2. now \in priced
    BY <1>2, <2>1 DEF Priced, Known
  <2> QED
    BY <2>1, <2>2
<1>7. new \in later => r.ts = s.ts
  BY <1>1, <1>2 DEF Known
<1> HIDE DEF priced, later, new
<1>8. CASE \E j \in Aged(priced, records) :
             s.against = records[j].price /\ \A k \in Aged(priced, records) : records[k].ts <= records[j].ts
  <2>1. PICK j \in Aged(priced, records) :
             s.against = records[j].price /\ \A k \in Aged(priced, records) : records[k].ts <= records[j].ts
    BY <1>8
  <2>2. j \in Aged(later, records') /\ records'[j] = records[j]
    BY <1>1, <1>3, <2>1
  <2>3. ASSUME NEW k \in Aged(later, records') PROVE records'[k].ts <= records[j].ts
    <3>1. CASE k \in priced
      BY <1>1, <1>3, <2>1, <3>1
    <3>2. CASE k = new
      <4>1. r.ts = s.ts /\ s.ts <= s.ts - Back
        BY <1>1, <1>7, <3>2
      <4>2. now \in Aged(priced, records)
        BY <1>6, <4>1
      <4> QED
        BY <1>1, <1>6, <2>1, <3>2, <4>1, <4>2
    <3> QED
      BY <1>3, <3>1, <3>2
  <2>4. \E l \in Aged(later, records') :
           s.against = records'[l].price /\ \A k \in Aged(later, records') : records'[k].ts <= records'[l].ts
    BY <2>1, <2>2, <2>3
  <2> QED
    BY <2>4 DEF LooksBack, later
<1>9. CASE /\ Aged(priced, records) = {} \/ Cardinality(priced) > MostPrices
           /\ \E j \in priced : s.against = records[j].price
  <2>1. \E j \in later : s.against = records'[j].price
    BY <1>1, <1>3, <1>9
  <2>2. ASSUME Aged(priced, records) = {} PROVE Aged(later, records') = {}
    <3> SUFFICES ASSUME NEW k \in Aged(later, records') PROVE FALSE
      OBVIOUS
    <3>1. k = new
      BY <1>1, <1>3, <2>2
    <3>2. s.ts <= s.ts - Back
      BY <1>1, <1>7, <3>1
    <3>3. now \in Aged(priced, records)
      BY <1>6, <3>2
    <3> QED
      BY <2>2, <3>3
  <2>3. Cardinality(priced) > MostPrices => Cardinality(later) > MostPrices
    BY <1>5, ResearchAssumption
  <2>4. /\ Aged(later, records') = {} \/ Cardinality(later) > MostPrices
        /\ \E j \in later : s.against = records'[j].price
    BY <1>9, <2>1, <2>2, <2>3
  <2> QED
    BY <2>4 DEF LooksBack, later
<1> QED
  BY <1>8, <1>9 DEF LooksBack, priced

\* The signal of a forecaster.
SignalOf(f, r) ==
  LET s == SignalsOf(r)[f]
  IN  /\ f \in Forecasters /\ s \in GivenSignal
      /\ s.strategy = f /\ s.slug = r.slug /\ s.ts = r.ts
      /\ s.against = Reference(f, r, RowsAfter(r)) /\ s.against > 0

\* What a record changes: the prices first, then a signal of each forecaster that sends.
LEMMA RecordTaken ==
  ASSUME SignalInv, NEW r \in MarketRecord, TakeRecord(r)
  PROVE  /\ records' = Append(records, r) /\ \A i \in DOMAIN records : records[i].ts <= r.ts
         /\ recent' \in [RecAssets -> Seq(PriceRow)] /\ RecentKept' /\ RecordsInOrder'
         /\ emitted' \in Seq(GivenSignal)
         /\ GivenFor(Sent(r), SignalsOf(r), emitted, emitted')
         /\ \A f \in Sampled(r) : SignalOf(f, r)
<1>1. /\ records' = Append(records, r) /\ recent' = RowsAfter(r)
      /\ emitted' = emitted \o SentBy("baseline", r) \o SentBy("momentum", r) \o SentBy("leadlag", r)
      /\ records # <<>> => r.ts >= LastOf(records).ts
  BY DEF TakeRecord, RowsAfter, Sampled, Sent, SentBy
<1>2. SignalTypes /\ RecentKept /\ RecordsInOrder
  BY DEF SignalInv
<1>3. records \in Seq(MarketRecord) /\ emitted \in Seq(GivenSignal)
  BY <1>2 DEF SignalTypes
<1>4. \A i \in DOMAIN records : records[i].ts <= r.ts
  <2> SUFFICES ASSUME NEW i \in DOMAIN records PROVE records[i].ts <= r.ts
    OBVIOUS
  <2>1. records # <<>> /\ Len(records) \in DOMAIN records
    BY <1>3
  <2>2. records[i] \in MarketRecord /\ records[Len(records)] \in MarketRecord
    BY <1>3, <2>1
  <2>3. records[i].ts \in Nat /\ LastOf(records).ts \in Nat /\ r.ts \in Nat
    BY <2>2 DEF MarketRecord, LastOf
  <2> QED
    BY <1>1, <1>2, <2>1, <2>3 DEF RecordsInOrder
<1>5. recent' \in [RecAssets -> Seq(PriceRow)] /\ RecentKept'
  BY <1>1, <1>2, <1>4, RecentGrows
<1>6. /\ records' \in Seq(MarketRecord) /\ Len(records') = Len(records) + 1
      /\ records'[Len(records) + 1] = r /\ DOMAIN records' = DOMAIN records \cup {Len(records) + 1}
      /\ \A i \in DOMAIN records : records'[i] = records[i]
  BY <1>1, <1>2, PricedGrows
<1>7. RecordsInOrder'
  <2>1. LastOf(records') = r /\ r.ts <= r.ts
    BY <1>6 DEF LastOf, MarketRecord
  <2> QED
    BY <1>4, <1>6, <2>1 DEF RecordsInOrder
<1>8. ASSUME NEW f \in Sampled(r) PROVE SignalOf(f, r)
  <2>1. f \in Forecasters /\ Reference(f, r, recent') > 0
    BY <1>1 DEF Sampled
  <2>2. \A asset \in RecAssets : RowsOf(records', asset, recent'[asset])
    BY <1>5 DEF RecentKept
  <2>3. Reference(f, r, recent') \in Nat
    BY <1>5, <1>6, <2>1, <2>2, ReferenceType
  <2> QED
    BY <1>1, <2>1, <2>3, SignalForType DEF SignalOf, SignalsOf
<1> DEFINE Of == SignalsOf(r)
           a == emitted \o SentBy("baseline", r)
           b == a \o SentBy("momentum", r)
<1>9. /\ Sent(r) \in SUBSET Forecasters /\ Sent(r) \subseteq Sampled(r)
      /\ \A f \in Sent(r) : Of[f] \in GivenSignal
  BY <1>8 DEF Sent, Sampled, SignalOf
<1>10. /\ \A f \in Sent(r) : SentBy(f, r) = <<Of[f]>>
       /\ \A f : f \notin Sent(r) => SentBy(f, r) = <<>>
  BY <1>9 DEF SentBy, SignalsOf
<1> HIDE DEF Of
<1>11. a \in Seq(GivenSignal) /\ OneMore(emitted, a, Sent(r), Of, "baseline")
  <2>1. "baseline" \in Sent(r) => a = emitted \o <<Of["baseline"]>>
    BY <1>10
  <2>2. "baseline" \notin Sent(r) => a = emitted
    BY <1>3, <1>10
  <2> HIDE DEF a
  <2> QED
    BY <1>3, <1>9, <2>1, <2>2, AddsOne
<1>a. emitted' = a \o SentBy("momentum", r) \o SentBy("leadlag", r)
  BY <1>1
<1> HIDE DEF a
<1>12. b \in Seq(GivenSignal) /\ OneMore(a, b, Sent(r), Of, "momentum")
  <2>1. "momentum" \in Sent(r) => b = a \o <<Of["momentum"]>>
    BY <1>10
  <2>2. "momentum" \notin Sent(r) => b = a
    BY <1>10, <1>11
  <2> HIDE DEF b
  <2> QED
    BY <1>9, <1>11, <2>1, <2>2, AddsOne
<1>b. emitted' = b \o SentBy("leadlag", r)
  BY <1>a
<1> HIDE DEF b
<1>13. emitted' \in Seq(GivenSignal) /\ OneMore(b, emitted', Sent(r), Of, "leadlag")
  <2>1. "leadlag" \in Sent(r) => emitted' = b \o <<Of["leadlag"]>>
    BY <1>b, <1>10
  <2>2. "leadlag" \notin Sent(r) => emitted' = b
    BY <1>b, <1>10, <1>12
  <2> QED
    BY <1>9, <1>12, <2>1, <2>2, AddsOne
<1>14. GivenFor(Sent(r), Of, emitted, emitted')
  BY <1>3, <1>9, <1>11, <1>12, <1>13, SignalsAdded
<1> QED
  BY <1>1, <1>4, <1>5, <1>7, <1>8, <1>13, <1>14 DEF Of

\* A momentum signal on a record looks back as it should.
LEMMA NewLooksBack ==
  ASSUME SignalInv, NEW r \in MarketRecord, TakeRecord(r), "momentum" \in Sampled(r)
  PROVE  /\ \A s : s = SignalsOf(r)["momentum"] => LooksBack(s)'
         /\ \E k \in Priced(records', SlugAsset[r.slug]) : records'[k].ts = r.ts
<1> DEFINE asset == SlugAsset[r.slug]
           rows == recent'[asset]
           target == r.ts - Back
           new == Len(records) + 1
           s == SignalsOf(r)["momentum"]
<1>1. /\ recent' \in [RecAssets -> Seq(PriceRow)] /\ RecentKept' /\ RecordsInOrder'
      /\ records' = Append(records, r) /\ \A i \in DOMAIN records : records[i].ts <= r.ts
      /\ s.slug = r.slug /\ s.ts = r.ts /\ s.against = Reference("momentum", r, recent')
      /\ s.against > 0
  BY RecordTaken DEF TakeRecord, RowsAfter, SignalOf
<1>2. asset \in RecAssets /\ target \in Int /\ r.ts \in Nat /\ r.price \in Nat
  BY ResearchAssumption DEF MarketRecord
<1>3. rows # <<>> /\ r.price # 0 /\ Reference("momentum", r, recent') = PriceAgo(rows, target)
  BY <1>1 DEF Reference
<1>4. /\ records' \in Seq(MarketRecord) /\ DOMAIN records' = DOMAIN records \cup {new}
      /\ records'[new] = r /\ \A i \in DOMAIN records : records'[i] = records[i]
  BY <1>1, PricedGrows DEF SignalInv
<1>5. rows \in Seq(PriceRow) /\ RowsOf(records', asset, rows)
  BY <1>1, <1>2 DEF RecentKept
<1>6. new \in Priced(records', asset) /\ records'[new].ts = r.ts
  BY <1>2, <1>3, <1>4 DEF Priced
<1>7. \A i \in DOMAIN records' : records'[i].ts <= r.ts
  BY <1>1, <1>2, <1>4
<1>8. Known(asset, r.ts)' = Priced(records', asset)
  BY <1>7 DEF Known, Priced
<1>9. PriceAgo(rows, target) = s.against
  BY <1>1, <1>3
<1>10. SlugAsset[s.slug] = asset /\ s.ts = r.ts
  BY <1>1
<1> HIDE DEF s, rows
<1>11. LET aged == {k \in Priced(records', asset) : records'[k].ts <= target}
       IN  \/ \E k \in aged : PriceAgo(rows, target) = records'[k].price
                              /\ \A l \in aged : records'[l].ts <= records'[k].ts
           \/ /\ aged = {} \/ Cardinality(Priced(records', asset)) > MostPrices
              /\ \E k \in Priced(records', asset) : PriceAgo(rows, target) = records'[k].price
  BY <1>2, <1>3, <1>4, <1>5, LookBackFinds
<1>12. ASSUME NEW q, q = s PROVE LooksBack(q)'
  BY <1>8, <1>9, <1>10, <1>11, <1>12 DEF LooksBack
<1> QED
  BY <1>6, <1>12 DEF s

\* The three parts of SignalsInOrder that a record can disturb.
LEMMA TakeRecordKeeps ==
  ASSUME SignalInv, NEW r \in MarketRecord, TakeRecord(r)
  PROVE  SignalInv'
<1> DEFINE n == Len(emitted)
           m == Len(emitted')
           Of == SignalsOf(r)
<1>1. /\ records' = Append(records, r) /\ \A i \in DOMAIN records : records[i].ts <= r.ts
      /\ recent' \in [RecAssets -> Seq(PriceRow)] /\ RecentKept' /\ RecordsInOrder'
      /\ emitted' \in Seq(GivenSignal) /\ GivenFor(Sent(r), Of, emitted, emitted')
      /\ \A f \in Sampled(r) : SignalOf(f, r)
  BY RecordTaken
<1>2. /\ evaluated = NotYet /\ evaluated' = NotYet
      /\ lastEmit' = [k \in DOMAIN lastEmit |->
                        IF k[1] \in Sent(r) /\ k[2] = r.slug THEN r.ts ELSE lastEmit[k]]
      /\ forecast' = forecast \cup {<<f, r.slug, r.ts>> : f \in Sampled(r)}
  BY DEF TakeRecord, RowsAfter, Sampled, Sent
<1>3. /\ records \in Seq(MarketRecord) /\ emitted \in Seq(GivenSignal)
      /\ lastEmit \in [Forecasters \X Slugs -> Nat \cup {-1}]
      /\ forecast \subseteq Forecasters \X Slugs \X Nat
      /\ SignalTypes /\ SignalsTimed /\ SignalsInOrder
  BY DEF SignalInv, SignalTypes
<1>4. r.slug \in Slugs /\ r.ts \in Nat /\ Sent(r) \subseteq Sampled(r) /\ Sampled(r) \subseteq Forecasters
  BY DEF MarketRecord, Sent, Sampled
<1>5. /\ n \in Nat /\ m \in Nat /\ n <= m /\ DOMAIN emitted = 1..n /\ DOMAIN emitted' = 1..m
      /\ \A i \in 1..n : i \in 1..m /\ emitted'[i] = emitted[i] /\ emitted[i] \in GivenSignal
      /\ \A i \in 1..m : emitted'[i] \in GivenSignal
  BY <1>1, <1>3 DEF GivenFor
<1>6. \A i \in 1..m : i \in 1..n \/ (n < i /\ \E f \in Sent(r) : emitted'[i] = Of[f])
  BY <1>1, <1>5 DEF GivenFor
<1>7. \A f \in Sampled(r) : /\ Of[f] \in GivenSignal /\ Of[f].strategy = f /\ Of[f].slug = r.slug
                          /\ Of[f].ts = r.ts
  BY <1>1 DEF SignalOf
<1>8. \A f \in Sent(r) : \E i \in 1..m : n < i /\ emitted'[i] = Of[f]
  BY <1>1, <1>5 DEF GivenFor
<1>9. \A i, j \in 1..m : n < i /\ i < j => \E f, g \in Sent(r) : f # g /\ emitted'[i] = Of[f] /\ emitted'[j] = Of[g]
  BY <1>1 DEF GivenFor
<1> HIDE DEF n, m, Of
<1>10. /\ \A i \in 1..n : emitted[i].ts \in Nat /\ emitted[i].ts <= r.ts
                          /\ <<emitted[i].strategy, emitted[i].slug>> \in Forecasters \X Slugs
       /\ \A i \in 1..n : emitted[i].ts <= lastEmit[<<emitted[i].strategy, emitted[i].slug>>]
  <2> SUFFICES ASSUME NEW i \in 1..n
               PROVE  /\ emitted[i].ts \in Nat /\ emitted[i].ts <= r.ts
                      /\ <<emitted[i].strategy, emitted[i].slug>> \in Forecasters \X Slugs
                      /\ emitted[i].ts <= lastEmit[<<emitted[i].strategy, emitted[i].slug>>]
    OBVIOUS
  <2>1. /\ records # <<>> /\ emitted[i].ts <= LastOf(records).ts
        /\ emitted[i].ts <= lastEmit[<<emitted[i].strategy, emitted[i].slug>>]
    BY <1>3, <1>5 DEF SignalsTimed
  <2>2. Len(records) \in DOMAIN records /\ LastOf(records) = records[Len(records)]
    BY <1>3, <2>1 DEF LastOf
  <2>3. records[Len(records)] \in MarketRecord /\ records[Len(records)].ts <= r.ts
    BY <1>1, <1>3, <2>2
  <2>4. emitted[i] \in GivenSignal
    BY <1>5
  <2> QED
    BY <1>4, <2>1, <2>2, <2>3, <2>4 DEF MarketRecord, GivenSignal
<1>11. /\ lastEmit' \in [Forecasters \X Slugs -> Nat \cup {-1}]
       /\ \A f \in Forecasters, slug \in Slugs :
            lastEmit'[<<f, slug>>] = IF f \in Sent(r) /\ slug = r.slug THEN r.ts ELSE lastEmit[<<f, slug>>]
  <2>1. DOMAIN lastEmit = Forecasters \X Slugs
    BY <1>3
  <2>2. \A k \in Forecasters \X Slugs : lastEmit'[k] \in Nat \cup {-1}
    BY <1>2, <1>3, <1>4, <2>1
  <2>3. lastEmit' \in [Forecasters \X Slugs -> Nat \cup {-1}]
    BY <1>2, <2>1, <2>2
  <2>4. ASSUME NEW f \in Forecasters, NEW slug \in Slugs
        PROVE  lastEmit'[<<f, slug>>] = IF f \in Sent(r) /\ slug = r.slug THEN r.ts ELSE lastEmit[<<f, slug>>]
    <3>1. <<f, slug>> \in DOMAIN lastEmit /\ <<f, slug>>[1] = f /\ <<f, slug>>[2] = slug
      BY <2>1
    <3> QED
      BY <1>2, <3>1
  <2> QED
    BY <2>3, <2>4
<1>12. SignalTypes'
  <2>1. records' \in Seq(MarketRecord)
    BY <1>1, <1>3
  <2>2. forecast' \subseteq Forecasters \X Slugs \X Nat
    BY <1>2, <1>3, <1>4
  <2> QED
    BY <1>1, <1>11, <2>1, <2>2 DEF SignalTypes
<1>13. /\ records' # <<>> /\ LastOf(records') = r
       /\ \A asset : Priced(records, asset) \subseteq Priced(records', asset)
       /\ \A asset : \A k \in Priced(records, asset) : records'[k] = records[k]
  <2>1. \A asset : /\ records' \in Seq(MarketRecord) /\ Len(records') = Len(records) + 1
                   /\ records'[Len(records) + 1] = r
                   /\ \A i \in DOMAIN records : records'[i] = records[i]
                   /\ Priced(records, asset) \subseteq Priced(records', asset)
                   /\ Priced(records, asset) \subseteq DOMAIN records
    BY <1>1, <1>3, PricedGrows, PricedFinite
  <2> QED
    BY <2>1 DEF LastOf
<1>14. SignalsTimed'
  <2>1. ASSUME NEW i \in 1..m
        PROVE  /\ emitted'[i].ts <= r.ts
               /\ emitted'[i].ts <= lastEmit'[<<emitted'[i].strategy, emitted'[i].slug>>]
               /\ emitted'[i].strategy = "momentum" =>
                    \E k \in Priced(records', SlugAsset[emitted'[i].slug]) : records'[k].ts = emitted'[i].ts
    <3>1. CASE i \in 1..n
      <4>1. emitted'[i] = emitted[i] /\ emitted[i] \in GivenSignal
        BY <1>5, <3>1
      <4>2. emitted[i].strategy \in Forecasters /\ emitted[i].slug \in Slugs
        BY <4>1 DEF GivenSignal
      <4>3. emitted[i].ts <= lastEmit'[<<emitted[i].strategy, emitted[i].slug>>]
        BY <1>10, <1>11, <3>1, <4>2
      <4>4. emitted[i].strategy = "momentum" =>
              \E k \in Priced(records, SlugAsset[emitted[i].slug]) : records[k].ts = emitted[i].ts
        BY <1>3, <1>5, <3>1 DEF SignalsTimed
      <4> QED
        BY <1>10, <1>13, <3>1, <4>1, <4>3, <4>4
    <3>2. CASE n < i /\ \E f \in Sent(r) : emitted'[i] = Of[f]
      <4>1. PICK f \in Sent(r) : emitted'[i] = Of[f]
        BY <3>2
      <4>2. emitted'[i].strategy = f /\ emitted'[i].slug = r.slug /\ emitted'[i].ts = r.ts
        BY <1>4, <1>7, <4>1
      <4>3. lastEmit'[<<f, r.slug>>] = r.ts
        BY <1>4, <1>11, <4>1
      <4>4. f = "momentum" => \E k \in Priced(records', SlugAsset[r.slug]) : records'[k].ts = r.ts
        BY <1>4, <4>1, NewLooksBack
      <4> QED
        BY <1>4, <4>2, <4>3, <4>4
    <3> QED
      BY <1>6, <3>1, <3>2
  <2>2. ASSUME NEW f \in Forecasters, NEW slug \in Slugs, lastEmit'[<<f, slug>>] # -1
        PROVE  \E i \in 1..m : emitted'[i].strategy = f /\ emitted'[i].slug = slug
                               /\ emitted'[i].ts = lastEmit'[<<f, slug>>]
    <3>1. CASE f \in Sent(r) /\ slug = r.slug
      <4>1. PICK i \in 1..m : n < i /\ emitted'[i] = Of[f]
        BY <1>8, <3>1
      <4> QED
        BY <1>4, <1>7, <1>11, <3>1, <4>1
    <3>2. CASE ~(f \in Sent(r) /\ slug = r.slug)
      <4>1. lastEmit'[<<f, slug>>] = lastEmit[<<f, slug>>]
        BY <1>11, <3>2
      <4>2. PICK i \in DOMAIN emitted : emitted[i].strategy = <<f, slug>>[1] /\ emitted[i].slug = <<f, slug>>[2]
                                        /\ emitted[i].ts = lastEmit[<<f, slug>>]
        <5>1. <<f, slug>> \in Forecasters \X Slugs /\ lastEmit[<<f, slug>>] # -1
          BY <2>2, <4>1
        <5> QED
          BY <1>3, <5>1 DEF SignalsTimed
      <4> QED
        BY <1>5, <4>1, <4>2
    <3> QED
      BY <3>1, <3>2
  <2>3. ASSUME NEW k \in Forecasters \X Slugs, lastEmit'[k] # -1
        PROVE  \E i \in 1..m : emitted'[i].strategy = k[1] /\ emitted'[i].slug = k[2]
                               /\ emitted'[i].ts = lastEmit'[k]
    <3>1. k = <<k[1], k[2]>> /\ k[1] \in Forecasters /\ k[2] \in Slugs
      OBVIOUS
    <3> QED
      BY <2>2, <2>3, <3>1
  <2> QED
    BY <1>5, <1>13, <2>1, <2>3 DEF SignalsTimed
<1>15. ASSUME NEW i \in 1..m, emitted'[i].strategy = "momentum" PROVE LooksBack(emitted[i])'
  <2>1. CASE i \in 1..n
    <3>1. emitted'[i] = emitted[i] /\ emitted[i] \in GivenSignal /\ emitted[i].ts <= r.ts
      BY <1>5, <1>10, <2>1
    <3>2. LooksBack(emitted[i])
      BY <1>3, <1>5, <1>15, <2>1, <3>1 DEF SignalsInOrder
    <3>3. \E k \in Priced(records, SlugAsset[emitted[i].slug]) : records[k].ts = emitted[i].ts
      BY <1>3, <1>5, <1>15, <2>1, <3>1 DEF SignalsTimed
    <3>4. ASSUME NEW s, s = emitted[i] PROVE LooksBack(s)'
      BY <1>1, <1>3, <3>1, <3>2, <3>3, <3>4, LooksBackStays
    <3> QED
      BY <3>1, <3>4
  <2>2. CASE n < i /\ \E f \in Sent(r) : emitted'[i] = Of[f]
    <3>1. emitted'[i] = Of["momentum"] /\ "momentum" \in Sampled(r)
      BY <1>4, <1>7, <1>15, <2>2
    <3> QED
      BY <3>1, NewLooksBack DEF Of
  <2> QED
    BY <1>6, <2>1, <2>2
<1>16. ASSUME NEW i \in 1..m, NEW j \in 1..m, i < j, emitted'[i].strategy = emitted'[j].strategy,
              emitted'[i].slug = emitted'[j].slug
       PROVE  emitted'[j].ts - emitted'[i].ts >= Sample
  <2>1. CASE j \in 1..n
    <3>1. i \in 1..n
      BY <1>5, <1>16, <2>1
    <3> QED
      BY <1>3, <1>5, <1>16, <2>1, <3>1 DEF SignalsInOrder
  <2>2. CASE i \in 1..n /\ n < j /\ \E f \in Sent(r) : emitted'[j] = Of[f]
    <3>1. PICK f \in Sent(r) : emitted'[j] = Of[f]
      BY <2>2
    <3>2. /\ emitted'[i] = emitted[i] /\ emitted[i].strategy = f /\ emitted[i].slug = r.slug
          /\ emitted'[j].ts = r.ts /\ emitted[i].ts \in Nat /\ emitted[i].ts <= r.ts
          /\ emitted[i].ts <= lastEmit[<<f, r.slug>>] /\ ShouldEmit(f, r)
      BY <1>4, <1>5, <1>7, <1>10, <1>16, <2>2, <3>1 DEF Sent
    <3>3. lastEmit[<<f, r.slug>>] \in Nat \cup {-1} /\ Sample \in Nat
      <4>1. <<f, r.slug>> \in Forecasters \X Slugs
        BY <1>4, <3>1
      <4> QED
        BY <1>3, <4>1, ResearchAssumption
    <3> QED
      BY <1>4, <3>2, <3>3 DEF ShouldEmit
  <2>3. CASE n < i
    <3>1. PICK f \in Sent(r), g \in Sent(r) : f # g /\ emitted'[i] = Of[f] /\ emitted'[j] = Of[g]
      BY <1>9, <1>16, <2>3
    <3> QED
      BY <1>4, <1>7, <1>16, <3>1
  <2> QED
    BY <1>5, <1>6, <2>1, <2>2, <2>3
<1>17. ASSUME NEW f \in forecast'
       PROVE  \E i \in 1..m : /\ emitted'[i].strategy = f[1] /\ emitted'[i].slug = f[2]
                              /\ emitted'[i].ts <= f[3]
                              /\ (f[3] - emitted'[i].ts < Sample \/ emitted'[i].ts = f[3])
  <2>1. CASE f \in forecast
    <3>1. PICK i \in DOMAIN emitted : /\ emitted[i].strategy = f[1] /\ emitted[i].slug = f[2]
                                      /\ emitted[i].ts <= f[3]
                                      /\ (f[3] - emitted[i].ts < Sample \/ emitted[i].ts = f[3])
      BY <1>3, <2>1 DEF SignalsInOrder
    <3> QED
      BY <1>5, <3>1
  <2>2. CASE f \notin forecast
    <3>1. PICK g \in Sampled(r) : f = <<g, r.slug, r.ts>>
      BY <1>2, <2>2
    <3>2. CASE g \in Sent(r)
      <4>1. PICK i \in 1..m : emitted'[i] = Of[g]
        BY <1>8, <3>2
      <4> QED
        BY <1>4, <1>7, <3>1, <4>1
    <3>3. CASE g \notin Sent(r)
      <4>1. <<g, r.slug>> \in Forecasters \X Slugs /\ lastEmit[<<g, r.slug>>] # -1
            /\ ~(r.ts - lastEmit[<<g, r.slug>>] >= Sample)
        BY <1>4, <3>1, <3>3 DEF Sent, ShouldEmit
      <4>2. PICK i \in DOMAIN emitted : /\ emitted[i].strategy = <<g, r.slug>>[1]
                                        /\ emitted[i].slug = <<g, r.slug>>[2]
                                        /\ emitted[i].ts = lastEmit[<<g, r.slug>>]
        BY <1>3, <4>1 DEF SignalsTimed
      <4>3. emitted[i].ts \in Nat /\ emitted[i].ts <= r.ts /\ Sample \in Nat
        BY <1>5, <1>10, ResearchAssumption
      <4>4. r.ts - emitted[i].ts < Sample
        BY <1>4, <4>1, <4>2, <4>3
      <4>5. i \in 1..m /\ emitted'[i] = emitted[i] /\ emitted[i].strategy = g /\ emitted[i].slug = r.slug
        BY <1>5, <4>2
      <4> QED
        BY <3>1, <4>3, <4>4, <4>5
    <3> QED
      BY <3>2, <3>3
  <2> QED
    BY <2>1, <2>2
<1>18. SignalsInOrder'
  BY <1>2, <1>5, <1>15, <1>16, <1>17 DEF SignalsInOrder
<1> QED
  BY <1>1, <1>12, <1>14, <1>18 DEF SignalInv

\* Every signal is one forecaster's.
LEMMA EvaluateKeeps ==
  ASSUME SignalInv, NEW mids, NEW strikePrice, Evaluate(mids, strikePrice)
  PROVE  SignalInv'
<1> DEFINE Mine(f) == {i \in DOMAIN emitted : emitted[i].strategy = f}
           b == Mine("baseline")
           m == Mine("momentum")
           l == Mine("leadlag")
<1>1. UNCHANGED <<records, recent, lastEmit, emitted, forecast>>
  BY DEF Evaluate
<1>2. \A f \in Forecasters : evaluated'[f].n = Cardinality(Mine(f))
  BY DEF Evaluate
<1>3. emitted \in Seq(GivenSignal) /\ DOMAIN emitted = 1..Len(emitted) /\ Len(emitted) \in Nat
  BY DEF SignalInv, SignalTypes
<1>4. \A i \in DOMAIN emitted : emitted[i].strategy \in {"baseline", "momentum", "leadlag"}
  <2>1. \A i \in DOMAIN emitted : emitted[i] \in GivenSignal
    BY <1>3
  <2> QED
    BY <2>1 DEF GivenSignal, Forecasters
<1>5. /\ b \cup m \cup l = 1..Len(emitted)
      /\ b \cap m = {} /\ (b \cup m) \cap l = {}
      /\ b \in SUBSET (1..Len(emitted)) /\ m \in SUBSET (1..Len(emitted)) /\ l \in SUBSET (1..Len(emitted))
  BY <1>3, <1>4
<1>6. /\ evaluated'["baseline"].n = Cardinality(b) /\ evaluated'["momentum"].n = Cardinality(m)
      /\ evaluated'["leadlag"].n = Cardinality(l)
  BY <1>2 DEF Forecasters
<1> HIDE DEF b, m, l
<1>7. IsFiniteSet(1..Len(emitted)) /\ Cardinality(1..Len(emitted)) = Len(emitted)
  <2>1. (IF 1 > Len(emitted) THEN 0 ELSE Len(emitted) - 1 + 1) = Len(emitted) /\ 1 \in Int /\ Len(emitted) \in Int
    BY <1>3
  <2> QED
    BY <2>1, FS_Interval
<1>8. IsFiniteSet(b) /\ IsFiniteSet(m) /\ IsFiniteSet(l) /\ IsFiniteSet(b \cup m)
  BY <1>5, <1>7, FS_Subset, FS_Union
<1>9. /\ Cardinality(b) \in Nat /\ Cardinality(m) \in Nat /\ Cardinality(l) \in Nat
      /\ Cardinality(b \cup m) \in Nat
  BY <1>8, FS_CardinalityType
<1>10. Cardinality({}) = 0
  BY FS_EmptySet
<1>11. Cardinality(b \cup m) = Cardinality(b) + Cardinality(m) - Cardinality(b \cap m)
  BY <1>8, FS_Union
<1>12. Cardinality((b \cup m) \cup l) = Cardinality(b \cup m) + Cardinality(l) - Cardinality((b \cup m) \cap l)
  BY <1>8, FS_Union
<1>13. Cardinality(b) + Cardinality(m) + Cardinality(l) = Len(emitted)
  <2>1. Cardinality(b \cap m) = 0 /\ Cardinality((b \cup m) \cap l) = 0
        /\ Cardinality((b \cup m) \cup l) = Len(emitted)
    BY <1>5, <1>7, <1>10
  <2> QED
    BY <1>9, <1>11, <1>12, <2>1
<1>14. SignalTypes' /\ RecentKept' /\ RecordsInOrder' /\ SignalsTimed'
  BY <1>1 DEF SignalInv, SignalTypes, RecentKept, RecordsInOrder, SignalsTimed
<1>15. \A s : LooksBack(s)' <=> LooksBack(s)
  BY <1>1 DEF LooksBack, Known
<1>16. SignalsInOrder'
  BY <1>1, <1>6, <1>13, <1>15 DEF SignalInv, SignalsInOrder
<1> QED
  BY <1>14, <1>16 DEF SignalInv

LEMMA SignalStart == SignalInit => SignalInv
<1> SUFFICES ASSUME SignalInit PROVE SignalInv
  OBVIOUS
<1>1. records = <<>> /\ emitted = <<>> /\ DOMAIN records = {} /\ DOMAIN emitted = {}
  BY DEF SignalInit
<1>2. SignalTypes
  BY <1>1 DEF SignalInit, SignalTypes
<1>3. \A asset \in RecAssets : RowsOf(records, asset, recent[asset])
  <2> SUFFICES ASSUME NEW asset \in RecAssets PROVE RowsOf(records, asset, recent[asset])
    OBVIOUS
  <2>1. Priced(records, asset) = {} /\ Cardinality({}) = 0 /\ recent[asset] = <<>> /\ Len(<<>>) = 0
    BY <1>1, FS_EmptySet DEF SignalInit, Priced
  <2>2. DOMAIN recent[asset] = {} /\ 0 < MostPrices
    BY <2>1, ResearchAssumption
  <2> QED
    BY <2>1, <2>2 DEF RowsOf
<1>4. SignalsTimed
  BY <1>1 DEF SignalInit, SignalsTimed
<1>5. SignalsInOrder
  BY <1>1 DEF SignalInit, SignalsInOrder
<1> QED
  BY <1>1, <1>2, <1>3, <1>4, <1>5 DEF SignalInv, RecentKept, RecordsInOrder

LEMMA SignalStep == SignalInv /\ [SignalNext]_signalVars => SignalInv'
<1> SUFFICES ASSUME SignalInv, [SignalNext]_signalVars PROVE SignalInv'
  OBVIOUS
<1>1. ASSUME NEW slug \in Slugs, NEW ts \in 0..LastTime, NEW p \in RecPrices,
             TakeRecord([slug |-> slug, ts |-> ts, price |-> p])
      PROVE  SignalInv'
  <2>1. [slug |-> slug, ts |-> ts, price |-> p] \in MarketRecord
    BY ResearchAssumption DEF MarketRecord
  <2> QED
    BY <1>1, <2>1, TakeRecordKeeps
<1>2. ASSUME NEW mids \in [Slugs -> {"up", "down", "open"}], NEW strikePrice \in RecPrices, Evaluate(mids, strikePrice)
      PROVE  SignalInv'
  BY <1>2, EvaluateKeeps
<1>3. ASSUME UNCHANGED signalVars PROVE SignalInv'
  <2>1. \A s : LooksBack(s)' <=> LooksBack(s)
    BY <1>3 DEF signalVars, LooksBack, Known
  <2> QED
    BY <1>3, <2>1 DEF signalVars, SignalInv, SignalTypes, RecentKept, RecordsInOrder, SignalsTimed, SignalsInOrder
<1> QED
  BY <1>1, <1>2, <1>3 DEF SignalNext

\* For every history of records of any number of assets and windows, any span to look back,
\* any sample and any number of prices kept: a signal compares with the youngest known price
\* that is old enough, or with an older known one only if some were dropped; signals lie a
\* sample apart and miss no forecast by more, and each is evaluated once.
THEOREM SignalsAreInOrder == SignalSpec => []SignalsInOrder
<1>1. SignalInv => SignalsInOrder
  BY DEF SignalInv
<1> QED
  BY <1>1, SignalStart, SignalStep, PTL DEF SignalSpec
===============================================================================
