---------------------------- MODULE BtcFiveMinutes -----------------------------
(***************************************************************************)
(* BTC5mStrategy (strategies/btc_5m_old_version): one thread that follows  *)
(* the rolling window, buys both outcomes when they are cheap together or  *)
(* one of them when it has an edge, and settles by its own price feed.     *)
(*                                                                         *)
(* Time passes between any two steps of the loop: requests for prices,     *)
(* markets and books block it.  The probability model is abstracted to the *)
(* value it may give.  Prices of tokens are in parts of a Dollar.          *)
(*                                                                         *)
(* The callbacks of a fill run inside place_order, the OMS first.  What     *)
(* raises there raises in the loop, which handles it for pairs only: else   *)
(* the exception ends the bot (step "raised").                             *)
(***************************************************************************)
EXTENDS Integers, Sequences, FiniteSets

CONSTANTS
  Dollar,
  Span,          \* length of a window
  LastTick,      \* bound
  SpotPrices, FairValues,
  Quotes,        \* the books: [up, down, upBid, downBid], a bid of 0 if there is none
  Slippage,      \* what a walk through the book may add to the ask
  PairSizes, BetSizes,
  MinAge,        \* min_entry_age_seconds
  Deadline,      \* entry_deadline_seconds
  MinEdge, PairEdge,
  MaxAdverse,    \* max_adverse_distance_bps
  RetrySpan,     \* gamma_retry_seconds
  MaxInRow,      \* max_consecutive_losses
  DayLimit       \* daily_loss_limit

ASSUME BtcAssumption ==
  /\ Dollar \in Nat \ {0} /\ Span \in Nat \ {0} /\ LastTick \in Nat
  /\ SpotPrices \subseteq Nat /\ FairValues \subseteq 0..Dollar /\ Slippage \subseteq Nat
  /\ Quotes \subseteq [up : 1..Dollar, down : 1..Dollar, upBid : 0..Dollar, downBid : 0..Dollar]
  /\ PairSizes \subseteq Nat \ {0} /\ BetSizes \subseteq Nat \ {0}
  /\ {MinAge, Deadline, MinEdge, PairEdge, MaxAdverse, RetrySpan, DayLimit} \subseteq Nat
  /\ MaxInRow \in Nat \ {0}

VARIABLES
  time, spot,
  step,         \* where the loop is: "poll", "roll", "check", "pair", "single", "sleep",
                \* "stopped" or "raised"
  win, strike,  \* current_window, NoWin if there is none, and its starting_btc_price
  position,     \* current_position
  pair,         \* pair_shares of _both_entry, 0 for None
  cached, retryAfter,
  odds, fair,   \* what the pair and the single order of one pass go by
  held,         \* the OMS: per token size and cost
  stats,
  entries,      \* windows and positions taken, in order
  unknown,      \* pairs recorded without a result
  broken,       \* windows in which one leg of a pair failed
  lateEntries   \* entries made when a limit was reached already

btcVars == <<time, spot, step, win, strike, position, pair, cached, retryAfter, odds, fair,
             held, stats, entries, unknown, broken, lateEntries>>

NoWin == -1
BtcWindows == 0..(LastTick \div Span + 1)
Legs == {"UP", "DOWN"}
NothingHeld == [size |-> 0, cost |-> 0]
NoOdds == <<>>

BtcInit ==
  /\ time = 0 /\ spot \in SpotPrices /\ step = "poll"
  /\ win = NoWin /\ strike = 0 /\ position = "none" /\ pair = 0
  /\ cached = {} /\ retryAfter = [w \in BtcWindows |-> 0]
  /\ odds = NoOdds /\ fair = 0
  /\ held = [t \in BtcWindows \X Legs |-> NothingHeld]
  /\ stats = [trades |-> 0, wins |-> 0, losses |-> 0, inRow |-> 0, pnl |-> 0]
  /\ entries = <<>> /\ unknown = 0 /\ broken = {} /\ lateEntries = 0

-------------------------------------------------------------------------------
Now == time \div Span
Remaining == IF win = NoWin THEN 0 ELSE (win + 1) * Span - time
Elapsed == time - win * Span

Lowest(m, n) == IF m < n THEN m ELSE n

\* Plausible bug: a day's losses do not stop the bot.
StopsInRowOnly == stats.inRow >= MaxInRow

Stops == stats.inRow >= MaxInRow \/ stats.pnl < -DayLimit

historyVars == <<entries, broken, lateEntries>>

\* The head of the loop: stop, or poll the price.  A poll that fails takes the last one.
Poll(price) ==
  /\ step = "poll"
  /\ IF Stops THEN step' = "stopped" /\ UNCHANGED spot
              ELSE step' = "roll" /\ spot' = price
  /\ UNCHANGED <<time, win, strike, position, pair, cached, retryAfter, odds, fair, held, stats,
                 unknown>>
  /\ UNCHANGED historyVars

WithResult(s, profit, won) ==
  [s EXCEPT !.pnl = @ + profit,
            !.wins = IF won THEN @ + 1 ELSE @,
            !.losses = IF won THEN @ ELSE @ + 1,
            !.inRow = IF won THEN 0 ELSE @ + 1]

\* _record_result of a pair: the smaller leg counts, at the average prices of both;
\* both stay in the OMS.
PairProfit ==
  LET up == held[win, "UP"]  down == held[win, "DOWN"]
      n  == Lowest(pair, Lowest(up.size, down.size))
  IN  n * Dollar - (n * up.cost) \div up.size - (n * down.cost) \div down.size

RecordPair ==
  /\ IF held[win, "UP"].size = 0 \/ held[win, "DOWN"].size = 0
     THEN unknown' = unknown + 1 /\ UNCHANGED stats
     ELSE stats' = WithResult(stats, PairProfit, PairProfit >= 0) /\ UNCHANGED unknown
  /\ pair' = 0 /\ UNCHANGED held

WentUp == spot >= strike
Won == WentUp = (position = "UP")

\* Plausible bug: the result is only counted, not settled.
SettledInStats(t) == held

\* The synthetic settlement fill.
SettledInOms(t) == [held EXCEPT ![t] = NothingHeld]

\* _record_result of one outcome, by the feed's price at this moment.
RecordSingle ==
  LET t == <<win, position>>
  IN  /\ stats' = WithResult(stats, IF held[t].size = 0 THEN 0
                                    ELSE (IF Won THEN held[t].size * Dollar ELSE 0) - held[t].cost, Won)
      /\ held' = SettledInOms(t)
      /\ UNCHANGED <<pair, unknown>>

Record ==
  \/ position = "none" /\ UNCHANGED <<held, stats, pair, unknown>>
  \/ position = "BOTH" /\ RecordPair
  \/ position \in Legs /\ RecordSingle

\* The settlement fill has reached the OMS and a callback behind it raises: the profit
\* counts, the result does not, and the bot ends with its position.
RecordRaises ==
  /\ \/ step = "roll" /\ win \notin {Now, Now + 1}
     \/ step = "check" /\ win # NoWin /\ Remaining <= 0
  /\ position \in Legs /\ held[win, position].size > 0
  /\ LET t == <<win, position>>
     IN  /\ stats' = [stats EXCEPT !.pnl = @ + (IF Won THEN held[t].size * Dollar ELSE 0) - held[t].cost]
         /\ held' = SettledInOms(t)
  /\ step' = "raised"
  /\ UNCHANGED <<time, spot, win, strike, position, pair, cached, retryAfter, odds, fair, unknown>>
  /\ UNCHANGED historyVars

WindowValid == win \in {Now, Now + 1}

KeepWindow ==
  /\ step = "roll" /\ WindowValid
  /\ step' = "check"
  /\ UNCHANGED <<time, spot, win, strike, position, pair, cached, retryAfter, odds, fair, held,
                 stats, unknown>>
  /\ UNCHANGED historyVars

\* _discover_market: whether the market is asked for, and whether it is there then.
Asked(w) == w \notin cached /\ time >= retryAfter[w]
Discovers(w, answer) == w \in cached \/ (Asked(w) /\ answer)

\* _roll_to_new_window: this window or else the next; the strike is the price of now,
\* also for a window that has not begun.
RollWindow(this, next) ==
  /\ step = "roll" /\ ~WindowValid
  /\ Record
  /\ position' = "none"
  /\ LET first  == Discovers(Now, this)
         second == ~first /\ Discovers(Now + 1, next)
     IN  /\ win' = IF first THEN Now ELSE IF second THEN Now + 1 ELSE NoWin
         /\ strike' = IF first \/ second THEN spot ELSE strike
         /\ cached' = cached \cup (IF first THEN {Now} ELSE IF second THEN {Now + 1} ELSE {})
         /\ retryAfter' = [w \in BtcWindows |->
                             IF \/ w = Now /\ Asked(w) /\ ~this
                                \/ w = Now + 1 /\ ~first /\ Asked(w) /\ ~next
                             THEN time + RetrySpan ELSE retryAfter[w]]
  /\ step' = "check"
  /\ UNCHANGED <<time, spot, odds, fair>> /\ UNCHANGED historyVars

\* The pass sleeps for the interval of the polls.
PassOver == step' = "sleep" /\ odds' = NoOdds /\ fair' = 0

\* The window has ended since the roll: record, and look for one in the next pass.
Expire ==
  /\ step = "check" /\ win # NoWin /\ Remaining <= 0
  /\ Record
  /\ win' = NoWin /\ position' = "none" /\ PassOver
  /\ UNCHANGED <<time, spot, strike, cached, retryAfter>> /\ UNCHANGED historyVars

MayLook == position = "none" /\ Elapsed >= MinAge /\ Remaining >= Deadline

Wait ==
  /\ step = "check"
  /\ win = NoWin \/ (Remaining > 0 /\ ~MayLook)
  /\ PassOver
  /\ UNCHANGED <<time, spot, win, strike, position, pair, cached, retryAfter, held, stats, unknown>>
  /\ UNCHANGED historyVars

\* compute_signal and _get_market_odds, which may find no book.
Look(quote, value) ==
  /\ step = "check" /\ win # NoWin /\ Remaining > 0 /\ MayLook
  /\ IF quote = NoOdds THEN PassOver ELSE odds' = quote /\ fair' = value /\ step' = "pair"
  /\ UNCHANGED <<time, spot, win, strike, position, pair, cached, retryAfter, held, stats, unknown>>
  /\ UNCHANGED historyVars

-------------------------------------------------------------------------------
(* Entries.                                                                 *)

Bought(h, t, n, price) == [h EXCEPT ![t] = [size |-> @.size + n, cost |-> @.cost + n * price]]
Sold(h, t, n) == [h EXCEPT ![t] = [size |-> @.size - n, cost |-> @.cost - (@.cost * n) \div @.size]]

EntersAs(p) ==
  /\ position' = p /\ PassOver
  /\ entries' = Append(entries, [window |-> win, position |-> p])
  /\ lateEntries' = lateEntries + (IF stats.inRow >= MaxInRow \/ stats.pnl < -DayLimit THEN 1 ELSE 0)

PairIsCheap(up, down) ==
  odds.up + odds.down < Dollar - PairEdge /\ up + down < Dollar - PairEdge /\ Remaining >= Deadline

NoPair ==
  /\ step = "pair" /\ step' = "single"
  /\ UNCHANGED <<time, spot, win, strike, position, pair, cached, retryAfter, odds, fair, held,
                 stats, unknown>>
  /\ UNCHANGED historyVars

\* Both legs are accepted; an order the book serves in parts may fill in part.
BuyPair(n, up, down, gotUp, gotDown) ==
  /\ step = "pair" /\ PairIsCheap(up, down)
  /\ gotUp \in 0..n /\ gotDown \in 0..n
  /\ held' = Bought(Bought(held, <<win, "UP">>, gotUp, up), <<win, "DOWN">>, gotDown, down)
  /\ EntersAs("BOTH") /\ pair' = n
  /\ stats' = [stats EXCEPT !.trades = @ + 2]
  /\ UNCHANGED <<time, spot, win, strike, cached, retryAfter, unknown, broken>>

\* One leg is not accepted: the other is sold again, as far as somebody bids.  When
\* placing the second leg raises, nothing is sold.
PairBreaks(leg, n, up, down, got, back) ==
  /\ step = "pair" /\ PairIsCheap(up, down)
  /\ got \in 1..n /\ back \in 0..got
  /\ back > 0 => (IF leg = "UP" THEN odds.upBid ELSE odds.downBid) > 0
  /\ LET t     == <<win, leg>>
         after == Bought(held, t, got, IF leg = "UP" THEN up ELSE down)
     IN  held' = IF back = 0 THEN after ELSE Sold(after, t, back)
  /\ broken' = broken \cup {win}
  /\ step' = "single"
  /\ UNCHANGED <<time, spot, win, strike, position, pair, cached, retryAfter, odds, fair, stats,
                 entries, unknown, lateEntries>>

\* Both legs fill and a callback of the second one raises: _try_buy_both reports that
\* nothing was bought.
PairRaises(n, up, down, gotUp, gotDown) ==
  /\ step = "pair" /\ PairIsCheap(up, down)
  /\ gotUp \in 0..n /\ gotDown \in 1..n
  /\ held' = Bought(Bought(held, <<win, "UP">>, gotUp, up), <<win, "DOWN">>, gotDown, down)
  /\ broken' = broken \cup {win}
  /\ step' = "single"
  /\ UNCHANGED <<time, spot, win, strike, position, pair, cached, retryAfter, odds, fair, stats,
                 entries, unknown, lateEntries>>

\* The outcome with the larger edge.
UpEdge == fair - odds.up
DownEdge == Dollar - fair - odds.down
Side == IF UpEdge >= DownEdge THEN "UP" ELSE "DOWN"
Ask == IF Side = "UP" THEN odds.up ELSE odds.down
Worth == IF Side = "UP" THEN fair ELSE Dollar - fair

\* _direction_allowed: not further against the strike than the tolerance.
BasisPoints == 10000
Distance == (spot - strike) * BasisPoints
Allows ==
  /\ spot > 0 /\ strike > 0
  /\ IF Side = "UP" THEN Distance >= -(MaxAdverse * strike) ELSE Distance <= MaxAdverse * strike

\* _place_trade: the edge must be there at the price the book gives.
BuySingle(n, more, got) ==
  /\ step = "single" /\ Allows
  /\ Worth - (Ask + more) >= MinEdge /\ got \in 0..n
  /\ held' = Bought(held, <<win, Side>>, got, Ask + more)
  /\ EntersAs(Side)
  /\ stats' = [stats EXCEPT !.trades = @ + 1]
  /\ UNCHANGED <<time, spot, win, strike, pair, cached, retryAfter, unknown, broken>>

\* A callback raises after the OMS has booked the fill: nothing in run catches it, and the
\* bot never learns of the position.
BuySingleRaises(n, more, got) ==
  /\ step = "single" /\ Allows
  /\ Worth - (Ask + more) >= MinEdge /\ got \in 1..n
  /\ held' = Bought(held, <<win, Side>>, got, Ask + more)
  /\ step' = "raised"
  /\ UNCHANGED <<time, spot, win, strike, position, pair, cached, retryAfter, odds, fair, stats, unknown>>
  /\ UNCHANGED historyVars

\* No edge, too small a bet, no depth, or an order that is not accepted.
NoSingle ==
  /\ step = "single" /\ PassOver
  /\ UNCHANGED <<time, spot, win, strike, position, pair, cached, retryAfter, held, stats, unknown>>
  /\ UNCHANGED historyVars

TimePasses ==
  /\ step \notin {"stopped", "raised"} /\ time < LastTick
  /\ time' = time + 1
  /\ step' = IF step = "sleep" THEN "poll" ELSE step
  /\ UNCHANGED <<spot, win, strike, position, pair, cached, retryAfter, odds, fair, held,
                 stats, unknown>>
  /\ UNCHANGED historyVars

BtcNext ==
  \/ KeepWindow \/ Expire \/ Wait \/ NoPair \/ NoSingle \/ RecordRaises \/ TimePasses
  \/ \E p \in SpotPrices : Poll(p)
  \/ \E this, next \in BOOLEAN : RollWindow(this, next)
  \/ \E q \in Quotes \cup {NoOdds}, v \in FairValues : Look(q, v)
  \/ step = "pair" /\
       \E n \in PairSizes, x, y \in Slippage :
         \/ \E a, b \in 0..n : \/ BuyPair(n, odds.up + x, odds.down + y, a, b)
                              \/ PairRaises(n, odds.up + x, odds.down + y, a, b)
         \/ \E leg \in Legs, a, b \in 0..n :
              PairBreaks(leg, n, odds.up + x, odds.down + y, a, b)
  \/ \E n \in BetSizes, x \in Slippage : \E got \in 0..n :
       BuySingle(n, x, got) \/ BuySingleRaises(n, x, got)

BtcSpec == BtcInit /\ [][BtcNext]_btcVars

-------------------------------------------------------------------------------
\* Every window is entered once at most, and every entry leads to one result, be it
\* recorded when the window is rolled over or when its end is seen first; only what
\* has no result is never counted (run, _roll_to_new_window, _record_result).
ResultsCounted ==
  /\ \A i, j \in DOMAIN entries : entries[i].window = entries[j].window => i = j
  /\ Len(entries) =
       stats.wins + stats.losses + unknown + (IF position = "none" THEN 0 ELSE 1)
  /\ position # "none" =>
       entries # <<>> /\ entries[Len(entries)] = [window |-> win, position |-> position]
  /\ stats.trades =
       Len(entries) + Cardinality({i \in DOMAIN entries : entries[i].position = "BOTH"})

\* What the bot does not remember it does not hold, but for what it leaves behind: both legs
\* of every pair, legs of a pair that broke and could not be sold, and the order on which
\* an exception ended it (_record_result, _try_buy_both, _place_trade).
NothingForgotten ==
  \A w \in BtcWindows, leg \in Legs :
    held[<<w, leg>>].size > 0 =>
      \/ w = win /\ (position = leg \/ step = "raised")
      \/ w \in broken
      \/ \E i \in DOMAIN entries : entries[i] = [window |-> w, position |-> "BOTH"]

\* The statistics and the OMS tell of the same entries.
BooksAgree == ResultsCounted /\ NothingForgotten

\* The limits are looked at once a pass, and the roll records in the middle of one:
\* after a limit is reached there is one more entry at most, and the pair counts as
\* one (run).
StopsAtLimits == lateEntries <= 1
===============================================================================
