---------------------------- MODULE ReplayPortfolio ----------------------------
(***************************************************************************)
(* The portfolio replay (PortfolioReplayStrategy): its children have been   *)
(* replayed on their own, each with the whole bankroll; of their trades one *)
(* per asset and window is chosen, then these are taken in the order of     *)
(* their entry, cut to what the caps of the portfolio leave.                *)
(*                                                                         *)
(* A child gives at most one trade a window (OneTradeAWindow of Replay), so *)
(* the trades come as one offer or none for each child, asset and window,   *)
(* and the children's ranks alone decide between them.                      *)
(***************************************************************************)
EXTENDS ReplayLedger, FiniteSets, Sums

CONSTANTS
  Assets,
  Slots,        \* the <<child, asset, window>> that may offer a trade
  OfferTerms,   \* [left, size, gain] of the offers: gain is the profit per unit of size
  Weights,      \* percent of the bankroll per regime and child
  Rank,         \* PRIORITY of the children
  WindowShare, TotalShare,  \* percent for one window, and for all that is open
  MinAdmitted   \* the least notional that is traded

Regimes == {"warmup", "early_contested", "mid_shock", "endgame", "deadzone"}

\* Seconds of a rolling window.
WindowSeconds == 300

NoOffer == [left |-> 0, size |-> 0, gain |-> 0]

ASSUME PortfolioAssumption ==
  /\ IsFiniteSet(Slots)
  /\ Slots \subseteq (DOMAIN Rank) \X Assets \X Nat
  /\ \A c, d \in DOMAIN Rank : Rank[c] \in Nat /\ (Rank[c] = Rank[d] => c = d)
  /\ OfferTerms \subseteq [left : 0..WindowSeconds, size : Nat \ {0}, gain : Int]
  /\ Weights \in [Regimes -> [DOMAIN Rank -> 0..100]]
  /\ WindowShare \in 0..100 /\ TotalShare \in 0..100 /\ MinAdmitted \in Nat \ {0}

VARIABLES
  offers,    \* what the children's replays traded
  waiting,   \* the slots chosen and not yet taken, in a sequence that is empty before the choice
  admitted,  \* the trades of the portfolio, in the order they were taken
  results    \* the books per asset, in a sequence that is empty before they are made

portfolioVars == <<offers, waiting, admitted, results>>

Regime(left) ==
  CASE left < 12   -> "deadzone"
    [] left \in 12..60   -> "endgame"
    [] left \in 61..180  -> "mid_shock"
    [] left \in 181..240 -> "early_contested"
    [] left > 240  -> "warmup"

SleeveCap(slot) == (Start * Weights[Regime(offers[slot].left)][slot[1]]) \div 100

\* The trades that the regime of their entry allows at all.
Eligible == {s \in Slots : offers[s] # NoOffer /\ Weights[Regime(offers[s].left)][s[1]] > 0}

\* In each window the snipe goes first, then the highest rank.
Beats(s, t) ==
  s[1] = "snipe" \/ (t[1] # "snipe" /\ Rank[s[1]] >= Rank[t[1]])

\* Plausible bug: every eligible trade is taken.
ChosenAll == Eligible

Chosen ==
  {s \in Eligible : \A t \in Eligible : <<t[2], t[3]>> = <<s[2], s[3]>> => Beats(s, t)}

EntryTs(slot) == slot[3] * WindowSeconds + WindowSeconds - offers[slot].left

EndTs(slot) == EntryTs(slot) + offers[slot].left

\* What is taken and not settled at some time.
OpenAt(ts) == {i \in 1..Len(admitted) : EndTs(admitted[i].slot) > ts}

SizeOf(I) ==
  SeqTotal([i \in 1..Len(admitted) |-> IF i \in I THEN admitted[i].size ELSE 0])

UsedOf(slot) ==
  SizeOf({i \in 1..Len(admitted) :
            <<admitted[i].slot[2], admitted[i].slot[3]>> = <<slot[2], slot[3]>>})

Least(a, b) == IF a < b THEN a ELSE b

\* Plausible bug: the open positions are not counted.
AllowedAlone(slot) ==
  Least(Least(offers[slot].size, SleeveCap(slot)),
        Least((Start * WindowShare) \div 100 - UsedOf(slot), (Start * TotalShare) \div 100))

\* The caps of the sleeve, of the window and of all that is open.
Allowed(slot) ==
  LET ts == EntryTs(slot)
  IN  Least(Least(offers[slot].size, SleeveCap(slot)),
            Least((Start * WindowShare) \div 100 - UsedOf(slot),
                  (Start * TotalShare) \div 100 - SizeOf(OpenAt(ts))))

PortfolioInit ==
  /\ offers \in [Slots -> OfferTerms \cup {NoOffer}]
  /\ waiting = <<>>
  /\ admitted = <<>>
  /\ results = <<>>

SelectCandidates ==
  /\ waiting = <<>>
  /\ waiting' = <<Chosen>>
  /\ UNCHANGED <<offers, admitted, results>>

\* The next trade by time of entry is cut to size and taken, or left out.
Admit(slot) ==
  /\ waiting # <<>> /\ slot \in waiting[1]
  /\ \A other \in waiting[1] : EntryTs(slot) <= EntryTs(other)
  /\ waiting' = <<waiting[1] \ {slot}>>
  /\ admitted' = IF Allowed(slot) < MinAdmitted
                 THEN admitted
                 ELSE Append(admitted, [slot |-> slot, size |-> Allowed(slot)])
  /\ UNCHANGED <<offers, results>>

\* The resized trade as the books have it.
TradeOf(a) ==
  [slot |-> a.slot, size |-> a.size, outcome |-> None, pnl |-> 0]

PnlOf(a) == a.size * offers[a.slot].gain

\* A trade goes into the books of its asset.
BooksAfter(b, a, asset) ==
  IF a.slot[2] = asset
  THEN Entered(b, TradeOf(a), IF PnlOf(a) > 0 THEN "WIN" ELSE "LOSS", PnlOf(a), 0)
  ELSE b

BooksAlong(asset) ==
  LET books[i \in 0..Len(admitted)] ==
        IF i = 0 THEN EmptyBook ELSE BooksAfter(books[i-1], admitted[i], asset)
  IN  books

BooksOf(asset) == BooksAlong(asset)[Len(admitted)]

BuildResults ==
  /\ waiting = <<{}>> /\ results = <<>>
  /\ results' = <<[a \in Assets |-> BooksOf(a)]>>
  /\ UNCHANGED <<offers, waiting, admitted>>

PortfolioNext ==
  SelectCandidates \/ (\E s \in Slots : Admit(s)) \/ BuildResults

PortfolioSpec == PortfolioInit /\ [][PortfolioNext]_portfolioVars

-------------------------------------------------------------------------------
\* The portfolio takes one trade per asset and window, and at no time is more at
\* stake than its share of the bankroll: whatever was open when a trade was taken
\* and had not ended counts with it (_select_candidates).  Its books add up.
PortfolioCaps ==
  /\ \A k \in 1..Len(admitted) :
       LET ts   == EntryTs(admitted[k].slot)
           live == {i \in 1..k : EndTs(admitted[i].slot) > ts}
       IN  /\ SizeOf(live \cup {k}) <= (Start * TotalShare) \div 100
           /\ \A i \in 1..(k-1) :
                /\ EntryTs(admitted[i].slot) <= ts
                /\ <<admitted[i].slot[2], admitted[i].slot[3]>> #
                     <<admitted[k].slot[2], admitted[k].slot[3]>>
  /\ results # <<>> => \A a \in Assets : AddsUp(results[1][a])
===============================================================================
