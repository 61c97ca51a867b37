--------------------------- MODULE QuotingStrategies ---------------------------
(***************************************************************************)
(* The strategies that keep books of their own beside the OMS: StoikovMM    *)
(* (strategies/v2/mm.py) with its inventory and MeanReversion               *)
(* (strategies/v2/meanrev.py) with its positions, on one token of a runner  *)
(* in paper trading, up to the roll of the token's window and the fills that *)
(* settle it (_on_window_roll).  Prices, and what they make MeanReversion   *)
(* wish, are free; so are the sizes Kelly gives.                            *)
(***************************************************************************)
EXTENDS Integers, Sequences, Sums

CONSTANTS
  LevelSizes,      \* of the quotes of one side, the largest first
  InventoryLimit,
  ReversionSizes,
  MostHeld         \* bound

ASSUME QuotingAssumption ==
  /\ LevelSizes \in Seq(Nat \ {0}) /\ LevelSizes # <<>>
  /\ InventoryLimit \in Nat /\ ReversionSizes \subseteq Nat \ {0} /\ MostHeld \in Nat

VARIABLES
  runs,       \* the strategies that were asked for
  queued,     \* signals of this step still to submit, [of, side, size]
  shares,     \* of the token in the OMS
  inventory,  \* of StoikovMM
  reversion,  \* _positions of MeanReversion, or NoReversion
  missed,     \* whether some fill was told to no strategy
  flawedBook, \* whether MeanReversion went short, or was told of a partial exit
  over,       \* whether the window of the token has rolled
  tracked,    \* shares in the entries of a strategy (_open_entries)
  due         \* those of them the settlement under way has still to come to

window == <<over, tracked, due>>

quotingVars == <<runs, queued, shares, inventory, reversion, missed, flawedBook, window>>

NoReversion == [side |-> "none", size |-> 0]

Quoters == {"stoikov_mm", "mean_rev"}

NoEntries == [of \in Quoters |-> 0]

Signal(of, side, size) == [of |-> of, side |-> side, size |-> size]

QuotingInit ==
  /\ runs \in (SUBSET Quoters) \ {{}}
  /\ queued = <<>> /\ shares = 0 /\ inventory = 0
  /\ reversion = NoReversion
  /\ missed = FALSE /\ flawedBook = FALSE
  /\ over = FALSE /\ tracked = NoEntries /\ due = NoEntries

\* The position limit of one quote.  All quotes of a step see the same inventory.
WithinLimit(q) ==
  IF q.side = "BUY" THEN inventory + q.size <= InventoryLimit
                    ELSE inventory - q.size >= -InventoryLimit

SideQuote(side, size) ==
  LET q == Signal("stoikov_mm", side, size) IN IF WithinLimit(q) THEN <<q>> ELSE <<>>

\* A bid and an ask on level k, as far as the limit allows, behind those before.
WithLevel(quotes, k) ==
  quotes \o SideQuote("BUY", LevelSizes[k]) \o SideQuote("SELL", LevelSizes[k])

\* QuotesTo[k] are the quotes of the first k levels.
QuotesTo ==
  LET quotes[k \in 0..Len(LevelSizes)] == IF k = 0 THEN <<>> ELSE WithLevel(quotes[k-1], k)
  IN  quotes

LevelQuotes == QuotesTo[Len(LevelSizes)]

OtherSide(side) == IF side = "BUY" THEN "SELL" ELSE "BUY"

\* step of the runner, before the submissions: what is queued of MeanReversion follows
\* the quotes.
AskStrategies(reversions) ==
  /\ ~over /\ queued = <<>> /\ shares <= MostHeld
  /\ \A of \in Quoters : tracked[of] <= MostHeld
  /\ queued' = (IF "stoikov_mm" \in runs THEN LevelQuotes ELSE <<>>) \o reversions
  /\ UNCHANGED <<runs, shares, inventory, missed, window>>

\* MeanReversion has nothing to do, too little history, or a cooldown after a stop-loss,
\* which comes with the exit although its order may fail.
KeepsStill == AskStrategies(<<>>) /\ UNCHANGED <<reversion, flawedBook>>

\* An entry is written down before it is submitted, whatever becomes of the order.
Enters(side, size) ==
  /\ "mean_rev" \in runs /\ reversion = NoReversion
  /\ AskStrategies(<<Signal("mean_rev", side, size)>>)
  /\ reversion' = [side |-> side, size |-> size]
  /\ flawedBook' = (flawedBook \/ side = "SELL")

\* Out of the regime, at the target or at the stop: the whole size, again at every step
\* until a fill of it is told.
Exits ==
  /\ reversion # NoReversion
  /\ AskStrategies(<<Signal("mean_rev", OtherSide(reversion.side), reversion.size)>>)
  /\ UNCHANGED <<reversion, flawedBook>>

\* record_fill: a sale of more than is held leaves nothing.
SharesAfter(side, n) ==
  IF side = "BUY" THEN shares + n ELSE IF n >= shares THEN 0 ELSE shares - n

\* StoikovMM.on_fill
Stocked(side, n) == IF side = "BUY" THEN inventory + n ELSE inventory - n

\* Plausible bug: any fill ends the position, also that of its entry.
EndsAtAny(side) == reversion # NoReversion

\* MeanReversion.on_fill: a fill of the other side removes the position, however much
\* of it was sold.
Ends(side) == reversion # NoReversion /\ side # reversion.side

\* An order that is rejected, or fills nothing.
ComesToNothing ==
  /\ queued # <<>> /\ queued' = Tail(queued)
  /\ UNCHANGED <<runs, shares, inventory, reversion, missed, flawedBook, window>>

\* on_fill of the strategy whose name the signal, or the entry, begins with.
Told(of, side, n) ==
  \/ /\ of = "stoikov_mm" /\ inventory' = Stocked(side, n)
     /\ UNCHANGED <<reversion, flawedBook>>
  \/ /\ of = "mean_rev"
     /\ reversion' = IF Ends(side) THEN NoReversion ELSE reversion
     /\ flawedBook' = (flawedBook \/ (Ends(side) /\ n < reversion.size))
     /\ UNCHANGED inventory

\* A fill of n, all of the order or a part, is told to its strategy; one that buys is an
\* entry from then on.
Filled(n) ==
  /\ LET s == Head(queued)
     IN  /\ shares' = SharesAfter(s.side, n)
         /\ Told(s.of, s.side, n)
         /\ tracked' = IF s.side = "BUY" THEN [tracked EXCEPT ![s.of] = @ + n] ELSE tracked
  /\ queued' = Tail(queued)
  /\ UNCHANGED <<runs, missed, over, due>>

\* An exception ends the step: the signals behind are lost, and a fill that the OMS had
\* before the exception (n > 0) is told to no strategy.
Raised(n) ==
  /\ shares' = IF n = 0 THEN shares ELSE SharesAfter(Head(queued).side, n)
  /\ missed' = (missed \/ n > 0)
  /\ queued' = <<>>
  /\ UNCHANGED <<runs, inventory, reversion, flawedBook, window>>

\* The roll, before the strategies are asked.  Neither of them does anything on_cancel,
\* and the token is quoted no more.  Shares of no entry are settled under the name
\* "settlement", which is told to no strategy, if the outcome is known.
WindowRolls ==
  /\ ~over /\ queued = <<>> /\ over' = TRUE /\ due' = tracked
  /\ UNCHANGED shares \/ (tracked = NoEntries /\ shares' = 0)
  /\ UNCHANGED <<runs, queued, inventory, reversion, missed, flawedBook, tracked>>

\* Entries, those of a strategy counted together, are settled by a sale of their whole
\* size, whatever of it is still held, which is told to their strategy.  The last of them
\* ends the settlement.
Settled(of, n) ==
  /\ over /\ inventory >= -MostHeld
  /\ shares' = SharesAfter("SELL", n)
  /\ Told(of, "SELL", n)
  /\ LET left == [due EXCEPT ![of] = @ - n]
     IN  due' = left /\ tracked' = IF left = NoEntries THEN NoEntries ELSE tracked
  /\ UNCHANGED <<runs, queued, missed, over>>

\* A callback raises at an entry, after the OMS has sold it: its strategy is not told,
\* and the next roll settles all the entries again.
SettlementRaises(of, n) ==
  /\ over
  /\ shares' = SharesAfter("SELL", n) /\ due' = tracked
  /\ UNCHANGED <<runs, queued, inventory, reversion, missed, flawedBook, over, tracked>>

\* The oracle knows no outcome: the entries are dropped, and what is held stays held.
OutcomeUnknown ==
  /\ over /\ due = tracked /\ tracked # NoEntries /\ tracked' = NoEntries /\ due' = NoEntries
  /\ UNCHANGED <<runs, queued, shares, inventory, reversion, missed, flawedBook, over>>

QuotingNext ==
  \/ KeepsStill \/ Exits \/ ComesToNothing
  \/ \E side \in {"BUY", "SELL"}, size \in ReversionSizes : Enters(side, size)
  \/ queued # <<>> /\ \E n \in 1..Head(queued).size : Filled(n)
  \/ queued # <<>> /\ \E n \in 0..Head(queued).size : Raised(n)
  \/ WindowRolls \/ OutcomeUnknown
  \/ \E of \in Quoters : \E n \in 1..due[of] : Settled(of, n) \/ SettlementRaises(of, n)

QuotingSpec == QuotingInit /\ [][QuotingNext]_quotingVars

-------------------------------------------------------------------------------
\* How far the quotes of one step may carry the inventory: the limit is checked for each
\* of them alone, so all but the largest come on top of it.
Reach == InventoryLimit + SeqTotal(LevelSizes) - LevelSizes[1]

\* "position limit" (mm.py:91): until the window rolls the inventory stays within reach of
\* it, and the OMS, which does not go short, holds no more than that above the inventory.
\* Settlement sells what is tracked, also what was sold already: from then on there is
\* only the upper end.
InventoryInReach ==
  /\ inventory <= Reach
  /\ ~over => inventory >= -Reach
  /\ runs = {"stoikov_mm"} /\ ~missed /\ ~over => shares <= inventory + Reach

\* What MeanReversion has bought it does not forget: as long as it never went short and
\* was told of no partial exit, all that the OMS holds is in a position it will exit
\* (on_fill), whatever failed in part or raised in between, and in settlement too.
HeldIsKnown ==
  runs = {"mean_rev"} /\ ~flawedBook /\ shares > 0 =>
    reversion.side = "BUY" /\ shares <= reversion.size

OwnBooksHold == InventoryInReach /\ HeldIsKnown
===============================================================================
