---------------------------- MODULE OrderExecution ----------------------------
(***************************************************************************)
(* One call of ExecutionEngine.place_order (ems/execution.py), on paper     *)
(* through DryRunSimulator (ems/dry_run_sim.py) or live: rounding, the cap  *)
(* of live orders, the checks against the book, the resizing that keeps the *)
(* cost, and the chunks of a fill-or-kill order the book cannot serve.      *)
(*                                                                         *)
(* The book is the last snapshot: nothing fetches one during the call, and  *)
(* paper fills take nothing out of it.  Sizes are counted in parts of a     *)
(* share.                                                                  *)
(***************************************************************************)
EXTENDS FillTerms, OrderBooks, Sums

CONSTANTS
  Share,            \* a share, in the units of sizes
  Modes,            \* "paper", "live"
  Requests,         \* orders a caller may ask for
  Books,            \* snapshots: a bid and an ask side, or NoBook
  NoBook,
  OrderCap,         \* live_max_order_usdc, 0 for none
  CallbackResults   \* whether the fill callbacks succeed

OrderTypes == {"GTC", "FAK", "FOK"}

RequestRecord ==
  [side : {"BUY", "SELL"}, price : 1..(One - 1), size : Nat \ {0}, type : OrderTypes]

ASSUME ExecutionAssumption ==
  /\ Share \in Nat \ {0}
  /\ Modes \subseteq {"paper", "live"}
  /\ Requests \subseteq RequestRecord
  /\ OrderCap \in Nat
  /\ CallbackResults \subseteq BOOLEAN
  /\ \A book \in Books \ {NoBook} :
       /\ book.asks \in Seq(Level) /\ BestFirst("BUY", book.asks)
       /\ book.bids \in Seq(Level) /\ BestFirst("SELL", book.bids)

VARIABLES
  mode,       \* dry_run or not
  request,    \* the caller's order
  levels,     \* the side of the book it takes from, or NoBook
  size,       \* the size still intended
  chunk,      \* what one order may take, of an order split into chunks
  remaining,  \* what the chunks have not placed
  done,       \* fills on paper, accepted orders live: shares and cost in all
  answer,     \* what the call returns
  lost,       \* a live order has gone through, and not its reply
  phase       \* how far the call is

vars == <<mode, request, levels, size, chunk, remaining, done, answer, lost, phase>>

Portion == [size : Nat, cost : Nat]

None == [size |-> 0, cost |-> 0]

TypeOK ==
  /\ mode \in Modes
  /\ request \in Requests
  /\ levels \in Seq(Level) \cup {NoBook}
  /\ size \in Nat
  /\ chunk \in Nat
  /\ remaining \in Nat
  /\ done \in Portion
  /\ answer \in {"none", "id", "nothing", "exception"}
  /\ lost \in BOOLEAN
  /\ phase \in {"place", "single", "chunks", "returned"}

SideOf(book, side) ==
  IF book = NoBook THEN NoBook ELSE IF side = "BUY" THEN book.asks ELSE book.bids

Init ==
  /\ mode \in Modes
  /\ request \in Requests
  /\ \E book \in Books : levels = SideOf(book, request.side)
  /\ size = request.size
  /\ chunk = 0
  /\ remaining = 0
  /\ done = None
  /\ answer = "none"
  /\ lost = FALSE
  /\ phase = "place"

Return(result) ==
  /\ answer' = result
  /\ phase' = "returned"

-------------------------------------------------------------------------------
(* Sizes                                                                   *)

LimitPrice == Limit(request.price)

\* _apply_live_order_cap
Capped(n) ==
  IF mode = "live" /\ request.side = "BUY" /\ OrderCap > 0
  THEN Smallest(n, OrderCap \div LimitPrice) ELSE n

NotResized(n, walk) == n

\* A BUY whose average price is above the limit is cut to what its cost affords.
Resized(n, walk) ==
  IF request.side = "BUY" THEN Smallest(n, (n * LimitPrice * walk.filled) \div walk.cost) ELSE n

SlippageTooHigh(walk) ==
  (IF request.side = "BUY" THEN walk.cost - walk.filled * LimitPrice
                           ELSE walk.filled * LimitPrice - walk.cost) > walk.filled * MaxSlippage

-------------------------------------------------------------------------------
(* place_order up to the execution                                         *)

\* The rate limiter, or a cap that leaves nothing.
Refused ==
  /\ phase = "place"
  /\ Return("nothing")
  /\ UNCHANGED <<mode, request, levels, size, chunk, remaining, done, lost>>

BookRefuses ==
  /\ phase = "place"
  /\ levels # NoBook
  /\ LET walk == Walk(levels, Capped(size))
     IN  walk.filled < Share \/ SlippageTooHigh(walk)
  /\ Return("nothing")
  /\ UNCHANGED <<mode, request, levels, size, chunk, remaining, done, lost>>

WithoutBook ==
  /\ phase = "place"
  /\ levels = NoBook
  /\ size' = Capped(size)
  /\ phase' = "single"
  /\ UNCHANGED <<mode, request, levels, chunk, remaining, done, answer, lost>>

BookServes(walk) ==
  /\ phase = "place"
  /\ levels # NoBook
  /\ walk = Walk(levels, Capped(size))
  /\ walk.filled >= Share
  /\ ~SlippageTooHigh(walk)

\* GTC and FAK orders are cut to the depth, if it does not serve them.
TakesDepth ==
  LET walk == Walk(levels, Capped(size))
      n    == Resized(Capped(size), walk)
  IN  /\ BookServes(walk)
      /\ request.type # "FOK" \/ n <= walk.filled
      /\ size' = Capped(Smallest(n, walk.filled))
      /\ phase' = "single"
      /\ UNCHANGED <<mode, request, levels, chunk, remaining, done, answer, lost>>

SplitsInChunks ==
  LET walk == Walk(levels, Capped(size))
      n    == Resized(Capped(size), walk)
  IN  /\ BookServes(walk)
      /\ request.type = "FOK"
      /\ n > walk.filled
      /\ size' = n
      /\ remaining' = n
      /\ chunk' = walk.filled
      /\ phase' = "chunks"
      /\ UNCHANGED <<mode, request, levels, done, answer, lost>>

-------------------------------------------------------------------------------
(* _execute_single_order                                                   *)

\* simulate_fill: the limit is within a tenth of the best price.
Competitive ==
  IF request.side = "BUY" THEN 10 * LimitPrice >= 9 * BestPrice(levels)
                          ELSE 10 * LimitPrice <= 11 * BestPrice(levels)

PaperFills(n) ==
  LET walk == Walk(levels, n)
  IN  /\ levels # NoBook
      /\ walk.filled > 0
      /\ Competitive
      /\ request.type = "FOK" => walk.filled = n
      /\ request.type = "FAK" => walk.filled >= Share

MayExecute(n) == n > 0 /\ (mode = "paper" => PaperFills(n))

\* A GTC order on paper fails by chance, a live one for any reason.
MayFail(n) == mode = "paper" /\ request.type # "GTC" => ~PaperFills(n)

\* What an order that goes through adds: a fill on paper; live, the size and the limit
\* that the exchange accepted.
PortionOf(n) ==
  IF mode = "paper" THEN [size |-> Walk(levels, n).filled, cost |-> Walk(levels, n).cost]
                    ELSE [size |-> n, cost |-> n * LimitPrice]

Adds(n) ==
  done' = [size |-> done.size + PortionOf(n).size, cost |-> done.cost + PortionOf(n).cost]

\* The exchange takes the order and the reply does not come back as it should: whatever
\* raises is logged, and the order counts as failed.
ReplyLost(n) ==
  /\ mode = "live"
  /\ MayExecute(n)
  /\ Adds(n)
  /\ lost' = TRUE
  /\ UNCHANGED <<mode, request, levels, size, chunk, remaining>>

\* The callbacks after the OMS raise: the exception leaves place_order with the fill made.
Raises(n) ==
  /\ FALSE \in CallbackResults
  /\ mode = "paper"
  /\ MayExecute(n)
  /\ Adds(n)
  /\ Return("exception")
  /\ UNCHANGED <<mode, request, levels, size, chunk, remaining, lost>>

SingleSucceeds ==
  /\ phase = "single"
  /\ TRUE \in CallbackResults
  /\ MayExecute(size)
  /\ Adds(size)
  /\ Return("id")
  /\ UNCHANGED <<mode, request, levels, size, chunk, remaining, lost>>

SingleFails ==
  /\ phase = "single"
  /\ MayFail(size)
  /\ Return("nothing")
  /\ UNCHANGED <<mode, request, levels, size, chunk, remaining, done, lost>>

SingleLost == phase = "single" /\ ReplyLost(size) /\ Return("nothing")

SingleRaises == phase = "single" /\ Raises(size)

-------------------------------------------------------------------------------
(* _place_fok_chunks                                                       *)

\* What the next order takes; the depth is looked up again.
NextChunk ==
  LET n     == Smallest(remaining, chunk)
      avail == Walk(levels, n).filled
  IN  IF avail < n THEN Largest(avail, Share) ELSE n

RemainingLess(n) == remaining - n

ChunkPlaced ==
  /\ phase = "chunks"
  /\ remaining > 0
  /\ TRUE \in CallbackResults
  /\ NextChunk >= Share
  /\ MayExecute(NextChunk)
  /\ Adds(NextChunk)
  /\ remaining' = RemainingLess(NextChunk)
  /\ UNCHANGED <<mode, request, levels, size, chunk, answer, lost, phase>>

ChunkRaises ==
  /\ phase = "chunks"
  /\ remaining > 0
  /\ NextChunk >= Share
  /\ Raises(NextChunk)

\* The id of the first chunk that has one.
FirstChunk == IF done = None THEN "nothing" ELSE "id"

\* All is placed, or the rest is less than a share, or an order failed.
ChunksEnd ==
  /\ phase = "chunks"
  /\ remaining > 0 => NextChunk < Share \/ MayFail(NextChunk)
  /\ Return(FirstChunk)
  /\ UNCHANGED <<mode, request, levels, size, chunk, remaining, done, lost>>

\* A chunk without an id is the last one.
ChunkLost ==
  /\ phase = "chunks"
  /\ remaining > 0
  /\ NextChunk >= Share
  /\ ReplyLost(NextChunk)
  /\ Return(FirstChunk)

Returned == phase = "returned" /\ UNCHANGED vars

Next ==
  \/ Refused \/ BookRefuses \/ WithoutBook \/ TakesDepth \/ SplitsInChunks
  \/ SingleSucceeds \/ SingleFails \/ SingleLost \/ SingleRaises
  \/ ChunkPlaced \/ ChunkRaises \/ ChunkLost \/ ChunksEnd
  \/ Returned

Spec == Init /\ [][Next]_vars

-------------------------------------------------------------------------------
(* Properties                                                              *)

\* DryRunTrading and CapitalGate rely on it: whatever is rounded, capped, resized and
\* split, the portions together stay within the terms of the order (execution.py:492-506).
KeepsTerms == MayFill(request.side, request.price, request.size, done.size, done.cost)

\* The pipeline gives the whole grant back when it gets no id (engine.py:84): then nothing
\* may have been placed, also of an order of which some chunks went through.  Only a live
\* order whose reply was lost may be at the exchange all the same (execution.py:669-671).
NothingMeansNothing == answer = "nothing" => done = None \/ (mode = "live" /\ lost)

\* Both: what place_order has done, lost replies included, is within the order's terms,
\* and what it says is true but for those.
OrderKept == KeepsTerms /\ NothingMeansNothing

\* How many shares the levels offer, and what it costs to take so many of each.
Depth == SeqTotal([i \in DOMAIN levels |-> levels[i].size])
CostOf(take) == SeqTotal([i \in DOMAIN levels |-> levels[i].price * take[i]])

\* vwap_price against its definition: no other way to take as many shares is better.
WalkIsBest ==
  levels # NoBook /\ phase = "place" =>
    LET walk    == Walk(levels, size)
        takings == {take \in [DOMAIN levels -> 0..size] :
                      /\ \A i \in DOMAIN levels : take[i] <= levels[i].size
                      /\ SeqTotal(take) = walk.filled}
    IN  /\ walk.filled = Smallest(size, Depth)
        /\ \A take \in takings :
             IF request.side = "BUY" THEN walk.cost <= CostOf(take) ELSE walk.cost >= CostOf(take)
===============================================================================
