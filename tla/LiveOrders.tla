------------------------------ MODULE LiveOrders ------------------------------
(***************************************************************************)
(* Live trading of one token: the main loop and its order tracking          *)
(* (main.py, ems/execution.py, oms/position_manager.py) against an exchange *)
(* that matches and closes orders at any time and whose answers may fail,   *)
(* get lost or be late.  The heartbeat thread of main.py only keeps orders  *)
(* alive at the exchange: without it the exchange closes them, as it may    *)
(* here anyway.  Every share costs one unit, so a size is also a notional.  *)
(*                                                                         *)
(* open_order_ids and the keys of live_orders are always the same set of    *)
(* orders: `tracked`.  (cancel_order, which only shortens the first, has no *)
(* caller.)                                                                *)
(***************************************************************************)
EXTENDS Integers

CONSTANTS
  MaxOrders,     \* number of orders placed (a bound of the model)
  Sizes,         \* sizes a strategy asks for
  SignalSides,   \* sides of the strategies' signals
  MaxPosition,   \* max_position_size_usdc
  Replies,       \* what may become of a request that places an order
  CancelResults, \* whether a cancel-all request succeeds
  StopBreaches,  \* whether a fill's price puts the position under its stop-loss
  Remaining,     \* whether an order's status tells what remains of it
  LogResults     \* whether the fill callbacks after the OMS succeed

ASSUME LiveAssumption ==
  /\ MaxOrders \in Nat
  /\ Sizes \subseteq Nat \ {0}
  /\ SignalSides \subseteq {"BUY", "SELL"}
  /\ MaxPosition \in Nat
  /\ Replies \subseteq {"accepted", "rejected", "lost"}
  /\ CancelResults \subseteq BOOLEAN
  /\ StopBreaches \subseteq BOOLEAN
  /\ Remaining \subseteq BOOLEAN
  /\ LogResults \subseteq BOOLEAN

Orders == 1..MaxOrders

VARIABLES
  order,      \* the exchange's orders
  chain,      \* shares really held
  placed,     \* number of orders that reached the exchange
  tracked,    \* live_orders
  filled,     \* filled_size of each tracked order
  pos,        \* the OMS position
  stop,       \* whether the position's last price is under its stop-loss
  applied,    \* history: shares of each order the OMS got fills for
  forgotten,  \* history: orders cancel_all dropped from live_orders
  assumed,    \* history: orders an answer told neither a match nor a remaining size of
  todo,       \* orders the running poll has not come to
  over,       \* remove_ids of the running poll
  phase       \* where the main loop is

vars ==
  <<order, chain, placed, tracked, filled, pos, stop, applied, forgotten, assumed, todo, over, phase>>
exchange == <<order, chain, placed>>
books == <<filled, pos, stop, applied>>
ledger == <<books, assumed>>
poll == <<todo, over>>

OrderRecord ==
  [status : {"none", "open", "closed"}, side : {"BUY", "SELL"}, size : Nat, matched : Nat]

TypeOK ==
  /\ order \in [Orders -> OrderRecord]
  /\ chain \in Nat
  /\ placed \in 0..MaxOrders
  /\ tracked \in SUBSET (1..placed)
  /\ filled \in [Orders -> Nat]
  /\ pos \in Nat
  /\ stop \in BOOLEAN
  /\ applied \in [Orders -> Nat]
  /\ forgotten \in SUBSET (1..placed)
  /\ assumed \in SUBSET (1..placed)
  /\ todo \in SUBSET tracked
  /\ over \in SUBSET (tracked \ todo)
  /\ phase \in {"top", "reconcile", "poll", "polling", "signals", "kill", "close",
               "closing", "last_poll", "stopped"}

NoOrder == [status |-> "none", side |-> "BUY", size |-> 0, matched |-> 0]

Init ==
  /\ order = [o \in Orders |-> NoOrder]
  /\ chain = 0
  /\ placed = 0
  /\ tracked = {}
  /\ filled = [o \in Orders |-> 0]
  /\ pos = 0
  /\ stop = FALSE
  /\ applied = [o \in Orders |-> 0]
  /\ forgotten = {}
  /\ assumed = {}
  /\ todo = {}
  /\ over = {}
  /\ phase = "top"

-------------------------------------------------------------------------------
(* The exchange                                                            *)

\* Shares are matched; an order matched in full is closed.
Match(o, n) ==
  /\ order[o].status = "open"
  /\ order[o].matched + n <= order[o].size
  /\ order[o].side = "SELL" => n <= chain
  /\ chain' = IF order[o].side = "BUY" THEN chain + n ELSE chain - n
  /\ order' = [order EXCEPT ![o].matched = @ + n,
                            ![o].status = IF order[o].matched + n = order[o].size THEN "closed" ELSE @]
  /\ UNCHANGED <<placed, tracked, ledger, forgotten, poll, phase>>

\* The rest of a fill-and-kill order, an expiry, a missed heartbeat.
ExchangeCloses(o) ==
  /\ order[o].status = "open"
  /\ order' = [order EXCEPT ![o].status = "closed"]
  /\ UNCHANGED <<chain, placed, tracked, ledger, forgotten, poll, phase>>

-------------------------------------------------------------------------------
(* The execution engine                                                    *)

\* place_order, of what the book can serve of an order.  A reply that is lost after the
\* exchange took the order looks like a failure.
PlaceOrder(side, n, reply) ==
  /\ reply \in Replies
  /\ IF reply = "rejected"
     THEN UNCHANGED <<order, placed, tracked>>
     ELSE /\ placed < MaxOrders
          /\ placed' = placed + 1
          /\ order' = [order EXCEPT ![placed + 1] =
                         [status |-> "open", side |-> side, size |-> n, matched |-> 0]]
          /\ tracked' = IF reply = "accepted" THEN tracked \cup {placed + 1} ELSE tracked
  /\ UNCHANGED <<chain, ledger>>

\* cancel_all: nothing to do without tracked orders; they are dropped also when the
\* request fails.
CancelAll(succeeds) ==
  /\ succeeds \in CancelResults
  /\ order' = IF tracked = {} \/ ~succeeds THEN order
              ELSE [o \in Orders |-> IF order[o].status = "open"
                                     THEN [order[o] EXCEPT !.status = "closed"] ELSE order[o]]
  /\ tracked' = {}
  /\ forgotten' = forgotten \cup tracked
  /\ UNCHANGED <<chain, placed, ledger>>

\* The OMS position after a fill of n shares.
PositionAfter(side, n) == IF side = "BUY" THEN pos + n ELSE IF n >= pos THEN 0 ELSE pos - n

Refilled(o, matched) == filled

FilledUpTo(o, matched) == [filled EXCEPT ![o] = matched]

\* An answer without a matched and without a remaining size.  The poll takes the original
\* size less the remaining one then, and what is missing counts as 0.
Assumes(matched, listed) == matched = 0 /\ ~listed

\* The matched size the poll reads out of a status.
ReadMatched(o, matched, listed) == IF Assumes(matched, listed) THEN order[o].size ELSE matched

\* The history of the answers.
Noted(o, matched, listed) == IF Assumes(matched, listed) THEN assumed \cup {o} ELSE assumed

\* One order of check_live_fills: a fill of what is new goes to the OMS; an answer that
\* is behind an earlier one changes nothing.  A first buy is at its own average price.
RecordAnswer(o, matched) ==
  IF matched > filled[o]
  THEN /\ filled' = FilledUpTo(o, matched)
       /\ applied' = [applied EXCEPT ![o] = @ + matched - filled[o]]
       /\ pos' = PositionAfter(order[o].side, matched - filled[o])
       /\ stop' \in IF order[o].side = "SELL" THEN {stop}
                    ELSE IF pos = 0 THEN {FALSE} ELSE StopBreaches
  ELSE UNCHANGED books

DroppedOnFill(o, matched, closed) == closed \/ matched > 0

\* A terminal status or a full fill, now or before, ends the tracking of the order.
Dropped(o, matched, closed) == closed \/ matched >= order[o].size \/ filled[o] >= order[o].size

-------------------------------------------------------------------------------
(* The main loop                                                           *)

CheckPasses ==
  /\ phase = "top"
  /\ ~(stop /\ pos > 0)
  /\ phase' = "reconcile"
  /\ UNCHANGED <<exchange, tracked, ledger, forgotten, poll>>

\* check_position_stops sells a position under its stop, and the check fails: the loop
\* pauses and starts over, without a poll, until the position has another price or size.
StopLossSells(reply) ==
  /\ phase = "top"
  /\ stop
  /\ \E n \in 1..pos : PlaceOrder("SELL", n, reply)
  /\ UNCHANGED <<forgotten, poll, phase>>

\* sync_from_api every reconcile_interval: size and prices are taken over from the chain.
\* A token the answer does not list, or a failed request, leaves the position alone.
Reconcile ==
  /\ phase = "reconcile"
  /\ pos' \in {pos, chain}
  /\ stop' \in IF pos' = pos THEN {stop} ELSE StopBreaches
  /\ phase' = "poll"
  /\ UNCHANGED <<exchange, tracked, filled, applied, assumed, forgotten, poll>>

\* check_live_fills, every live_poll_interval
PollSkipped ==
  /\ phase = "poll"
  /\ phase' = "signals"
  /\ UNCHANGED <<exchange, tracked, ledger, forgotten, poll>>

PollStarts ==
  /\ phase = "poll"
  /\ todo' = tracked
  /\ phase' = "polling"
  /\ UNCHANGED <<exchange, tracked, ledger, forgotten, over>>

Polling == phase \in {"polling", "last_poll"}

PollFails(o) ==
  /\ Polling
  /\ o \in todo
  /\ todo' = todo \ {o}
  /\ UNCHANGED <<exchange, tracked, ledger, forgotten, over, phase>>

\* The answer may be behind the exchange, unless its status is terminal.
Answered(o, matched, closed) ==
  /\ Polling
  /\ o \in todo
  /\ closed => order[o].status = "closed" /\ matched = order[o].matched

PollAnswers(o, matched, closed, listed) ==
  /\ Answered(o, matched, closed)
  /\ RecordAnswer(o, ReadMatched(o, matched, listed))
  /\ assumed' = Noted(o, matched, listed)
  /\ todo' = todo \ {o}
  /\ over' = IF Dropped(o, ReadMatched(o, matched, listed), closed) THEN over \cup {o} ELSE over
  /\ UNCHANGED <<exchange, tracked, forgotten, phase>>

\* A callback after the OMS raises.  The poll is not guarded like the strategies'
\* steps are: the exception ends the loop and the system shuts down.
PollRaises(o, matched, closed, listed) ==
  /\ FALSE \in LogResults
  /\ Answered(o, matched, closed)
  /\ ReadMatched(o, matched, listed) > filled[o]
  /\ RecordAnswer(o, ReadMatched(o, matched, listed))
  /\ assumed' = Noted(o, matched, listed)
  /\ todo' = {}
  /\ over' = {}
  /\ phase' = IF phase = "polling" THEN "close" ELSE "stopped"
  /\ UNCHANGED <<exchange, tracked, forgotten>>

PollDone ==
  /\ Polling
  /\ todo = {}
  /\ tracked' = tracked \ over
  /\ over' = {}
  /\ phase' = IF phase = "polling" THEN "signals" ELSE "stopped"
  /\ UNCHANGED <<exchange, ledger, forgotten, todo>>

\* A signal that passes check_position_size; a rejected order changes nothing.
Signal(side, n, reply) ==
  /\ phase = "signals"
  /\ pos + n <= MaxPosition
  /\ PlaceOrder(side, n, reply)
  /\ UNCHANGED <<forgotten, poll, phase>>

\* A window roll cancels everything.
WindowRolls(succeeds) ==
  /\ phase = "signals"
  /\ tracked # {}
  /\ CancelAll(succeeds)
  /\ UNCHANGED <<poll, phase>>

StepDone ==
  /\ phase = "signals"
  /\ phase' = "top"
  /\ UNCHANGED <<exchange, tracked, ledger, forgotten, poll>>

-------------------------------------------------------------------------------
(* Stopping                                                                *)

\* kill_switch and shutdown both cancel everything and then sell the position.
Halts(succeeds) ==
  /\ phase = "top"
  /\ CancelAll(succeeds)
  /\ phase' = "kill"
  /\ UNCHANGED poll

\* Nothing polls the sale of the kill switch before the shutdown that follows it.
KillSwitchSells(reply) ==
  /\ phase = "kill"
  /\ IF pos > 0 THEN \E n \in 1..pos : PlaceOrder("SELL", n, reply) ELSE UNCHANGED <<exchange, tracked, ledger>>
  /\ phase' = "close"
  /\ UNCHANGED <<forgotten, poll>>

Interrupt ==
  /\ phase \in {"top", "reconcile", "poll", "polling", "signals", "kill"}
  /\ phase' = "close"
  /\ todo' = {}
  /\ over' = {}
  /\ UNCHANGED <<exchange, tracked, ledger, forgotten>>

ShutdownCancels(succeeds) ==
  /\ phase = "close"
  /\ CancelAll(succeeds)
  /\ phase' = "closing"
  /\ UNCHANGED poll

\* An accepted close order is polled once, at once.
ClosePosition(reply) ==
  /\ phase = "closing"
  /\ IF pos > 0 THEN \E n \in 1..pos : PlaceOrder("SELL", n, reply) ELSE UNCHANGED <<exchange, tracked, ledger>>
  /\ todo' = tracked'
  /\ phase' = IF todo' = {} THEN "stopped" ELSE "last_poll"
  /\ UNCHANGED <<forgotten, over>>

Terminated == phase = "stopped" /\ UNCHANGED vars

-------------------------------------------------------------------------------

Exchange == \E o \in Orders : ExchangeCloses(o) \/ \E n \in 1..order[o].size : Match(o, n)

Answers(o) ==
  \E matched \in 0..order[o].matched, closed \in BOOLEAN, listed \in Remaining :
    PollAnswers(o, matched, closed, listed) \/ PollRaises(o, matched, closed, listed)

Loop ==
  \/ CheckPasses \/ Reconcile \/ PollStarts \/ PollDone \/ StepDone
  \/ \E o \in Orders : PollFails(o) \/ Answers(o)

Trading ==
  \/ \E side \in SignalSides, n \in Sizes, reply \in Replies : Signal(side, n, reply)
  \/ \E succeeds \in CancelResults : WindowRolls(succeeds)
  \/ \E reply \in Replies : StopLossSells(reply)

Stopping ==
  \/ Interrupt
  \/ \E succeeds \in CancelResults : Halts(succeeds) \/ ShutdownCancels(succeeds)
  \/ \E reply \in Replies : KillSwitchSells(reply) \/ ClosePosition(reply)

Next == Exchange \/ Loop \/ PollSkipped \/ Trading \/ Stopping \/ Terminated

Spec == Init /\ [][Next]_vars

\* The loop goes round, the poll interval elapses, and the status of an order is not
\* out of reach, nor out of date, at every poll for ever.
CurrentAnswer(o) ==
  \E closed \in BOOLEAN, listed \in Remaining : PollAnswers(o, order[o].matched, closed, listed)

FairSpec == Spec /\ WF_vars(Loop) /\ SF_vars(PollStarts) /\ \A o \in Orders : SF_vars(CurrentAnswer(o))

-------------------------------------------------------------------------------
(* Properties                                                              *)

\* "emit fills only when CLOB reports matched size" (execution.py:760): the fills the OMS
\* got for an order never add up to more than the exchange has matched of it.
FillsAreReal == \A o \in Orders : applied[o] <= order[o].matched

\* However polls repeat, fail, raise and answer late, the fills of an order never add up
\* to more than was matched of it, unless one answer told neither a matched nor a
\* remaining size; and then at most to its size.
FillsWithinOrders ==
  \A o \in Orders : applied[o] <= IF o \in assumed THEN order[o].size ELSE order[o].matched

\* An order the poll stops tracking is recorded: in full size if an answer told nothing of
\* it, else it is over at the exchange and all that was matched of it is recorded.
DroppedOrdersRecorded ==
  \A o \in 1..placed : o \notin tracked \cup forgotten /\ applied[o] > 0 =>
    IF o \in assumed THEN applied[o] = order[o].size
    ELSE order[o].status = "closed" /\ applied[o] = order[o].matched

\* The loop waits for a position under its stop-loss to change, without polling.
Paused == phase = "top" /\ stop /\ pos > 0

\* Every share matched for an order that stays tracked is recorded in the end, unless the
\* loop pauses or stops.
MatchesRecorded ==
  \A o \in Orders : \A n \in 1..2 :
    o \in tracked /\ order[o].matched >= n
      ~> \/ applied[o] >= n \/ o \in forgotten \/ Paused
         \/ phase \in {"kill", "close", "closing", "last_poll", "stopped"}

\* "Single source of truth for all positions ... reconciles on-chain vs off-chain state"
\* (position_manager.py:4-5): the OMS never holds more than the chain does.
PositionOnChain == pos <= chain
===============================================================================
