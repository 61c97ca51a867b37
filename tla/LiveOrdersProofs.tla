--------------------------- MODULE LiveOrdersProofs ---------------------------
(***************************************************************************)
(* What polling records of the orders of LiveOrders, for any number of      *)
(* orders, sizes and failures.  The fills of an order never exceed its      *)
(* matches as long as the exchange's answers tell what was matched of it.   *)
(***************************************************************************)
EXTENDS LiveOrders, TLAPS

\* Matches stay within an order, a full order is closed, and an order not placed yet
\* has neither matches nor fills.
OrdersSound ==
  /\ \A o \in Orders : order[o].matched <= order[o].size
  /\ \A o \in Orders : order[o].status = "open" => order[o].matched < order[o].size
  /\ \A o \in Orders : order[o].status = "none" <=> o > placed
  /\ \A o \in Orders : o > placed => order[o].matched = 0

\* What an order's record counts is what the OMS got.
CountsAgree == \A o \in Orders : applied[o] = filled[o]

\* Between polls nothing of a poll is left.
Quiet == ~Polling => todo = {} /\ over = {}

\* The orders a poll is going to drop are over and recorded.
OverRecorded ==
  \A o \in over : IF o \in assumed THEN filled[o] = order[o].size
                  ELSE order[o].status = "closed" /\ filled[o] = order[o].matched

\* Of an order no answer told anything of, its size is recorded.
AssumedInFull == \A o \in assumed : filled[o] = order[o].size

TypeInv == TypeOK /\ Quiet

Recorded ==
  OrdersSound /\ CountsAgree /\ FillsWithinOrders /\ AssumedInFull /\ OverRecorded /\ DroppedOrdersRecorded

IInv == TypeInv /\ Recorded

-------------------------------------------------------------------------------
(* Types                                                                   *)

\* Every order a placement, a match or a cancellation leaves is a record of its type.
LEMMA PlaceOrderTypes ==
  ASSUME TypeOK, NEW side \in {"BUY", "SELL"}, NEW n \in Nat, NEW reply, PlaceOrder(side, n, reply)
  PROVE  /\ order' \in [Orders -> OrderRecord]
         /\ chain' \in Nat
         /\ placed' \in 0..MaxOrders
         /\ placed <= placed'
         /\ tracked' \in SUBSET (1..placed')
         /\ tracked \subseteq tracked'
         /\ {forgotten, assumed'} \subseteq SUBSET (1..placed')
         /\ UNCHANGED ledger
<1>0. ASSUME placed <= placed', placed' \in Nat, assumed' = assumed
      PROVE  {forgotten, assumed'} \subseteq SUBSET (1..placed')
  <2>1. placed \in Nat
    BY LiveAssumption DEF TypeOK
  <2>2. \A o \in 1..placed : o \in 1..placed'
    BY <1>0, <2>1
  <2>3. QED BY <1>0, <2>2 DEF TypeOK
<1>1. CASE reply = "rejected"
  <2>1. order' = order /\ chain' = chain /\ placed' = placed /\ tracked' = tracked /\ UNCHANGED ledger
    BY <1>1 DEF PlaceOrder
  <2>2. placed <= placed'
    BY <2>1, LiveAssumption DEF TypeOK
  <2>3. assumed' = assumed /\ placed' \in Nat
    BY <2>1, LiveAssumption DEF TypeOK, ledger
  <2>4. QED BY <1>0, <2>1, <2>2, <2>3 DEF TypeOK
<1>2. CASE reply # "rejected"
  <2>1. placed' = placed + 1 /\ placed + 1 \in Orders /\ placed' \in 0..MaxOrders
    BY <1>2, LiveAssumption DEF TypeOK, PlaceOrder, Orders
  <2>2. [status |-> "open", side |-> side, size |-> n, matched |-> 0] \in OrderRecord
    BY DEF OrderRecord
  <2>3. order' \in [Orders -> OrderRecord]
    BY <1>2, <2>1, <2>2 DEF TypeOK, PlaceOrder
  <2>4. tracked' \in SUBSET (1..placed') /\ tracked \subseteq tracked'
    <3>1. tracked' \subseteq tracked \cup {placed + 1} /\ tracked \subseteq tracked'
      BY <1>2 DEF PlaceOrder
    <3>2. \A o \in tracked : o \in 1..placed /\ o \in Int
      BY DEF TypeOK
    <3>3. placed \in Int /\ 0 <= placed
      BY LiveAssumption DEF TypeOK
    <3>4. \A o \in 1..placed : o \in 1..(placed + 1)
      BY <3>3
    <3>5. QED BY <2>1, <3>1, <3>2, <3>3, <3>4
  <2>5. placed <= placed' /\ chain' = chain /\ UNCHANGED ledger
    BY <2>1, LiveAssumption DEF TypeOK, PlaceOrder, ledger, books
  <2>6. assumed' = assumed /\ placed' \in Nat
    BY <2>1, <2>5, LiveAssumption DEF TypeOK, ledger
  <2>7. QED BY <1>0, <2>1, <2>3, <2>4, <2>5, <2>6 DEF TypeOK
<1>3. QED BY <1>1, <1>2

\* A cancellation leaves records of their type and nothing tracked.
LEMMA CancelAllTypes ==
  ASSUME TypeOK, NEW succeeds, CancelAll(succeeds)
  PROVE  /\ order' \in [Orders -> OrderRecord]
         /\ tracked' = {}
         /\ forgotten' \in SUBSET (1..placed)
         /\ UNCHANGED <<chain, placed, ledger>>
<1>1. \A o \in Orders : [order[o] EXCEPT !.status = "closed"] \in OrderRecord
  BY DEF TypeOK, OrderRecord
<1>2. QED BY <1>1 DEF TypeOK, CancelAll

\* A fill keeps sizes natural numbers, an oversold position included.
LEMMA RecordAnswerTypes ==
  ASSUME TypeOK, NEW o \in Orders, NEW matched \in Nat, RecordAnswer(o, matched)
  PROVE  /\ filled' \in [Orders -> Nat]
         /\ applied' \in [Orders -> Nat]
         /\ pos' \in Nat
         /\ stop' \in BOOLEAN
<1>1. CASE matched > filled[o]
  <2>1. matched - filled[o] \in Nat /\ applied[o] + matched - filled[o] \in Nat
    BY <1>1 DEF TypeOK
  <2>2. pos' \in Nat
    BY <1>1, <2>1 DEF TypeOK, RecordAnswer, PositionAfter
  <2>3. stop' \in BOOLEAN
    <3>1. stop' \in {stop} \/ stop' \in {FALSE} \/ stop' \in StopBreaches
      BY <1>1 DEF RecordAnswer
    <3>2. QED BY <3>1, LiveAssumption DEF TypeOK
  <2>4. QED BY <1>1, <2>1, <2>2, <2>3 DEF TypeOK, RecordAnswer, FilledUpTo
<1>2. CASE ~(matched > filled[o])
  BY <1>2 DEF TypeOK, RecordAnswer, ledger, books
<1>3. QED BY <1>1, <1>2

\* The matched size read out of a status is a size.
LEMMA ReadMatchedType ==
  ASSUME TypeOK, NEW o \in Orders, NEW matched \in Nat, NEW listed
  PROVE  ReadMatched(o, matched, listed) \in Nat
BY DEF TypeOK, OrderRecord, ReadMatched

\* The exchange's own steps.
LEMMA ExchangeTypes ==
  ASSUME TypeInv, Exchange
  PROVE  TypeInv'
<1>1. PICK o \in Orders : ExchangeCloses(o) \/ \E n \in 1..order[o].size : Match(o, n)
  BY DEF Exchange
<1>2. CASE ExchangeCloses(o)
  <2>1. order' \in [Orders -> OrderRecord]
    BY <1>2 DEF TypeInv, TypeOK, OrderRecord, ExchangeCloses
  <2>2. QED BY <1>2, <2>1 DEF TypeInv, TypeOK, Quiet, Polling, ExchangeCloses, ledger, books, poll
<1>3. CASE \E n \in 1..order[o].size : Match(o, n)
  <2>1. PICK n \in 1..order[o].size : Match(o, n)
    BY <1>3
  <2>2. order[o] \in OrderRecord /\ order[o].matched + n \in Nat /\ n \in Nat
    BY DEF TypeInv, TypeOK, OrderRecord
  <2>3. order' \in [Orders -> OrderRecord]
    BY <2>1, <2>2 DEF TypeInv, TypeOK, OrderRecord, Match
  <2>4. chain' \in Nat
    BY <2>1, <2>2 DEF TypeInv, TypeOK, OrderRecord, Match
  <2>5. QED BY <2>1, <2>3, <2>4 DEF TypeInv, TypeOK, Quiet, Polling, Match, ledger, books, poll
<1>4. QED BY <1>1, <1>2, <1>3

\* An answered order moves from the orders to poll to the orders to drop, if to anything.
LEMMA AnswerTypes ==
  ASSUME TypeInv, NEW o \in Orders, Answers(o)
  PROVE  TypeInv'
<1>1. PICK matched \in 0..order[o].matched, closed \in BOOLEAN, listed \in Remaining :
        PollAnswers(o, matched, closed, listed) \/ PollRaises(o, matched, closed, listed)
  BY DEF Answers
<1>2. matched \in Nat
  BY DEF TypeInv, TypeOK, OrderRecord
<1>3. ReadMatched(o, matched, listed) \in Nat
  BY <1>2, ReadMatchedType DEF TypeInv
<1>4. RecordAnswer(o, ReadMatched(o, matched, listed))
  BY <1>1 DEF PollAnswers, PollRaises
<1>5. filled' \in [Orders -> Nat] /\ applied' \in [Orders -> Nat] /\ pos' \in Nat /\ stop' \in BOOLEAN
  BY <1>3, <1>4, RecordAnswerTypes DEF TypeInv
<1>6. UNCHANGED <<exchange, tracked, forgotten>>
  BY <1>1 DEF PollAnswers, PollRaises
<1>7. todo' \in SUBSET tracked /\ over' \in SUBSET (tracked \ todo')
  BY <1>1 DEF PollAnswers, PollRaises, Answered, TypeInv, TypeOK
<1>8. Quiet'
  BY <1>1 DEF PollAnswers, PollRaises, Answered, Quiet, Polling
<1>9. phase' \in {"polling", "last_poll", "close", "stopped"}
  BY <1>1 DEF PollAnswers, PollRaises, Answered, Polling
<1>10. assumed' \in SUBSET (1..placed)
  <2>1. o \in 1..placed
    BY <1>1 DEF PollAnswers, PollRaises, Answered, TypeInv, TypeOK
  <2>2. assumed' \subseteq assumed \cup {o}
    BY <1>1 DEF PollAnswers, PollRaises, Noted
  <2>3. QED BY <2>1, <2>2 DEF TypeInv, TypeOK
<1>11. QED BY <1>5, <1>6, <1>7, <1>8, <1>9, <1>10 DEF TypeInv, TypeOK, exchange

\* The steps of the main loop keep the types.
LEMMA LoopTypes ==
  ASSUME TypeInv, Loop \/ PollSkipped
  PROVE  TypeInv'
<1>1. CASE CheckPasses \/ StepDone \/ PollSkipped
  BY <1>1 DEF CheckPasses, StepDone, PollSkipped, TypeInv, TypeOK, Quiet, Polling, exchange, ledger, books, poll
<1>2. CASE Reconcile
  <2>1. stop' \in BOOLEAN
    <3>1. stop' \in {stop} \/ stop' \in StopBreaches
      BY <1>2 DEF Reconcile
    <3>2. QED BY <3>1, LiveAssumption DEF TypeInv, TypeOK
  <2>2. pos' \in Nat
    BY <1>2 DEF Reconcile, TypeInv, TypeOK
  <2>3. QED BY <1>2, <2>1, <2>2 DEF Reconcile, TypeInv, TypeOK, Quiet, Polling, exchange, poll
<1>3. CASE PollStarts
  BY <1>3 DEF PollStarts, TypeInv, TypeOK, Quiet, Polling, exchange, ledger, books
<1>4. CASE PollDone
  BY <1>4 DEF PollDone, TypeInv, TypeOK, Quiet, Polling, exchange, ledger, books
<1>5. CASE \E o \in Orders : PollFails(o)
  BY <1>5 DEF PollFails, TypeInv, TypeOK, Quiet, Polling, exchange, ledger, books
<1>6. CASE \E o \in Orders : Answers(o)
  BY <1>6, AnswerTypes
<1>7. QED BY <1>1, <1>2, <1>3, <1>4, <1>5, <1>6 DEF Loop

\* Signals and window rolls keep the types.
LEMMA TradingTypes ==
  ASSUME TypeInv, Trading
  PROVE  TypeInv'
<1>1. CASE \E side \in SignalSides, n \in Sizes, reply \in Replies : Signal(side, n, reply)
  <2>1. PICK side \in SignalSides, n \in Sizes, reply \in Replies : Signal(side, n, reply)
    BY <1>1
  <2>2. side \in {"BUY", "SELL"} /\ n \in Nat
    BY LiveAssumption
  <2>3. PlaceOrder(side, n, reply) /\ UNCHANGED <<forgotten, poll, phase>>
    BY <2>1 DEF Signal
  <2>4. QED BY <2>2, <2>3, PlaceOrderTypes DEF TypeInv, TypeOK, Quiet, Polling, ledger, books, poll
<1>2. CASE \E succeeds \in CancelResults : WindowRolls(succeeds)
  <2>1. PICK succeeds \in CancelResults : WindowRolls(succeeds)
    BY <1>2
  <2>2. CancelAll(succeeds) /\ UNCHANGED <<poll, phase>> /\ phase = "signals"
    BY <2>1 DEF WindowRolls
  <2>3. QED BY <2>2, CancelAllTypes DEF TypeInv, TypeOK, Quiet, Polling, ledger, books, poll
<1>3. CASE \E reply \in Replies : StopLossSells(reply)
  <2>1. PICK reply \in Replies, n \in 1..pos :
          PlaceOrder("SELL", n, reply) /\ UNCHANGED <<forgotten, poll, phase>>
    BY <1>3 DEF StopLossSells
  <2>2. n \in Nat
    BY DEF TypeInv, TypeOK
  <2>3. QED BY <2>1, <2>2, PlaceOrderTypes DEF TypeInv, TypeOK, Quiet, Polling, ledger, books, poll
<1>4. QED BY <1>1, <1>2, <1>3 DEF Trading

\* A close order, or none without a position.
LEMMA SaleTypes ==
  ASSUME TypeOK, NEW reply,
         IF pos > 0 THEN \E n \in 1..pos : PlaceOrder("SELL", n, reply) ELSE UNCHANGED <<exchange, tracked, ledger>>
  PROVE  /\ order' \in [Orders -> OrderRecord]
         /\ chain' \in Nat
         /\ placed' \in 0..MaxOrders
         /\ placed <= placed'
         /\ tracked' \in SUBSET (1..placed')
         /\ {forgotten, assumed'} \subseteq SUBSET (1..placed')
         /\ UNCHANGED ledger
<1>1. CASE pos > 0
  <2>1. PICK n \in 1..pos : PlaceOrder("SELL", n, reply)
    BY <1>1
  <2>2. n \in Nat
    BY DEF TypeOK
  <2>3. QED BY <2>1, <2>2, PlaceOrderTypes
<1>2. CASE ~(pos > 0)
  <2>1. order' = order /\ chain' = chain /\ placed' = placed /\ tracked' = tracked /\ UNCHANGED ledger
    BY <1>2 DEF exchange
  <2>2. placed <= placed' /\ assumed' = assumed
    BY <2>1, LiveAssumption DEF TypeOK, ledger
  <2>3. QED BY <2>1, <2>2 DEF TypeOK
<1>3. QED BY <1>1, <1>2

\* The steps of the kill switch and of the shutdown keep the types.
LEMMA StoppingTypes ==
  ASSUME TypeInv, Stopping
  PROVE  TypeInv'
<1>1. CASE Interrupt
  BY <1>1 DEF Interrupt, TypeInv, TypeOK, Quiet, Polling, exchange, ledger, books
<1>2. CASE \E succeeds \in CancelResults : Halts(succeeds) \/ ShutdownCancels(succeeds)
  <2>1. PICK succeeds \in CancelResults : Halts(succeeds) \/ ShutdownCancels(succeeds)
    BY <1>2
  <2>2. CancelAll(succeeds) /\ UNCHANGED poll /\ phase \in {"top", "close"} /\ phase' \in {"kill", "closing"}
    BY <2>1 DEF Halts, ShutdownCancels
  <2>3. QED BY <2>2, CancelAllTypes DEF TypeInv, TypeOK, Quiet, Polling, ledger, books, poll
<1>3. CASE \E reply \in Replies : KillSwitchSells(reply) \/ ClosePosition(reply)
  <2>1. PICK reply \in Replies : KillSwitchSells(reply) \/ ClosePosition(reply)
    BY <1>3
  <2>2. IF pos > 0 THEN \E n \in 1..pos : PlaceOrder("SELL", n, reply) ELSE UNCHANGED <<exchange, tracked, ledger>>
    BY <2>1 DEF KillSwitchSells, ClosePosition
  <2>3. CASE KillSwitchSells(reply)
    BY <2>2, <2>3, SaleTypes DEF KillSwitchSells, TypeInv, TypeOK, Quiet, Polling, ledger, books, poll
  <2>4. CASE ClosePosition(reply)
    <3>1. todo' = tracked' /\ over' = {} /\ forgotten' = forgotten
      BY <2>4 DEF ClosePosition, TypeInv, Quiet, Polling
    <3>2. phase' \in {"stopped", "last_poll"} /\ (phase' = "stopped" => todo' = {})
      BY <2>4 DEF ClosePosition
    <3>3. Quiet'
      BY <3>1, <3>2 DEF Quiet, Polling
    <3>4. /\ order' \in [Orders -> OrderRecord] /\ chain' \in Nat /\ placed' \in 0..MaxOrders
          /\ placed <= placed' /\ tracked' \in SUBSET (1..placed') /\ UNCHANGED ledger
      BY <2>2, SaleTypes DEF TypeInv
    <3>5. forgotten' \in SUBSET (1..placed') /\ assumed' \in SUBSET (1..placed')
      BY <3>1, <3>4 DEF TypeInv, TypeOK, ledger
    <3>6. filled' \in [Orders -> Nat] /\ pos' \in Nat /\ applied' \in [Orders -> Nat] /\ stop' \in BOOLEAN
      BY <3>4 DEF TypeInv, TypeOK, ledger, books
    <3>7. TypeOK'
      BY <3>1, <3>2, <3>4, <3>5, <3>6 DEF TypeOK
    <3>8. QED BY <3>3, <3>7 DEF TypeInv
  <2>5. QED BY <2>1, <2>3, <2>4
<1>4. QED BY <1>1, <1>2, <1>3 DEF Stopping

\* The live system starts with nothing placed.
LEMMA InitTypes == Init => TypeInv
<1> SUFFICES ASSUME Init PROVE TypeInv
  OBVIOUS
<1>1. NoOrder \in OrderRecord
  BY DEF NoOrder, OrderRecord
<1>2. 0 \in 0..MaxOrders
  BY LiveAssumption
<1>3. QED BY <1>1, <1>2 DEF Init, TypeInv, TypeOK, Quiet

\* Every step keeps the types.
LEMMA NextTypes == TypeInv /\ [Next]_vars => TypeInv'
<1> SUFFICES ASSUME TypeInv, [Next]_vars PROVE TypeInv'
  OBVIOUS
<1>1. CASE UNCHANGED vars
  BY <1>1 DEF TypeInv, TypeOK, Quiet, Polling, vars
<1>2. CASE Next
  BY <1>1, <1>2, ExchangeTypes, LoopTypes, TradingTypes, StoppingTypes DEF Next, Terminated
<1>3. QED BY <1>1, <1>2

\* The state of order tracking keeps its types: an order the engine polls, drops or has
\* dropped is one the exchange was given, whatever fails in between.
THEOREM TypeCorrect == Spec => []TypeOK
<1>1. TypeInv => TypeOK
  BY DEF TypeInv
<1>2. QED BY InitTypes, NextTypes, <1>1, PTL DEF Spec

-------------------------------------------------------------------------------
(* What is recorded of the orders                                          *)

\* The types of one order, for the arithmetic of the lemmas below.
LEMMA OrderTypes ==
  ASSUME TypeInv, NEW o \in Orders
  PROVE  /\ order[o] \in OrderRecord
         /\ order[o].matched \in Nat
         /\ order[o].size \in Nat
         /\ applied[o] \in Nat
         /\ filled[o] \in Nat
         /\ o \in Nat
         /\ placed \in Nat
BY LiveAssumption DEF TypeInv, TypeOK, OrderRecord, Orders

\* Orders that were placed, dropped by a poll or assumed full are orders.
LEMMA PlacedOrders ==
  ASSUME TypeInv
  PROVE  /\ \A o \in 1..placed : o \in Orders /\ o <= placed
         /\ assumed \subseteq 1..placed
         /\ over \subseteq 1..placed
<1>1. placed \in Nat /\ placed <= MaxOrders
  BY LiveAssumption DEF TypeInv, TypeOK
<1>2. QED BY <1>1, LiveAssumption DEF TypeInv, TypeOK, Orders

\* A new order starts with nothing matched, as nothing was recorded of it.
LEMMA PlaceOrderRecorded ==
  ASSUME IInv, NEW side \in {"BUY", "SELL"}, NEW n \in Nat \ {0}, NEW reply,
         PlaceOrder(side, n, reply), UNCHANGED <<forgotten, over>>
  PROVE  Recorded'
<1>1. CASE reply = "rejected"
  <2>1. UNCHANGED <<order, placed, tracked, forgotten, over, filled, applied, assumed>>
    BY <1>1 DEF PlaceOrder, ledger, books
  <2>2. QED
    BY <2>1 DEF IInv, Recorded, OrdersSound, CountsAgree, FillsWithinOrders, AssumedInFull, OverRecorded,
                DroppedOrdersRecorded
<1>2. CASE reply # "rejected"
  <2> DEFINE new == placed + 1
  <2>1. /\ placed' = new /\ new \in Orders /\ UNCHANGED <<filled, applied, assumed, forgotten, over>>
        /\ tracked \subseteq tracked'
    BY <1>2, LiveAssumption DEF PlaceOrder, ledger, books, IInv, TypeInv, TypeOK, Orders
  <2>2. order' = [order EXCEPT ![new] = [status |-> "open", side |-> side, size |-> n, matched |-> 0]]
    BY <1>2 DEF PlaceOrder
  <2>3. order'[new] = [status |-> "open", side |-> side, size |-> n, matched |-> 0]
    BY <2>1, <2>2 DEF IInv, TypeInv, TypeOK
  <2>4. \A o \in Orders : o # new => order'[o] = order[o]
    BY <2>2 DEF IInv, TypeInv, TypeOK
  <2>5. applied[new] = 0 /\ filled[new] = 0
    <3>1. order[new].matched = 0
      BY <2>1, OrderTypes DEF IInv, Recorded, OrdersSound
    <3>2. new \notin assumed
      BY <2>1, PlacedOrders, OrderTypes DEF IInv
    <3>3. applied[new] <= 0 /\ applied[new] \in Nat
      BY <2>1, <3>1, <3>2, OrderTypes DEF IInv, Recorded, FillsWithinOrders
    <3>4. QED BY <2>1, <3>3 DEF IInv, Recorded, CountsAgree
  <2>6. OrdersSound'
    BY <2>1, <2>3, <2>4, OrderTypes DEF IInv, Recorded, OrdersSound
  <2>7. CountsAgree'
    BY <2>1 DEF IInv, Recorded, CountsAgree
  <2>8. FillsWithinOrders'
    <3> SUFFICES ASSUME NEW o \in Orders
                 PROVE  applied[o] <= IF o \in assumed THEN order'[o].size ELSE order'[o].matched
      BY <2>1 DEF FillsWithinOrders
    <3>1. CASE o = new
      BY <2>3, <2>5, <3>1
    <3>2. CASE o # new
      BY <2>4, <3>2 DEF IInv, Recorded, FillsWithinOrders
    <3>3. QED BY <3>1, <3>2
  <2>9. OverRecorded' /\ AssumedInFull'
    <3>1. \A o \in over \cup assumed : o \in Orders /\ o # new
      BY PlacedOrders, OrderTypes, <2>1 DEF IInv
    <3>2. QED BY <2>1, <2>4, <3>1 DEF IInv, Recorded, OverRecorded, AssumedInFull
  <2>10. DroppedOrdersRecorded'
    <3> SUFFICES ASSUME NEW o \in 1..placed', o \notin tracked' \cup forgotten', applied'[o] > 0
                 PROVE  IF o \in assumed THEN applied[o] = order'[o].size
                        ELSE order'[o].status = "closed" /\ applied[o] = order'[o].matched
      BY <2>1 DEF DroppedOrdersRecorded
    <3>1. o # new
      BY <2>1, <2>5
    <3>2. o \in 1..placed /\ o \in Orders
      BY <2>1, <3>1, LiveAssumption DEF IInv, TypeInv, TypeOK, Orders
    <3>3. QED BY <2>1, <2>4, <3>1, <3>2 DEF IInv, Recorded, DroppedOrdersRecorded
  <2>11. QED BY <2>6, <2>7, <2>8, <2>9, <2>10 DEF Recorded
<1>3. QED BY <1>1, <1>2

\* A cancellation closes orders with what was matched of them.
LEMMA CancelAllRecorded ==
  ASSUME IInv, NEW succeeds, CancelAll(succeeds), UNCHANGED over
  PROVE  Recorded'
<1>1. UNCHANGED <<placed, filled, applied, assumed, over>> /\ tracked' = {} /\ forgotten' = forgotten \cup tracked
  BY DEF CancelAll, ledger, books
<1>2. \A o \in Orders : /\ order'[o].matched = order[o].matched
                        /\ order'[o].size = order[o].size
                        /\ \/ order'[o].status = order[o].status
                           \/ order[o].status = "open" /\ order'[o].status = "closed"
  <2>1. CASE tracked = {} \/ ~succeeds
    BY <2>1 DEF CancelAll
  <2>2. CASE ~(tracked = {} \/ ~succeeds)
    <3>1. order' = [o \in Orders |-> IF order[o].status = "open"
                                     THEN [order[o] EXCEPT !.status = "closed"] ELSE order[o]]
      BY <2>2 DEF CancelAll
    <3>2. QED BY <3>1, OrderTypes DEF OrderRecord, IInv
  <2>3. QED BY <2>1, <2>2
<1>3. OrdersSound'
  BY <1>1, <1>2 DEF IInv, Recorded, OrdersSound
<1>4. CountsAgree' /\ FillsWithinOrders'
  BY <1>1, <1>2 DEF IInv, Recorded, CountsAgree, FillsWithinOrders
<1>5. \A o \in (1..placed) \cup over \cup assumed : o \in Orders
  BY PlacedOrders DEF IInv
<1>6. OverRecorded' /\ AssumedInFull'
  BY <1>1, <1>2, <1>5 DEF IInv, Recorded, OverRecorded, AssumedInFull
<1>7. DroppedOrdersRecorded'
  BY <1>1, <1>2, <1>5 DEF IInv, Recorded, DroppedOrdersRecorded
<1>8. QED BY <1>3, <1>4, <1>6, <1>7 DEF Recorded

\* The exchange matches open orders only, and those are not dropped yet.
LEMMA ExchangeRecorded ==
  ASSUME IInv, Exchange
  PROVE  Recorded'
<1>1. PICK x \in Orders : ExchangeCloses(x) \/ \E n \in 1..order[x].size : Match(x, n)
  BY DEF Exchange
<1>2. /\ UNCHANGED <<placed, tracked, filled, applied, assumed, forgotten, over>>
      /\ order[x].status = "open"
  BY <1>1 DEF ExchangeCloses, Match, ledger, books, poll
<1>3. \A o \in Orders : o # x => order'[o] = order[o]
  BY <1>1 DEF ExchangeCloses, Match, IInv, TypeInv, TypeOK
<1>4. /\ order'[x].size = order[x].size
      /\ order'[x].matched \in Nat
      /\ order[x].matched <= order'[x].matched
      /\ order'[x].matched <= order[x].size
      /\ order'[x].status \in {"open", "closed"}
      /\ order'[x].status = "open" => order'[x].matched < order[x].size
  <2>1. CASE ExchangeCloses(x)
    <3>1. order'[x] = [order[x] EXCEPT !.status = "closed"]
      BY <2>1 DEF ExchangeCloses, IInv, TypeInv, TypeOK
    <3>2. QED BY <3>1, OrderTypes DEF OrderRecord, IInv, Recorded, OrdersSound
  <2>2. CASE \E n \in 1..order[x].size : Match(x, n)
    <3>1. PICK n \in 1..order[x].size : Match(x, n)
      BY <2>2
    <3>2. order'[x] = [order[x] EXCEPT !.matched = order[x].matched + n,
                                       !.status = IF order[x].matched + n = order[x].size
                                                  THEN "closed" ELSE order[x].status]
      BY <3>1 DEF Match, IInv, TypeInv, TypeOK
    <3>3. order[x] \in OrderRecord /\ n \in Nat /\ order[x].matched + n <= order[x].size
      BY <3>1, OrderTypes DEF Match, IInv
    <3>4. QED BY <1>2, <3>2, <3>3, OrderTypes DEF OrderRecord, IInv
  <2>3. QED BY <1>1, <2>1, <2>2
<1>5. OrdersSound'
  BY <1>2, <1>3, <1>4, OrderTypes DEF IInv, Recorded, OrdersSound
<1>6. CountsAgree' /\ FillsWithinOrders'
  <2>1. applied[x] <= IF x \in assumed THEN order'[x].size ELSE order'[x].matched
    BY <1>4, OrderTypes DEF IInv, Recorded, FillsWithinOrders
  <2>2. QED BY <1>2, <1>3, <2>1 DEF IInv, Recorded, CountsAgree, FillsWithinOrders
<1>7. OverRecorded' /\ AssumedInFull'
  <2>1. \A o \in over \cup assumed : o \in Orders
    BY PlacedOrders DEF IInv
  <2>2. \A o \in over \ assumed : o # x
    BY <1>2 DEF IInv, Recorded, OverRecorded
  <2>3. \A o \in Orders : order'[o].size = order[o].size
    BY <1>3, <1>4
  <2>4. QED BY <1>2, <1>3, <2>1, <2>2, <2>3 DEF IInv, Recorded, OverRecorded, AssumedInFull
<1>8. DroppedOrdersRecorded'
  <2> SUFFICES ASSUME NEW o \in 1..placed, o \notin tracked \cup forgotten, applied[o] > 0
               PROVE  IF o \in assumed THEN applied[o] = order'[o].size
                      ELSE order'[o].status = "closed" /\ applied[o] = order'[o].matched
    BY <1>2 DEF DroppedOrdersRecorded
  <2>1. o \in Orders
    BY PlacedOrders DEF IInv
  <2>2. o # x \/ o \in assumed
    BY <1>2 DEF IInv, Recorded, DroppedOrdersRecorded
  <2>3. order'[o].size = order[o].size
    BY <1>3, <1>4, <2>1
  <2>4. QED BY <1>3, <2>1, <2>2, <2>3 DEF IInv, Recorded, DroppedOrdersRecorded
<1>9. QED BY <1>5, <1>6, <1>7, <1>8 DEF Recorded

\* A status adds to an order what was matched since the last answer, and nothing twice; one
\* that tells nothing adds the rest of its size.
LEMMA AnswerRecorded ==
  ASSUME IInv, NEW x \in Orders, Answers(x)
  PROVE  Recorded'
<1>1. PICK matched \in 0..order[x].matched, closed \in BOOLEAN, listed \in Remaining :
        PollAnswers(x, matched, closed, listed) \/ PollRaises(x, matched, closed, listed)
  BY DEF Answers
<1> DEFINE read == ReadMatched(x, matched, listed)
           nothing == Assumes(matched, listed)
<1>2. matched \in Nat /\ matched <= order[x].matched /\ order[x].matched <= order[x].size
  BY OrderTypes DEF IInv, Recorded, OrdersSound
<1>3. /\ nothing => read = order[x].size
      /\ ~nothing => read = matched
  BY DEF ReadMatched
<1>4. read \in Nat /\ read <= order[x].size
  BY <1>2, <1>3, OrderTypes DEF IInv
<1>5. /\ UNCHANGED <<order, chain, placed, tracked, forgotten>>
      /\ x \in todo /\ x \in tracked /\ x \in 1..placed /\ x \notin over
      /\ closed => order[x].status = "closed" /\ matched = order[x].matched
  BY <1>1 DEF PollAnswers, PollRaises, Answered, exchange, IInv, TypeInv, TypeOK
<1>6. /\ nothing => assumed' = assumed \cup {x}
      /\ ~nothing => assumed' = assumed
  BY <1>1 DEF PollAnswers, PollRaises, Noted
<1>7. \A o \in Orders : o # x => filled'[o] = filled[o] /\ applied'[o] = applied[o] /\ (o \in assumed' <=> o \in assumed)
  <2>1. RecordAnswer(x, read)
    BY <1>1 DEF PollAnswers, PollRaises
  <2>2. \A o \in Orders : o # x => filled'[o] = filled[o] /\ applied'[o] = applied[o]
    BY <2>1 DEF RecordAnswer, FilledUpTo, books, IInv, TypeInv, TypeOK
  <2>3. QED BY <1>6, <2>2
<1>8. /\ read > filled[x] => filled'[x] = read
      /\ ~(read > filled[x]) => filled'[x] = filled[x]
      /\ applied'[x] = filled'[x]
  <2>1. RecordAnswer(x, read)
    BY <1>1 DEF PollAnswers, PollRaises
  <2>2. applied[x] = filled[x]
    BY DEF IInv, Recorded, CountsAgree
  <2>3. CASE read > filled[x]
    <3>1. filled'[x] = read /\ applied'[x] = applied[x] + read - filled[x]
      BY <2>1, <2>3 DEF RecordAnswer, FilledUpTo, IInv, TypeInv, TypeOK
    <3>2. QED BY <1>4, <2>2, <2>3, <3>1, OrderTypes DEF IInv
  <2>4. CASE ~(read > filled[x])
    BY <2>1, <2>2, <2>4 DEF RecordAnswer, books
  <2>5. QED BY <2>3, <2>4
<1>9. filled[x] <= order[x].size /\ (x \in assumed => filled[x] = order[x].size)
  <2>1. applied[x] = filled[x] /\ applied[x] <= IF x \in assumed THEN order[x].size ELSE order[x].matched
    BY DEF IInv, Recorded, CountsAgree, FillsWithinOrders
  <2>2. x \in assumed => filled[x] = order[x].size
    BY DEF IInv, Recorded, AssumedInFull
  <2>3. QED BY <1>2, <2>1, <2>2, OrderTypes DEF IInv
<1>10. x \in assumed' => filled'[x] = order[x].size
  <2>1. CASE nothing
    BY <1>3, <1>8, <1>9, <2>1, OrderTypes DEF IInv
  <2>2. CASE ~nothing
    BY <1>4, <1>6, <1>8, <1>9, <2>2, OrderTypes DEF IInv
  <2>3. QED BY <2>1, <2>2
<1>11. x \notin assumed' => filled'[x] <= order[x].matched /\ filled[x] <= order[x].matched
  <2>1. SUFFICES ASSUME x \notin assumed' PROVE filled'[x] <= order[x].matched /\ filled[x] <= order[x].matched
    OBVIOUS
  <2>2. read = matched /\ x \notin assumed
    BY <1>3, <1>6, <2>1
  <2>3. filled[x] <= order[x].matched
    BY <2>2 DEF IInv, Recorded, CountsAgree, FillsWithinOrders
  <2>4. QED BY <1>2, <1>8, <2>2, <2>3
<1>12. OrdersSound'
  BY <1>5 DEF IInv, Recorded, OrdersSound
<1>13. CountsAgree'
  BY <1>7, <1>8 DEF IInv, Recorded, CountsAgree
<1>14. FillsWithinOrders'
  <2> SUFFICES ASSUME NEW o \in Orders
               PROVE  applied'[o] <= IF o \in assumed' THEN order[o].size ELSE order[o].matched
    BY <1>5 DEF FillsWithinOrders
  <2>1. CASE o = x
    BY <1>8, <1>10, <1>11, <2>1, OrderTypes DEF IInv
  <2>2. CASE o # x
    BY <1>7, <2>2 DEF IInv, Recorded, FillsWithinOrders
  <2>3. QED BY <2>1, <2>2
<1>15. AssumedInFull'
  <2>1. \A o \in assumed' : o = x \/ (o \in assumed /\ o \in Orders)
    BY <1>6, PlacedOrders DEF IInv
  <2>2. QED BY <1>5, <1>7, <1>10, <2>1 DEF IInv, Recorded, AssumedInFull
<1>16. OverRecorded'
  <2>1. over' = {} \/ (over' = IF Dropped(x, read, closed) THEN over \cup {x} ELSE over)
    BY <1>1 DEF PollAnswers, PollRaises
  <2>2. \A o \in over : o \in Orders /\ o # x
    BY <1>5, PlacedOrders DEF IInv
  <2>3. \A o \in over : IF o \in assumed' THEN filled'[o] = order'[o].size
                        ELSE order'[o].status = "closed" /\ filled'[o] = order'[o].matched
    BY <1>5, <1>7, <2>2 DEF IInv, Recorded, OverRecorded
  <2>4. ASSUME Dropped(x, read, closed), x \notin assumed'
        PROVE  order[x].status = "closed" /\ filled'[x] = order[x].matched
    <3>1. read = matched
      BY <1>3, <1>6, <2>4
    <3>2. filled[x] <= order[x].matched /\ filled'[x] <= order[x].matched
      BY <1>11, <2>4
    <3>3. CASE closed
      BY <1>5, <1>8, <3>1, <3>2, <3>3, OrderTypes DEF IInv
    <3>4. CASE ~closed
      <4>1. matched >= order[x].size \/ filled[x] >= order[x].size
        BY <2>4, <3>1, <3>4, Zenon DEF Dropped
      <4>2. order[x].matched >= order[x].size /\ filled'[x] = order[x].matched
        BY <1>2, <1>4, <1>8, <3>1, <3>2, <4>1, OrderTypes DEF IInv
      <4>3. order[x].status \in {"none", "open", "closed"}
        BY OrderTypes DEF OrderRecord, IInv
      <4>4. order[x].status # "none"
        BY <1>5, OrderTypes DEF IInv, Recorded, OrdersSound
      <4>5. order[x].status # "open"
        BY <4>2, OrderTypes DEF IInv, Recorded, OrdersSound
      <4>6. QED BY <4>2, <4>3, <4>4, <4>5
    <3>5. QED BY <3>3, <3>4
  <2>5. Dropped(x, read, closed) =>
          IF x \in assumed' THEN filled'[x] = order'[x].size
          ELSE order'[x].status = "closed" /\ filled'[x] = order'[x].matched
    BY <1>5, <1>10, <2>4
  <2>6. QED BY <2>1, <2>3, <2>5 DEF OverRecorded
<1>17. DroppedOrdersRecorded'
  <2>1. \A o \in 1..placed : o \in Orders
    BY PlacedOrders DEF IInv
  <2>2. \A o \in 1..placed : o \notin tracked => o # x
    BY <1>5
  <2>3. QED BY <1>5, <1>7, <2>1, <2>2 DEF IInv, Recorded, DroppedOrdersRecorded
<1>18. QED BY <1>12, <1>13, <1>14, <1>15, <1>16, <1>17 DEF Recorded

\* A poll ends with the orders dropped that are over and recorded.
LEMMA PollDoneRecorded ==
  ASSUME IInv, PollDone
  PROVE  Recorded'
<1>1. UNCHANGED <<order, placed, filled, applied, assumed, forgotten>> /\ tracked' = tracked \ over /\ over' = {}
  BY DEF PollDone, exchange, ledger, books
<1>2. OrdersSound' /\ CountsAgree' /\ FillsWithinOrders' /\ AssumedInFull'
  BY <1>1 DEF IInv, Recorded, OrdersSound, CountsAgree, FillsWithinOrders, AssumedInFull
<1>3. OverRecorded'
  BY <1>1 DEF OverRecorded
<1>4. DroppedOrdersRecorded'
  <2> SUFFICES ASSUME NEW o \in 1..placed, o \notin tracked' \cup forgotten, applied[o] > 0
               PROVE  IF o \in assumed THEN applied[o] = order[o].size
                      ELSE order[o].status = "closed" /\ applied[o] = order[o].matched
    BY <1>1 DEF DroppedOrdersRecorded
  <2>1. o \in Orders
    BY PlacedOrders DEF IInv
  <2>2. CASE o \in over
    BY <2>1, <2>2 DEF IInv, Recorded, OverRecorded, CountsAgree
  <2>3. CASE o \notin over
    BY <1>1, <2>3 DEF IInv, Recorded, DroppedOrdersRecorded
  <2>4. QED BY <2>2, <2>3
<1>5. QED BY <1>2, <1>3, <1>4 DEF Recorded

\* Steps that leave the orders and what is recorded of them alone.
LEMMA OtherwiseRecorded ==
  ASSUME IInv, UNCHANGED <<order, placed, tracked, filled, applied, assumed, forgotten>>,
         over' = over \/ over' = {}
  PROVE  Recorded'
<1>1. OrdersSound' /\ CountsAgree' /\ FillsWithinOrders' /\ AssumedInFull' /\ DroppedOrdersRecorded'
  BY DEF IInv, Recorded, OrdersSound, CountsAgree, FillsWithinOrders, AssumedInFull, DroppedOrdersRecorded
<1>2. OverRecorded'
  BY DEF IInv, Recorded, OverRecorded
<1>3. QED BY <1>1, <1>2 DEF Recorded

\* The steps of the main loop keep what is recorded in agreement with the exchange.
LEMMA LoopRecorded ==
  ASSUME IInv, Loop \/ PollSkipped
  PROVE  Recorded'
<1>1. CASE CheckPasses \/ StepDone \/ PollSkipped
  BY <1>1, OtherwiseRecorded DEF CheckPasses, StepDone, PollSkipped, exchange, ledger, books, poll
<1>2. CASE Reconcile
  BY <1>2, OtherwiseRecorded DEF Reconcile, exchange, poll
<1>3. CASE PollStarts
  BY <1>3, OtherwiseRecorded DEF PollStarts, exchange, ledger, books
<1>4. CASE PollDone
  BY <1>4, PollDoneRecorded
<1>5. CASE \E o \in Orders : PollFails(o)
  BY <1>5, OtherwiseRecorded DEF PollFails, exchange, ledger, books
<1>6. CASE \E o \in Orders : Answers(o)
  BY <1>6, AnswerRecorded
<1>7. QED BY <1>1, <1>2, <1>3, <1>4, <1>5, <1>6 DEF Loop

\* Signals and window rolls keep what is recorded in agreement with the exchange.
LEMMA TradingRecorded ==
  ASSUME IInv, Trading
  PROVE  Recorded'
<1>1. CASE \E side \in SignalSides, n \in Sizes, reply \in Replies : Signal(side, n, reply)
  <2>1. PICK side \in SignalSides, n \in Sizes, reply \in Replies : Signal(side, n, reply)
    BY <1>1
  <2>2. side \in {"BUY", "SELL"} /\ n \in Nat \ {0}
    BY LiveAssumption
  <2>3. PlaceOrder(side, n, reply) /\ UNCHANGED <<forgotten, over>>
    BY <2>1 DEF Signal, poll
  <2>4. QED BY <2>2, <2>3, PlaceOrderRecorded
<1>2. CASE \E succeeds \in CancelResults : WindowRolls(succeeds)
  BY <1>2, CancelAllRecorded DEF WindowRolls, poll
<1>3. CASE \E reply \in Replies : StopLossSells(reply)
  <2>1. PICK reply \in Replies, n \in 1..pos : PlaceOrder("SELL", n, reply) /\ UNCHANGED <<forgotten, over>>
    BY <1>3 DEF StopLossSells, poll
  <2>2. n \in Nat \ {0}
    BY DEF IInv, TypeInv, TypeOK
  <2>3. QED BY <2>1, <2>2, PlaceOrderRecorded
<1>4. QED BY <1>1, <1>2, <1>3 DEF Trading

\* So does a close order.
LEMMA SaleRecorded ==
  ASSUME IInv, NEW reply, UNCHANGED <<forgotten, over>>,
         IF pos > 0 THEN \E n \in 1..pos : PlaceOrder("SELL", n, reply) ELSE UNCHANGED <<exchange, tracked, ledger>>
  PROVE  Recorded'
<1>1. CASE pos > 0
  <2>1. PICK n \in 1..pos : PlaceOrder("SELL", n, reply)
    BY <1>1
  <2>2. n \in Nat \ {0}
    BY DEF IInv, TypeInv, TypeOK
  <2>3. QED BY <2>1, <2>2, PlaceOrderRecorded
<1>2. CASE ~(pos > 0)
  BY <1>2, OtherwiseRecorded DEF exchange, ledger, books
<1>3. QED BY <1>1, <1>2

\* So do the kill switch and the shutdown.
LEMMA StoppingRecorded ==
  ASSUME IInv, Stopping
  PROVE  Recorded'
<1>1. CASE Interrupt
  BY <1>1, OtherwiseRecorded DEF Interrupt, exchange, ledger, books
<1>2. CASE \E succeeds \in CancelResults : Halts(succeeds) \/ ShutdownCancels(succeeds)
  BY <1>2, CancelAllRecorded DEF Halts, ShutdownCancels, poll
<1>3. CASE \E reply \in Replies : KillSwitchSells(reply) \/ ClosePosition(reply)
  BY <1>3, SaleRecorded DEF KillSwitchSells, ClosePosition, poll
<1>4. QED BY <1>1, <1>2, <1>3 DEF Stopping

\* At the start there is nothing to record.
LEMMA InitRecorded == Init => Recorded
<1> SUFFICES ASSUME Init PROVE Recorded
  OBVIOUS
<1>1. \A o \in Orders : order[o] = NoOrder /\ applied[o] = 0 /\ filled[o] = 0 /\ o > placed
  BY LiveAssumption DEF Init, Orders
<1>2. \A o \in 1..placed : FALSE
  BY DEF Init
<1>3. QED
  BY <1>1, <1>2 DEF Init, NoOrder, Recorded, OrdersSound, CountsAgree, FillsWithinOrders, AssumedInFull,
                    OverRecorded, DroppedOrdersRecorded

\* The inductive invariant: it adds to the two properties that an order is closed when it
\* is full, that the two counts of an order agree, and that a poll marks for removal
\* only orders that are over and recorded.
LEMMA RecordedInvariance == Spec => []IInv
<1>1. Init => IInv
  BY InitTypes, InitRecorded DEF IInv
<1>2. IInv /\ [Next]_vars => IInv'
  <2> SUFFICES ASSUME IInv, [Next]_vars PROVE IInv'
    OBVIOUS
  <2>1. TypeInv'
    BY NextTypes DEF IInv
  <2>2. CASE UNCHANGED vars
    BY <2>2, OtherwiseRecorded, <2>1 DEF IInv, vars
  <2>3. CASE Terminated
    BY <2>3, OtherwiseRecorded, <2>1 DEF IInv, vars, Terminated
  <2>4. CASE Exchange \/ Loop \/ PollSkipped \/ Trading \/ Stopping
    BY <2>4, <2>1, ExchangeRecorded, LoopRecorded, TradingRecorded, StoppingRecorded DEF IInv
  <2>5. QED BY <2>2, <2>3, <2>4 DEF Next
<1>3. QED BY <1>1, <1>2, PTL DEF Spec

\* Polls that repeat, fail, raise or answer late give the OMS no more than the exchange
\* matched of an order; one whose status told neither a matched nor a remaining size is
\* taken to be filled, and then no more than its size is recorded.
THEOREM FillsAreNeverInvented == Spec => []FillsWithinOrders
<1>1. IInv => FillsWithinOrders
  BY DEF IInv, Recorded
<1>2. QED BY RecordedInvariance, <1>1, PTL

\* An order check_live_fills stops polling is recorded: in full size if a status told
\* nothing of it, else it is over at the exchange with all of its matches recorded.
THEOREM PollDropsRecordedOrders == Spec => []DroppedOrdersRecorded
<1>1. IInv => DroppedOrdersRecorded
  BY DEF IInv, Recorded
<1>2. QED BY RecordedInvariance, <1>1, PTL
===============================================================================
