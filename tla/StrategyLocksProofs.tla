-------------------------- MODULE StrategyLocksProofs --------------------------
(***************************************************************************)
(* Theorems of StrategyLocks for any set of strategies, in any order.  The  *)
(* invariant says who owns a signal, which signals are still to be          *)
(* submitted, and that whoever has a signal or an order has spent its entry *)
(* of the window and has no other entry open.                               *)
(***************************************************************************)
EXTENDS StrategyLocks, SumsProofs, TLAPS

\* The order of the strategies, without sequences.
LEMMA Positions ==
  /\ Len(Order) \in Nat
  /\ DOMAIN Order = 1..Len(Order)
  /\ \A i \in 1..Len(Order) : Order[i] \in Registered
  /\ \A s \in Registered : s \in (Leaves \ Wrapped) \cup {Portfolio}
  /\ \A i, j \in 1..Len(Order) : Order[i] = Order[j] => i = j
BY LocksAssumption DEF LocksAssumption, Registered

\* Strategies whose own step of this iteration and whose submission have not come yet.
ToCome(s) == \E i \in turn..Len(Order) : Order[i] = s

\* s has a signal that is not submitted yet.
Outstanding(s) ==
  /\ signal[s] # NoSignal
  /\ phase = "step" \/ (phase = "submit" /\ ToCome(s))

\* What keeps a leaf, or the portfolio with all its children, from another signal.
Spent(l) ==
  \/ l \in Wrapped /\ accepted
  \/ l \in Movers \ Wrapped /\ l \in locked
  \/ l \in Snipers \ Wrapped /\ l \in signalled

Limited == Leaves \ (Momenta \ Wrapped)

\* Where a step of the runner is, and what is certain there.
Control ==
  /\ phase \in {"outcome", "settle"} => behind /\ placed = [l \in Leaves |-> 0]
  /\ phase \in {"step", "submit"} => ~behind
  /\ phase \notin {"step", "submit"} => turn = 1 /\ signal = [s \in Registered |-> NoSignal]
  /\ phase = "step" => \A s \in Registered : ToCome(s) => signal[s] = NoSignal

Owned ==
  \A s \in Registered :
    /\ signal[s].leaf = "none" => signal[s] = NoSignal
    /\ s = Portfolio => signal[s].leaf \in Wrapped \cup {"none"}
    /\ s # Portfolio => signal[s].leaf \in {s, "none"}

\* An outstanding signal is its owner's first of the window.
FirstOrder ==
  \A s \in Registered, l \in Limited : Outstanding(s) /\ signal[s].leaf = l =>
    /\ Spent(l)
    /\ placed[l] = 0
    /\ s = Portfolio => \A k \in Wrapped : placed[k] = 0

OrdersSpent == \A l \in Limited : placed[l] > 0 => Spent(l)

NoneOpen == \A s \in Registered : Outstanding(s) => entries[signal[s].leaf].n = 0

ChildrenFreed == behind => locked \cap Wrapped = {}

IInv ==
  /\ TypeOK
  /\ Control
  /\ Owned
  /\ FirstOrder
  /\ OrdersSpent
  /\ OneOrderAWindow
  /\ NoneOpen
  /\ OneEntryAtATime
  /\ LockedWhileEntered
  /\ LosersStayFree
  /\ ChildrenFreed

-------------------------------------------------------------------------------
(* Types                                                                   *)

PendingRecord == [key : Directions \cup {"none"}, count : 0..Confirmations]

\* What awaits confirmation is a record of its type, whatever the market does.
LEMMA NextPendingTypes ==
  ASSUME TypeOK, NEW m \in Momenta, NEW wish \in Wishes
  PROVE  NextPending(m, wish) \in PendingRecord
<1>1. pending[m] \in PendingRecord /\ pending[m].count \in 0..Confirmations
  BY DEF TypeOK, PendingRecord
<1>2. Confirmations \in Nat \ {0}
  BY LocksAssumption DEF LocksAssumption
<1>3. CASE m \in locked \/ ~InTime(m) \/ wish = "unable"
  BY <1>1, <1>3 DEF NextPending
<1>4. CASE ~(m \in locked \/ ~InTime(m) \/ wish = "unable") /\ wish = "none"
  BY <1>2, <1>4 DEF NextPending, NoPending, PendingRecord
<1>5. CASE ~(m \in locked \/ ~InTime(m) \/ wish = "unable") /\ wish # "none"
  <2>1. wish \in Directions
    BY <1>5 DEF Wishes
  <2> DEFINE counted == IF pending[m].key = wish THEN pending[m].count + 1 ELSE 1
             kept    == IF counted < Confirmations THEN counted ELSE Confirmations
  <2>2. counted \in Nat
    BY <1>1
  <2>3. kept \in 0..Confirmations
    <3> HIDE DEF counted
    <3>1. QED BY <1>2, <2>2
  <2>4. NextPending(m, wish) = [key |-> wish, count |-> kept]
    BY <1>5 DEF NextPending
  <2> HIDE DEF counted, kept
  <2>5. QED BY <2>1, <2>3, <2>4 DEF PendingRecord
<1>6. QED BY <1>3, <1>4, <1>5

LEMMA ChildrenAfterTypes ==
  ASSUME TypeOK, NEW wish \in [Active -> Wishes]
  PROVE  ChildrenAfter(wish) \in [Momenta -> PendingRecord]
<1>1. \A m \in Momenta : pending[m] \in PendingRecord
  BY DEF TypeOK, PendingRecord
<1>2. \A m \in Momenta \cap Active : NextPending(m, wish[m]) \in PendingRecord
  BY NextPendingTypes
<1>3. QED BY <1>1, <1>2 DEF ChildrenAfter

\* The least of four natural numbers is a natural number.
LEMMA LeastOfFour ==
  ASSUME NEW a \in Nat, NEW b \in Nat, NEW c \in Nat, NEW d \in Nat
  PROVE  Min({a, b, c, d}) \in Nat
<1>1. \E x \in {a, b, c, d} : \A y \in {a, b, c, d} : x <= y
  BY SMT
<1>2. Min({a, b, c, d}) \in {a, b, c, d}
  BY <1>1 DEF Min
<1>3. QED BY <1>2

LEMMA AllowedTypes ==
  ASSUME TypeOK, NEW l \in Active, NEW stake \in Nat
  PROVE  Allowed(l, stake) \in Nat
<1>1. Bankroll \in Nat /\ WindowCap \in Nat /\ TotalCap \in Nat /\ open \in Nat
  BY LocksAssumption DEF LocksAssumption, TypeOK
<1>2. Weight[l][stage] \in Nat
  <2>1. l \in Wrapped /\ stage \in Stages
    BY DEF Active
  <2>2. Weight \in [Wrapped -> [Stages -> 0..100]]
    BY LocksAssumption DEF LocksAssumption
  <2>3. Weight[l] \in [Stages -> 0..100]
    BY <2>1, <2>2
  <2>4. Weight[l][stage] \in 0..100
    BY <2>1, <2>3
  <2>5. QED BY <2>4
<1>3. Bankroll * Weight[l][stage] \in Nat
  BY <1>1, <1>2
<1>4. (Bankroll * Weight[l][stage]) \div 100 \in Nat
  BY <1>3
<1>5. (IF open < TotalCap THEN TotalCap - open ELSE 0) \in Nat
  BY <1>1
<1>6. QED BY <1>1, <1>4, <1>5, LeastOfFour DEF Allowed

\* A signal of the runner and what the portfolio makes of its child's.
LEMMA SignalTypes ==
  ASSUME TypeOK, NEW s \in Registered, NEW l \in Leaves, NEW n \in Nat
  PROVE  [signal EXCEPT ![s] = [leaf |-> l, notional |-> n]]
           \in [Registered -> [leaf : Leaves \cup {"none"}, notional : Nat]]
BY DEF TypeOK

LEMMA OnceMoreTypes ==
  ASSUME TypeOK, NEW l \in Leaves
  PROVE  OnceMore(l) \in [Leaves -> 0..2]
<1>1. placed \in [Leaves -> 0..2] /\ placed[l] \in 0..2
  BY DEF TypeOK
<1>2. (IF placed[l] < 2 THEN placed[l] + 1 ELSE 2) \in 0..2
  BY <1>1
<1>3. QED BY <1>1, <1>2 DEF OnceMore

LEMMA TypesKept ==
  ASSUME TypeOK, Owned, Next
  PROVE  TypeOK'
<1> USE DEF TypeOK
<1>1. 1 \in 1..Over /\ 1 \in 1..(Len(Order) + 1) /\ Len(Order) \in Nat
  BY Positions DEF Over, Regimes
<1>2. turn <= Len(Order) => turn + 1 \in 1..(Len(Order) + 1)
  BY <1>1
<1>3. NoSignal \in [leaf : Leaves \cup {"none"}, notional : Nat]
  BY DEF NoSignal
<1>4. [l \in Leaves |-> NoEntry] \in [Leaves -> [n : Nat, cost : Nat]]
  BY DEF NoEntry
<1>5. NoPending \in PendingRecord
  BY LocksAssumption DEF LocksAssumption, NoPending, PendingRecord
<1>6. ASSUME NEW now \in 1..Over, SameWindow(now) PROVE TypeOK'
  BY <1>1, <1>6 DEF SameWindow, AskStrategies
<1>7. ASSUME NEW now \in 1..Over, Roll(now) PROVE TypeOK'
  <2>1. pending' \in [Momenta -> PendingRecord]
    BY <1>5, <1>7 DEF Roll
  <2>2. locked' \subseteq Leaves /\ signalled' \subseteq Snipers /\ placed' \in [Leaves -> 0..2]
    BY <1>7 DEF Roll
  <2>3. /\ phase' = "outcome" /\ stage' \in 1..Over /\ behind' = TRUE /\ accepted' = FALSE
        /\ open' = 0 /\ UNCHANGED <<dryRun, turn, signal, entries, todo>>
    BY <1>7 DEF Roll
  <2>4. QED BY <2>1, <2>2, <2>3 DEF PendingRecord
<1>8. CASE EntriesDropped
  BY <1>4, <1>8 DEF EntriesDropped, AskStrategies
<1>9. CASE OutcomeKnown
  BY <1>9 DEF OutcomeKnown
<1>10. CASE SettlementRaises
  BY <1>10 DEF SettlementRaises
<1>11. CASE SettlementDone
  BY <1>4, <1>11 DEF SettlementDone, AskStrategies
<1>12. ASSUME NEW l \in Leaves, NEW won \in BOOLEAN, SettleEntry(l, won) PROVE TypeOK'
  <2>1. pending' \in [Momenta -> PendingRecord]
    BY <1>5, <1>12 DEF SettleEntry, PendingRecord
  <2>2. open' \in Nat
    BY <1>12 DEF SettleEntry, OpenAfterSale
  <2>3. locked' \subseteq Leaves /\ todo' \subseteq Leaves
    BY <1>12 DEF SettleEntry
  <2>4. UNCHANGED <<dryRun, phase, turn, stage, behind, signalled, accepted, signal, entries, placed>>
    BY <1>12 DEF SettleEntry
  <2>5. QED BY <2>1, <2>2, <2>3, <2>4 DEF PendingRecord
<1>13. CASE PortfolioIdle
  BY <1>2, <1>13 DEF PortfolioIdle, Asks, MyTurn
<1>14. CASE StepsDone
  BY <1>1, <1>14 DEF StepsDone
<1>15. ASSUME NEW l \in Leaves \ Wrapped, NEW wish \in Wishes, Declines(l, wish) PROVE TypeOK'
  <2>1. pending' \in [Momenta -> PendingRecord]
    BY <1>15, NextPendingTypes DEF Declines, PendingRecord
  <2>2. QED BY <1>2, <1>15, <2>1 DEF Declines, MyTurn, PendingRecord
<1>16. ASSUME NEW l \in Leaves \ Wrapped, NEW wish \in Wishes, NEW stake \in Stakes[l],
              LeafSignals(l, wish, stake)
       PROVE  TypeOK'
  <2>1. pending' \in [Momenta -> PendingRecord]
    BY <1>16, NextPendingTypes DEF LeafSignals, PendingRecord
  <2>2. l \in Registered /\ stake \in Nat
    BY <1>16, Positions, LocksAssumption DEF LocksAssumption, LeafSignals, MyTurn
  <2>3. signal' \in [Registered -> [leaf : Leaves \cup {"none"}, notional : Nat]]
    BY <1>16, <2>2, SignalTypes DEF LeafSignals
  <2>4. locked' \subseteq Leaves /\ signalled' \subseteq Snipers
    BY <1>16 DEF LeafSignals, LockedBySignal
  <2>5. QED BY <1>2, <1>16, <2>1, <2>3, <2>4 DEF LeafSignals, MyTurn, PendingRecord
<1>17. ASSUME NEW wish \in [Active -> Wishes], NEW stake \in StakesOfChildren,
              PortfolioDeclines(wish, stake)
       PROVE  TypeOK'
  <2>1. pending' \in [Momenta -> PendingRecord]
    BY <1>17, ChildrenAfterTypes DEF PortfolioDeclines
  <2>2. QED BY <1>2, <1>17, <2>1
           DEF PortfolioDeclines, Asks, MyTurn, LocksAfter, MarksAfter, PendingRecord
<1>18. ASSUME NEW wish \in [Active -> Wishes], NEW stake \in StakesOfChildren,
              PortfolioAccepts(wish, stake)
       PROVE  TypeOK'
  <2>1. pending' \in [Momenta -> PendingRecord]
    BY <1>18, ChildrenAfterTypes DEF PortfolioAccepts
  <2>2. Portfolio \in Registered
    BY <1>18, Positions DEF PortfolioAccepts, Asks, MyTurn
  <2>3. PICK l \in Affordable(wish, stake) :
          signal' = [signal EXCEPT ![Portfolio] = [leaf |-> l, notional |-> Allowed(l, stake[l])]]
    BY <1>18 DEF PortfolioAccepts
  <2>4. l \in Active /\ l \in Leaves
    BY LocksAssumption DEF LocksAssumption, Affordable, Candidates, Active
  <2>5. stake[l] \in Nat
    BY <2>4, LocksAssumption DEF LocksAssumption, StakesOfChildren
  <2>6. Allowed(l, stake[l]) \in Nat
    BY <2>4, <2>5, AllowedTypes
  <2>7. signal' \in [Registered -> [leaf : Leaves \cup {"none"}, notional : Nat]]
    BY <2>2, <2>3, <2>4, <2>6, SignalTypes
  <2>8. QED BY <1>2, <1>18, <2>1, <2>7
           DEF PortfolioAccepts, Asks, MyTurn, LocksAfter, MarksAfter, PendingRecord
<1>19. CASE SubmissionDone
  BY <1>1, <1>3, <1>19 DEF SubmissionDone, EndStep
<1>20. ASSUME NEW s \in Registered, NotExecuted(s) PROVE TypeOK'
  BY <1>2, <1>20 DEF NotExecuted, Submits
<1>21. ASSUME NEW s \in Registered, signal[s] # NoSignal PROVE signal[s].leaf \in Leaves
  BY <1>21 DEF Owned
<1>22. ASSUME NEW s \in Registered, AcceptedLive(s) PROVE TypeOK'
  <2>1. placed' \in [Leaves -> 0..2]
    BY <1>21, <1>22, OnceMoreTypes DEF AcceptedLive
  <2>2. QED BY <1>2, <1>22, <2>1 DEF AcceptedLive, Submits
<1>23. ASSUME NEW s \in Registered, NEW cost \in 1..signal[s].notional, FilledOnPaper(s, cost)
       PROVE  TypeOK'
  <2>1. signal[s].leaf \in Leaves /\ cost \in Nat
    BY <1>21, <1>23 DEF FilledOnPaper
  <2>2. placed' \in [Leaves -> 0..2]
    BY <1>23, <2>1, OnceMoreTypes DEF FilledOnPaper
  <2>3. entries' \in [Leaves -> [n : Nat, cost : Nat]]
    BY <1>23, <2>1 DEF FilledOnPaper
  <2>4. open' \in Nat /\ locked' \subseteq Leaves
    BY <1>23, <2>1 DEF FilledOnPaper, OpenAfterFill, LockedByFill
  <2>5. turn' \in 1..(Len(Order) + 1)
    BY <1>2, <1>23 DEF FilledOnPaper, Submits
  <2>6. UNCHANGED <<dryRun, phase, stage, behind, signalled, pending, accepted, signal, todo>>
    BY <1>23 DEF FilledOnPaper
  <2>7. QED BY <2>2, <2>3, <2>4, <2>5, <2>6
<1>24. ASSUME NEW s \in Registered, NEW booked \in BOOLEAN, SubmissionRaises(s, booked)
       PROVE  TypeOK'
  <2>1. placed' \in [Leaves -> 0..2]
    BY <1>21, <1>24, OnceMoreTypes DEF SubmissionRaises
  <2>2. QED BY <1>1, <1>3, <1>24, <2>1 DEF SubmissionRaises, EndStep
<1>25. QED
  BY <1>6, <1>7, <1>8, <1>9, <1>10, <1>11, <1>12, <1>13, <1>14, <1>15, <1>16, <1>17, <1>18,
     <1>19, <1>20, <1>22, <1>23, <1>24
     DEF Next, Settlement, Steps, Submission, Rolls

-------------------------------------------------------------------------------
(* Turns and owners                                                        *)

\* After its turn a strategy is no longer to come, the others are as before.
LEMMA NextTurn ==
  ASSUME turn \in 1..(Len(Order) + 1), turn <= Len(Order), turn' = turn + 1, NEW s \in Registered
  PROVE  ToCome(s)' <=> ToCome(s) /\ s # Order[turn]
<1>1. Len(Order) \in Nat
  BY Positions
<1>2. ToCome(s)' <=> \E i \in (turn + 1)..Len(Order) : Order[i] = s
  BY DEF ToCome
<1>3. \A i \in turn..Len(Order) : i = turn \/ i \in (turn + 1)..Len(Order)
  BY <1>1
<1>4. \A i \in (turn + 1)..Len(Order) :
        i \in 1..Len(Order) /\ i \in turn..Len(Order) /\ i # turn
  BY <1>1
<1>5. turn \in 1..Len(Order) /\ turn \in turn..Len(Order)
  BY <1>1
<1>6. \A i \in (turn + 1)..Len(Order) : Order[i] # Order[turn]
  BY <1>4, <1>5, Positions
<1>7. QED BY <1>2, <1>3, <1>4, <1>5, <1>6 DEF ToCome

\* Whose turn it is has not been asked, or submitted, yet.
LEMMA TurnToCome ==
  ASSUME turn \in 1..(Len(Order) + 1), turn <= Len(Order)
  PROVE  Order[turn] \in Registered /\ ToCome(Order[turn])
<1>1. Len(Order) \in Nat /\ turn \in 1..Len(Order) /\ turn \in turn..Len(Order)
  BY Positions
<1>2. QED BY <1>1, Positions DEF ToCome

\* Two signals are of two leaves; that of the portfolio is the only one of a child.
LEMMA OwnersDiffer ==
  ASSUME Owned, NEW s \in Registered, NEW t \in Registered, s # t,
         signal[s] # NoSignal, signal[t] # NoSignal
  PROVE  /\ signal[s].leaf # signal[t].leaf
         /\ signal[s].leaf \in Wrapped <=> s = Portfolio
         /\ signal[s].leaf \in Leaves
<1>1. signal[s].leaf # "none" /\ signal[t].leaf # "none"
  BY DEF Owned
<1>2. s = Portfolio => signal[s].leaf \in Wrapped
  BY <1>1 DEF Owned
<1>3. t = Portfolio => signal[t].leaf \in Wrapped
  BY <1>1 DEF Owned
<1>4. s # Portfolio => signal[s].leaf = s /\ s \in Leaves \ Wrapped
  BY <1>1, Positions DEF Owned
<1>5. t # Portfolio => signal[t].leaf = t /\ t \in Leaves \ Wrapped
  BY <1>1, Positions DEF Owned
<1>6. Wrapped \subseteq Leaves
  BY LocksAssumption DEF LocksAssumption
<1>7. QED BY <1>2, <1>3, <1>4, <1>5, <1>6

\* One signal alone has an owner too.
LEMMA OwnerIsLeaf ==
  ASSUME Owned, NEW s \in Registered, signal[s] # NoSignal
  PROVE  /\ signal[s].leaf \in Leaves
         /\ signal[s].leaf \in Wrapped <=> s = Portfolio
<1>1. signal[s].leaf # "none"
  BY DEF Owned
<1>2. s = Portfolio => signal[s].leaf \in Wrapped
  BY <1>1 DEF Owned
<1>3. s # Portfolio => signal[s].leaf = s /\ s \in Leaves \ Wrapped
  BY <1>1, Positions DEF Owned
<1>4. Wrapped \subseteq Leaves
  BY LocksAssumption DEF LocksAssumption
<1>5. QED BY <1>2, <1>3, <1>4

\* Without signals nobody's order is outstanding.
LEMMA NoSignals ==
  ASSUME signal' = [s \in Registered |-> NoSignal]
  PROVE  Owned' /\ FirstOrder' /\ NoneOpen'
<1>1. \A s \in Registered : signal'[s] = NoSignal
  OBVIOUS
<1>2. \A s \in Registered : ~Outstanding(s)'
  BY <1>1 DEF Outstanding
<1>3. Owned'
  BY <1>1 DEF Owned, NoSignal
<1>4. QED BY <1>2, <1>3 DEF FirstOrder, NoneOpen

-------------------------------------------------------------------------------
(* The steps before the strategies are asked                               *)

\* A refresh with no roll: no signal is out, and only the stage and the phase change.
LEMMA SameWindowKeeps ==
  ASSUME IInv, NEW now \in 1..Over, SameWindow(now), TypeOK'
  PROVE  IInv'
<1> USE DEF SameWindow, AskStrategies
<1>1. signal' = [s \in Registered |-> NoSignal] /\ turn' = 1 /\ ~behind
  BY DEF IInv, Control
<1>2. Owned' /\ FirstOrder' /\ NoneOpen'
  BY <1>1, NoSignals
<1>3. Control'
  BY <1>1 DEF Control
<1>4. OrdersSpent' /\ OneOrderAWindow' /\ OneEntryAtATime'
  BY DEF IInv, OrdersSpent, Spent, OneOrderAWindow, OneEntryAtATime
<1>5. LockedWhileEntered' /\ LosersStayFree' /\ ChildrenFreed'
  BY DEF IInv, LockedWhileEntered, LosersStayFree, ChildrenFreed
<1>6. QED BY <1>2, <1>3, <1>4, <1>5 DEF IInv

\* No order is placed in the window yet: nothing is to be shown of orders.
LEMMA NothingPlaced ==
  ASSUME placed' = [l \in Leaves |-> 0]
  PROVE  OrdersSpent' /\ OneOrderAWindow'
<1>1. \A l \in Leaves : placed'[l] = 0
  OBVIOUS
<1>2. Wrapped \subseteq Leaves
  BY LocksAssumption DEF LocksAssumption
<1>3. OrdersSpent'
  BY <1>1 DEF OrdersSpent, Limited
<1>4. OneOrderAWindow'
  BY <1>1, <1>2 DEF OneOrderAWindow
<1>5. QED BY <1>3, <1>4

LEMMA RollKeeps ==
  ASSUME IInv, NEW now \in 1..Over, Roll(now), TypeOK'
  PROVE  IInv'
<1> USE DEF Roll
<1>1. signal' = [s \in Registered |-> NoSignal] /\ turn' = 1
  BY DEF IInv, Control
<1>2. Owned' /\ FirstOrder' /\ NoneOpen'
  BY <1>1, NoSignals
<1>3. Control'
  BY <1>1 DEF Control
<1>4. OrdersSpent' /\ OneOrderAWindow'
  BY NothingPlaced
<1>5. ChildrenFreed'
  BY DEF ChildrenFreed, KeepsLock
<1>6. LockedWhileEntered' /\ LosersStayFree' /\ OneEntryAtATime'
  BY DEF IInv, LockedWhileEntered, LosersStayFree, OneEntryAtATime
<1>7. QED BY <1>2, <1>3, <1>4, <1>5, <1>6 DEF IInv

\* The settlement empties the list of entries, and no child is locked.
LEMMA EntriesGone ==
  ASSUME IInv, phase \in {"outcome", "settle"}, entries' = [l \in Leaves |-> NoEntry],
         behind' = FALSE, AskStrategies(stage),
         UNCHANGED <<stage, locked, signalled, accepted, placed>>, TypeOK'
  PROVE  IInv'
<1>1. behind /\ placed' = [l \in Leaves |-> 0] /\ locked \cap Wrapped = {}
  BY DEF IInv, Control, ChildrenFreed
<1>2. signal' = [s \in Registered |-> NoSignal] /\ turn' = 1
  BY DEF IInv, Control, AskStrategies
<1>3. Owned' /\ FirstOrder' /\ NoneOpen'
  BY <1>2, NoSignals
<1>4. phase' \in {"refresh", "step"}
  BY DEF AskStrategies
<1>5. Control'
  BY <1>2, <1>4 DEF Control
<1>6. OrdersSpent' /\ OneOrderAWindow'
  BY <1>1, NothingPlaced
<1>7. \A l \in Leaves : entries'[l].n = 0
  BY DEF NoEntry
<1>8. OneEntryAtATime' /\ LockedWhileEntered'
  BY <1>7 DEF OneEntryAtATime, LockedWhileEntered
<1>9. LosersStayFree' /\ ChildrenFreed'
  BY <1>1 DEF LosersStayFree, ChildrenFreed
<1>10. QED BY <1>3, <1>5, <1>6, <1>8, <1>9 DEF IInv

\* Between the roll and the end of the settlement locks are only released.
LEMMA SettlementGoesOn ==
  ASSUME IInv, phase \in {"outcome", "settle"}, phase' \in {"settle", "refresh"},
         locked' \subseteq locked,
         UNCHANGED <<turn, behind, signal, entries, placed>>, TypeOK'
  PROVE  IInv'
<1>1. behind' = TRUE /\ behind /\ placed' = [l \in Leaves |-> 0] /\ locked \cap Wrapped = {}
  BY DEF IInv, Control, ChildrenFreed, TypeOK
<1>2. signal' = [s \in Registered |-> NoSignal] /\ turn' = 1
  BY DEF IInv, Control
<1>3. Owned' /\ FirstOrder' /\ NoneOpen'
  BY <1>2, NoSignals
<1>4. Control'
  BY <1>1, <1>2 DEF Control
<1>5. OrdersSpent' /\ OneOrderAWindow'
  BY <1>1, NothingPlaced
<1>6. OneEntryAtATime' /\ LockedWhileEntered' /\ LosersStayFree'
  BY <1>1 DEF IInv, OneEntryAtATime, LockedWhileEntered, LosersStayFree
<1>7. ChildrenFreed'
  BY <1>1 DEF ChildrenFreed
<1>8. QED BY <1>3, <1>4, <1>5, <1>6, <1>7 DEF IInv

LEMMA SettlementKeeps ==
  ASSUME IInv, Settlement, TypeOK'
  PROVE  IInv'
<1>1. CASE EntriesDropped
  BY <1>1, EntriesGone DEF EntriesDropped
<1>2. CASE SettlementDone
  BY <1>2, EntriesGone DEF SettlementDone
<1>3. CASE OutcomeKnown
  BY <1>3, SettlementGoesOn DEF OutcomeKnown
<1>4. CASE SettlementRaises
  BY <1>4, SettlementGoesOn DEF SettlementRaises
<1>5. ASSUME NEW l \in Leaves, NEW won \in BOOLEAN, SettleEntry(l, won) PROVE IInv'
  <2>1. locked' \subseteq locked /\ phase = "settle" /\ phase' = "settle"
    BY <1>5 DEF SettleEntry
  <2>2. UNCHANGED <<turn, behind, signal, entries, placed>>
    BY <1>5 DEF SettleEntry
  <2>3. QED BY <2>1, <2>2, SettlementGoesOn
<1>6. QED BY <1>1, <1>2, <1>3, <1>4, <1>5 DEF Settlement

-------------------------------------------------------------------------------
(* The steps of the strategies                                             *)

\* While strategies are asked, marks are only added, and nothing is bought.
LEMMA AskingKeeps ==
  ASSUME IInv, TypeOK, phase = "step", locked \subseteq locked', signalled \subseteq signalled',
         accepted => accepted', locked' \cap Wrapped = locked \cap Wrapped,
         UNCHANGED <<behind, entries, placed>>
  PROVE  /\ \A l \in Leaves : Spent(l) => Spent(l)'
         /\ OrdersSpent' /\ OneOrderAWindow' /\ OneEntryAtATime'
         /\ LockedWhileEntered' /\ LosersStayFree' /\ ChildrenFreed'
<1>1. \A l \in Leaves : Spent(l) => Spent(l)'
  BY DEF Spent
<1>2. OrdersSpent'
  BY <1>1 DEF IInv, OrdersSpent, Limited
<1>3. OneOrderAWindow' /\ OneEntryAtATime'
  BY DEF IInv, OneOrderAWindow, OneEntryAtATime
<1>4. LockedWhileEntered'
  BY DEF IInv, LockedWhileEntered
<1>5. LosersStayFree' /\ ChildrenFreed'
  BY DEF IInv, LosersStayFree, ChildrenFreed
<1>6. QED BY <1>1, <1>2, <1>3, <1>4, <1>5

\* The strategy asked gives no signal.
LEMMA AskedInVain ==
  ASSUME IInv, TypeOK', phase = "step", phase' = "step", turn <= Len(Order), turn' = turn + 1,
         UNCHANGED <<behind, locked, signalled, accepted, signal, entries, placed>>
  PROVE  IInv'
<1> USE DEF IInv
<1>1. \A s \in Registered : ToCome(s)' => ToCome(s)
  BY NextTurn DEF TypeOK
<1>2. Control'
  BY <1>1 DEF Control
<1>3. \A s \in Registered : Outstanding(s)' => Outstanding(s)
  BY DEF Outstanding
<1>4. /\ \A l \in Leaves : Spent(l) => Spent(l)'
      /\ OrdersSpent' /\ OneOrderAWindow' /\ OneEntryAtATime'
      /\ LockedWhileEntered' /\ LosersStayFree' /\ ChildrenFreed'
  BY AskingKeeps
<1>5. FirstOrder'
  BY <1>3, <1>4 DEF FirstOrder, Limited
<1>6. NoneOpen' /\ Owned'
  BY <1>3 DEF NoneOpen, Owned
<1>7. QED BY <1>2, <1>4, <1>5, <1>6

\* The strategy s that is asked gives a signal of the leaf l, for which this is the
\* first of the window, and which has no open entry.
LEMMA AskedAndGiven ==
  ASSUME IInv, TypeOK', phase = "step", phase' = "step", turn <= Len(Order), turn' = turn + 1,
         NEW s \in Registered, Order[turn] = s, NEW l \in Leaves, NEW n \in Nat,
         IF s = Portfolio THEN l \in Wrapped ELSE l = s,
         signal' = [signal EXCEPT ![s] = [leaf |-> l, notional |-> n]],
         l \notin locked, ~Spent(l), l \in Limited => Spent(l)',
         locked \subseteq locked', signalled \subseteq signalled', accepted => accepted',
         locked' \cap Wrapped = locked \cap Wrapped,
         UNCHANGED <<behind, entries, placed>>
  PROVE  IInv'
<1> USE DEF IInv
<1>1. \A t \in Registered : ToCome(t)' => ToCome(t) /\ t # s
  BY NextTurn DEF TypeOK
<1>2. /\ \A t \in Registered \ {s} : signal'[t] = signal[t]
      /\ signal'[s].leaf = l
  BY DEF TypeOK
<1>3. Control'
  BY <1>1, <1>2 DEF Control
<1>4. \A t \in Registered \ {s} : Outstanding(t)' => Outstanding(t)
  BY <1>2 DEF Outstanding
<1>5. /\ \A k \in Leaves : Spent(k) => Spent(k)'
      /\ OrdersSpent' /\ OneOrderAWindow' /\ OneEntryAtATime'
      /\ LockedWhileEntered' /\ LosersStayFree' /\ ChildrenFreed'
  BY AskingKeeps
<1>6. l # "none"
  BY LocksAssumption DEF LocksAssumption
<1>7. Owned'
  BY <1>2, <1>6 DEF Owned
<1>8. entries[l].n = 0
  <2>1. ~behind /\ entries[l].n \in Nat
    BY DEF Control, TypeOK
  <2>2. QED BY <2>1 DEF LockedWhileEntered
<1>9. \A k \in Limited : placed[k] = 0 \/ Spent(k)
  <2>1. \A k \in Limited : placed[k] \in 0..2
    BY DEF Limited, TypeOK
  <2>2. \A k \in Limited : placed[k] > 0 => Spent(k)
    BY DEF OrdersSpent
  <2>3. QED BY <2>1, <2>2
<1>10. l \in Limited => placed[l] = 0
  BY <1>9
<1>11. s = Portfolio => \A k \in Wrapped : placed[k] = 0
  <2>1. s = Portfolio => \A k \in Wrapped : ~Spent(k)
    BY LocksAssumption DEF LocksAssumption, Spent
  <2>2. \A k \in Wrapped : k \in Limited
    BY LocksAssumption DEF LocksAssumption, Limited
  <2>3. QED BY <1>9, <2>1, <2>2
<1>12. NoneOpen'
  BY <1>2, <1>4, <1>8 DEF NoneOpen
<1>13. FirstOrder'
  <2> SUFFICES ASSUME NEW t \in Registered, NEW k \in Limited,
                      Outstanding(t)', signal'[t].leaf = k
               PROVE  /\ Spent(k)'
                      /\ placed[k] = 0
                      /\ t = Portfolio => \A w \in Wrapped : placed[w] = 0
    BY DEF FirstOrder, Limited
  <2>1. CASE t = s
    BY <1>2, <1>10, <1>11, <2>1
  <2>2. CASE t # s
    <3>1. Outstanding(t) /\ signal[t].leaf = k
      BY <1>2, <1>4, <2>2
    <3>2. Spent(k) /\ placed[k] = 0 /\ (t = Portfolio => \A w \in Wrapped : placed[w] = 0)
      BY <3>1 DEF FirstOrder
    <3>3. Spent(k)'
      BY <1>5, <3>2 DEF Limited
    <3>4. QED BY <3>2, <3>3
  <2>3. QED BY <2>1, <2>2
<1>14. QED BY <1>3, <1>5, <1>7, <1>12, <1>13

LEMMA StepsKeep ==
  ASSUME IInv, Steps, TypeOK'
  PROVE  IInv'
<1> USE DEF MyTurn, Asks
<1>1. CASE PortfolioIdle
  BY <1>1, AskedInVain DEF PortfolioIdle
<1>2. CASE StepsDone
  <2> USE <1>2 DEF StepsDone, IInv
  <2>1. Control' /\ Owned'
    BY DEF Control, Owned
  <2>2. \A s \in Registered : Outstanding(s)' => Outstanding(s)
    BY DEF Outstanding
  <2>3. FirstOrder'
    BY <2>2 DEF FirstOrder, Spent
  <2>4. NoneOpen' /\ OrdersSpent' /\ OneOrderAWindow' /\ OneEntryAtATime'
    BY <2>2 DEF NoneOpen, OrdersSpent, Spent, OneOrderAWindow, OneEntryAtATime
  <2>5. LockedWhileEntered' /\ LosersStayFree' /\ ChildrenFreed'
    BY DEF LockedWhileEntered, LosersStayFree, ChildrenFreed
  <2>6. QED BY <2>1, <2>3, <2>4, <2>5
<1>3. ASSUME NEW l \in Leaves \ Wrapped, NEW wish \in Wishes, Declines(l, wish)
      PROVE  IInv'
  BY <1>3, AskedInVain DEF Declines
<1>4. ASSUME NEW l \in Leaves \ Wrapped, NEW wish \in Wishes, NEW stake \in Stakes[l],
             LeafSignals(l, wish, stake)
      PROVE  IInv'
  <2>1. l \in Registered /\ stake \in Nat /\ l # Portfolio
    BY <1>4, TurnToCome, LocksAssumption DEF LocksAssumption, LeafSignals, IInv, TypeOK
  <2>2. l \notin locked /\ l \notin signalled
    BY <1>4 DEF LeafSignals, GivesSignal
  <2>3. ~Spent(l)
    BY <2>2 DEF Spent
  <2>4. /\ locked' = locked \cup ({l} \cap Movers)
        /\ signalled' = signalled \cup ({l} \cap Snipers)
    BY <1>4 DEF LeafSignals, LockedBySignal
  <2>5. l \in Limited => Spent(l)'
    BY <2>4, LocksAssumption DEF LocksAssumption, Limited, Spent
  <2>6. locked' \cap Wrapped = locked \cap Wrapped
    BY <2>4
  <2>7. /\ phase = "step" /\ phase' = "step" /\ turn <= Len(Order) /\ turn' = turn + 1
        /\ Order[turn] = l /\ accepted' = accepted
        /\ signal' = [signal EXCEPT ![l] = [leaf |-> l, notional |-> stake]]
        /\ UNCHANGED <<behind, entries, placed>>
    BY <1>4 DEF LeafSignals
  <2>8. QED BY <2>1, <2>2, <2>3, <2>4, <2>5, <2>6, <2>7, AskedAndGiven
<1>5. ASSUME NEW wish \in [Active -> Wishes], NEW stake \in StakesOfChildren,
             PortfolioDeclines(wish, stake)
      PROVE  IInv'
  BY <1>5, AskedInVain DEF PortfolioDeclines, LocksAfter, MarksAfter
<1>6. ASSUME NEW wish \in [Active -> Wishes], NEW stake \in StakesOfChildren,
             PortfolioAccepts(wish, stake)
      PROVE  IInv'
  <2>1. PICK l \in Affordable(wish, stake) :
          signal' = [signal EXCEPT ![Portfolio] = [leaf |-> l, notional |-> Allowed(l, stake[l])]]
    BY <1>6 DEF PortfolioAccepts
  <2>2. l \in Active /\ GivesSignal(l, wish[l])
    BY DEF Affordable, Candidates
  <2>3. l \in Wrapped /\ l \in Leaves /\ l \notin locked
    BY <2>2, LocksAssumption DEF LocksAssumption, Active, GivesSignal
  <2>4. Allowed(l, stake[l]) \in Nat
    <3>1. stake[l] \in Nat
      BY <2>2, <2>3, LocksAssumption DEF LocksAssumption, StakesOfChildren
    <3>2. QED BY <2>2, <3>1, AllowedTypes DEF IInv
  <2>5. ~accepted /\ accepted' = TRUE
    BY <1>6 DEF PortfolioAccepts
  <2>6. ~Spent(l) /\ Spent(l)'
    BY <2>3, <2>5 DEF Spent
  <2>7. /\ phase = "step" /\ phase' = "step" /\ turn <= Len(Order) /\ turn' = turn + 1
        /\ Order[turn] = Portfolio /\ locked' = locked /\ signalled' = signalled
        /\ UNCHANGED <<behind, entries, placed>>
    BY <1>6 DEF PortfolioAccepts, LocksAfter, MarksAfter
  <2>8. Portfolio \in Registered
    BY <2>7, TurnToCome DEF IInv, TypeOK
  <2>9. QED BY <2>1, <2>3, <2>4, <2>5, <2>6, <2>7, <2>8, AskedAndGiven
<1>7. QED BY <1>1, <1>2, <1>3, <1>4, <1>5, <1>6 DEF Steps

-------------------------------------------------------------------------------
(* Submission                                                              *)

\* An order that is taken is the first of its leaf, or of all children.
LEMMA OrderTaken ==
  ASSUME IInv, NEW s \in Registered, Outstanding(s), placed' = OnceMore(signal[s].leaf),
         locked \subseteq locked', UNCHANGED <<signalled, accepted>>
  PROVE  OrdersSpent' /\ OneOrderAWindow'
<1> DEFINE l == signal[s].leaf
<1>1. l \in Leaves /\ (l \in Wrapped <=> s = Portfolio)
  BY OwnerIsLeaf DEF IInv, Outstanding
<1>2. l \in Limited => Spent(l) /\ placed[l] = 0
  BY DEF IInv, FirstOrder
<1>3. \A k \in Leaves : placed[k] \in 0..2 /\ (k # l => placed'[k] = placed[k])
  BY DEF IInv, TypeOK, OnceMore
<1>4. l \in Limited => placed'[l] = 1
  BY <1>1, <1>2 DEF IInv, TypeOK, OnceMore
<1>5. \A k \in Leaves : Spent(k) => Spent(k)'
  BY DEF Spent
<1>6. \A k \in Limited : k \in Leaves
  BY DEF Limited
<1>7. OrdersSpent'
  <2>1. \A k \in Limited : k # l /\ placed[k] > 0 => Spent(k)
    BY DEF IInv, OrdersSpent
  <2> HIDE DEF l
  <2>2. QED BY <1>2, <1>3, <1>5, <1>6, <2>1 DEF OrdersSpent
<1>8. \A k \in Leaves \ (Wrapped \cup Momenta) : placed'[k] <= 1
  <2>1. \A k \in Leaves \ (Wrapped \cup Momenta) : placed[k] <= 1 /\ k \in Limited
    BY DEF IInv, OneOrderAWindow, Limited
  <2> HIDE DEF l
  <2>2. QED BY <1>3, <1>4, <2>1
<1>9. \A k \in Wrapped : k \in Leaves /\ k \in Limited
  BY LocksAssumption DEF LocksAssumption, Limited
<1>10. CASE l \in Wrapped
  <2>1. \A k \in Wrapped : placed[k] = 0
    BY <1>1, <1>9, <1>10 DEF IInv, FirstOrder
  <2> HIDE DEF l
  <2>2. \A k \in Wrapped : placed'[k] = IF k = l THEN 1 ELSE 0
    BY <1>3, <1>4, <1>9, <2>1
  <2>3. QED BY <1>7, <1>8, <2>2 DEF OneOrderAWindow
<1>11. CASE l \notin Wrapped
  <2>1. \A k \in Wrapped : placed'[k] = placed[k]
    BY <1>3, <1>9, <1>11
  <2>2. QED BY <1>7, <1>8, <2>1 DEF IInv, OneOrderAWindow
<1>12. QED BY <1>10, <1>11

\* The next signal's turn: those still outstanding were outstanding before.
LEMMA StillOutstanding ==
  ASSUME TypeOK, phase = "submit", phase' = "submit", turn <= Len(Order), turn' = turn + 1,
         UNCHANGED signal, NEW t \in Registered, Outstanding(t)'
  PROVE  Outstanding(t) /\ t # Order[turn]
<1>1. ToCome(t)' /\ signal[t] # NoSignal
  BY DEF Outstanding
<1>2. ToCome(t) /\ t # Order[turn]
  BY <1>1, NextTurn DEF TypeOK
<1>3. QED BY <1>1, <1>2 DEF Outstanding

\* The signal of s is out of the way; its order may have been taken.
LEMMA OthersFirst ==
  ASSUME IInv, TypeOK', phase = "submit", phase' = "submit", turn <= Len(Order), turn' = turn + 1,
         NEW s \in Registered, Order[turn] = s, locked \subseteq locked',
         UNCHANGED <<behind, signalled, accepted, signal>>,
         placed' = placed \/ (signal[s] # NoSignal /\ placed' = OnceMore(signal[s].leaf))
  PROVE  Control' /\ Owned' /\ FirstOrder' /\ OrdersSpent' /\ OneOrderAWindow'
<1>1. Control' /\ Owned'
  BY DEF IInv, Control, Owned
<1>2. ToCome(s)
  BY TurnToCome DEF IInv, TypeOK
<1>3. \A k \in Leaves : Spent(k) => Spent(k)'
  BY DEF Spent
<1>4. CASE placed' = placed
  <2>1. OrdersSpent' /\ OneOrderAWindow'
    BY <1>3, <1>4 DEF IInv, OrdersSpent, OneOrderAWindow, Limited
  <2>2. \A t \in Registered : Outstanding(t)' => Outstanding(t)
    BY StillOutstanding DEF IInv
  <2>3. FirstOrder'
    BY <1>3, <1>4, <2>2 DEF IInv, FirstOrder, Limited
  <2>4. QED BY <1>1, <2>1, <2>3
<1>5. CASE signal[s] # NoSignal /\ placed' = OnceMore(signal[s].leaf)
  <2>1. Outstanding(s)
    BY <1>2, <1>5 DEF Outstanding
  <2>2. OrdersSpent' /\ OneOrderAWindow'
    BY <1>5, <2>1, OrderTaken
  <2>3. ASSUME NEW t \in Registered, NEW k \in Limited, Outstanding(t)', signal[t].leaf = k
        PROVE  /\ Spent(k)'
               /\ placed'[k] = 0
               /\ t = Portfolio => \A w \in Wrapped : placed'[w] = 0
    <3>1. Outstanding(t) /\ t # s
      BY <2>3, StillOutstanding DEF IInv
    <3>2. Spent(k) /\ placed[k] = 0 /\ (t = Portfolio => \A w \in Wrapped : placed[w] = 0)
      BY <2>3, <3>1 DEF IInv, FirstOrder
    <3>3. signal[s].leaf # k /\ (t = Portfolio => signal[s].leaf \notin Wrapped)
      BY <1>5, <2>3, <3>1, OwnersDiffer DEF IInv, Outstanding
    <3>4. \A w \in Leaves : w # signal[s].leaf => placed'[w] = placed[w]
      BY <1>5 DEF IInv, TypeOK, OnceMore
    <3>5. k \in Leaves /\ \A w \in Wrapped : w \in Leaves
      BY LocksAssumption DEF LocksAssumption, Limited
    <3>6. QED BY <1>3, <3>2, <3>3, <3>4, <3>5
  <2>4. FirstOrder'
    BY <2>3 DEF FirstOrder, Limited
  <2>5. QED BY <1>1, <2>2, <2>4
<1>6. QED BY <1>4, <1>5

\* What was not bought changes neither entries nor locks.
LEMMA NothingBought ==
  ASSUME IInv, TypeOK', phase = "submit", phase' = "submit", turn <= Len(Order), turn' = turn + 1,
         NEW s \in Registered, Order[turn] = s,
         UNCHANGED <<behind, locked, signalled, accepted, signal, entries>>,
         placed' = placed \/ (signal[s] # NoSignal /\ placed' = OnceMore(signal[s].leaf))
  PROVE  IInv'
<1>1. Control' /\ Owned' /\ FirstOrder' /\ OrdersSpent' /\ OneOrderAWindow'
  BY OthersFirst
<1>2. \A t \in Registered : Outstanding(t)' => Outstanding(t)
  BY StillOutstanding DEF IInv
<1>3. NoneOpen' /\ OneEntryAtATime'
  BY <1>2 DEF IInv, NoneOpen, OneEntryAtATime
<1>4. LockedWhileEntered' /\ LosersStayFree' /\ ChildrenFreed'
  BY DEF IInv, LockedWhileEntered, LosersStayFree, ChildrenFreed
<1>5. QED BY <1>1, <1>3, <1>4 DEF IInv

\* A fill on paper is the only open entry of its leaf, and locks it.
LEMMA PaperFillKeeps ==
  ASSUME IInv, TypeOK', NEW s \in Registered, NEW cost \in 1..signal[s].notional,
         FilledOnPaper(s, cost)
  PROVE  IInv'
<1> DEFINE l == signal[s].leaf
<1>1. /\ phase = "submit" /\ phase' = "submit" /\ turn <= Len(Order) /\ turn' = turn + 1
      /\ Order[turn] = s /\ signal[s] # NoSignal /\ placed' = OnceMore(l)
      /\ locked' = locked \cup {l}
      /\ entries' = [entries EXCEPT ![l] = [n |-> @.n + 1, cost |-> @.cost + cost]]
      /\ UNCHANGED <<behind, signalled, accepted, signal>>
  BY DEF FilledOnPaper, Submits, LockedByFill
<1>2. Control' /\ Owned' /\ FirstOrder' /\ OrdersSpent' /\ OneOrderAWindow'
  BY <1>1, OthersFirst
<1>3. l \in Leaves
  BY <1>1, OwnerIsLeaf DEF IInv
<1>4. entries[l].n = 0
  <2>1. ToCome(s)
    BY <1>1, TurnToCome DEF IInv, TypeOK
  <2>2. Outstanding(s)
    BY <1>1, <2>1 DEF Outstanding
  <2>3. QED BY <2>2 DEF IInv, NoneOpen
<1>5. \A k \in Leaves : entries'[k].n = IF k = l THEN 1 ELSE entries[k].n
  BY <1>1, <1>3, <1>4 DEF IInv, TypeOK
<1>6. ~behind /\ ~behind'
  BY <1>1 DEF IInv, Control
<1> HIDE DEF l
<1>7. OneEntryAtATime'
  BY <1>5 DEF IInv, OneEntryAtATime
<1>8. LockedWhileEntered'
  BY <1>1, <1>5, <1>6 DEF IInv, LockedWhileEntered
<1>9. LosersStayFree'
  <2>1. \A k \in Wrapped : k \in Leaves
    BY LocksAssumption DEF LocksAssumption
  <2>2. QED BY <1>1, <1>5, <1>6, <2>1 DEF IInv, LosersStayFree
<1>10. ChildrenFreed'
  BY <1>6 DEF ChildrenFreed
<1>11. NoneOpen'
  <2> SUFFICES ASSUME NEW t \in Registered, Outstanding(t)' PROVE entries'[signal[t].leaf].n = 0
    BY <1>1 DEF NoneOpen
  <2>1. Outstanding(t) /\ t # s
    BY <1>1, StillOutstanding DEF IInv
  <2>2. entries[signal[t].leaf].n = 0
    BY <2>1 DEF IInv, NoneOpen
  <2>3. signal[t].leaf # l /\ signal[t].leaf \in Leaves
    BY <1>1, <2>1, OwnersDiffer DEF IInv, Outstanding, l
  <2>4. QED BY <1>5, <2>2, <2>3
<1>12. QED BY <1>2, <1>7, <1>8, <1>9, <1>10, <1>11 DEF IInv

\* The step ends: no signal remains.
LEMMA StepEnds ==
  ASSUME IInv, TypeOK', phase = "submit", EndStep,
         OrdersSpent' /\ OneOrderAWindow', UNCHANGED <<behind, locked, entries>>
  PROVE  IInv'
<1> USE DEF EndStep
<1>1. Owned' /\ FirstOrder' /\ NoneOpen'
  BY NoSignals
<1>2. Control'
  BY DEF Control
<1>3. OneEntryAtATime' /\ LockedWhileEntered' /\ LosersStayFree' /\ ChildrenFreed'
  BY DEF IInv, OneEntryAtATime, LockedWhileEntered, LosersStayFree, ChildrenFreed
<1>4. QED BY <1>1, <1>2, <1>3 DEF IInv

LEMMA SubmissionKeeps ==
  ASSUME IInv, Submission, TypeOK'
  PROVE  IInv'
<1> USE DEF Submits
<1>1. CASE SubmissionDone
  <2>1. OrdersSpent' /\ OneOrderAWindow'
    BY <1>1 DEF IInv, SubmissionDone, OrdersSpent, Spent, OneOrderAWindow
  <2>2. QED BY <1>1, <2>1, StepEnds DEF SubmissionDone
<1>2. ASSUME NEW s \in Registered, NotExecuted(s) PROVE IInv'
  BY <1>2, NothingBought DEF NotExecuted
<1>3. ASSUME NEW s \in Registered, AcceptedLive(s) PROVE IInv'
  BY <1>3, NothingBought DEF AcceptedLive
<1>4. ASSUME NEW s \in Registered, NEW cost \in 1..signal[s].notional, FilledOnPaper(s, cost)
      PROVE  IInv'
  BY <1>4, PaperFillKeeps
<1>5. ASSUME NEW s \in Registered, NEW booked \in BOOLEAN, SubmissionRaises(s, booked)
      PROVE  IInv'
  <2>1. phase = "submit" /\ turn <= Len(Order) /\ Order[turn] = s /\ signal[s] # NoSignal
    BY <1>5 DEF SubmissionRaises
  <2>2. ToCome(s)
    BY <2>1, TurnToCome DEF IInv, TypeOK
  <2>3. Outstanding(s)
    BY <2>1, <2>2 DEF Outstanding
  <2>4. OrdersSpent' /\ OneOrderAWindow'
    <3>1. CASE booked
      BY <1>5, <2>3, <3>1, OrderTaken DEF SubmissionRaises
    <3>2. CASE ~booked
      BY <1>5, <3>2 DEF IInv, SubmissionRaises, OrdersSpent, Spent, OneOrderAWindow
    <3>3. QED BY <3>1, <3>2
  <2>5. QED BY <1>5, <2>1, <2>4, StepEnds DEF SubmissionRaises
<1>6. QED BY <1>1, <1>2, <1>3, <1>4, <1>5 DEF Submission

-------------------------------------------------------------------------------
(* The theorems                                                            *)

LEMMA InitIInv == Init => IInv
<1> SUFFICES ASSUME Init PROVE IInv
  OBVIOUS
<1> USE DEF Init
<1>1. Len(Order) \in Nat /\ Confirmations \in Nat
  BY Positions, LocksAssumption DEF LocksAssumption
<1>2. TypeOK
  <2>1. pending \in [Momenta -> PendingRecord]
    BY <1>1 DEF PendingRecord, NoPending
  <2>2. signal \in [Registered -> [leaf : Leaves \cup {"none"}, notional : Nat]]
    BY DEF NoSignal
  <2>3. entries \in [Leaves -> [n : Nat, cost : Nat]] /\ placed \in [Leaves -> 0..2]
    BY DEF NoEntry
  <2>4. turn \in 1..(Len(Order) + 1) /\ stage \in 1..Over
    BY <1>1 DEF Over, Regimes
  <2>5. QED BY <2>1, <2>2, <2>3, <2>4 DEF TypeOK, PendingRecord
<1>3. \A s \in Registered : signal[s] = NoSignal /\ ~Outstanding(s)
  BY DEF Outstanding
<1>4. Control /\ Owned
  BY <1>3 DEF Control, Owned, NoSignal
<1>5. FirstOrder /\ NoneOpen
  BY <1>3 DEF FirstOrder, NoneOpen
<1>6. \A l \in Leaves : placed[l] = 0 /\ entries[l].n = 0
  BY DEF NoEntry
<1>7. Wrapped \subseteq Leaves
  BY LocksAssumption DEF LocksAssumption
<1>8. OrdersSpent /\ OneOrderAWindow /\ OneEntryAtATime /\ LockedWhileEntered
  BY <1>6, <1>7 DEF OrdersSpent, Limited, OneOrderAWindow, OneEntryAtATime, LockedWhileEntered
<1>9. LosersStayFree /\ ChildrenFreed
  BY DEF LosersStayFree, ChildrenFreed
<1>10. QED BY <1>2, <1>4, <1>5, <1>8, <1>9 DEF IInv

LEMMA StepIInv == IInv /\ [Next]_vars => IInv'
<1> SUFFICES ASSUME IInv, [Next]_vars PROVE IInv'
  OBVIOUS
<1>1. CASE Next
  <2>1. TypeOK'
    BY <1>1, TypesKept DEF IInv
  <2>2. ASSUME NEW now \in 1..Over, SameWindow(now) PROVE IInv'
    BY <2>1, <2>2, SameWindowKeeps
  <2>3. ASSUME NEW now \in 1..Over, Roll(now) PROVE IInv'
    BY <2>1, <2>3, RollKeeps
  <2>4. QED BY <1>1, <2>1, <2>2, <2>3, SettlementKeeps, StepsKeep, SubmissionKeeps DEF Next, Rolls
<1>2. CASE UNCHANGED vars
  <2> USE <1>2 DEF vars, IInv
  <2>1. TypeOK' /\ Control' /\ Owned'
    BY DEF TypeOK, Control, Owned, ToCome
  <2>2. FirstOrder' /\ NoneOpen'
    BY DEF FirstOrder, NoneOpen, Outstanding, ToCome, Spent
  <2>3. OrdersSpent' /\ OneOrderAWindow' /\ OneEntryAtATime'
    BY DEF OrdersSpent, Spent, OneOrderAWindow, OneEntryAtATime
  <2>4. LockedWhileEntered' /\ LosersStayFree' /\ ChildrenFreed'
    BY DEF LockedWhileEntered, LosersStayFree, ChildrenFreed
  <2>5. QED BY <2>1, <2>2, <2>3, <2>4
<1>3. QED BY <1>1, <1>2

LEMMA Invariance == Spec => []IInv
BY InitIInv, StepIInv, PTL DEF Spec

\* The runner, the strategies and the portfolio keep their state in range: every pending
\* count up to what is required, every signal that of a leaf, whatever raises.
THEOREM LocksTypeCorrect == Spec => []TypeOK
<1>1. IInv => TypeOK
  BY DEF IInv
<1>2. QED BY <1>1, Invariance, PTL

\* Strategies that lock or mark the window by their signal have one order a window at
\* most, and so have the portfolio's children together, for any set of strategies in any
\* order of asking, on paper and live.
THEOREM OneOrderEver == Spec => []OneOrderAWindow
<1>1. IInv => OneOrderAWindow
  BY DEF IInv
<1>2. QED BY <1>1, Invariance, PTL

\* No strategy has two open entries, and the one it has holds its lock when strategies
\* are asked: the runner's list and the strategies' flags agree.
THEOREM EntriesLocked == Spec => []EntriesLockedOnce
<1>1. IInv => EntriesLockedOnce
  BY DEF IInv, EntriesLockedOnce
<1>2. QED BY <1>1, Invariance, PTL

\* Arbitration and failed orders leave no child of the portfolio locked.
THEOREM LosersFree == Spec => []LosersStayFree
<1>1. IInv => LosersStayFree
  BY DEF IInv
<1>2. QED BY <1>1, Invariance, PTL

-------------------------------------------------------------------------------
(* The portfolio's exposure.  A roll clears it before the entries, and until  *)
(* the strategies are asked again nothing is added to it.                    *)

Costs == [l \in Wrapped |-> entries[l].cost]

Exposure == SumAlong(Enumeration(Wrapped), Cardinality(Wrapped), Costs)

NothingOpen == behind => open = 0

ExposureInv == ExposureIsEntries /\ NothingOpen

LEMMA CostsTypes == TypeOK => Costs \in [Wrapped -> Nat] /\ Costs \in [Wrapped -> Int]
BY LocksAssumption DEF LocksAssumption, TypeOK, Costs

\* Without entries nothing is open.
LEMMA NoCosts ==
  ASSUME TypeOK, entries = [l \in Leaves |-> NoEntry]
  PROVE  Exposure = 0
<1>1. IsFiniteSet(Wrapped) /\ Wrapped \subseteq Leaves
  BY LocksAssumption DEF LocksAssumption
<1>2. \A l \in Wrapped : Costs[l] = 0
  BY <1>1 DEF Costs, NoEntry
<1>3. QED BY <1>1, <1>2, CostsTypes, SumZero DEF Exposure

\* A fill adds its cost to both sides if it is a child's, and to neither otherwise.
LEMMA FillExposes ==
  ASSUME IInv, ExposureInv, TypeOK', NEW s \in Registered, NEW cost \in 1..signal[s].notional,
         FilledOnPaper(s, cost)
  PROVE  ExposureInv'
<1> DEFINE l == signal[s].leaf
<1>1. /\ phase = "submit" /\ signal[s] # NoSignal /\ behind' = behind
      /\ open' = IF s = Portfolio THEN open + cost ELSE open
      /\ entries' = [entries EXCEPT ![l] = [n |-> @.n + 1, cost |-> @.cost + cost]]
  BY DEF FilledOnPaper, Submits, OpenAfterFill
<1>2. ~behind /\ ~behind'
  BY <1>1 DEF IInv, Control
<1>3. IsFiniteSet(Wrapped) /\ Wrapped \subseteq Leaves /\ Portfolio \notin Leaves
  BY LocksAssumption DEF LocksAssumption
<1>4. l \in Leaves
  BY <1>1, OwnerIsLeaf DEF IInv
<1>5. signal[s].notional \in Nat /\ cost \in Nat
  BY DEF IInv, TypeOK
<1>6. TypeOK /\ entries[l].cost \in Nat /\ open = Exposure
  BY <1>2, <1>4 DEF IInv, TypeOK, ExposureInv, ExposureIsEntries, Exposure, Costs
<1>7. Costs \in [Wrapped -> Int] /\ Costs' \in [Wrapped -> Int]
  <2>1. Costs \in [Wrapped -> Int]
    BY <1>6, CostsTypes
  <2>2. Costs' \in [Wrapped -> Int]
    BY <1>3 DEF Costs, TypeOK
  <2>3. QED BY <2>1, <2>2
<1>8. \A k \in Wrapped : Costs'[k] = IF k = l THEN Costs[k] + cost ELSE Costs[k]
  BY <1>1, <1>3, <1>4, <1>6 DEF Costs, IInv, TypeOK
<1>9. open' = Exposure'
  <2>1. CASE s = Portfolio
    <3>1. l \in Wrapped
      BY <1>1, <1>4, <2>1, LocksAssumption DEF IInv, Owned, LocksAssumption
    <3>2. Exposure' = Exposure + Costs'[l] - Costs[l]
      BY <1>3, <1>7, <1>8, <3>1, SumUpdate DEF Exposure
    <3>3. Costs'[l] = Costs[l] + cost /\ Costs[l] \in Nat
      BY <1>6, <1>8, <3>1, CostsTypes
    <3>4. Exposure \in Int
      BY <1>3, <1>7, SumType DEF Exposure
    <3>5. QED BY <1>1, <1>5, <1>6, <2>1, <3>2, <3>3, <3>4
  <2>2. CASE s # Portfolio
    <3>1. l = s /\ l \notin Wrapped
      BY <1>1, <2>2, <1>4, Positions, LocksAssumption DEF IInv, Owned, LocksAssumption
    <3>2. Costs' = Costs
      BY <1>7, <1>8, <3>1
    <3>3. QED BY <1>1, <1>6, <2>2, <3>2 DEF Exposure
  <2>3. QED BY <2>1, <2>2
<1>10. QED BY <1>2, <1>9 DEF ExposureInv, ExposureIsEntries, NothingOpen, Exposure, Costs

LEMMA ExposureStep == IInv /\ TypeOK' /\ ExposureInv /\ [Next]_vars => ExposureInv'
<1> SUFFICES ASSUME IInv, TypeOK', ExposureInv, [Next]_vars PROVE ExposureInv'
  OBVIOUS
<1>1. ASSUME UNCHANGED <<behind, open, entries>> PROVE ExposureInv'
  BY <1>1 DEF ExposureInv, ExposureIsEntries, NothingOpen
<1>2. ASSUME behind', open' = 0 PROVE ExposureInv'
  BY <1>2 DEF ExposureInv, ExposureIsEntries, NothingOpen
<1>3. CASE Settlement
  <2>1. CASE EntriesDropped \/ SettlementDone
    <3>1. open' = 0 /\ ~behind' /\ entries' = [l \in Leaves |-> NoEntry]
      BY <2>1 DEF EntriesDropped, SettlementDone, IInv, Control, ExposureInv, NothingOpen
    <3>2. (TypeOK /\ entries = [l \in Leaves |-> NoEntry] => Exposure = 0)'
      BY NoCosts, PTL
    <3>3. Exposure' = 0
      BY <3>1, <3>2
    <3>4. QED BY <3>1, <3>3 DEF ExposureInv, ExposureIsEntries, NothingOpen, Exposure, Costs
  <2>2. CASE OutcomeKnown \/ SettlementRaises
    BY <1>1, <2>2 DEF OutcomeKnown, SettlementRaises
  <2>3. ASSUME NEW l \in Leaves, NEW won \in BOOLEAN, SettleEntry(l, won) PROVE ExposureInv'
    <3>1. behind /\ open = 0 /\ behind'
      BY <2>3 DEF SettleEntry, IInv, Control, ExposureInv, NothingOpen
    <3>2. entries[l].cost \in Nat
      BY DEF IInv, TypeOK
    <3>3. open' = 0
      BY <2>3, <3>1, <3>2 DEF SettleEntry, OpenAfterSale
    <3>4. QED BY <1>2, <3>1, <3>3
  <2>4. QED BY <1>3, <2>1, <2>2, <2>3 DEF Settlement
<1>4. CASE Steps
  BY <1>1, <1>4 DEF Steps, PortfolioIdle, StepsDone, Declines, LeafSignals, PortfolioDeclines,
                    PortfolioAccepts
<1>5. CASE Submission
  <2>1. ASSUME NEW s \in Registered, NEW cost \in 1..signal[s].notional, FilledOnPaper(s, cost)
        PROVE  ExposureInv'
    BY <2>1, FillExposes
  <2>2. CASE SubmissionDone \/ \E s \in Registered : \/ NotExecuted(s) \/ AcceptedLive(s)
                                                    \/ \E booked \in BOOLEAN : SubmissionRaises(s, booked)
    BY <1>1, <2>2 DEF SubmissionDone, NotExecuted, AcceptedLive, SubmissionRaises
  <2>3. QED BY <1>5, <2>1, <2>2 DEF Submission
<1>6. CASE Rolls
  BY <1>2, <1>6 DEF Rolls, Roll
<1>7. CASE \E now \in 1..Over : SameWindow(now)
  BY <1>1, <1>7 DEF SameWindow
<1>8. CASE UNCHANGED vars
  BY <1>1, <1>8 DEF vars
<1>9. QED BY <1>3, <1>4, <1>5, <1>6, <1>7, <1>8 DEF Next

LEMMA ExposureInit == Init => ExposureInv
<1> SUFFICES ASSUME Init PROVE ExposureInv
  OBVIOUS
<1>1. TypeOK /\ entries = [l \in Leaves |-> NoEntry] /\ open = 0
  BY InitIInv DEF IInv, Init
<1>2. QED BY <1>1, NoCosts DEF ExposureInv, ExposureIsEntries, NothingOpen, Exposure, Costs

\* What the portfolio counts as open is what its children's tracked entries cost, for any
\* number of children: the cap on total exposure is checked against the right amount.
THEOREM ExposureAddsUp == Spec => []ExposureIsEntries
<1>1. IInv => TypeOK
  BY DEF IInv
<1>2. ExposureInv => ExposureIsEntries
  BY DEF ExposureInv
<1>3. QED BY <1>1, <1>2, Invariance, ExposureInit, ExposureStep, PTL DEF Spec
===============================================================================
