----------------------------- MODULE StrategyLocks -----------------------------
(***************************************************************************)
(* When a strategy of a rolling market may enter: the locks, confirmations  *)
(* and once-a-window flags of Momentum, OracleFrontrun, LeadLag,            *)
(* LastSecondsSnipe and VolatilityConvexityArb, on their own or wrapped by  *)
(* the portfolio, and the runner's callbacks that set and release them, on  *)
(* paper and live.                                                          *)
(*                                                                         *)
(* The runner first asks all its strategies for signals, then submits these *)
(* one by one; each of these strategies gives at most one.  What the market *)
(* makes a strategy want, cooldowns included, is free; locks only forbid.   *)
(***************************************************************************)
EXTENDS Integers, Sequences, FiniteSetsExt, Sums

CONSTANTS
  Leaves,         \* the strategies with entry conditions of their own
  Momenta,        \* those of class Momentum: locked by their fill
  Movers,         \* OracleFrontrun and LeadLag: locked by their signal
  Snipers,        \* LastSecondsSnipe, VolatilityConvexityArb: one signal a window
  Wrapped,        \* the leaves that run as children of the portfolio
  Portfolio,      \* the portfolio strategy
  Order,          \* the runner's strategies in the order they were added
  EntryStages,    \* the stages in which its own time limits let a leaf enter
  Weight,         \* percent of the bankroll for a child in a stage
  Priority,       \* rank of a child in the arbitration
  Confirmations,  \* confirmations_required of Momentum
  Stakes,         \* the notionals a leaf may ask for
  Bankroll, WindowCap, TotalCap,  \* of the portfolio
  MinOrder        \* the least notional it accepts

\* The stages of a window, by the time that remains.
Regimes == <<"warmup", "early_contested", "mid_shock", "endgame", "deadzone">>

Stages == 1..Len(Regimes)

Over == Len(Regimes) + 1

Registered == {Order[i] : i \in DOMAIN Order}

ASSUME LocksAssumption ==
  /\ Leaves = Momenta \cup Movers \cup Snipers
  /\ Momenta \cap Movers = {} /\ Momenta \cap Snipers = {} /\ Movers \cap Snipers = {}
  /\ Wrapped \subseteq Leaves /\ IsFiniteSet(Wrapped)
  /\ Portfolio \notin Leaves
  /\ "none" \notin Leaves
  /\ Order \in Seq((Leaves \ Wrapped) \cup {Portfolio})
  /\ \A i, j \in DOMAIN Order : Order[i] = Order[j] => i = j
  /\ EntryStages \in [Leaves -> SUBSET Stages]
  /\ Weight \in [Wrapped -> [Stages -> 0..100]]
  /\ Priority \in [Wrapped -> Nat]
  /\ \A k, l \in Wrapped : Priority[k] = Priority[l] => k = l
  /\ Stakes \in [Leaves -> SUBSET (Nat \ {0})]
  /\ {Confirmations, MinOrder} \subseteq Nat \ {0}
  /\ {Bankroll, WindowCap, TotalCap} \subseteq Nat

VARIABLES
  dryRun,     \* EMSEngine.dry_run, fixed at the start
  phase,      \* where the runner's step is
  turn,       \* position in Order of the strategy it asks, or whose signal it submits
  stage,      \* stage of the window the provider shows; Over when no time remains
  behind,     \* whether _last_window_key is still the key of an earlier window
  locked,     \* leaves whose _has_position is set
  signalled,  \* snipers whose _signaled_window is set for the current window
  pending,    \* _pending_signal_key and _count of Momentum
  accepted,   \* whether the portfolio's _accepted_windows has the current window
  open,       \* the portfolio's _open_notional
  signal,     \* all_signals, by registered strategy
  entries,    \* _open_entries of the runner: how many a leaf has, and their cost
  todo,       \* leaves whose entries the running settlement has not come to
  placed      \* history: orders of a leaf in this window that were taken, up to two

vars == <<dryRun, phase, turn, stage, behind, locked, signalled, pending, accepted, open,
          signal, entries, todo, placed>>

Directions == {"UP", "DOWN"}

\* What the market makes a leaf want; "unable": a context is missing, or its step raises.
Wishes == Directions \cup {"none", "unable"}

NoPending == [key |-> "none", count |-> 0]

NoSignal == [leaf |-> "none", notional |-> 0]

NoEntry == [n |-> 0, cost |-> 0]

TypeOK ==
  /\ dryRun \in BOOLEAN
  /\ phase \in {"refresh", "outcome", "settle", "step", "submit"}
  /\ turn \in 1..(Len(Order) + 1)
  /\ stage \in 1..Over
  /\ behind \in BOOLEAN
  /\ locked \subseteq Leaves
  /\ signalled \subseteq Snipers
  /\ pending \in [Momenta -> [key : Directions \cup {"none"}, count : 0..Confirmations]]
  /\ accepted \in BOOLEAN
  /\ open \in Nat
  /\ signal \in [Registered -> [leaf : Leaves \cup {"none"}, notional : Nat]]
  /\ entries \in [Leaves -> [n : Nat, cost : Nat]]
  /\ todo \subseteq Leaves
  /\ placed \in [Leaves -> 0..2]

Init ==
  /\ dryRun \in BOOLEAN
  /\ phase = "refresh"
  /\ turn = 1
  /\ stage = 1
  /\ behind = FALSE
  /\ locked = {}
  /\ signalled = {}
  /\ pending = [m \in Momenta |-> NoPending]
  /\ accepted = FALSE
  /\ open = 0
  /\ signal = [s \in Registered |-> NoSignal]
  /\ entries = [l \in Leaves |-> NoEntry]
  /\ todo = {}
  /\ placed = [l \in Leaves |-> 0]

-------------------------------------------------------------------------------
(* Refresh and window roll                                                 *)

EndStep ==
  /\ phase' = "refresh"
  /\ turn' = 1
  /\ signal' = [s \in Registered |-> NoSignal]

\* The step goes on to the strategies, or ends when no time remains.
AskStrategies(now) ==
  /\ phase' = IF now = Over THEN "refresh" ELSE "step"
  /\ UNCHANGED <<turn, signal>>

\* A refresh that leaves no valid context ends the step at once and changes nothing.
SameWindow(now) ==
  /\ phase = "refresh"
  /\ ~behind
  /\ now >= stage
  /\ stage' = now
  /\ AskStrategies(now)
  /\ UNCHANGED <<dryRun, behind, locked, signalled, pending, accepted, open, entries, todo, placed>>

\* A faulty KeepsLock.
KeepsMovers(l) == l \in Momenta \cup Movers

\* on_cancel releases every lock except that of a Momentum, which only forgets what
\* awaits confirmation; the portfolio releases its children, whatever they are.
KeepsLock(l) == l \in Momenta \ Wrapped

\* The roll begins: every strategy's on_cancel.  Snipers notice the new window at
\* their next step, before they look at the flag.
Roll(now) ==
  /\ phase = "refresh"
  /\ stage' = now
  /\ behind' = TRUE
  /\ locked' = {l \in locked : KeepsLock(l)}
  /\ pending' = [m \in Momenta |-> NoPending]
  /\ signalled' = {}
  /\ accepted' = FALSE
  /\ open' = 0
  /\ placed' = [l \in Leaves |-> 0]
  /\ phase' = "outcome"
  /\ UNCHANGED <<dryRun, turn, signal, entries, todo>>

\* Nothing to settle, no answer of the oracle, or live trading: the list is emptied.
EntriesDropped ==
  /\ phase = "outcome"
  /\ entries' = [l \in Leaves |-> NoEntry]
  /\ behind' = FALSE
  /\ AskStrategies(stage)
  /\ UNCHANGED <<dryRun, stage, locked, signalled, pending, accepted, open, todo, placed>>

OutcomeKnown ==
  /\ phase = "outcome"
  /\ dryRun
  /\ todo' = {l \in Leaves : entries[l].n > 0}
  /\ phase' = "settle"
  /\ UNCHANGED <<dryRun, turn, stage, behind, locked, signalled, pending, accepted, open,
                 signal, entries, placed>>

\* The portfolio's open notional after a sale.
OpenAfterSale(paid) == IF open > paid THEN open - paid ELSE 0

\* The settlement fill of a child has the source "settlement": it reaches the
\* portfolio but not the child.  An entry that won pays more than it cost.
SettleEntry(l, won) ==
  /\ phase = "settle"
  /\ l \in todo
  /\ todo' = todo \ {l}
  /\ locked' = IF l \in Wrapped THEN locked ELSE locked \ {l}
  /\ pending' = IF l \in Momenta \ Wrapped THEN [pending EXCEPT ![l] = NoPending] ELSE pending
  /\ open' = IF l \in Wrapped THEN OpenAfterSale(IF won THEN entries[l].cost + 1 ELSE 0) ELSE open
  /\ UNCHANGED <<dryRun, phase, turn, stage, behind, signalled, accepted, signal, entries, placed>>

\* A fill callback or the oracle raises: the step ends, the entries stay, and so does
\* the window key, so that the next step rolls again.
SettlementRaises ==
  /\ phase \in {"outcome", "settle"}
  /\ todo' = {}
  /\ phase' = "refresh"
  /\ UNCHANGED <<dryRun, turn, stage, behind, locked, signalled, pending, accepted, open,
                 signal, entries, placed>>

SettlementDone ==
  /\ phase = "settle"
  /\ todo = {}
  /\ entries' = [l \in Leaves |-> NoEntry]
  /\ behind' = FALSE
  /\ AskStrategies(stage)
  /\ UNCHANGED <<dryRun, stage, locked, signalled, pending, accepted, open, todo, placed>>

-------------------------------------------------------------------------------
(* A leaf's step                                                           *)

InTime(l) == stage \in EntryStages[l]

\* What awaits confirmation after a step of m; the count matters up to what is required.
NextPending(m, wish) ==
  LET counted == IF pending[m].key = wish THEN pending[m].count + 1 ELSE 1
  IN  IF m \in locked \/ ~InTime(m) \/ wish = "unable" THEN pending[m]
      ELSE IF wish = "none" THEN NoPending
      ELSE [key |-> wish, count |-> IF counted < Confirmations THEN counted ELSE Confirmations]

\* A leaf gives a signal if it wants a direction and nothing of its own forbids it.
GivesSignal(l, wish) ==
  /\ wish \in Directions
  /\ l \notin locked
  /\ l \notin signalled
  /\ InTime(l)
  /\ l \in Momenta => NextPending(l, wish).count = Confirmations

MyTurn(s) == phase = "step" /\ turn <= Len(Order) /\ Order[turn] = s

\* A step without signal.
Declines(l, wish) ==
  /\ MyTurn(l)
  /\ ~GivesSignal(l, wish)
  /\ turn' = turn + 1
  /\ pending' = IF l \in Momenta THEN [pending EXCEPT ![l] = NextPending(l, wish)] ELSE pending
  /\ UNCHANGED <<dryRun, phase, stage, behind, locked, signalled, accepted, open, signal,
                 entries, todo, placed>>

\* A faulty LockedBySignal.
LockedLater(l) == {l} \cap Momenta

LockedBySignal(l) == {l} \cap Movers

\* Movers lock at once, snipers mark the window, and a Momentum waits for its fill.
LeafSignals(l, wish, stake) ==
  /\ MyTurn(l)
  /\ GivesSignal(l, wish)
  /\ turn' = turn + 1
  /\ locked' = locked \cup LockedBySignal(l)
  /\ signalled' = signalled \cup ({l} \cap Snipers)
  /\ pending' = IF l \in Momenta THEN [pending EXCEPT ![l] = NextPending(l, wish)] ELSE pending
  /\ signal' = [signal EXCEPT ![l] = [leaf |-> l, notional |-> stake]]
  /\ UNCHANGED <<dryRun, phase, stage, behind, accepted, open, entries, todo, placed>>

-------------------------------------------------------------------------------
(* The portfolio's step                                                    *)

Active == {l \in Wrapped : stage \in Stages /\ Weight[l][stage] > 0}

Asks == MyTurn(Portfolio)

\* Without weights or after an accepted signal the children are not even asked.
PortfolioIdle ==
  /\ Asks
  /\ Active = {} \/ accepted
  /\ turn' = turn + 1
  /\ UNCHANGED <<dryRun, phase, stage, behind, locked, signalled, pending, accepted, open,
                 signal, entries, todo, placed>>

\* The active children step; one that gives a signal gets its old state back.
ChildrenAfter(wish) ==
  [m \in Momenta |-> IF m \in Active /\ ~GivesSignal(m, wish[m])
                     THEN NextPending(m, wish[m]) ELSE pending[m]]

\* A faulty LocksAfter.
LocksUnrestored(wish) ==
  locked \cup {l \in Active \cap Movers : GivesSignal(l, wish[l])}

LocksAfter(wish) == locked

MarksAfter(wish) == signalled

Candidates(wish) ==
  LET giving == {l \in Active : GivesSignal(l, wish[l])}
  IN  IF Regimes[stage] = "endgame" /\ giving \cap Snipers # {} THEN giving \cap Snipers ELSE giving

\* The notional a child may use; that of the window is empty until a signal is accepted.
Allowed(l, stake) ==
  LET totalLeft == IF open < TotalCap THEN TotalCap - open ELSE 0
  IN  Min({stake, (Bankroll * Weight[l][stage]) \div 100, WindowCap, totalLeft})

StakesOfChildren ==
  {f \in [Active -> UNION {Stakes[l] : l \in Active}] : \A l \in Active : f[l] \in Stakes[l]}

Affordable(wish, stake) == {l \in Candidates(wish) : Allowed(l, stake[l]) >= MinOrder}

PortfolioDeclines(wish, stake) ==
  /\ Asks
  /\ Active # {} /\ ~accepted
  /\ Affordable(wish, stake) = {}
  /\ turn' = turn + 1
  /\ pending' = ChildrenAfter(wish)
  /\ locked' = LocksAfter(wish)
  /\ signalled' = MarksAfter(wish)
  /\ UNCHANGED <<dryRun, phase, stage, behind, accepted, open, signal, entries, todo, placed>>

\* The candidate with the highest priority that fits the budget is accepted, no other.
PortfolioAccepts(wish, stake) ==
  /\ Asks
  /\ Active # {} /\ ~accepted
  /\ \E l \in Affordable(wish, stake) :
       /\ \A k \in Affordable(wish, stake) : Priority[k] <= Priority[l]
       /\ signal' = [signal EXCEPT ![Portfolio] = [leaf |-> l, notional |-> Allowed(l, stake[l])]]
  /\ accepted' = TRUE
  /\ turn' = turn + 1
  /\ pending' = ChildrenAfter(wish)
  /\ locked' = LocksAfter(wish)
  /\ signalled' = MarksAfter(wish)
  /\ UNCHANGED <<dryRun, phase, stage, behind, open, entries, todo, placed>>

StepsDone ==
  /\ phase = "step"
  /\ turn > Len(Order)
  /\ phase' = "submit"
  /\ turn' = 1
  /\ UNCHANGED <<dryRun, stage, behind, locked, signalled, pending, accepted, open, signal,
                 entries, todo, placed>>

-------------------------------------------------------------------------------
(* Submission                                                              *)

Submits(s) == phase = "submit" /\ turn <= Len(Order) /\ Order[turn] = s

OnceMore(l) == [placed EXCEPT ![l] = IF @ < 2 THEN @ + 1 ELSE 2]

\* There is no signal, a gate rejects it, or the order fails; no strategy is told.
NotExecuted(s) ==
  /\ Submits(s)
  /\ turn' = turn + 1
  /\ UNCHANGED <<dryRun, phase, stage, behind, locked, signalled, pending, accepted, open,
                 signal, entries, todo, placed>>

\* Faulty: the fill does not reach the child; the notional asked counts, not the fill's.
LockedUnrouted(l) == {l} \ Wrapped  \* mutant of LockedByFill

OpenAsAsked(s, cost) == IF s = Portfolio THEN open + signal[s].notional ELSE open

\* on_fill of a BUY locks the strategy, through the portfolio also the child.
LockedByFill(l) == {l}

OpenAfterFill(s, cost) == IF s = Portfolio THEN open + cost ELSE open

FilledOnPaper(s, cost) ==
  LET l == signal[s].leaf
  IN  /\ Submits(s)
      /\ dryRun
      /\ signal[s] # NoSignal
      /\ cost <= signal[s].notional
      /\ locked' = locked \cup LockedByFill(l)
      /\ open' = OpenAfterFill(s, cost)
      /\ entries' = [entries EXCEPT ![l] = [n |-> @.n + 1, cost |-> @.cost + cost]]
      /\ placed' = OnceMore(l)
      /\ turn' = turn + 1
      /\ UNCHANGED <<dryRun, phase, stage, behind, signalled, pending, accepted, signal, todo>>

\* Live, the runner leaves the fill to the poll, which tells no strategy.
AcceptedLive(s) ==
  /\ Submits(s)
  /\ ~dryRun
  /\ signal[s] # NoSignal
  /\ placed' = OnceMore(signal[s].leaf)
  /\ turn' = turn + 1
  /\ UNCHANGED <<dryRun, phase, stage, behind, locked, signalled, pending, accepted, open,
                 signal, entries, todo>>

\* The order or a fill callback raises: the signals behind it are lost, and on paper
\* the fill may be booked although neither the strategy nor the runner knows of it.
SubmissionRaises(s, booked) ==
  /\ Submits(s)
  /\ signal[s] # NoSignal
  /\ placed' = IF booked THEN OnceMore(signal[s].leaf) ELSE placed
  /\ EndStep
  /\ UNCHANGED <<dryRun, stage, behind, locked, signalled, pending, accepted, open, entries, todo>>

SubmissionDone ==
  /\ phase = "submit"
  /\ turn > Len(Order)
  /\ EndStep
  /\ UNCHANGED <<dryRun, stage, behind, locked, signalled, pending, accepted, open, entries,
                 todo, placed>>

-------------------------------------------------------------------------------

Settlement ==
  \/ EntriesDropped \/ OutcomeKnown \/ SettlementRaises \/ SettlementDone
  \/ \E l \in Leaves, won \in BOOLEAN : SettleEntry(l, won)

Steps ==
  \/ PortfolioIdle \/ StepsDone
  \/ \E l \in Leaves \ Wrapped, wish \in Wishes :
       Declines(l, wish) \/ \E stake \in Stakes[l] : LeafSignals(l, wish, stake)
  \/ \E wish \in [Active -> Wishes], stake \in StakesOfChildren :
       PortfolioDeclines(wish, stake) \/ PortfolioAccepts(wish, stake)

Submission ==
  \/ SubmissionDone
  \/ \E s \in Registered :
       \/ NotExecuted(s) \/ AcceptedLive(s)
       \/ \E cost \in 1..signal[s].notional : FilledOnPaper(s, cost)
       \/ \E booked \in BOOLEAN : SubmissionRaises(s, booked)

Rolls == \E now \in 1..Over : Roll(now)

Next == Settlement \/ Steps \/ Submission \/ Rolls \/ \E now \in 1..Over : SameWindow(now)

Spec == Init /\ [][Next]_vars

\* A step of the runner ends, and the market goes on to a next window that the
\* provider finds.
FairSpec == Spec /\ WF_vars(Settlement \/ Steps \/ Submission) /\ SF_vars(Rolls)

-------------------------------------------------------------------------------
(* Properties                                                              *)

\* Strategies that lock or mark the window when they signal, "Lock immediately; don't
\* wait for fill callback" (oracle_frontrun.py:117), and the portfolio with all its
\* children get one order a window, on paper and live, also when steps raise.
OneOrderAWindow ==
  /\ \A l \in Leaves \ (Wrapped \cup Momenta) : placed[l] <= 1
  /\ \A k, l \in Wrapped : placed[l] <= 1 /\ (placed[k] = 1 /\ placed[l] = 1 => k = l)

\* "already in a trade, wait for settlement" (momentum.py:102): no strategy has two
\* open entries, Momentum included, which locks only when its fill is reported.
OneEntryAtATime == \A l \in Leaves : entries[l].n <= 1

\* The two sides that track an entry agree: when strategies are asked, the owner of
\* every open entry is locked.
LockedWhileEntered == ~behind => \A l \in Leaves : entries[l].n > 0 => l \in locked

\* Both: the runner's list and the strategies' flags agree (step, on_fill, on_cancel).
EntriesLockedOnce == OneEntryAtATime /\ LockedWhileEntered

\* A child that lost the arbitration, or whose order came to nothing, is as free as
\* before (portfolio.py:122-131): a child is locked by its own open entry only.
LosersStayFree == ~behind => \A l \in locked \cap Wrapped : entries[l].n > 0

\* What the portfolio counts as open is what its tracked entries cost.
ExposureIsEntries ==
  ~behind => open = SumAlong(Enumeration(Wrapped), Cardinality(Wrapped),
                             [l \in Wrapped |-> entries[l].cost])

\* Again and again every strategy but Momentum is free, whatever became of its order, its
\* window or its settlement: no lock lasts for ever.
LocksEnd == []<>(locked \subseteq Momenta \ Wrapped)

\* A Momentum that is "already in a trade, wait for settlement" (momentum.py:102) has
\* an entry that a settlement will close.
WaitsForSettlement == ~behind => \A l \in locked \cap Momenta : entries[l].n > 0
===============================================================================
