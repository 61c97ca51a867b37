-------------------------- MODULE RollingWindowsProofs --------------------------
(***************************************************************************)
(* The rolling-market runner implements WindowLifecycle, for every length   *)
(* of the windows, every path of the price and every pattern of failures.   *)
(***************************************************************************)
EXTENDS RollingWindows, TLAPS

USE DEF NoWindow, Sides, book

-------------------------------------------------------------------------------
(* Window starts are multiples of Interval                                 *)

\* Euclidean division by the length of a window.
LEMMA Division ==
  ASSUME NEW n \in Nat \ {0}, NEW a \in Nat
  PROVE  a % n \in 0..(n - 1) /\ a = n * (a \div n) + (a % n) /\ a \div n \in Nat
  BY SMT

\* Two different multiples of n are at least n apart.
LEMMA MultiplesApart ==
  ASSUME NEW n \in Nat \ {0}, NEW p \in Int, NEW q \in Int, n * p < n * q
  PROVE  n * p + n <= n * q
<1>1. p < q
  BY SMT
<1>2. n * (p + 1) <= n * q
  BY <1>1, SMT
<1> QED
  BY <1>2, SMT

\* A window ends when a later one starts, or before.
LEMMA WindowsDisjoint ==
  ASSUME NEW n \in Nat \ {0}, NEW a \in Nat, NEW b \in Nat, a % n = 0, b % n = 0, a < b
  PROVE  a + n <= b
<1>1. a = n * (a \div n) /\ b = n * (b \div n) /\ a \div n \in Int /\ b \div n \in Int
  BY Division
<1> QED
  BY <1>1, MultiplesApart

\* Rounding down to a multiple, and the multiple after it.
LEMMA RoundedDown ==
  ASSUME NEW n \in Nat \ {0}, NEW a \in Nat
  PROVE  (a - (a % n)) % n = 0
  BY Division, SMT

\* The next multiple of the interval is the next window.
LEMMA NextMultiple ==
  ASSUME NEW n \in Nat \ {0}, NEW a \in Nat, a % n = 0
  PROVE  (a + n) % n = 0
<1> DEFINE b == a + n
<1>a. b \in Nat
  OBVIOUS
<1>b. a = n * (a \div n) /\ a \div n \in Int
  BY Division
<1> HIDE DEF b
<1>c. b = n * (b \div n) + (b % n) /\ b % n \in 0..(n - 1) /\ b \div n \in Int
  BY <1>a, Division
<1>1. b = a + n
  BY DEF b
<1>2. n * ((a \div n) + 1) = a + n
  BY <1>b, SMT
<1>3. SUFFICES ASSUME b % n > 0 PROVE FALSE
  BY <1>1, <1>c
<1>4. n * (b \div n) < n * ((a \div n) + 1)
  BY <1>1, <1>2, <1>3, <1>b, <1>c
<1>5. n * (b \div n) + n <= n * ((a \div n) + 1)
  BY <1>4, <1>b, <1>c, MultiplesApart
<1> QED
  BY <1>1, <1>2, <1>3, <1>5, <1>b, <1>c

-------------------------------------------------------------------------------
(* The inductive invariant                                                 *)

\* Windows only move forward: nothing traded lies ahead of what the provider shows,
\* and nothing is settled before its end.
Forward ==
  /\ market.strike > 0 => market.window # NoWindow
  /\ lastKey # NoWindow =>
       lastKey <= now /\ market.window # NoWindow /\ lastKey <= market.window
  /\ \A t \in held : t[1] <= lastKey
  /\ \A t \in Tokens : fills[t] > 0 => EndOf(t[1]) <= now

\* During a step the provider shows a window with a strike that has not been settled;
\* a roll leaves an earlier window for it, by way of what was shown before the refresh.
DuringStep ==
  /\ phase # "idle" => market.strike > 0 /\ \A t \in Tokens : fills[t] > 0 => t[1] # market.window
  /\ phase = "signals" => lastKey = market.window
  /\ phase \in {"roll", "settle"} =>
       lastKey # NoWindow /\ lastKey < market.window /\ lastKey <= prev.window

\* What is tracked and was settled before is waiting for the repetition of a settlement
\* that raised; while a settlement runs, it has settled what it does not have to do any
\* more.  What was settled is not held.
Repeats ==
  /\ \A t \in held : fills[t] = 0
  /\ \A t \in entries : fills[t] > 0 /\ (phase # "settle" \/ t \in todo) => t \in raised
  /\ phase = "settle" => \A t \in entries \ todo : fills[t] > 0

IInv == TypeOK /\ StrikeIsOpen /\ EntriesOfLastKey /\ Forward /\ DuringStep /\ Repeats

-------------------------------------------------------------------------------
(* What a refresh can find                                                 *)

\* The window of the clock is the latest one that has begun.
LEMMA CurrentWindowIsLatest ==
  ASSUME now \in 0..Horizon
  PROVE  /\ CurrentWindow \in Windows
         /\ CurrentWindow + Interval \in Windows
         /\ CurrentWindow <= now
         /\ \A w \in Windows : w <= now => w <= CurrentWindow
<1>0. Interval \in Nat \ {0} /\ Horizon \in Nat /\ now \in Nat
  BY WindowsAssumption
<1>1. now % Interval \in 0..(Interval - 1) /\ now = Interval * (now \div Interval) + (now % Interval)
      /\ now \div Interval \in Nat
  BY <1>0, Division
<1> DEFINE c == now - (now % Interval)
<1>2. c = Interval * (now \div Interval)
  BY <1>0, <1>1
<1>3. c \in Nat /\ c <= now /\ now < c + Interval
  BY <1>0, <1>1, <1>2
<1>4. c % Interval = 0
  BY <1>0, RoundedDown
<1> HIDE DEF c
<1>5. (c + Interval) % Interval = 0
  BY <1>0, <1>3, <1>4, NextMultiple
<1>6. \A w \in Windows : w <= now => w <= c
  <2> SUFFICES ASSUME NEW w \in Windows, w <= now, c < w PROVE FALSE
    BY <1>0, <1>3 DEF Windows
  <2>1. w \in Nat /\ w % Interval = 0
    BY <1>0 DEF Windows
  <2>2. c + Interval <= w
    BY <1>0, <1>3, <1>4, <2>1, WindowsDisjoint
  <2> QED
    BY <1>0, <1>3, <2>1, <2>2
<1>7. c \in Windows /\ c + Interval \in Windows
  BY <1>0, <1>3, <1>4, <1>5 DEF Windows
<1> QED
  BY <1>3, <1>6, <1>7 DEF CurrentWindow, c

\* The path gives every minute a price.
LEMMA OpensType ==
  ASSUME TypeOK
  PROVE  /\ Prices \subseteq Nat \ {0}
         /\ \A m \in 0..(now + 1) : opens[m] \in Prices
<1>1. opens \in [0..(Horizon + 1) -> Prices] /\ now \in 0..Horizon /\ Horizon \in Nat
  BY WindowsAssumption DEF TypeOK
<1> QED
  BY <1>1, WindowsAssumption

\* Discovery shows the current window, the next one, or what it showed before.
LEMMA DiscoveredForward ==
  ASSUME TypeOK, StrikeIsOpen, Forward, NEW shown \in Discoverable
  PROVE  /\ shown \in MarketRecord
         /\ shown.strike > 0 => shown.window \in Windows /\ shown.window <= now
                                /\ shown.strike = opens[shown.window]
         /\ lastKey # NoWindow => shown.window # NoWindow /\ lastKey <= shown.window
<1>1. now \in 0..Horizon /\ market \in MarketRecord /\ lastKey \in Windows \cup {NoWindow}
      /\ Interval \in Nat \ {0} /\ Horizon \in Nat /\ Windows \subseteq Nat
  BY WindowsAssumption DEF TypeOK, Windows
<1>2. CASE shown = market
  <2>1. market.strike > 0 => market.window \in Windows
    BY <1>1 DEF Forward, MarketRecord
  <2> QED
    BY <1>1, <1>2, <2>1 DEF StrikeIsOpen, Forward
<1>3. CASE \E w \in {CurrentWindow, CurrentWindow + Interval} : shown \in Shown(w)
  <2> PICK w \in {CurrentWindow, CurrentWindow + Interval} : shown \in Shown(w)
    BY <1>3
  <2>1. w \in Windows /\ CurrentWindow <= w /\ CurrentWindow \in Windows
    <3>1. CurrentWindow \in Windows /\ CurrentWindow + Interval \in Windows /\ CurrentWindow \in Nat
      BY <1>1, CurrentWindowIsLatest
    <3> QED
      BY <1>1, <3>1
  <2>2. shown.window = w /\ shown.strike \in StartPrice(w) \cup {0} /\ shown = [window |-> w, strike |-> shown.strike]
    BY DEF Shown
  <2>3. shown.strike # 0 => w <= now /\ shown.strike = opens[w]
    BY <2>2 DEF StartPrice
  <2>4. shown.strike \in Prices \cup {0}
    BY <1>1, <2>1, <2>3, OpensType
  <2>5. lastKey # NoWindow => lastKey <= w
    BY <1>1, <2>1, CurrentWindowIsLatest DEF Forward
  <2> QED
    BY <1>1, <2>1, <2>2, <2>3, <2>4, <2>5 DEF MarketRecord
<1> QED
  BY <1>2, <1>3 DEF Discoverable

-------------------------------------------------------------------------------
(* The steps                                                               *)

\* The oracle answers with a price.
LEMMA SettlementPriceType ==
  ASSUME TypeOK, NEW w \in Windows
  PROVE  SettlementPrice(w) \subseteq Prices
<1>1. now \in 0..Horizon /\ Interval \in Nat \ {0} /\ Horizon \in Nat /\ w \in Nat
      /\ cache \in [Windows -> Prices \cup {0}]
  BY WindowsAssumption DEF TypeOK, Windows
<1>2. ASSUME NEW m \in Nat, m <= now PROVE CandleClose(m) \subseteq Prices
  BY <1>1, <1>2, OpensType DEF CandleClose
<1>3. EndOf(w) \in Nat
  BY <1>1 DEF EndOf
<1> QED
  BY <1>1, <1>2, <1>3 DEF SettlementPrice

\* What the type invariant says of the clock and the windows.
LEMMA StepTypes ==
  ASSUME TypeOK
  PROVE  /\ now \in Nat /\ now \in 0..Horizon /\ Interval \in Nat \ {0} /\ Horizon \in Nat
         /\ Windows \subseteq Nat
         /\ \A t \in Tokens : t[1] \in Windows
  BY WindowsAssumption DEF TypeOK, Windows, Tokens

\* A refresh keeps the invariant, whatever it discovers.
LEMMA RefreshKeepsInv ==
  ASSUME IInv, RefreshInvalid \/ RefreshSameWindow \/ RefreshRolls
  PROVE  IInv'
<1>1. PICK shown \in Discoverable, books \in SUBSET Sides :
        /\ Refresh(shown, books)
        /\ \/ ValidSides(shown, books) = {} /\ UNCHANGED <<lastKey, prev, phase>>
           \/ /\ ValidSides(shown, books) # {}
              /\ ~RollDetected(shown)
              /\ lastKey' = shown.window
              /\ phase' = "signals"
              /\ UNCHANGED prev
           \/ /\ ValidSides(shown, books) # {}
              /\ RollDetected(shown)
              /\ prev' = market
              /\ phase' = "roll"
              /\ UNCHANGED lastKey
  BY DEF RefreshInvalid, RefreshSameWindow, RefreshRolls
<1>2. /\ shown \in MarketRecord
      /\ shown.strike > 0 => shown.window \in Windows /\ shown.window <= now
                             /\ shown.strike = opens[shown.window]
      /\ lastKey # NoWindow => shown.window # NoWindow /\ lastKey <= shown.window
  BY DiscoveredForward DEF IInv
<1>3. ValidSides(shown, books) # {} => shown.strike > 0 /\ now < EndOf(shown.window)
  BY DEF ValidSides
<1>4. ValidSides(shown, books) \in SUBSET Sides
  BY DEF ValidSides
<1>5. /\ phase = "idle" /\ market' = shown /\ valid' = ValidSides(shown, books)
      /\ UNCHANGED <<now, opens, cache, entries, todo, outcome, held, fills, raised>>
  BY <1>1 DEF Refresh
<1>6. TypeOK'
  BY <1>1, <1>2, <1>3, <1>4, <1>5 DEF IInv, TypeOK
<1>7. StrikeIsOpen'
  BY <1>2, <1>5 DEF StrikeIsOpen
<1>8. \/ lastKey' = lastKey
      \/ lastKey = NoWindow /\ lastKey' = shown.window
  BY <1>1 DEF RollDetected
<1>9. EntriesOfLastKey'
  BY <1>5, <1>8, StepTypes DEF IInv, TypeOK, EntriesOfLastKey
<1>10. Forward'
  BY <1>1, <1>2, <1>3, <1>5, <1>8, StepTypes DEF IInv, TypeOK, Forward, MarketRecord
<1>11. DuringStep'
  BY <1>1, <1>2, <1>3, <1>5, StepTypes DEF IInv, TypeOK, Forward, DuringStep, RollDetected, EndOf, MarketRecord
<1>12. Repeats'
  <2>1. phase # "settle" /\ phase' # "settle"
    BY <1>1, <1>5
  <2> QED
    BY <1>5, <2>1 DEF IInv, Repeats
<1> QED
  BY <1>6, <1>7, <1>9, <1>10, <1>11, <1>12 DEF IInv

\* Reconciliation and the outcome of a roll keep the invariant.
LEMMA RollKeepsInv ==
  ASSUME IInv, NothingToSettle \/ NoOutcome \/ OutcomeKnown \/ SettlementDone
  PROVE  IInv'
<1>1. CASE phase \in {"roll", "settle"} /\ RollOver
           /\ UNCHANGED <<now, opens, cache, market, valid, held, fills, raised>>
  <2>1. market.window \in Windows /\ market.window <= now
    BY <1>1 DEF IInv, TypeOK, MarketRecord, StrikeIsOpen, DuringStep, Forward
  <2>2. TypeOK' /\ StrikeIsOpen' /\ EntriesOfLastKey'
    BY <1>1, <2>1 DEF IInv, TypeOK, StrikeIsOpen, EntriesOfLastKey, RollOver, Nothing, MarketRecord
  <2>3. Forward' /\ DuringStep'
    BY <1>1, <2>1, StepTypes DEF IInv, TypeOK, Forward, DuringStep, RollOver
  <2>4. Repeats'
    BY <1>1 DEF IInv, Repeats, RollOver
  <2> QED
    BY <2>2, <2>3, <2>4 DEF IInv
<1>2. CASE OutcomeKnown
  <2>1. Reconciled \in SUBSET Tokens
    BY DEF IInv, TypeOK, Reconciled
  <2>2. \A t \in Reconciled : t[1] = lastKey
    BY <1>2, StepTypes DEF IInv, TypeOK, Reconciled, EntriesOfLastKey, Forward, DuringStep, OutcomeKnown
  <2>3. prev.window \in Windows
    BY <1>2 DEF IInv, TypeOK, DuringStep, OutcomeKnown, MarketRecord, Windows
  <2>4. PICK price \in SettlementPrice(prev.window) :
          cache' = [cache EXCEPT ![prev.window] = price] /\ outcome' = Outcome(price, prev.strike)
    BY <1>2 DEF OutcomeKnown
  <2>5. price \in Prices /\ outcome' \in Sides
    BY <2>3, <2>4, SettlementPriceType DEF IInv, Outcome
  <2>6. TypeOK'
    BY <1>2, <2>1, <2>4, <2>5 DEF IInv, TypeOK, OutcomeKnown
  <2>7. StrikeIsOpen' /\ EntriesOfLastKey' /\ Forward' /\ DuringStep'
    BY <1>2, <2>2 DEF IInv, StrikeIsOpen, EntriesOfLastKey, Forward, DuringStep, OutcomeKnown
  <2>8. Repeats'
    <3>1. ASSUME NEW t \in Reconciled, fills[t] > 0 PROVE t \in raised
      BY <1>2, <3>1 DEF IInv, Repeats, Reconciled, OutcomeKnown
    <3>2. /\ entries' = Reconciled /\ todo' = Reconciled
          /\ UNCHANGED <<held, fills, raised>>
      BY <1>2 DEF OutcomeKnown
    <3> QED
      BY <3>1, <3>2 DEF IInv, Repeats
  <2> QED
    BY <2>6, <2>7, <2>8 DEF IInv
<1> QED
  BY <1>1, <1>2 DEF NothingToSettle, NoOutcome, SettlementDone

\* Settlement fills keep the invariant, interrupted or not.
LEMMA SettleKeepsInv ==
  ASSUME IInv, NEW t \in Tokens, SettleEntry(t) \/ SettlementRaises(t)
  PROVE  IInv' /\ EndOf(t[1]) <= now
<1>1. /\ phase = "settle" /\ t \in todo /\ held' = held \ {t}
      /\ fills' = [fills EXCEPT ![t] = @ + 1]
      /\ UNCHANGED <<now, opens, cache, market, lastKey, entries>>
      /\ \/ /\ todo' = todo \ {t} /\ raised' = raised \ {t}
            /\ UNCHANGED <<valid, prev, outcome, phase>>
         \/ /\ raised' = raised \cup {t} \cup (entries \ todo) /\ todo' = {}
            /\ prev' = Nothing /\ outcome' = "none" /\ valid' = {} /\ phase' = "idle"
  BY DEF SettleEntry, SettleFill, SettlementRaises
<1>2. t[1] = lastKey /\ t[1] < market.window /\ market.window <= now
      /\ market.window \in Windows /\ t[1] \in Windows
  BY <1>1, StepTypes DEF IInv, TypeOK, EntriesOfLastKey, DuringStep, StrikeIsOpen, Forward, MarketRecord
<1>3. EndOf(t[1]) <= now
  <2>1. t[1] \in Nat /\ market.window \in Nat /\ t[1] % Interval = 0 /\ market.window % Interval = 0
    BY <1>2, StepTypes DEF IInv, Windows
  <2>2. t[1] + Interval <= market.window
    BY <1>2, <2>1, WindowsAssumption, WindowsDisjoint
  <2> QED
    BY <1>2, <2>1, <2>2, StepTypes DEF IInv, EndOf
<1>4. /\ fills' \in [Tokens -> Nat]
      /\ \A x \in Tokens : fills'[x] = IF x = t THEN fills[x] + 1 ELSE fills[x]
      /\ \A x \in Tokens : fills[x] \in Nat
  BY <1>1 DEF IInv, TypeOK
<1>5. entries \in SUBSET Tokens /\ held \in SUBSET Tokens /\ todo \in SUBSET entries
      /\ raised \in SUBSET Tokens
  BY DEF IInv, TypeOK
<1>6. TypeOK'
  <2>1. raised' \in SUBSET Tokens /\ todo' \in SUBSET entries' /\ held' \in SUBSET Tokens
    BY <1>1, <1>5
  <2>2. Nothing \in MarketRecord
    BY DEF Nothing, MarketRecord
  <2>3. /\ prev' \in MarketRecord /\ valid' \in SUBSET Sides
        /\ outcome' \in Sides \cup {"none"} /\ phase' \in {"idle", "settle"}
    BY <1>1, <2>2, Zenon DEF IInv, TypeOK
  <2> QED
    BY <1>1, <1>4, <2>1, <2>3 DEF IInv, TypeOK
<1>7. StrikeIsOpen' /\ EntriesOfLastKey'
  BY <1>1 DEF IInv, StrikeIsOpen, EntriesOfLastKey
<1>8. Forward'
  <2>1. ASSUME NEW x \in Tokens, fills'[x] > 0 PROVE EndOf(x[1])' <= now'
    <3>1. EndOf(x[1]) <= now
      BY <1>3, <1>4, <2>1 DEF IInv, Forward
    <3> QED
      BY <1>1, <3>1 DEF EndOf
  <2> QED
    BY <1>1, <2>1 DEF IInv, Forward
<1>9. DuringStep'
  <2>1. market'.strike > 0 /\ \A u \in Tokens : fills'[u] > 0 => u[1] # market'.window
    BY <1>1, <1>2, <1>4, StepTypes DEF IInv, DuringStep
  <2>2. phase' \in {"settle", "idle"} /\ (phase' = "settle" => prev' = prev)
    BY <1>1
  <2>3. lastKey # NoWindow /\ lastKey < market.window /\ lastKey <= prev.window
    BY <1>1 DEF IInv, DuringStep
  <2> QED
    BY <1>1, <2>1, <2>2, <2>3 DEF DuringStep
<1>10. Repeats'
  <2>1. \A x \in held' : fills'[x] = 0
    BY <1>1, <1>4, <1>5 DEF IInv, Repeats
  <2>2. ASSUME NEW x \in entries', fills'[x] > 0, phase' # "settle" \/ x \in todo'
        PROVE  x \in raised'
    BY <1>1, <1>4, <1>5, <2>2 DEF IInv, Repeats
  <2>3. ASSUME phase' = "settle", NEW x \in entries' \ todo' PROVE fills'[x] > 0
    BY <1>1, <1>4, <1>5, <2>3 DEF IInv, Repeats
  <2> QED
    BY <2>1, <2>2, <2>3 DEF Repeats
<1> QED
  BY <1>3, <1>6, <1>7, <1>8, <1>9, <1>10 DEF IInv

\* Buys, sales and the end of a step keep the invariant.
LEMMA TradeKeepsInv ==
  ASSUME IInv,
         \/ \E side \in Sides, logged \in LogResults : Buy(side, logged)
         \/ \E t \in Tokens : SellOut(t)
         \/ Tick \/ StepDone \/ UNCHANGED vars
  PROVE  IInv'
<1>1. ASSUME NEW side \in Sides, NEW logged \in LogResults, Buy(side, logged) PROVE IInv'
  <2>1. market.window \in Windows /\ lastKey = market.window
    BY <1>1 DEF IInv, TypeOK, MarketRecord, DuringStep, Forward, Buy
  <2>2. <<market.window, side>> \in Tokens
    BY <2>1 DEF Tokens
  <2>3. TypeOK'
    BY <1>1, <2>2 DEF IInv, TypeOK, Buy
  <2>4. StrikeIsOpen' /\ EntriesOfLastKey' /\ DuringStep'
    BY <1>1, <2>1 DEF IInv, StrikeIsOpen, EntriesOfLastKey, DuringStep, Buy
  <2>5. Forward'
    BY <1>1, <2>1, StepTypes DEF IInv, Forward, Buy
  <2>6. fills[<<market.window, side>>] = 0
    BY <1>1, <2>2 DEF IInv, TypeOK, DuringStep, Buy
  <2>7. Repeats'
    BY <1>1, <2>6 DEF IInv, Repeats, Buy
  <2> QED
    BY <2>3, <2>4, <2>5, <2>7 DEF IInv
<1>2. ASSUME NEW t \in Tokens, SellOut(t) PROVE IInv'
  BY <1>2 DEF IInv, TypeOK, StrikeIsOpen, EntriesOfLastKey, Forward, DuringStep, Repeats, SellOut
<1>3. ASSUME Tick PROVE IInv'
  <2>1. TypeOK' /\ now' = now + 1
    BY <1>3, StepTypes DEF IInv, TypeOK, Tick, runner
  <2>2. EntriesOfLastKey' /\ DuringStep' /\ Repeats'
    BY <1>3 DEF IInv, EntriesOfLastKey, DuringStep, Repeats, Tick, runner
  <2>3. StrikeIsOpen' /\ Forward'
    <3>1. \A t \in Tokens : EndOf(t[1]) \in Nat
      BY StepTypes DEF IInv, TypeOK, EndOf
    <3>2. market.window \in Int /\ lastKey \in Int /\ now \in Nat
      BY StepTypes DEF IInv, TypeOK, MarketRecord
    <3> QED
      BY <1>3, <2>1, <3>1, <3>2 DEF IInv, StrikeIsOpen, Forward, Tick, runner
  <2> QED
    BY <2>1, <2>2, <2>3 DEF IInv
<1>4. ASSUME StepDone PROVE IInv'
  BY <1>4 DEF IInv, TypeOK, StrikeIsOpen, EntriesOfLastKey, Forward, DuringStep, Repeats, StepDone, runner
<1>5. ASSUME UNCHANGED vars PROVE IInv'
  BY <1>5 DEF IInv, TypeOK, StrikeIsOpen, EntriesOfLastKey, Forward, DuringStep, Repeats, runner, vars
<1> QED
  BY <1>1, <1>2, <1>3, <1>4, <1>5

-------------------------------------------------------------------------------
(* The theorems                                                            *)

\* The runner starts without a window.
LEMMA InitInv == Init => IInv
<1> SUFFICES ASSUME Init PROVE IInv
  OBVIOUS
<1>1. Windows \subseteq Nat /\ Horizon \in Nat
  BY WindowsAssumption DEF Windows
<1>2. TypeOK
  BY <1>1 DEF Init, TypeOK, Nothing, MarketRecord
<1>3. StrikeIsOpen /\ EntriesOfLastKey /\ Forward /\ DuringStep /\ Repeats
  BY DEF Init, Nothing, StrikeIsOpen, EntriesOfLastKey, Forward, DuringStep, Repeats
<1> QED
  BY <1>2, <1>3 DEF IInv

\* Every step keeps the invariant.
LEMMA NextInv == IInv /\ [Next]_vars => IInv'
<1> SUFFICES ASSUME IInv, [Next]_vars PROVE IInv'
  OBVIOUS
<1>1. CASE RefreshInvalid \/ RefreshSameWindow \/ RefreshRolls
  BY <1>1, RefreshKeepsInv
<1>2. CASE NothingToSettle \/ NoOutcome \/ OutcomeKnown \/ SettlementDone
  BY <1>2, RollKeepsInv
<1>3. CASE \E t \in Tokens : SettleEntry(t) \/ SettlementRaises(t)
  BY <1>3, SettleKeepsInv
<1>4. CASE \/ \E side \in Sides, logged \in LogResults : Buy(side, logged)
           \/ \E t \in Tokens : SellOut(t)
           \/ Tick \/ StepDone \/ UNCHANGED vars
  BY <1>4, TradeKeepsInv
<1> QED
  BY <1>1, <1>2, <1>3, <1>4 DEF Next

\* The inductive invariant of the rolling-market runner.
THEOREM Invariance == Spec => []IInv
BY InitInv, NextInv, PTL DEF Spec

\* The types of the runner's, the provider's and the oracle's state.
THEOREM RollingTypeCorrect == Spec => []TypeOK
<1>1. IInv => TypeOK
  BY DEF IInv
<1> QED
  BY <1>1, Invariance, PTL

\* The strike a window is traded and settled by is the price it opened at.
THEOREM StrikeIsWindowOpen == Spec => []StrikeIsOpen
<1>1. IInv => StrikeIsOpen
  BY DEF IInv
<1> QED
  BY <1>1, Invariance, PTL

\* A roll settles positions of the window traded last and of no other.
THEOREM RollSettlesLastWindow == Spec => []EntriesOfLastKey
<1>1. IInv => EntriesOfLastKey
  BY DEF IInv
<1> QED
  BY <1>1, Invariance, PTL

\* Initial states map to initial states of the life cycle.
LEMMA InitMaps == Init => Lifecycle!Init
BY DEF Init, Lifecycle!Init

\* Every step maps to a step of the life cycle or to a stutter.
LEMMA StepMaps == IInv /\ [Next]_vars => [Lifecycle!Next]_<<now, held, fills, raised>>
<1> SUFFICES ASSUME IInv, [Next]_vars PROVE [Lifecycle!Next]_<<now, held, fills, raised>>
  OBVIOUS
<1>1. CASE Tick
  <2>1. now < Horizon /\ now' = now + 1 /\ UNCHANGED <<held, fills, raised>>
    BY <1>1 DEF Tick, runner
  <2> QED
    BY <2>1 DEF Lifecycle!Next, Lifecycle!Tick
<1>2. CASE UNCHANGED <<now, held, fills, raised>>
  BY <1>2
<1>3. ASSUME NEW t \in Tokens, SettleEntry(t) \/ SettlementRaises(t)
      PROVE  [Lifecycle!Next]_<<now, held, fills, raised>>
  <2>1. /\ now' = now /\ held' = held \ {t} /\ fills' = [fills EXCEPT ![t] = @ + 1]
        /\ phase = "settle" /\ t \in todo
    BY <1>3 DEF SettleEntry, SettleFill, SettlementRaises
  <2>2. t[1] + Interval <= now
    BY <1>3, SettleKeepsInv DEF EndOf
  <2>3. fills[t] = 0 \/ t \in raised
    BY <2>1 DEF IInv, TypeOK, Repeats
  <2>4. Lifecycle!Settlement(t)
    BY <2>1, <2>2, <2>3 DEF Lifecycle!Settlement
  <2>5. CASE SettleEntry(t)
    <3>1. raised' = raised \ {t}
      BY <2>5 DEF SettleEntry
    <3> QED
      BY <2>4, <3>1 DEF Lifecycle!Next, Lifecycle!Settle
  <2>6. CASE SettlementRaises(t)
    <3> DEFINE before == entries \ todo
    <3>1. raised' = raised \cup before \cup {t}
      BY <2>6 DEF SettlementRaises
    <3>2. before \in SUBSET {x \in Tokens : fills[x] > 0}
      BY <2>1 DEF IInv, TypeOK, Repeats
    <3> HIDE DEF before
    <3> QED
      BY <2>4, <3>1, <3>2 DEF Lifecycle!Next, Lifecycle!Interrupt
  <2> QED
    BY <1>3, <2>5, <2>6
<1>4. ASSUME NEW side \in Sides, NEW logged \in LogResults, Buy(side, logged)
      PROVE  [Lifecycle!Next]_<<now, held, fills, raised>>
  <2> DEFINE t == <<market.window, side>>
  <2>1. now' = now /\ held' = held \cup {t} /\ UNCHANGED <<fills, raised>>
    BY <1>4 DEF Buy
  <2>2. t \in Tokens /\ t[1] <= now
    BY <1>4 DEF IInv, TypeOK, MarketRecord, StrikeIsOpen, Forward, DuringStep, Buy, Tokens
  <2>3. fills[t] = 0
    BY <1>4, <2>2 DEF IInv, TypeOK, DuringStep, Buy
  <2> HIDE DEF t
  <2> QED
    BY <2>1, <2>2, <2>3 DEF Lifecycle!Next, Lifecycle!Buy
<1>5. ASSUME NEW t \in Tokens, SellOut(t)
      PROVE  [Lifecycle!Next]_<<now, held, fills, raised>>
  <2>1. now' = now /\ t \in held /\ held' = held \ {t} /\ UNCHANGED <<fills, raised>>
    BY <1>5 DEF SellOut
  <2> QED
    BY <2>1 DEF Lifecycle!Next, Lifecycle!Sell
<1>6. CASE RefreshInvalid \/ RefreshSameWindow \/ RefreshRolls \/ NothingToSettle \/ NoOutcome
           \/ OutcomeKnown \/ SettlementDone \/ StepDone \/ UNCHANGED vars
  BY <1>6, <1>2 DEF RefreshInvalid, RefreshSameWindow, RefreshRolls, Refresh, NothingToSettle,
     NoOutcome, OutcomeKnown, SettlementDone, StepDone, runner, vars
<1> QED
  BY <1>1, <1>3, <1>4, <1>5, <1>6 DEF Next

\* The runner, its provider and its oracle implement the life cycle of a token: bought
\* from the start of its window on, settled after its end, never bought again; settled
\* once, but for what an interrupted settlement had come to.
THEOREM ImplementsLifecycle == Spec => LifecycleSpec
<1>1. Init => Lifecycle!Init
  BY InitMaps
<1>2. IInv /\ [Next]_vars => [Lifecycle!Next]_<<now, held, fills, raised>>
  BY StepMaps
<1> QED
  BY <1>1, <1>2, Invariance, PTL DEF Spec, LifecycleSpec, Lifecycle!Spec
===============================================================================
