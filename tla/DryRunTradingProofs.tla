-------------------------- MODULE DryRunTradingProofs --------------------------
(***************************************************************************)
(* For every number of windows, strategies and signals and every limit, if *)
(* signals name prices on the tick: whatever the OMS holds is backed by    *)
(* capital the allocator has booked, and what it holds at cost never       *)
(* reaches into the reserve.                                               *)
(*                                                                         *)
(* The argument: a fill never costs more than the grant of its order, and  *)
(* a sale frees exactly the cost it takes out of the position, so on every *)
(* token the booked amount stays above the cost (CapitalCoversCost).  A    *)
(* release may be credited to the wrong budget key, but it lowers the keys *)
(* by no more than the market, so the keys' total stays above the markets' *)
(* total, which is above the exposure; and a grant leaves the keys' total  *)
(* below the capital less the reserve.                                     *)
(*                                                                         *)
(* Before it stand the theorems of the allocator on its own, whose lemmas  *)
(* it cites.  After it: the tracked entries cover what is held, so that a  *)
(* window settles flat (EntriesCover), and are held themselves, so that    *)
(* the realized profit is of shares that were paid for (EntriesHeld).      *)
(***************************************************************************)
EXTENDS DryRunTrading, SumsProofs

-------------------------------------------------------------------------------
(* The allocator on its own: its limits hold for every set of keys, every   *)
(* budget and every sequence of calls.  The lemmas about a grant, a booking *)
(* and a release are about the operators, and paper trading cites them.     *)

USE AllocatorAssumption DEF AtLeastZero, Smaller

\* What is deployed is a natural number of cents, and no key holds more of it.
LEMMA DeployedType ==
  ASSUME NEW c \in Ledgers
  PROVE  /\ Deployed(c) \in Nat
         /\ \A k \in Keys : c.strategy[k] <= Deployed(c)
<1>1. c.strategy \in [Keys -> Nat]
  BY DEF Ledgers
<1> QED
  BY <1>1, SumOfNaturals DEF Deployed, KeyOrder

\* What remains available is zero or leaves the reserve alone.
LEMMA AvailableType ==
  ASSUME NEW c \in Ledgers
  PROVE  /\ Available(c) \in Nat
         /\ Available(c) > 0 => Available(c) + Deployed(c) + Reserve <= TotalCapital
<1>1. Deployed(c) \in Nat /\ c.locked \in Nat
  BY DeployedType DEF Ledgers
<1> HIDE DEF Deployed
<1> QED
  BY <1>1 DEF Available

\* A grant respects the amount asked for and all four limits.
LEMMA GrantedBounds ==
  ASSUME NEW c \in Ledgers, NEW s \in Strategies, NEW m \in Markets, NEW amount \in Int
  PROVE  LET grant == Granted(c, s, m, amount)
         IN  /\ grant \in Nat
             /\ grant > 0 =>
                  /\ grant <= amount
                  /\ c.strategy[KeyOf[s]] + grant <= Budget[KeyOf[s]]
                  /\ c.market[m] + grant <= MarketCap
                  /\ Deployed(c) + grant + Reserve <= TotalCapital
<1> DEFINE a == Available(c)
           b == StrategyRoom(c, KeyOf[s])
           d == MarketRoom(c, m)
<1>1. c.strategy[KeyOf[s]] \in Nat /\ c.market[m] \in Nat /\ Budget[KeyOf[s]] \in Nat
  BY DEF Ledgers
<1>2. b \in Nat /\ (b > 0 => c.strategy[KeyOf[s]] + b <= Budget[KeyOf[s]])
  BY <1>1 DEF StrategyRoom
<1>3. d \in Nat /\ (d > 0 => c.market[m] + d <= MarketCap)
  BY <1>1 DEF MarketRoom
<1>4. a \in Nat /\ (a > 0 => a + Deployed(c) + Reserve <= TotalCapital)
  BY AvailableType
<1>5. Deployed(c) \in Nat
  BY DeployedType
<1> DEFINE g == Granted(c, s, m, amount)
<1>6. g = IF amount <= 0 \/ Smaller(amount, Smaller(a, Smaller(b, d))) < MinGrant
          THEN 0 ELSE Smaller(amount, Smaller(a, Smaller(b, d)))
  BY DEF Granted
<1> HIDE DEF a, b, d, g
<1>7. g \in Nat /\ (g > 0 => g <= amount /\ g <= a /\ g <= b /\ g <= d)
  BY <1>2, <1>3, <1>4, <1>6
<1>8. g > 0 => /\ c.strategy[KeyOf[s]] + g <= Budget[KeyOf[s]]
               /\ c.market[m] + g <= MarketCap
  BY <1>1, <1>2, <1>3, <1>7
<1>9. g > 0 => Deployed(c) + g + Reserve <= TotalCapital
  BY <1>4, <1>5, <1>7
<1> QED
  BY <1>7, <1>8, <1>9 DEF g

\* A booking raises the key, the market and the total by the grant.
LEMMA BookedEffect ==
  ASSUME NEW c \in Ledgers, NEW s \in Strategies, NEW m \in Markets, NEW grant \in Nat
  PROVE  /\ Booked(c, s, m, grant) \in Ledgers
         /\ \A k \in Keys : Booked(c, s, m, grant).strategy[k] =
              IF k = KeyOf[s] THEN c.strategy[k] + grant ELSE c.strategy[k]
         /\ \A x \in Markets : Booked(c, s, m, grant).market[x] =
              IF x = m THEN c.market[x] + grant ELSE c.market[x]
         /\ grant > 0 => Booked(c, s, m, grant).owner[m] = KeyOf[s]
         /\ Deployed(Booked(c, s, m, grant)) = Deployed(c) + grant
<1> DEFINE b == Booked(c, s, m, grant)
           k0 == KeyOf[s]
<1>1. k0 \in Keys /\ c.strategy \in [Keys -> Nat] /\ c.market \in [Markets -> Nat]
  BY DEF Ledgers
<1>2. b \in Ledgers
  <2>1. CASE grant = 0
    BY <2>1 DEF Booked
  <2>2. CASE grant # 0
    <3> DEFINE st == [c.strategy EXCEPT ![k0] = c.strategy[k0] + grant]
               mk == [c.market EXCEPT ![m] = c.market[m] + grant]
               ow == [c.owner EXCEPT ![m] = k0]
    <3>1. st \in [Keys -> Nat] /\ mk \in [Markets -> Nat]
      BY <1>1
    <3>2. ow \in [Markets -> Keys \cup {NoKey}]
      BY <1>1 DEF Ledgers
    <3>3. b = [c EXCEPT !.strategy = st, !.market = mk, !.owner = ow]
      BY <2>2 DEF Booked
    <3> HIDE DEF b, k0, st, mk, ow
    <3> QED
      BY <3>1, <3>2, <3>3 DEF Ledgers
  <2> QED
    BY <2>1, <2>2
<1>3. /\ \A k \in Keys : b.strategy[k] = IF k = k0 THEN c.strategy[k] + grant ELSE c.strategy[k]
      /\ \A x \in Markets : b.market[x] = IF x = m THEN c.market[x] + grant ELSE c.market[x]
      /\ grant > 0 => b.owner[m] = k0
  BY <1>1 DEF Booked, Ledgers
<1>4. Deployed(b) = Deployed(c) + grant
  <2>1. b.strategy \in [Keys -> Int] /\ c.strategy \in [Keys -> Int]
    BY <1>2 DEF Ledgers
  <2>2. \A k \in Keys : k # k0 => b.strategy[k] = c.strategy[k]
    BY <1>3
  <2>3. b.strategy[k0] = c.strategy[k0] + grant /\ c.strategy[k0] \in Nat
    BY <1>1, <1>3
  <2> HIDE DEF b, k0
  <2>4. Deployed(b) = Deployed(c) + b.strategy[k0] - c.strategy[k0]
    BY <1>1, <2>1, <2>2, SumUpdate DEF Deployed, KeyOrder
  <2>5. Deployed(c) \in Nat
    BY DeployedType
  <2> QED
    BY <2>3, <2>4, <2>5
<1> QED
  BY <1>2, <1>3, <1>4

\* A release lowers one key and the market, by at most the amount, never below zero.
LEMMA ReleasedEffect ==
  ASSUME NEW c \in Ledgers, NEW s \in Strategies, NEW m \in Markets, NEW amount \in Nat
  PROVE  /\ Released(c, s, m, amount) \in Ledgers
         /\ \A k \in Keys : Released(c, s, m, amount).strategy[k] <= c.strategy[k]
         /\ \A x \in Markets : Released(c, s, m, amount).market[x] =
              IF x = m THEN AtLeastZero(c.market[x] - amount) ELSE c.market[x]
         /\ Deployed(Released(c, s, m, amount)) <= Deployed(c)
         /\ Deployed(c) <= Deployed(Released(c, s, m, amount)) + amount
<1> DEFINE r == Released(c, s, m, amount)
           k0 == ReleaseKey(c, s, m)
<1>1. k0 \in Keys /\ c.strategy \in [Keys -> Nat] /\ c.market \in [Markets -> Nat]
  BY DEF Ledgers, ReleaseKey
<1> DEFINE st == [c.strategy EXCEPT ![k0] = AtLeastZero(c.strategy[k0] - amount)]
           mk == [c.market EXCEPT ![m] = AtLeastZero(c.market[m] - amount)]
<1>2. r = [c EXCEPT !.strategy = st, !.market = mk]
  BY DEF Released
<1>2a. st \in [Keys -> Nat] /\ mk \in [Markets -> Nat]
  BY <1>1
<1>2b. r.strategy = st /\ r.market = mk
  <2> HIDE DEF r, st, mk
  <2> QED
    BY <1>2 DEF Ledgers
<1>3. r \in Ledgers
  <2> HIDE DEF r, st, mk
  <2> QED
    BY <1>2, <1>2a DEF Ledgers
<1> HIDE DEF r, k0
<1>4. \A x \in Markets : r.market[x] = IF x = m THEN AtLeastZero(c.market[x] - amount) ELSE c.market[x]
  BY <1>1, <1>2b
<1>5. /\ r.strategy[k0] <= c.strategy[k0]
      /\ c.strategy[k0] <= r.strategy[k0] + amount
      /\ r.strategy[k0] \in Nat /\ c.strategy[k0] \in Nat
      /\ \A k \in Keys : k # k0 => r.strategy[k] = c.strategy[k]
  BY <1>1, <1>2b
<1>6. \A k \in Keys : r.strategy[k] <= c.strategy[k]
  BY <1>1, <1>5
<1>7. Deployed(r) = Deployed(c) + r.strategy[k0] - c.strategy[k0]
  <2>1. r.strategy \in [Keys -> Int] /\ c.strategy \in [Keys -> Int]
    BY <1>3 DEF Ledgers
  <2> QED
    BY <1>1, <1>5, <2>1, SumUpdate DEF Deployed, KeyOrder
<1>8. Deployed(r) <= Deployed(c) /\ Deployed(c) <= Deployed(r) + amount
  <2>1. Deployed(c) \in Nat /\ Deployed(r) \in Nat
    BY <1>3, DeployedType
  <2> QED
    BY <1>5, <1>7, <2>1
<1> QED
  BY <1>3, <1>4, <1>6, <1>8 DEF r

-------------------------------------------------------------------------------
(* The allocator on its own                                                *)

\* The four properties are inductive together: a grant is bounded by what is booked.
AllocInv == AllocTypeOK /\ BudgetRespected /\ MarketCapRespected /\ ReserveRespected

\* A source without an allocation has an empty ledger, which sums to nothing.
LEMMA EmptyLedgerType == EmptyLedger \in Ledgers /\ Deployed(EmptyLedger) = 0
<1>1. EmptyLedger \in Ledgers
  BY DEF EmptyLedger, Ledgers
<1>2. EmptyLedger.strategy \in [Keys -> Int] /\ \A k \in Keys : EmptyLedger.strategy[k] = 0
  BY DEF EmptyLedger
<1> QED
  BY <1>1, <1>2, SumZero DEF Deployed, KeyOrder

\* A new allocator satisfies the invariant.
LEMMA AllocInitInv == AllocInit => AllocInv
<1> SUFFICES ASSUME AllocInit PROVE AllocInv
  OBVIOUS
<1>1. cap \in Ledgers /\ Deployed(cap) = 0
  BY EmptyLedgerType DEF AllocInit
<1>2. /\ \A k \in Keys : cap.strategy[k] = 0
      /\ \A m \in Markets : cap.market[m] = 0
  BY DEF AllocInit, EmptyLedger
<1> QED
  BY <1>1, <1>2 DEF AllocInv, AllocTypeOK, BudgetRespected, MarketCapRespected, ReserveRespected

\* Every call of the allocator keeps the invariant.
LEMMA AllocNextInv == AllocInv /\ [AllocNext]_cap => AllocInv'
<1> SUFFICES ASSUME AllocInv, [AllocNext]_cap PROVE AllocInv'
  OBVIOUS
<1> USE DEF AllocInv, AllocTypeOK, BudgetRespected, MarketCapRespected, ReserveRespected
<1>0. /\ cap \in Ledgers /\ Deployed(cap) \in Nat
      /\ cap.strategy \in [Keys -> Nat] /\ cap.market \in [Markets -> Nat]
  BY DeployedType DEF Ledgers
<1>1. ASSUME NEW s \in Strategies, NEW m \in Markets, NEW amount \in Amounts,
             RequestCapital(s, m, amount)
      PROVE  AllocInv'
  <2> DEFINE grant == Granted(cap, s, m, amount)
  <2>1. cap' = Booked(cap, s, m, grant)
    BY <1>1 DEF RequestCapital
  <2>2. amount \in Int
    OBVIOUS
  <2>3. /\ grant \in Nat
        /\ grant > 0 => /\ cap.strategy[KeyOf[s]] + grant <= Budget[KeyOf[s]]
                        /\ cap.market[m] + grant <= MarketCap
                        /\ Deployed(cap) + grant + Reserve <= TotalCapital
    BY <2>2, GrantedBounds
  <2> HIDE DEF grant
  <2>4. /\ cap' \in Ledgers
        /\ Deployed(cap') = Deployed(cap) + grant
        /\ \A k \in Keys : cap'.strategy[k] =
             IF k = KeyOf[s] THEN cap.strategy[k] + grant ELSE cap.strategy[k]
        /\ \A x \in Markets : cap'.market[x] =
             IF x = m THEN cap.market[x] + grant ELSE cap.market[x]
    <3> DEFINE b == Booked(cap, s, m, grant)
    <3>1. /\ b \in Ledgers
          /\ Deployed(b) = Deployed(cap) + grant
          /\ \A k \in Keys : b.strategy[k] =
               IF k = KeyOf[s] THEN cap.strategy[k] + grant ELSE cap.strategy[k]
          /\ \A x \in Markets : b.market[x] =
               IF x = m THEN cap.market[x] + grant ELSE cap.market[x]
      <4>1. grant \in Nat /\ cap \in Ledgers
        BY <1>0, <2>3
      <4> HIDE DEF AllocInv, AllocTypeOK, BudgetRespected, MarketCapRespected, ReserveRespected
      <4> QED
        BY <4>1, BookedEffect
    <3>2. cap' = b
      BY <2>1
    <3> HIDE DEF b
    <3> QED
      BY <3>1, <3>2
  <2>5. \A k \in Keys : cap'.strategy[k] <= Budget[k]
    BY <1>0, <2>3, <2>4
  <2>6. \A x \in Markets : cap'.market[x] <= MarketCap
    BY <1>0, <2>3, <2>4
  <2>7. Deployed(cap') + Reserve <= TotalCapital
    BY <1>0, <2>3, <2>4
  <2> QED
    BY <2>4, <2>5, <2>6, <2>7
<1>2. ASSUME NEW s \in Strategies, NEW m \in Markets, NEW amount \in Amounts,
             ReleaseCapital(s, m, amount)
      PROVE  AllocInv'
  <2>1. cap' = Released(cap, s, m, amount) /\ amount \in Nat
    BY <1>2 DEF ReleaseCapital
  <2>2. /\ cap' \in Ledgers
        /\ \A k \in Keys : cap'.strategy[k] <= cap.strategy[k]
        /\ \A x \in Markets : cap'.market[x] =
             IF x = m THEN AtLeastZero(cap.market[x] - amount) ELSE cap.market[x]
        /\ Deployed(cap') <= Deployed(cap)
    BY <2>1, ReleasedEffect
  <2>3. cap'.strategy \in [Keys -> Nat] /\ Deployed(cap') \in Nat
    BY <2>2, DeployedType DEF Ledgers
  <2>4. \A k \in Keys : cap'.strategy[k] <= Budget[k]
    BY <1>0, <2>2, <2>3
  <2>5. \A x \in Markets : cap'.market[x] <= MarketCap
    BY <1>0, <2>1, <2>2
  <2>6. Deployed(cap') + Reserve <= TotalCapital
    BY <1>0, <2>2, <2>3
  <2> QED
    BY <2>2, <2>4, <2>5, <2>6
<1>3. ASSUME NEW locked \in Nat, cap' = [cap EXCEPT !.locked = locked]
      PROVE  AllocInv'
  <2>1. cap' \in Ledgers /\ cap'.strategy = cap.strategy /\ cap'.market = cap.market
    BY <1>3 DEF Ledgers
  <2>2. Deployed(cap') = Deployed(cap)
    BY <2>1 DEF Deployed
  <2> QED
    BY <2>1, <2>2
<1>4. ASSUME NEW amount \in Amounts, LockCollateral(amount)
      PROVE  AllocInv'
  <2>1. cap.locked + amount \in Nat
    BY <1>0 DEF Ledgers
  <2> QED
    BY <1>3, <1>4, <2>1 DEF LockCollateral
<1>5. ASSUME NEW amount \in Amounts, UnlockCollateral(amount)
      PROVE  AllocInv'
  <2>1. AtLeastZero(cap.locked - amount) \in Nat
    BY <1>0 DEF Ledgers
  <2> QED
    BY <1>3, <1>5, <2>1 DEF UnlockCollateral
<1>6. CASE UNCHANGED cap
  BY <1>6
<1> QED
  BY <1>1, <1>2, <1>4, <1>5, <1>6 DEF AllocNext

\* The inductive invariant of the allocator.
THEOREM AllocInvariance == AllocSpec => []AllocInv
BY AllocInitInv, AllocNextInv, PTL DEF AllocSpec

\* The ledgers are natural numbers after every sequence of requests and releases.
THEOREM AllocTypeCorrect == AllocSpec => []AllocTypeOK
<1>1. AllocInv => AllocTypeOK
  BY DEF AllocInv
<1> QED
  BY <1>1, AllocInvariance, PTL

\* No budget key ever exceeds its budget, however many sources share it and whoever
\* a release is credited to.
THEOREM AllocBudget == AllocSpec => []BudgetRespected
<1>1. AllocInv => BudgetRespected
  BY DEF AllocInv
<1> QED
  BY <1>1, AllocInvariance, PTL

\* No token ever holds more than the market cap, all strategies together.
THEOREM AllocMarketCap == AllocSpec => []MarketCapRespected
<1>1. AllocInv => MarketCapRespected
  BY DEF AllocInv
<1> QED
  BY <1>1, AllocInvariance, PTL

\* No limit is ever exceeded: all three bind at once, for any keys, budgets and callers.
THEOREM AllocLimits == AllocSpec => []LimitsRespected
<1>1. AllocInv => LimitsRespected
  BY DEF AllocInv, LimitsRespected
<1> QED
  BY <1>1, AllocInvariance, PTL

\* The reserve is never deployed, even when the budgets add up to more than the total.
THEOREM AllocReserve == AllocSpec => []ReserveRespected
<1>1. AllocInv => ReserveRespected
  BY DEF AllocInv
<1> QED
  BY <1>1, AllocInvariance, PTL
HIDE AllocatorAssumption DEF AtLeastZero, Smaller

-------------------------------------------------------------------------------
(* Paper trading                                                           *)

\* No order's limit is above the price its signal asked capital for.  place_order rounds
\* to the tick after the grant, so prices off the tick break this, and the theorems.
PricesOnTick == \A price \in Prices : Limit(price) <= price

-------------------------------------------------------------------------------
(* Arithmetic of whole shares and prices                                   *)

\* Dividing a product by one of its factors gives the other.
LEMMA QuotientOfProduct ==
  ASSUME NEW c \in Nat, NEW s \in Nat, s > 0
  PROVE  (c * s) \div s = c
OBVIOUS

\* The share of the cost that a sale takes is no more than the whole cost.
LEMMA CostOfBounds ==
  ASSUME NEW p \in PositionRecord, p.size > 0, NEW n \in Nat
  PROVE  /\ CostOf(p, n) \in Nat
         /\ n <= p.size => CostOf(p, n) <= p.cost
         /\ CostOf(p, p.size) = p.cost
<1> DEFINE q == (p.cost * n) \div p.size
<1>1. p.size \in Nat /\ p.cost \in Nat /\ p.cost * n \in Nat
  BY DEF PositionRecord
<1>2. q \in Nat /\ q * p.size <= p.cost * n
  BY <1>1, DivisionRoundsDown
<1>3. ASSUME n <= p.size PROVE q <= p.cost
  <2>1. p.cost * n <= p.cost * p.size
    BY <1>1, <1>3, ProductMonotonic
  <2>2. q * p.size <= p.cost * p.size
    <3>1. q * p.size \in Nat /\ p.cost * p.size \in Nat
      BY <1>1, <1>2
    <3> HIDE DEF q
    <3> QED
      BY <1>1, <1>2, <2>1, <3>1
  <2> HIDE DEF q
  <2> QED
    BY <1>1, <1>2, <2>2, QuotientBound
<1> QED
  BY <1>1, <1>2, <1>3, QuotientOfProduct DEF CostOf

\* What a BUY fill does to one position: shares, cost and average price.
LEMMA BuyEffect ==
  ASSUME NEW p \in PositionRecord, NEW n \in Nat, NEW price \in Nat
  PROVE  /\ AfterBuy(p, n, price) \in PositionRecord
         /\ AfterBuy(p, n, price).cost = p.cost + n * price
BY DEF AfterBuy, PositionRecord

\* _on_fill frees exactly what record_fill takes out of the cost.
LEMMA SellEffect ==
  ASSUME NEW p \in PositionRecord, NEW n \in Nat, NEW price \in Nat
  PROVE  /\ AfterSell(p, n) \in PositionRecord
         /\ RealizedOn(p, n, price) \in Int
         /\ CapitalFreed(p, n) \in Nat
         /\ CapitalFreed(p, n) <= p.cost
         /\ AfterSell(p, n).cost = p.cost - CapitalFreed(p, n)
<1>1. p.size \in Nat /\ p.cost \in Nat /\ p.mark \in Nat
  BY DEF PositionRecord
<1>2. CASE p.size = 0
  BY <1>1, <1>2 DEF AfterSell, RealizedOn, CapitalFreed
<1>3. CASE p.size > 0 /\ n >= p.size
  <2>1. Fewer(p.size, n) = p.size
    BY <1>1, <1>3 DEF Fewer
  <2>2. CapitalFreed(p, n) = p.cost
    BY <1>1, <1>3, <2>1, CostOfBounds DEF CapitalFreed
  <2>3. CostOf(p, n) \in Nat
    BY <1>3, CostOfBounds
  <2>4. RealizedOn(p, n, price) \in Int
    BY <1>3, <2>3 DEF RealizedOn
  <2>5. AfterSell(p, n) = [size |-> 0, cost |-> 0, mark |-> p.mark]
    BY <1>1, <1>3 DEF AfterSell
  <2>6. AfterSell(p, n) \in PositionRecord /\ AfterSell(p, n).cost = 0
    BY <1>1, <2>5 DEF PositionRecord
  <2> QED
    BY <1>1, <2>2, <2>4, <2>6
<1>4. CASE p.size > 0 /\ n < p.size
  <2>1. Fewer(p.size, n) = n
    BY <1>1, <1>4 DEF Fewer
  <2>2. CostOf(p, n) \in Nat /\ CostOf(p, n) <= p.cost
    BY <1>1, <1>4, CostOfBounds
  <2>3. CapitalFreed(p, n) = CostOf(p, n)
    BY <1>1, <1>4, <2>1 DEF CapitalFreed
  <2>4. RealizedOn(p, n, price) \in Int
    BY <1>4, <2>2 DEF RealizedOn
  <2>5. AfterSell(p, n) = [size |-> p.size - n, cost |-> p.cost - CostOf(p, n), mark |-> p.mark]
    BY <1>1, <1>4 DEF AfterSell
  <2>6. p.size - n \in Nat /\ p.cost - CostOf(p, n) \in Nat
    BY <1>1, <1>4, <2>2
  <2>7. AfterSell(p, n) \in PositionRecord /\ AfterSell(p, n).cost = p.cost - CostOf(p, n)
    BY <1>1, <2>5, <2>6 DEF PositionRecord
  <2> QED
    BY <2>2, <2>3, <2>4, <2>7
<1> QED
  BY <1>1, <1>2, <1>3, <1>4

\* The size a sale leaves: nothing, when more is sold than is held.
LEMMA SizeAfterSell ==
  ASSUME NEW p \in PositionRecord, NEW n \in Nat
  PROVE  AfterSell(p, n).size = IF n >= p.size THEN 0 ELSE p.size - n
BY DEF AfterSell, PositionRecord

\* A sale of no more than is held realizes what it brings in less what it frees.
LEMMA SaleOfHeld ==
  ASSUME NEW p \in PositionRecord, NEW n \in Nat, n <= p.size, NEW price \in Nat
  PROVE  /\ RealizedOn(p, n, price) = n * price - CapitalFreed(p, n)
         /\ Fewer(p.size, n) = n
<1>1. p.size \in Nat
  BY DEF PositionRecord
<1>2. Fewer(p.size, n) = n
  BY <1>1 DEF Fewer
<1>3. CASE p.size = 0
  <2>1. n = 0 /\ 0 * price = 0
    BY <1>1, <1>3
  <2> QED
    BY <1>2, <1>3, <2>1 DEF RealizedOn, CapitalFreed
<1>4. CASE p.size # 0
  BY <1>2, <1>4 DEF RealizedOn, CapitalFreed
<1> QED
  BY <1>2, <1>3, <1>4

-------------------------------------------------------------------------------
(* Types                                                                   *)

USE DEF money, risk, runner, history

\* There are finitely many tokens to sum over.
LEMMA MarketsFinite == IsFiniteSet(Markets)
<1>1. IsFiniteSet(1..LastWindow)
  BY TradingAssumption, FS_Interval
<1>2. IsFiniteSet(Sides)
  <2>1. IsFiniteSet({"UP"})
    BY FS_Singleton
  <2>2. Sides = {"UP"} \cup {"DOWN"}
    BY DEF Sides
  <2> QED
    BY <2>1, <2>2, FS_AddElement
<1> QED
  BY <1>1, <1>2, TradingAssumption, FS_Product

\* The sources of system sales may request capital like strategies.
LEMMA SystemSourcesAreStrategies ==
  {"settlement", "stop_loss", "kill_switch", "shutdown_close"} \subseteq Strategies
BY TradingAssumption DEF SystemSources

\* The system starts without positions or bookings.
LEMMA InitTypes == Init => TypeOK
<1> SUFFICES ASSUME Init PROVE TypeOK
  OBVIOUS
<1>1. cap \in Ledgers
  BY EmptyLedgerType DEF Init
<1>2. pos \in [Markets -> PositionRecord]
  BY DEF Init, Flat, PositionRecord
<1>3. entries \in Tracking /\ due \in Tracking
  BY DEF Init, Tracking, NoEntries
<1>4. window \in 1..LastWindow /\ key \in 1..LastWindow /\ peak \in Nat
  BY TradingAssumption, AllocatorAssumption DEF Init
<1>5. realized \in Int /\ cash \in Int /\ signals \in Nat /\ phase \in Phases
  BY DEF Init, Phases
<1>6. outcome \in Sides \cup {"none"} /\ todo \in SUBSET Markets /\ halted \in BOOLEAN
  BY Zenon DEF Init
<1>7. untracked \in SUBSET Markets /\ resold \in BOOLEAN
  BY Zenon DEF Init
<1> QED
  BY <1>1, <1>2, <1>3, <1>4, <1>5, <1>6, <1>7 DEF TypeOK

\* The equity is an integer, so the peak stays a natural number.
LEMMA PeakType ==
  ASSUME TypeOK
  PROVE  PeakNow \in Nat
<1>1. Equity \in Int
  <2> DEFINE f == [t \in Markets |-> Unrealized(pos[t])]
  <2>1. f \in [Markets -> Int]
    BY DEF TypeOK, PositionRecord, Unrealized
  <2>2. OverMarkets(f) \in Int
    <3> HIDE DEF f
    <3> QED
      BY <2>1, MarketsFinite, SumType DEF OverMarkets, MarketOrder
  <2>3. realized \in Int /\ TotalCapital \in Int
    BY AllocatorAssumption DEF TypeOK
  <2> QED
    BY <2>2, <2>3 DEF Equity
<1>2. peak \in Nat
  BY DEF TypeOK
<1> HIDE DEF Equity
<1> QED
  BY <1>1, <1>2 DEF PeakNow

\* A sale of n shares from ledger c, whatever its source: stop-loss, kill switch,
\* shutdown, settlement or a SELL signal.
LEMMA SaleTypes ==
  ASSUME TypeOK, NEW c \in Ledgers,
         NEW source \in Strategies, NEW t \in Markets, NEW n \in Nat, NEW price \in Nat,
         cap' = AfterSellRelease(c, source, t, n),
         RecordSell(t, n, price)
  PROVE  /\ cap' \in Ledgers /\ pos' \in [Markets -> PositionRecord]
         /\ realized' \in Int /\ cash' \in Int
<1> DEFINE freed == CapitalFreed(pos[t], n)
<1>1. pos \in [Markets -> PositionRecord] /\ pos[t] \in PositionRecord
  BY DEF TypeOK
<1>2. /\ AfterSell(pos[t], n) \in PositionRecord
      /\ RealizedOn(pos[t], n, price) \in Int
      /\ freed \in Nat
  BY <1>1, SellEffect
<1>3. pos' \in [Markets -> PositionRecord]
  BY <1>1, <1>2 DEF RecordSell
<1>4. cap' \in Ledgers
  <2>1. cap' = IF freed > 0 THEN Released(c, source, t, freed) ELSE c
    BY DEF AfterSellRelease
  <2> HIDE DEF freed
  <2> QED
    BY <1>2, <2>1, ReleasedEffect
<1>5. realized' \in Int
  BY <1>2 DEF RecordSell, TypeOK
<1>6. cash' \in Int
  <2>1. Fewer(pos[t].size, n) \in Nat
    BY <1>1 DEF Fewer, PositionRecord
  <2>2. cash \in Int /\ cash' = cash + Fewer(pos[t].size, n) * price
    BY DEF RecordSell, TypeOK
  <2> QED
    BY <2>1, <2>2
<1> QED
  BY <1>3, <1>4, <1>5, <1>6

\* Every step of a loop that sells what is in todo.
LEMMA SellFromTodoTypes ==
  ASSUME TypeOK, NEW source \in SystemSources, NEW t \in Markets, NEW n \in Nat,
         NEW price \in ExitPrices, SellFromTodo(source, t, n, price),
         UNCHANGED <<halted, peak, window, key, entries, due, outcome, untracked, signals>>,
         todo' \in SUBSET Markets, phase' \in Phases, resold' \in BOOLEAN
  PROVE  TypeOK'
<1>1. source \in Strategies /\ price \in Nat
  BY TradingAssumption
<1>2. /\ cap' = AfterSellRelease(cap, source, t, n)
      /\ RecordSell(t, n, price)
  BY DEF SellFromTodo
<1>3. cap \in Ledgers
  BY DEF TypeOK
<1>4. /\ cap' \in Ledgers /\ pos' \in [Markets -> PositionRecord]
      /\ realized' \in Int /\ cash' \in Int
  BY <1>1, <1>2, <1>3, SaleTypes
<1> QED
  BY <1>4 DEF TypeOK

\* Where a sale of the stop-loss or the kill switch leads: on, or to the shutdown.
LEMMA SaleLeadsTo ==
  ASSUME TypeOK, NEW t \in Markets, NEW n, NEW logged, SaleGoesOn(t, n, logged)
  PROVE  todo' \in SUBSET Markets /\ phase' \in {phase, "close"}
<1>1. todo \in SUBSET Markets
  BY DEF TypeOK
<1> QED
  BY <1>1, Zenon DEF SaleGoesOn

\* The loops that sell what is in todo, each sale with its source, size and price.  Only
\* the stop-loss may take shares that an entry tracks and return to the loop.
LEMMA LoopSales ==
  ASSUME TypeOK, NEW t \in Markets, NEW logged \in LogResults,
         StopLossSell(t, logged) \/ KillSwitchSell(t, logged) \/ CloseOne(t, logged)
  PROVE  /\ UNCHANGED <<halted, peak, window, key, entries, due, outcome, untracked, signals>>
         /\ todo' \in SUBSET Markets
         /\ phase' \in {"stops", "kill", "close", "crashed"}
         /\ \E source \in SystemSources, n \in 0..pos[t].size, price \in ExitPrices :
              /\ SellFromTodo(source, t, n, price)
              /\ \/ phase = "stops" /\ resold' = (resold \/ Resells(t, n))
                 \/ phase' # "stops" /\ resold' = resold
<1>1. pos[t].size \in Nat
  BY DEF TypeOK, PositionRecord
<1>2. {"stop_loss", "kill_switch", "shutdown_close"} \subseteq SystemSources
  BY DEF SystemSources
<1>3. CASE StopLossSell(t, logged)
  <2>1. PICK n \in 0..pos[t].size, price \in ExitPrices :
          /\ SellFromTodo("stop_loss", t, n, price)
          /\ SaleGoesOn(t, n, logged)
          /\ resold' = (resold \/ Resells(t, n))
    BY <1>3 DEF StopLossSell
  <2>2. /\ UNCHANGED <<halted, peak, window, key, entries, due, outcome, untracked, signals>>
        /\ phase = "stops"
    BY <1>3 DEF StopLossSell
  <2>3. todo' \in SUBSET Markets /\ phase' \in {phase, "close"}
    BY <2>1, SaleLeadsTo
  <2> QED
    BY <1>2, <2>1, <2>2, <2>3
<1>4. CASE KillSwitchSell(t, logged)
  <2>1. PICK n \in 0..pos[t].size, price \in ExitPrices :
          SellFromTodo("kill_switch", t, n, price) /\ SaleGoesOn(t, n, logged)
    BY <1>4 DEF KillSwitchSell
  <2>2. /\ UNCHANGED <<halted, peak, window, key, entries, due, outcome, untracked, signals>>
        /\ phase = "kill" /\ resold' = resold
    BY <1>4 DEF KillSwitchSell
  <2>3. todo' \in SUBSET Markets /\ phase' \in {phase, "close"}
    BY <2>1, SaleLeadsTo
  <2> QED
    BY <1>2, <2>1, <2>2, <2>3
<1>5. CASE CloseOne(t, logged)
  <2>1. PICK price \in ExitPrices : SellFromTodo("shutdown_close", t, pos[t].size, price)
    BY <1>5 DEF CloseOne
  <2>2. /\ UNCHANGED <<halted, peak, window, key, entries, due, outcome, untracked, signals>>
        /\ phase' \in {"close", "crashed"} /\ resold' = resold
        /\ todo' = todo \ {t}
    BY <1>5 DEF CloseOne
  <2>3. todo' \in SUBSET Markets /\ pos[t].size \in 0..pos[t].size
    BY <1>1, <2>2 DEF TypeOK
  <2> QED
    BY <1>2, <2>1, <2>2, <2>3
<1> QED
  BY <1>3, <1>4, <1>5

\* Every step that leaves the money alone.
LEMMA OtherStepTypes ==
  ASSUME TypeOK, UNCHANGED <<cap, pos, realized, cash, untracked, resold>>,
         peak' \in Nat, halted' \in BOOLEAN, window' \in 1..LastWindow, key' \in 1..LastWindow,
         entries' \in Tracking, due' \in Tracking, outcome' \in Sides \cup {"none"},
         todo' \in SUBSET Markets, signals' \in Nat, phase' \in Phases
  PROVE  TypeOK'
BY DEF TypeOK

\* The risk checks trade nothing.
LEMMA RiskChecksTypes ==
  TypeOK /\ RiskChecks => TypeOK' /\ UNCHANGED <<cap, pos, realized, cash, untracked, resold>>
<1> SUFFICES ASSUME TypeOK, RiskChecks
             PROVE  TypeOK' /\ UNCHANGED <<cap, pos, realized, cash, untracked, resold>>
  OBVIOUS
<1>1. PeakNow \in Nat
  BY PeakType
<1>2. OpenTokens \subseteq Markets /\ StopTokens \subseteq Markets
  BY DEF OpenTokens, StopTokens
<1> HIDE DEF PeakNow, OpenTokens, StopTokens
<1>3. CASE CheckDrawdownFails
  BY <1>1, <1>2, <1>3, OtherStepTypes DEF CheckDrawdownFails, TypeOK, Phases
<1>4. CASE CheckExposureFails
  BY <1>1, <1>4, OtherStepTypes DEF CheckExposureFails, TypeOK
<1>5. CASE CheckStopsFail
  BY <1>1, <1>2, <1>5, OtherStepTypes DEF CheckStopsFail, TypeOK, Phases
<1>6. CASE CheckPasses
  BY <1>1, <1>6, OtherStepTypes DEF CheckPasses, TypeOK, Phases
<1> QED
  BY <1>3, <1>4, <1>5, <1>6 DEF RiskChecks

\* The ends of the selling loops, and an interrupt, trade nothing either.
LoopEnds == StopsDone \/ KillSwitchDone \/ CloseDone \/ Interrupt

LEMMA LoopEndsTypes ==
  TypeOK /\ LoopEnds => TypeOK' /\ UNCHANGED <<cap, pos, realized, cash, untracked, resold>>
<1> SUFFICES ASSUME TypeOK, LoopEnds
             PROVE  TypeOK' /\ UNCHANGED <<cap, pos, realized, cash, untracked, resold>>
  OBVIOUS
<1>1. OpenTokens \subseteq Markets
  BY DEF OpenTokens
<1> HIDE DEF OpenTokens
<1>2. CASE StopsDone
  BY <1>2, OtherStepTypes DEF StopsDone, TypeOK, Phases
<1>3. CASE KillSwitchDone
  BY <1>1, <1>3, OtherStepTypes DEF KillSwitchDone, BeginClose, TypeOK, Phases
<1>4. CASE CloseDone
  BY <1>4, OtherStepTypes DEF CloseDone, TypeOK, Phases
<1>5. CASE Interrupt
  BY <1>1, <1>5, OtherStepTypes DEF Interrupt, BeginClose, TypeOK, Phases
<1> QED
  BY <1>2, <1>3, <1>4, <1>5 DEF LoopEnds

\* Stop-losses, the kill switch and the shutdown only sell.
LEMMA LoopSalesTypes ==
  ASSUME TypeOK, NEW t \in Markets, NEW logged \in LogResults,
         StopLossSell(t, logged) \/ KillSwitchSell(t, logged) \/ CloseOne(t, logged)
  PROVE  TypeOK'
<1>1. PICK source \in SystemSources, n \in 0..pos[t].size, price \in ExitPrices :
        /\ SellFromTodo(source, t, n, price)
        /\ \/ phase = "stops" /\ resold' = (resold \/ Resells(t, n))
           \/ phase' # "stops" /\ resold' = resold
  BY LoopSales
<1>2. n \in Nat
  BY DEF TypeOK, PositionRecord
<1>3. /\ UNCHANGED <<halted, peak, window, key, entries, due, outcome, untracked, signals>>
      /\ todo' \in SUBSET Markets
      /\ phase' \in {"stops", "kill", "close", "crashed"}
  BY LoopSales
<1>4. resold' \in BOOLEAN
  <2>1. resold \in BOOLEAN /\ Resells(t, n) \in BOOLEAN
    BY Zenon DEF TypeOK, Resells
  <2> HIDE DEF Resells
  <2> QED
    BY <1>1, <2>1, Zenon
<1>5. phase' \in Phases
  BY <1>3 DEF Phases
<1> QED
  BY <1>1, <1>2, <1>3, <1>4, <1>5, SellFromTodoTypes

\* What a roll settles: the entries, and one for a position that none tracks.
LEMMA ReconciledType ==
  ASSUME TypeOK
  PROVE  Reconciled \in Tracking
<1>1. ASSUME NEW t \in Markets, pos[t].size > 0 PROVE <<pos[t].size>> \in Seq(Nat \ {0})
  <2>1. pos[t].size \in Nat \ {0}
    BY <1>1 DEF TypeOK, PositionRecord
  <2> QED
    BY <2>1
<1>2. entries \in [Markets -> Seq(Nat \ {0})]
  BY DEF TypeOK, Tracking
<1> QED
  BY <1>1, <1>2 DEF Reconciled, Tracking

LEMMA NoEntriesType == NoEntries \in Tracking
BY DEF NoEntries, Tracking

\* A refresh shows the same window or the next.
LEMMA ShownType ==
  ASSUME TypeOK, NEW w \in Shown
  PROVE  w \in 1..LastWindow /\ w \in {window, window + 1}
BY TradingAssumption DEF Shown, TypeOK

\* A refresh moves the window and leaves money alone.
LEMMA RefreshTypes ==
  TypeOK /\ Refresh => TypeOK' /\ UNCHANGED <<cap, pos, realized, cash, untracked, resold>>
<1> SUFFICES ASSUME TypeOK, Refresh
             PROVE  TypeOK' /\ UNCHANGED <<cap, pos, realized, cash, untracked, resold>>
  OBVIOUS
<1>1. CASE RefreshFails
  <2>1. window' \in 1..LastWindow
    BY <1>1, ShownType DEF RefreshFails
  <2> QED
    BY <1>1, <2>1, OtherStepTypes DEF RefreshFails, TypeOK, Phases
<1>2. CASE SameWindow
  BY <1>2, OtherStepTypes DEF SameWindow, TypeOK, Phases
<1>3. CASE RollWithoutOutcome
  <2>1. window' \in 1..LastWindow
    BY <1>3, ShownType DEF RollWithoutOutcome, RollDetected
  <2> QED
    BY <1>3, <2>1, NoEntriesType, OtherStepTypes DEF RollWithoutOutcome, TypeOK, Phases
<1>4. ASSUME NEW answer \in Sides, Roll(answer)
      PROVE  TypeOK' /\ UNCHANGED <<cap, pos, realized, cash, untracked, resold>>
  <2>1. window' \in 1..LastWindow
    BY <1>4, ShownType DEF Roll, RollDetected
  <2>2. Reconciled \in Tracking
    BY ReconciledType
  <2> HIDE DEF Reconciled
  <2> QED
    BY <1>4, <2>1, <2>2, OtherStepTypes DEF Roll, TypeOK, Phases
<1> QED
  BY <1>1, <1>2, <1>3, <1>4 DEF Refresh

\* A settlement fill is a sale at the payout of the token, of the next entry due; it is
\* struck from what is due, unless it raises, and then nothing is due any more.
LEMMA SettleEntryTypes ==
  ASSUME TypeOK, NEW t \in Markets, NEW logged \in LogResults, SettleEntry(t, logged)
  PROVE  /\ Head(due[t]) \in Nat /\ Payout(t) \in Nat
         /\ TypeOK'
<1>1. due[t] \in Seq(Nat \ {0}) /\ due[t] # <<>>
  BY DEF SettleEntry, TypeOK, Tracking
<1>2. Head(due[t]) \in Nat /\ Tail(due[t]) \in Seq(Nat \ {0})
  BY <1>1
<1>3. due' \in Tracking /\ outcome' \in Sides \cup {"none"} /\ phase' \in Phases
  <2>1. CASE logged
    <3>1. due' = [due EXCEPT ![t] = Tail(due[t])] /\ outcome' = outcome /\ phase' = phase
      BY <2>1 DEF SettleEntry
    <3> QED
      BY <1>2, <3>1 DEF TypeOK, Tracking
  <2>2. CASE ~logged
    <3>1. due' = NoEntries /\ outcome' = "none" /\ phase' = "check"
      BY <2>2 DEF SettleEntry
    <3> QED
      BY <3>1, NoEntriesType DEF Phases
  <2> QED
    BY <2>1, <2>2
<1>4. Payout(t) \in Nat
  BY FillTermsAssumption DEF Payout
<1>5. /\ cap' = AfterSellRelease(cap, "settlement", t, Head(due[t]))
      /\ RecordSell(t, Head(due[t]), Payout(t))
      /\ "settlement" \in Strategies /\ cap \in Ledgers
  BY SystemSourcesAreStrategies DEF SettleEntry, TypeOK
<1> HIDE DEF Payout
<1>6. /\ cap' \in Ledgers /\ pos' \in [Markets -> PositionRecord]
      /\ realized' \in Int /\ cash' \in Int
  BY <1>2, <1>4, <1>5, SaleTypes
<1>7. resold' \in BOOLEAN
  <2>1. resold \in BOOLEAN /\ resold' = (resold \/ ~logged)
    BY DEF TypeOK, SettleEntry
  <2> QED
    BY <2>1, Zenon
<1>8. UNCHANGED <<halted, peak, window, key, entries, todo, untracked, signals>>
  BY DEF SettleEntry
<1>9. TypeOK'
  BY <1>3, <1>6, <1>7, <1>8 DEF TypeOK
<1> QED
  BY <1>2, <1>4, <1>9

LEMMA SettlementDoneTypes ==
  TypeOK /\ SettlementDone => TypeOK' /\ UNCHANGED <<cap, pos, realized, cash, untracked, resold>>
BY OtherStepTypes, NoEntriesType DEF SettlementDone, TypeOK, Phases

\* What the gates establish for an order: a positive grant within every limit.
LEMMA GatesBoundGrant ==
  ASSUME TypeOK, NEW source \in Traders, NEW t \in Markets, NEW price \in Prices,
         NEW n \in OrderSizes,
         PassesGates(source, t, price * n, Granted(cap, source, t, price * n))
  PROVE  LET grant == Granted(cap, source, t, price * n)
         IN  /\ source \in Strategies /\ price \in Nat /\ price > 0 /\ n \in Nat
             /\ grant \in Nat /\ grant > 0 /\ grant <= price * n
             /\ SizeGranted(grant, price, n) \in Nat
             /\ Deployed(cap) + grant + Reserve <= TotalCapital
<1> DEFINE grant == Granted(cap, source, t, price * n)
<1>1. source \in Strategies /\ price \in Nat /\ price > 0 /\ n \in Nat
  BY TradingAssumption
<1>2. price * n \in Int
  BY <1>1
<1>3. cap \in Ledgers
  BY DEF TypeOK
<1>4. grant > 0
  BY DEF PassesGates
<1>5. /\ grant \in Nat /\ grant <= price * n
      /\ Deployed(cap) + grant + Reserve <= TotalCapital
  BY <1>1, <1>2, <1>3, <1>4, GrantedBounds
<1> HIDE DEF grant
<1>6. SizeGranted(grant, price, n) \in Nat
  <2>1. grant \div price \in Nat
    BY <1>1, <1>5, DivisionRoundsDown
  <2> QED
    BY <1>1, <2>1 DEF SizeGranted
<1> QED
  BY <1>1, <1>4, <1>5, <1>6 DEF grant

\* An order that does not fill gives its grant back.
LEMMA OrderFailsTypes ==
  ASSUME TypeOK, NEW source \in Traders, NEW t \in Markets, NEW price \in Prices,
         NEW n \in OrderSizes, OrderFails(source, t, price, n)
  PROVE  TypeOK'
<1> DEFINE grant == Granted(cap, source, t, price * n)
           c == Booked(cap, source, t, grant)
<1>1. /\ PassesGates(source, t, price * n, grant)
      /\ cap' = Released(c, source, t, grant)
      /\ signals' = signals + 1
      /\ UNCHANGED <<pos, realized, cash, halted, peak, window, key, entries, due, outcome, todo,
                     untracked, resold, phase>>
  BY DEF OrderFails
<1>2. source \in Strategies /\ grant \in Nat
  BY <1>1, GatesBoundGrant
<1> HIDE DEF grant
<1>3. c \in Ledgers
  BY <1>2, BookedEffect DEF TypeOK
<1> HIDE DEF c
<1>4. cap' \in Ledgers
  BY <1>1, <1>2, <1>3, ReleasedEffect
<1> QED
  BY <1>1, <1>4 DEF TypeOK

\* A BUY signal that fills: the fill, and what it does to the position and the cash.
LEMMA BuyFill ==
  ASSUME TypeOK, NEW source \in Traders, NEW t \in Markets, NEW price \in Prices,
         NEW n \in OrderSizes, NEW logged \in LogResults, BuySignal(source, t, price, n, logged)
  PROVE  /\ \E filled \in Nat \ {0}, fillPrice \in Nat :
              /\ MayFill("BUY", price, SizeGranted(Granted(cap, source, t, price * n), price, n),
                         filled, filled * fillPrice)
              /\ pos' = [pos EXCEPT ![t] = AfterBuy(pos[t], filled, fillPrice)]
              /\ realized' = realized /\ cash' = cash - filled * fillPrice
              /\ entries' = IF logged THEN [entries EXCEPT ![t] = Append(entries[t], filled)]
                                      ELSE entries
         /\ PassesGates(source, t, price * n, Granted(cap, source, t, price * n))
         /\ t[1] = window /\ phase = "signals"
         /\ cap' = Booked(cap, source, t, Granted(cap, source, t, price * n))
         /\ signals' = signals + 1
         /\ phase' = IF logged THEN phase ELSE "check"
         /\ untracked' = IF logged THEN untracked ELSE untracked \cup {t}
         /\ UNCHANGED <<halted, peak, window, key, due, outcome, todo, resold>>
<1> DEFINE grant == Granted(cap, source, t, price * n)
           size == SizeGranted(grant, price, n)
<1>1. /\ PassesGates(source, t, price * n, grant)
      /\ cap' = Booked(cap, source, t, grant)
      /\ signals' = signals + 1
      /\ phase' = IF logged THEN phase ELSE "check"
      /\ untracked' = IF logged THEN untracked ELSE untracked \cup {t}
      /\ UNCHANGED <<halted, peak, window, key, due, outcome, todo, resold>>
  BY DEF BuySignal
<1>2. PICK filled \in 1..size, fillPrice \in Prices :
        /\ MayFill("BUY", price, size, filled, filled * fillPrice)
        /\ RecordBuy(t, filled, fillPrice)
        /\ entries' = IF logged THEN [entries EXCEPT ![t] = Tracked(t, filled)] ELSE entries
  BY DEF BuySignal
<1>3. size \in Nat
  BY <1>1, GatesBoundGrant
<1>4. t[1] = window /\ phase = "signals"
  BY <1>1 DEF PassesGates
<1> HIDE DEF size, grant
<1>5. filled \in Nat \ {0} /\ fillPrice \in Nat
  BY <1>2, <1>3, TradingAssumption
<1>6. /\ pos' = [pos EXCEPT ![t] = AfterBuy(pos[t], filled, fillPrice)]
      /\ realized' = realized /\ cash' = cash - filled * fillPrice
  BY <1>2 DEF RecordBuy
<1>7. entries' = IF logged THEN [entries EXCEPT ![t] = Append(entries[t], filled)] ELSE entries
  BY <1>2 DEF Tracked
<1>8. MayFill("BUY", price, size, filled, filled * fillPrice)
  BY <1>2
<1> QED
  BY <1>1, <1>4, <1>5, <1>6, <1>7, <1>8 DEF size, grant

\* A BUY fill leaves positions and entries of natural numbers.
LEMMA BuySignalTypes ==
  ASSUME TypeOK, NEW source \in Traders, NEW t \in Markets, NEW price \in Prices,
         NEW n \in OrderSizes, NEW logged \in LogResults, BuySignal(source, t, price, n, logged)
  PROVE  TypeOK'
<1> DEFINE grant == Granted(cap, source, t, price * n)
<1>1. PICK filled \in Nat \ {0}, fillPrice \in Nat :
        /\ pos' = [pos EXCEPT ![t] = AfterBuy(pos[t], filled, fillPrice)]
        /\ realized' = realized /\ cash' = cash - filled * fillPrice
        /\ entries' = IF logged THEN [entries EXCEPT ![t] = Append(entries[t], filled)] ELSE entries
  BY BuyFill
<1>2. /\ PassesGates(source, t, price * n, grant)
      /\ cap' = Booked(cap, source, t, grant)
      /\ signals' = signals + 1
      /\ phase' = IF logged THEN phase ELSE "check"
      /\ untracked' = IF logged THEN untracked ELSE untracked \cup {t}
      /\ UNCHANGED <<halted, peak, window, key, due, outcome, todo, resold>>
  BY BuyFill
<1>3. source \in Strategies /\ grant \in Nat
  BY <1>2, GatesBoundGrant
<1> HIDE DEF grant
<1>4. cap' \in Ledgers
  BY <1>2, <1>3, BookedEffect DEF TypeOK
<1>5. pos' \in [Markets -> PositionRecord]
  BY <1>1, BuyEffect DEF TypeOK
<1>6. entries' \in Tracking
  BY <1>1 DEF TypeOK, Tracking
<1>7. realized' \in Int /\ cash' \in Int /\ signals' \in Nat
  BY <1>1, <1>2 DEF TypeOK
<1>8. phase' \in Phases /\ untracked' \in SUBSET Markets
  BY <1>2 DEF TypeOK, Phases
<1> QED
  BY <1>2, <1>4, <1>5, <1>6, <1>7, <1>8 DEF TypeOK

\* A SELL signal that fills: a sale from the ledger in which its order is booked.
LEMMA SellFill ==
  ASSUME TypeOK, NEW source \in Traders, NEW t \in Markets, NEW price \in Prices,
         NEW n \in OrderSizes, NEW logged \in LogResults, SellSignal(source, t, price, n, logged)
  PROVE  /\ \E filled \in Nat, fillPrice \in Nat :
              /\ cap' = AfterSellRelease(Booked(cap, source, t, Granted(cap, source, t, price * n)),
                                         source, t, filled)
              /\ RecordSell(t, filled, fillPrice)
              /\ resold' = (resold \/ Resells(t, filled))
         /\ PassesGates(source, t, price * n, Granted(cap, source, t, price * n))
         /\ phase = "signals" /\ signals' = signals + 1
         /\ phase' = IF logged THEN phase ELSE "check"
         /\ UNCHANGED <<halted, peak, window, key, entries, due, outcome, todo, untracked>>
<1> DEFINE grant == Granted(cap, source, t, price * n)
           size == SizeGranted(grant, price, n)
           c == Booked(cap, source, t, grant)
<1>1. /\ PassesGates(source, t, price * n, grant)
      /\ signals' = signals + 1
      /\ phase' = IF logged THEN phase ELSE "check"
      /\ UNCHANGED <<halted, peak, window, key, entries, due, outcome, todo, untracked>>
  BY DEF SellSignal
<1>2. PICK filled \in 1..size, fillPrice \in Prices :
        /\ cap' = AfterSellRelease(c, source, t, filled)
        /\ RecordSell(t, filled, fillPrice)
        /\ resold' = (resold \/ Resells(t, filled))
  BY DEF SellSignal
<1>3. size \in Nat
  BY <1>1, GatesBoundGrant
<1>4. phase = "signals"
  BY <1>1 DEF PassesGates
<1> HIDE DEF grant, size, c
<1>5. filled \in Nat /\ fillPrice \in Nat
  BY <1>2, <1>3, TradingAssumption
<1> QED
  BY <1>1, <1>2, <1>4, <1>5 DEF grant, c

LEMMA SellSignalTypes ==
  ASSUME TypeOK, NEW source \in Traders, NEW t \in Markets, NEW price \in Prices,
         NEW n \in OrderSizes, NEW logged \in LogResults, SellSignal(source, t, price, n, logged)
  PROVE  TypeOK'
<1> DEFINE grant == Granted(cap, source, t, price * n)
           c == Booked(cap, source, t, grant)
<1>1. PICK filled \in Nat, fillPrice \in Nat :
        /\ cap' = AfterSellRelease(c, source, t, filled)
        /\ RecordSell(t, filled, fillPrice)
        /\ resold' = (resold \/ Resells(t, filled))
  BY SellFill
<1>2. /\ PassesGates(source, t, price * n, grant)
      /\ signals' = signals + 1
      /\ phase' = IF logged THEN phase ELSE "check"
      /\ UNCHANGED <<halted, peak, window, key, entries, due, outcome, todo, untracked>>
  BY SellFill
<1>3. source \in Strategies /\ grant \in Nat
  BY <1>2, GatesBoundGrant
<1> HIDE DEF grant
<1>4. c \in Ledgers
  BY <1>3, BookedEffect DEF TypeOK
<1> HIDE DEF c
<1>5. /\ cap' \in Ledgers /\ pos' \in [Markets -> PositionRecord]
      /\ realized' \in Int /\ cash' \in Int
  BY <1>1, <1>3, <1>4, SaleTypes
<1>6. phase' \in Phases /\ signals' \in Nat
  BY <1>2 DEF TypeOK, Phases
<1>7. resold' \in BOOLEAN
  <2>1. resold \in BOOLEAN /\ Resells(t, filled) \in BOOLEAN
    BY Zenon DEF TypeOK, Resells
  <2> HIDE DEF Resells
  <2> QED
    BY <1>1, <2>1, Zenon
<1> QED
  BY <1>2, <1>5, <1>6, <1>7 DEF TypeOK

LEMMA StepDoneTypes ==
  TypeOK /\ StepDone => TypeOK' /\ UNCHANGED <<cap, pos, realized, cash, untracked, resold>>
BY OtherStepTypes DEF StepDone, TypeOK, Phases

\* The steps that trade nothing, and the others one by one: every proof about a step
\* of the trading loop splits like this.
QuietStep ==
  RiskChecks \/ LoopEnds \/ Refresh \/ SettlementDone \/ StepDone \/ UNCHANGED vars

LEMMA StepCases ==
  ASSUME [Next]_vars
  PROVE  \/ QuietStep
         \/ \E t \in Markets, logged \in LogResults :
              StopLossSell(t, logged) \/ KillSwitchSell(t, logged) \/ CloseOne(t, logged)
         \/ \E t \in Markets, logged \in LogResults : SettleEntry(t, logged)
         \/ \E s \in Traders, t \in Markets, price \in Prices, n \in OrderSizes :
              OrderFails(s, t, price, n)
         \/ \E s \in Traders, t \in Markets, price \in Prices, n \in OrderSizes,
               logged \in LogResults : BuySignal(s, t, price, n, logged)
         \/ \E s \in Sellers, t \in Markets, price \in Prices, n \in OrderSizes,
               logged \in LogResults : SellSignal(s, t, price, n, logged)
<1>1. CASE UNCHANGED vars
  BY <1>1 DEF QuietStep
<1>2. CASE Terminated
  BY <1>2 DEF Terminated, QuietStep
<1>3. CASE SellLoops
  BY <1>3 DEF SellLoops, LoopEnds, QuietStep
<1>4. CASE Settlement
  BY <1>4 DEF Settlement, QuietStep
<1>5. CASE Signals
  BY <1>5 DEF Signals, QuietStep
<1>6. CASE RiskChecks \/ Refresh \/ Interrupt
  BY <1>6 DEF QuietStep, LoopEnds
<1> QED
  BY <1>1, <1>2, <1>3, <1>4, <1>5, <1>6 DEF Next

LEMMA QuietTypes ==
  TypeOK /\ QuietStep => TypeOK' /\ UNCHANGED <<cap, pos, realized, cash, untracked, resold>>
<1>1. TypeOK /\ UNCHANGED vars => TypeOK' /\ UNCHANGED <<cap, pos, realized, cash, untracked, resold>>
  BY DEF vars, TypeOK
<1> QED
  BY <1>1, RiskChecksTypes, LoopEndsTypes, RefreshTypes, SettlementDoneTypes, StepDoneTypes
     DEF QuietStep

\* Every step keeps the types.
LEMMA NextTypes ==
  ASSUME TypeOK, [Next]_vars
  PROVE  TypeOK'
<1>1. Sellers \subseteq Traders
  BY TradingAssumption
<1> QED
  BY <1>1, StepCases, QuietTypes, LoopSalesTypes, SettleEntryTypes, OrderFailsTypes,
     BuySignalTypes, SellSignalTypes

-------------------------------------------------------------------------------
(* Ledger and book together                                                *)

\* The part of the inductive invariant that relates a ledger c to a book p.
Backed(c, p) ==
  /\ c \in Ledgers
  /\ p \in [Markets -> PositionRecord]
  /\ \A t \in Markets : p[t].cost <= c.market[t]
  /\ OverMarkets(c.market) <= Deployed(c)
  /\ Deployed(c) + Reserve <= TotalCapital

\* The total over the tokens after one of them changed.
LEMMA MarketTotalUpdate ==
  ASSUME NEW c \in Ledgers, NEW d \in Ledgers, NEW t \in Markets,
         \A x \in Markets : x # t => d.market[x] = c.market[x]
  PROVE  /\ OverMarkets(c.market) \in Int
         /\ OverMarkets(d.market) = OverMarkets(c.market) + d.market[t] - c.market[t]
<1>1. c.market \in [Markets -> Int] /\ d.market \in [Markets -> Int]
  BY DEF Ledgers
<1> QED
  BY <1>1, MarketsFinite, SumType, SumUpdate DEF OverMarkets, MarketOrder

\* A booking with at most as much more cost on its market.
LEMMA BookingKeepsBacked ==
  ASSUME NEW c, NEW p, Backed(c, p), NEW q \in [Markets -> PositionRecord],
         NEW s \in Strategies, NEW t \in Markets, NEW grant \in Nat,
         \A x \in Markets : x # t => q[x] = p[x],
         q[t].cost <= p[t].cost + grant,
         Deployed(c) + grant + Reserve <= TotalCapital
  PROVE  Backed(Booked(c, s, t, grant), q)
<1> DEFINE d == Booked(c, s, t, grant)
<1>1. c \in Ledgers
  BY DEF Backed
<1>2. /\ d \in Ledgers
      /\ \A x \in Markets : d.market[x] = IF x = t THEN c.market[x] + grant ELSE c.market[x]
      /\ Deployed(d) = Deployed(c) + grant
  BY <1>1, BookedEffect
<1> HIDE DEF d
<1>3. c.market \in [Markets -> Nat] /\ Deployed(c) \in Nat
  BY <1>1, DeployedType DEF Ledgers
<1>4. /\ OverMarkets(c.market) \in Int
      /\ OverMarkets(d.market) = OverMarkets(c.market) + d.market[t] - c.market[t]
  BY <1>1, <1>2, MarketTotalUpdate
<1>5. OverMarkets(d.market) <= Deployed(d)
  <2>1. OverMarkets(c.market) <= Deployed(c)
    BY DEF Backed
  <2>2. d.market[t] = c.market[t] + grant /\ c.market[t] \in Nat
    BY <1>2, <1>3
  <2> QED
    BY <1>2, <1>3, <1>4, <2>1, <2>2
<1>6. ASSUME NEW x \in Markets PROVE q[x].cost <= d.market[x]
  <2>1. p[x].cost <= c.market[x] /\ p[x].cost \in Nat /\ q[x].cost \in Nat
    BY DEF Backed, PositionRecord
  <2> QED
    BY <1>2, <1>3, <2>1
<1> QED
  BY <1>2, <1>5, <1>6 DEF Backed, d

\* A release of what the book no longer needs.
LEMMA ReleaseKeepsBacked ==
  ASSUME NEW c, NEW p, Backed(c, p), NEW q \in [Markets -> PositionRecord],
         NEW s \in Strategies, NEW t \in Markets, NEW amount \in Nat,
         \A x \in Markets : x # t => q[x] = p[x],
         q[t].cost + amount <= c.market[t]
  PROVE  Backed(Released(c, s, t, amount), q)
<1> DEFINE d == Released(c, s, t, amount)
<1>1. c \in Ledgers
  BY DEF Backed
<1>2. /\ d \in Ledgers
      /\ \A x \in Markets : d.market[x] =
           IF x = t THEN AtLeastZero(c.market[x] - amount) ELSE c.market[x]
      /\ Deployed(d) <= Deployed(c)
      /\ Deployed(c) <= Deployed(d) + amount
  BY <1>1, ReleasedEffect
<1> HIDE DEF d
<1>3. c.market \in [Markets -> Nat] /\ Deployed(c) \in Nat /\ Deployed(d) \in Nat
  BY <1>1, <1>2, DeployedType DEF Ledgers
<1>4. q[t].cost \in Nat /\ d.market[t] = c.market[t] - amount
  <2>1. q[t].cost \in Nat
    BY DEF PositionRecord
  <2> QED
    BY <1>2, <1>3, <2>1 DEF AtLeastZero
<1>5. /\ OverMarkets(c.market) \in Int
      /\ OverMarkets(d.market) = OverMarkets(c.market) + d.market[t] - c.market[t]
  BY <1>1, <1>2, MarketTotalUpdate
<1>6. OverMarkets(d.market) <= Deployed(d)
  <2>1. OverMarkets(c.market) <= Deployed(c)
    BY DEF Backed
  <2> QED
    BY <1>2, <1>3, <1>4, <1>5, <2>1
<1>7. ASSUME NEW x \in Markets PROVE q[x].cost <= d.market[x]
  <2>1. CASE x = t
    BY <1>3, <1>4, <2>1
  <2>2. CASE x # t
    BY <1>2, <2>2 DEF Backed
  <2> QED
    BY <2>1, <2>2
<1>8. Deployed(d) + Reserve <= TotalCapital
  BY <1>2, <1>3, AllocatorAssumption DEF Backed
<1> QED
  BY <1>2, <1>6, <1>7, <1>8 DEF Backed, d

\* A sale of n shares from ledger c.
LEMMA SaleKeepsBacked ==
  ASSUME TypeOK, NEW c, Backed(c, pos),
         NEW source \in Strategies, NEW t \in Markets, NEW n \in Nat, NEW price \in Nat,
         cap' = AfterSellRelease(c, source, t, n),
         RecordSell(t, n, price)
  PROVE  Backed(cap', pos')
<1> DEFINE freed == CapitalFreed(pos[t], n)
<1>1. pos \in [Markets -> PositionRecord] /\ pos[t] \in PositionRecord
  BY DEF TypeOK
<1>2. /\ AfterSell(pos[t], n) \in PositionRecord
      /\ freed \in Nat
      /\ freed <= pos[t].cost
      /\ AfterSell(pos[t], n).cost = pos[t].cost - freed
  BY <1>1, SellEffect
<1>3. pos' = [pos EXCEPT ![t] = AfterSell(pos[t], n)]
  BY DEF RecordSell
<1>4. /\ pos' \in [Markets -> PositionRecord]
      /\ \A x \in Markets : x # t => pos'[x] = pos[x]
      /\ pos'[t].cost = pos[t].cost - freed
  BY <1>1, <1>2, <1>3
<1>5. cap' = IF freed > 0 THEN Released(c, source, t, freed) ELSE c
  BY DEF AfterSellRelease
<1>6. pos[t].cost <= c.market[t] /\ pos[t].cost \in Nat /\ c.market[t] \in Nat
  BY <1>1 DEF Backed, Ledgers, PositionRecord
<1> HIDE DEF freed
<1>7. CASE freed > 0
  <2>1. cap' = Released(c, source, t, freed)
    BY <1>5, <1>7
  <2>2. pos'[t].cost + freed <= c.market[t]
    BY <1>2, <1>4, <1>6
  <2>3. Backed(Released(c, source, t, freed), pos')
    BY <1>2, <1>4, <2>2, ReleaseKeepsBacked
  <2> QED
    BY <2>1, <2>3
<1>8. CASE ~(freed > 0)
  <2>1. cap' = c /\ pos'[t].cost = pos[t].cost
    BY <1>2, <1>4, <1>5, <1>6, <1>8
  <2>2. \A x \in Markets : pos'[x].cost = pos[x].cost
    BY <1>4, <2>1
  <2> QED
    BY <1>4, <2>1, <2>2 DEF Backed
<1> QED
  BY <1>7, <1>8

\* A limit price is a natural number of price units.
LEMMA LimitType ==
  ASSUME NEW price \in Nat
  PROVE  Limit(price) \in Nat
<1>1. NearestTick(price) \in Nat
  <2>1. price \div Tick \in Nat
    BY FillTermsAssumption, DivisionRoundsDown
  <2> QED
    BY <2>1 DEF NearestTick
<1>2. Tick \in Nat /\ One \in Nat /\ One - Tick \in Nat
  BY FillTermsAssumption
<1>3. NearestTick(price) * Tick \in Nat
  BY <1>1, <1>2
<1> HIDE DEF NearestTick
<1> QED
  BY <1>2, <1>3 DEF Limit, Smallest, Largest

\* The shares an order of a grant may buy never cost more than the grant.
LEMMA FillWithinGrant ==
  ASSUME NEW grant \in Nat, NEW price \in Nat, price > 0, NEW n \in Nat, grant <= price * n,
         NEW filled \in Nat, NEW fillPrice \in Nat,
         Limit(price) <= price,
         MayFill("BUY", price, SizeGranted(grant, price, n), filled, filled * fillPrice)
  PROVE  filled * fillPrice <= grant
<1>2. SizeGranted(grant, price, n) * price <= grant
  <2>1. CASE grant < price * n
    BY <2>1, DivisionRoundsDown DEF SizeGranted
  <2>2. CASE ~(grant < price * n)
    <3>1. grant = price * n
      <4>1. price * n \in Nat
        OBVIOUS
      <4> HIDE DEF SizeGranted
      <4> QED
        BY <2>2, <4>1
    <3> QED
      BY <2>2, <3>1 DEF SizeGranted
  <2> QED
    BY <2>1, <2>2
<1>3. SizeGranted(grant, price, n) \in Nat /\ filled * fillPrice \in Nat
  <2>1. grant \div price \in Nat
    BY DivisionRoundsDown
  <2> QED
    BY <2>1 DEF SizeGranted
<1>4. SizeGranted(grant, price, n) * price \in Nat
  BY <1>3
<1>5. filled * fillPrice <= SizeGranted(grant, price, n) * Limit(price)
  BY DEF MayFill
<1> HIDE DEF SizeGranted
<1>6. SizeGranted(grant, price, n) * Limit(price) <= SizeGranted(grant, price, n) * price
  BY <1>3, LimitType, ProductMonotonic
<1>7. SizeGranted(grant, price, n) * Limit(price) \in Nat
  BY <1>3, LimitType
<1> QED
  BY <1>2, <1>3, <1>4, <1>5, <1>6, <1>7

\* An order that does not fill gives its grant back in full.
LEMMA OrderFailsKeepsBacked ==
  ASSUME TypeOK, Backed(cap, pos), NEW source \in Traders, NEW t \in Markets,
         NEW price \in Prices, NEW n \in OrderSizes, OrderFails(source, t, price, n)
  PROVE  Backed(cap', pos')
<1> DEFINE grant == Granted(cap, source, t, price * n)
           c == Booked(cap, source, t, grant)
<1>1. /\ PassesGates(source, t, price * n, grant)
      /\ cap' = Released(c, source, t, grant)
      /\ pos' = pos
  BY DEF OrderFails
<1>2. /\ source \in Strategies /\ grant \in Nat
      /\ Deployed(cap) + grant + Reserve <= TotalCapital
  BY <1>1, GatesBoundGrant
<1> HIDE DEF grant
<1>3. /\ cap \in Ledgers /\ pos \in [Markets -> PositionRecord]
      /\ \A x \in Markets : pos[x].cost \in Nat
  BY DEF TypeOK, PositionRecord
<1>4. Backed(c, pos)
  <2>1. pos[t].cost <= pos[t].cost + grant
    BY <1>2, <1>3
  <2> QED
    BY <1>2, <1>3, <2>1, BookingKeepsBacked
<1>5. pos[t].cost + grant <= c.market[t]
  <2>1. c.market[t] = cap.market[t] + grant
    BY <1>2, <1>3, BookedEffect
  <2>2. pos[t].cost <= cap.market[t] /\ cap.market[t] \in Nat
    BY <1>3 DEF Backed, Ledgers
  <2> HIDE DEF c
  <2> QED
    BY <1>2, <1>3, <2>1, <2>2
<1> HIDE DEF c
<1>6. Backed(Released(c, source, t, grant), pos)
  BY <1>2, <1>3, <1>4, <1>5, ReleaseKeepsBacked
<1> QED
  BY <1>1, <1>6

\* A filled BUY spends no more than its grant.
LEMMA BuySignalKeepsBacked ==
  ASSUME PricesOnTick, TypeOK, Backed(cap, pos),
         NEW source \in Traders, NEW t \in Markets, NEW price \in Prices,
         NEW n \in OrderSizes, NEW logged \in LogResults, BuySignal(source, t, price, n, logged)
  PROVE  Backed(cap', pos')
<1> DEFINE grant == Granted(cap, source, t, price * n)
           Fill(filled, fillPrice) ==
             /\ MayFill("BUY", price, SizeGranted(grant, price, n), filled, filled * fillPrice)
             /\ pos' = [pos EXCEPT ![t] = AfterBuy(pos[t], filled, fillPrice)]
<1>0. \E filled \in Nat \ {0}, fillPrice \in Nat : Fill(filled, fillPrice)
  <2>1. PICK filled \in Nat \ {0}, fillPrice \in Nat :
          /\ MayFill("BUY", price, SizeGranted(Granted(cap, source, t, price * n), price, n),
                     filled, filled * fillPrice)
          /\ pos' = [pos EXCEPT ![t] = AfterBuy(pos[t], filled, fillPrice)]
          /\ realized' = realized /\ cash' = cash - filled * fillPrice
          /\ entries' = IF logged THEN [entries EXCEPT ![t] = Append(entries[t], filled)]
                                  ELSE entries
    BY BuyFill
  <2>2. Fill(filled, fillPrice)
    BY <2>1
  <2> HIDE DEF Fill
  <2> QED
    BY <2>2
<1>1. PICK filled \in Nat \ {0}, fillPrice \in Nat : Fill(filled, fillPrice)
  BY <1>0
<1>2. /\ PassesGates(source, t, price * n, grant)
      /\ cap' = Booked(cap, source, t, grant)
  BY BuyFill
<1>3. /\ source \in Strategies /\ price \in Nat /\ price > 0 /\ n \in Nat
      /\ grant \in Nat /\ grant <= price * n
      /\ Deployed(cap) + grant + Reserve <= TotalCapital
  BY <1>2, GatesBoundGrant
<1> HIDE DEF grant
<1>4. filled * fillPrice <= grant
  BY <1>1, <1>3, FillWithinGrant DEF PricesOnTick
<1>5. /\ cap \in Ledgers /\ pos \in [Markets -> PositionRecord]
      /\ pos[t] \in PositionRecord /\ pos[t].cost \in Nat
  BY DEF TypeOK, PositionRecord
<1>6. /\ AfterBuy(pos[t], filled, fillPrice) \in PositionRecord
      /\ AfterBuy(pos[t], filled, fillPrice).cost = pos[t].cost + filled * fillPrice
  BY <1>5, BuyEffect
<1>7. /\ pos' \in [Markets -> PositionRecord]
      /\ \A x \in Markets : x # t => pos'[x] = pos[x]
      /\ pos'[t].cost = pos[t].cost + filled * fillPrice
  BY <1>1, <1>5, <1>6
<1>8. pos'[t].cost <= pos[t].cost + grant
  <2>1. filled * fillPrice \in Nat
    OBVIOUS
  <2> QED
    BY <1>3, <1>4, <1>5, <1>7, <2>1
<1>9. Backed(Booked(cap, source, t, grant), pos')
  BY <1>3, <1>5, <1>7, <1>8, BookingKeepsBacked
<1> QED
  BY <1>2, <1>9

\* A SELL signal books capital it does not spend, and its fill releases the cost sold.
LEMMA SellSignalKeepsBacked ==
  ASSUME TypeOK, Backed(cap, pos), NEW source \in Traders, NEW t \in Markets,
         NEW price \in Prices, NEW n \in OrderSizes, NEW logged \in LogResults,
         SellSignal(source, t, price, n, logged)
  PROVE  Backed(cap', pos')
<1> DEFINE grant == Granted(cap, source, t, price * n)
           c == Booked(cap, source, t, grant)
<1>1. PICK filled \in Nat, fillPrice \in Nat :
        /\ cap' = AfterSellRelease(c, source, t, filled)
        /\ RecordSell(t, filled, fillPrice)
  BY SellFill
<1>2. PassesGates(source, t, price * n, grant)
  BY SellFill
<1>3. /\ source \in Strategies /\ grant \in Nat
      /\ Deployed(cap) + grant + Reserve <= TotalCapital
  BY <1>2, GatesBoundGrant
<1> HIDE DEF grant
<1>4. Backed(c, pos)
  <2>1. /\ pos \in [Markets -> PositionRecord] /\ pos[t].cost \in Nat
    BY DEF TypeOK, PositionRecord
  <2>2. pos[t].cost <= pos[t].cost + grant
    BY <1>3, <2>1
  <2> QED
    BY <1>3, <2>1, <2>2, BookingKeepsBacked
<1> HIDE DEF c
<1> QED
  BY <1>1, <1>3, <1>4, SaleKeepsBacked

IInv == TypeOK /\ Backed(cap, pos)

\* The system starts without positions or bookings.
LEMMA InitIInv == Init => IInv
<1> SUFFICES ASSUME Init PROVE IInv
  OBVIOUS
<1>1. TypeOK
  BY InitTypes
<1>2. Deployed(cap) = 0
  BY EmptyLedgerType DEF Init
<1>3. \A t \in Markets : pos[t].cost = 0
  BY DEF Init, Flat
<1>4. OverMarkets(cap.market) = 0 /\ \A t \in Markets : cap.market[t] = 0
  <2>1. cap.market \in [Markets -> Int] /\ \A t \in Markets : cap.market[t] = 0
    BY DEF Init, EmptyLedger
  <2> QED
    BY <2>1, MarketsFinite, SumZero DEF OverMarkets, MarketOrder
<1>5. Backed(cap, pos)
  BY <1>1, <1>2, <1>3, <1>4, AllocatorAssumption DEF Backed, TypeOK
<1> QED
  BY <1>1, <1>5 DEF IInv

\* Every step of the trading loop keeps the invariant.
LEMMA NextIInv ==
  ASSUME PricesOnTick, IInv, [Next]_vars
  PROVE  IInv'
<1>1. TypeOK /\ Backed(cap, pos) /\ Sellers \subseteq Traders
  BY TradingAssumption DEF IInv
<1>2. TypeOK'
  BY <1>1, NextTypes
<1>3. CASE QuietStep
  <2>1. UNCHANGED <<cap, pos>>
    BY <1>1, <1>3, QuietTypes
  <2> QED
    BY <1>1, <1>2, <2>1 DEF IInv
<1>4. ASSUME NEW t \in Markets, NEW logged \in LogResults,
             StopLossSell(t, logged) \/ KillSwitchSell(t, logged) \/ CloseOne(t, logged)
      PROVE  Backed(cap', pos')
  <2>1. PICK source \in SystemSources, n \in 0..pos[t].size, price \in ExitPrices :
          SellFromTodo(source, t, n, price)
    BY <1>1, <1>4, LoopSales
  <2>2. source \in Strategies /\ n \in Nat /\ price \in Nat
    BY <1>1, TradingAssumption DEF TypeOK, PositionRecord
  <2>3. cap' = AfterSellRelease(cap, source, t, n) /\ RecordSell(t, n, price)
    BY <2>1 DEF SellFromTodo
  <2> QED
    BY <1>1, <2>2, <2>3, SaleKeepsBacked
<1>5. ASSUME NEW t \in Markets, NEW logged \in LogResults, SettleEntry(t, logged)
      PROVE  Backed(cap', pos')
  <2>1. /\ cap' = AfterSellRelease(cap, "settlement", t, Head(due[t]))
        /\ RecordSell(t, Head(due[t]), Payout(t))
        /\ "settlement" \in Strategies
    BY <1>5, SystemSourcesAreStrategies DEF SettleEntry
  <2>2. Head(due[t]) \in Nat /\ Payout(t) \in Nat
    BY <1>1, <1>5, SettleEntryTypes
  <2> HIDE DEF Payout
  <2> QED
    BY <1>1, <2>1, <2>2, SaleKeepsBacked
<1> QED
  BY <1>1, <1>2, <1>3, <1>4, <1>5, StepCases, OrderFailsKeepsBacked, BuySignalKeepsBacked,
     SellSignalKeepsBacked DEF IInv

-------------------------------------------------------------------------------
(* The entries of the runner against the positions                         *)

\* What the steps that trade nothing do to the runner: only a refresh and the end of a
\* settlement change the window, its key and the entries, and only a roll begins a
\* settlement; the kill switch and the shutdown do not return to the loop.
LEMMA QuietCases ==
  ASSUME QuietStep
  PROVE  \/ \E answer \in Sides : Roll(answer)
         \/ RollWithoutOutcome
         \/ RefreshFails
         \/ SettlementDone
         \/ /\ UNCHANGED <<window, key, entries, due>>
            /\ phase' = "settle" => phase = "settle"
            /\ phase' = "signals" => phase = "signals" \/ window = key
            /\ phase' \in {"check", "stops", "refresh", "signals"} =>
                 phase \in {"check", "stops", "refresh", "signals"}
<1> DEFINE Other ==
             /\ UNCHANGED <<window, key, entries, due>>
             /\ phase' = "settle" => phase = "settle"
             /\ phase' = "signals" => phase = "signals" \/ window = key
             /\ phase' \in {"check", "stops", "refresh", "signals"} =>
                  phase \in {"check", "stops", "refresh", "signals"}
<1> USE DEF AtLoopTop
<1>1. CASE CheckDrawdownFails
  BY <1>1 DEF CheckDrawdownFails
<1>2. CASE CheckExposureFails
  BY <1>2 DEF CheckExposureFails
<1>3. CASE CheckStopsFail
  BY <1>3 DEF CheckStopsFail
<1>4. CASE CheckPasses
  BY <1>4 DEF CheckPasses
<1>5. CASE StopsDone
  BY <1>5 DEF StopsDone
<1>6. CASE KillSwitchDone \/ CloseDone \/ Interrupt
  BY <1>6 DEF KillSwitchDone, CloseDone, Interrupt, BeginClose
<1>7. CASE SameWindow
  BY <1>7 DEF SameWindow
<1>8. CASE StepDone
  BY <1>8 DEF StepDone
<1>9. CASE UNCHANGED vars
  BY <1>9 DEF vars
<1> HIDE DEF Other
<1> QED
  BY <1>1, <1>2, <1>3, <1>4, <1>5, <1>6, <1>7, <1>8, <1>9
     DEF QuietStep, RiskChecks, LoopEnds, Refresh, Other

\* What is tracked of a token, and what is due of it, is a number of shares.
LEMMA TrackedType ==
  ASSUME TypeOK, NEW t \in Markets
  PROVE  /\ entries[t] \in Seq(Int) /\ SeqTotal(entries[t]) \in Nat
         /\ due[t] \in Seq(Int) /\ SeqTotal(due[t]) \in Nat
         /\ pos[t] \in PositionRecord /\ pos[t].size \in Nat
         /\ t[1] \in Nat /\ window \in Nat /\ key \in Nat
<1>1. entries[t] \in Seq(Nat \ {0}) /\ due[t] \in Seq(Nat \ {0})
  BY DEF TypeOK, Tracking
<1>2. /\ entries[t] \in Seq(Nat) /\ entries[t] \in Seq(Int)
      /\ due[t] \in Seq(Nat) /\ due[t] \in Seq(Int)
  BY <1>1
<1>3. t[1] \in 1..LastWindow /\ window \in 1..LastWindow /\ key \in 1..LastWindow
  BY TradingAssumption DEF TypeOK
<1>4. pos[t] \in PositionRecord /\ pos[t].size \in Nat
  BY DEF TypeOK, PositionRecord
<1>5. t[1] \in Nat /\ window \in Nat /\ key \in Nat
  BY <1>3
<1> QED
  BY <1>2, <1>4, <1>5, SeqTotalOfNaturals

\* Nothing tracked is zero shares.
LEMMA NoEntriesTotal ==
  ASSUME NEW t \in Markets
  PROVE  SeqTotal(NoEntries[t]) = 0
<1>1. NoEntries[t] = <<>>
  BY DEF NoEntries
<1> QED
  BY <1>1, SeqTotalEmpty

\* What a roll makes of the entries of one token.
LEMMA ReconciledTotal ==
  ASSUME TypeOK, NEW t \in Markets
  PROVE  /\ SeqTotal(Reconciled[t]) \in Nat
         /\ SeqTotal(Reconciled[t]) \in {SeqTotal(entries[t]), pos[t].size}
<1>1. Reconciled[t] = IF t[1] = window /\ entries[t] = <<>> /\ pos[t].size > 0
                      THEN <<pos[t].size>> ELSE entries[t]
  BY DEF Reconciled
<1>2. pos[t].size \in Nat /\ SeqTotal(entries[t]) \in Nat
  BY TrackedType
<1>3. SeqTotal(<<pos[t].size>>) = pos[t].size
  BY <1>2, SeqTotalSingle
<1> QED
  BY <1>1, <1>2, <1>3

\* What the settlement of an entry does to the sizes: the entry is taken from what is
\* due, and from the position as far as it goes.
LEMMA SettleEntryEffect ==
  ASSUME TypeOK, NEW t \in Markets, NEW logged \in LogResults, SettleEntry(t, logged)
  PROVE  /\ Head(due[t]) <= SeqTotal(due[t]) /\ Head(due[t]) \in Nat
         /\ \A x \in Markets :
              pos'[x].size = IF x # t THEN pos[x].size
                             ELSE IF Head(due[t]) >= pos[x].size THEN 0
                             ELSE pos[x].size - Head(due[t])
         /\ logged => \A x \in Markets :
              SeqTotal(due'[x]) = IF x = t THEN SeqTotal(due[x]) - Head(due[t])
                                  ELSE SeqTotal(due[x])
<1> DEFINE n == Head(due[t])
<1>1. due[t] \in Seq(Int) /\ due[t] # <<>> /\ n \in Nat /\ due[t] \in Seq(Nat \ {0})
  BY TrackedType, SettleEntryTypes DEF SettleEntry, TypeOK, Tracking
<1>2. RecordSell(t, n, Payout(t)) /\ (logged => due' = [due EXCEPT ![t] = Tail(due[t])])
  BY DEF SettleEntry
<1>3. SeqTotal(Tail(due[t])) = SeqTotal(due[t]) - n
  BY <1>1, SeqTotalTail
<1>4. SeqTotal(Tail(due[t])) \in Nat /\ SeqTotal(due[t]) \in Nat
  <2>1. due[t] \in Seq(Nat)
    BY <1>1
  <2>2. Tail(due[t]) \in Seq(Nat)
    BY <1>1, <2>1
  <2> QED
    BY <2>1, <2>2, SeqTotalOfNaturals
<1> HIDE DEF n
<1>5. n <= SeqTotal(due[t])
  BY <1>1, <1>3, <1>4
<1>6. ASSUME NEW x \in Markets
      PROVE  /\ pos'[x].size = IF x # t THEN pos[x].size
                               ELSE IF n >= pos[x].size THEN 0 ELSE pos[x].size - n
             /\ logged => SeqTotal(due'[x]) = IF x = t THEN SeqTotal(due[x]) - n
                                               ELSE SeqTotal(due[x])
  <2>1. pos[x] \in PositionRecord
    BY <1>6, TrackedType
  <2>2. pos'[x] = IF x = t THEN AfterSell(pos[x], n) ELSE pos[x]
    BY <1>2, <1>6 DEF RecordSell, TypeOK
  <2>3. AfterSell(pos[x], n).size = IF n >= pos[x].size THEN 0 ELSE pos[x].size - n
    BY <1>1, <2>1, SizeAfterSell
  <2>4. logged => due'[x] = IF x = t THEN Tail(due[t]) ELSE due[x]
    BY <1>2, <1>6 DEF TypeOK, Tracking
  <2> QED
    BY <1>3, <2>2, <2>3, <2>4
<1>7. n = Head(due[t])
  BY DEF n
<1> QED
  BY <1>1, <1>5, <1>6, <1>7

\* The windows: the runner's key is never ahead of what the provider shows, behind it while
\* a settlement runs and level with it when signals are taken.
KeyBehind ==
  /\ key <= window
  /\ phase = "signals" => key = window
  /\ phase = "settle" => key < window

\* The tokens of the last window that was traded are covered by entries, and by what is
\* due of them while they are settled, but for those with an untracked fill; the tokens
\* of later windows are not held yet.
EntriesCover ==
  /\ \A t \in Markets : t[1] > key => pos[t].size = 0
  /\ \A t \in Markets \ untracked : t[1] = key =>
       /\ pos[t].size <= SeqTotal(entries[t])
       /\ phase = "settle" => pos[t].size <= SeqTotal(due[t])

CoverInv == KeyBehind /\ EntriesCover

LEMMA InitCoverInv == Init => CoverInv
<1> SUFFICES ASSUME Init PROVE CoverInv
  OBVIOUS
<1>1. KeyBehind
  BY DEF Init, KeyBehind
<1>2. ASSUME NEW t \in Markets PROVE pos[t].size = 0 /\ SeqTotal(entries[t]) = 0
  BY <1>2, NoEntriesTotal DEF Init, Flat
<1>3. phase # "settle"
  BY DEF Init
<1> QED
  BY <1>1, <1>2, <1>3 DEF CoverInv, EntriesCover

\* A sale makes no token larger, and changes nothing for the runner.
LEMMA SaleKeepsCover ==
  ASSUME TypeOK, CoverInv, NEW t \in Markets, NEW n \in Nat, NEW price \in Nat,
         RecordSell(t, n, price), UNCHANGED <<window, key, entries, due, untracked>>,
         phase' \in {phase, "check", "stops", "kill", "close", "crashed"}
  PROVE  CoverInv'
<1>1. ASSUME NEW x \in Markets PROVE pos'[x].size \in Nat /\ pos'[x].size <= pos[x].size
  <2>1. pos[x] \in PositionRecord /\ pos[x].size \in Nat /\ pos \in [Markets -> PositionRecord]
    BY <1>1, TrackedType DEF TypeOK
  <2>2. pos'[x] = IF x = t THEN AfterSell(pos[x], n) ELSE pos[x]
    BY <1>1, <2>1 DEF RecordSell
  <2>3. AfterSell(pos[x], n).size = IF n >= pos[x].size THEN 0 ELSE pos[x].size - n
    BY <2>1, SizeAfterSell
  <2> QED
    BY <2>1, <2>2, <2>3
<1>2. \A x \in Markets : /\ pos[x].size \in Nat
                         /\ SeqTotal(entries[x]) \in Nat /\ SeqTotal(due[x]) \in Nat
  BY TrackedType
<1>3. KeyBehind'
  BY DEF CoverInv, KeyBehind
<1>4. ASSUME NEW x \in Markets, x[1] > key' PROVE pos'[x].size = 0
  <2>1. pos[x].size = 0
    BY <1>4 DEF CoverInv, EntriesCover
  <2> QED
    BY <1>1, <2>1
<1>5. ASSUME NEW x \in Markets \ untracked', x[1] = key'
      PROVE  /\ pos'[x].size <= SeqTotal(entries'[x])
             /\ phase' = "settle" => pos'[x].size <= SeqTotal(due'[x])
  <2>1. /\ pos[x].size <= SeqTotal(entries[x])
        /\ phase = "settle" => pos[x].size <= SeqTotal(due[x])
    BY <1>5 DEF CoverInv, EntriesCover
  <2>2. phase' = "settle" => phase = "settle"
    OBVIOUS
  <2> QED
    BY <1>1, <1>2, <2>1, <2>2
<1> QED
  BY <1>3, <1>4, <1>5 DEF CoverInv, EntriesCover

\* A settled entry takes as much from what is due as it takes from the position, or
\* leaves nothing of it.
LEMMA SettleEntryKeepsCover ==
  ASSUME TypeOK, CoverInv, NEW t \in Markets, NEW logged \in LogResults, SettleEntry(t, logged)
  PROVE  CoverInv'
<1> DEFINE n == Head(due[t])
<1>1. /\ n <= SeqTotal(due[t]) /\ n \in Nat
      /\ \A x \in Markets :
           pos'[x].size = IF x # t THEN pos[x].size
                          ELSE IF n >= pos[x].size THEN 0 ELSE pos[x].size - n
      /\ logged => \A x \in Markets :
           SeqTotal(due'[x]) = IF x = t THEN SeqTotal(due[x]) - n ELSE SeqTotal(due[x])
  BY SettleEntryEffect
<1> HIDE DEF n
<1>2. /\ UNCHANGED <<window, key, entries, untracked>> /\ phase = "settle"
      /\ phase' = IF logged THEN "settle" ELSE "check"
  BY DEF SettleEntry
<1>3. \A x \in Markets : /\ pos[x].size \in Nat
                         /\ SeqTotal(entries[x]) \in Nat /\ SeqTotal(due[x]) \in Nat
  BY TrackedType
<1>4. KeyBehind'
  BY <1>2 DEF CoverInv, KeyBehind
<1>5. ASSUME NEW x \in Markets, x[1] > key' PROVE pos'[x].size = 0
  <2>1. pos[x].size = 0
    BY <1>2, <1>5 DEF CoverInv, EntriesCover
  <2> QED
    BY <1>1, <2>1
<1>6. ASSUME NEW x \in Markets \ untracked', x[1] = key'
      PROVE  /\ pos'[x].size <= SeqTotal(entries'[x])
             /\ phase' = "settle" => pos'[x].size <= SeqTotal(due'[x])
  <2>1. pos[x].size <= SeqTotal(entries[x]) /\ pos[x].size <= SeqTotal(due[x])
    BY <1>2, <1>6 DEF CoverInv, EntriesCover
  <2>2. /\ pos'[x].size = IF x # t THEN pos[x].size
                          ELSE IF n >= pos[x].size THEN 0 ELSE pos[x].size - n
        /\ logged => SeqTotal(due'[x]) = IF x = t THEN SeqTotal(due[x]) - n ELSE SeqTotal(due[x])
        /\ x = t => n <= SeqTotal(due[x])
    BY <1>1
  <2>3. pos'[x].size <= SeqTotal(entries[x])
    BY <1>1, <1>3, <2>1, <2>2
  <2>4. logged => pos'[x].size <= SeqTotal(due'[x])
    BY <1>1, <1>3, <2>1, <2>2
  <2> QED
    BY <1>2, <2>3, <2>4
<1> QED
  BY <1>4, <1>5, <1>6 DEF CoverInv, EntriesCover

\* A fill that is tracked adds the same to both; one that is not makes its token untracked.
LEMMA BuyKeepsCover ==
  ASSUME TypeOK, CoverInv, NEW source \in Traders, NEW t \in Markets, NEW price \in Prices,
         NEW n \in OrderSizes, NEW logged \in LogResults, BuySignal(source, t, price, n, logged)
  PROVE  CoverInv'
<1>1. PICK filled \in Nat \ {0}, fillPrice \in Nat :
        /\ pos' = [pos EXCEPT ![t] = AfterBuy(pos[t], filled, fillPrice)]
        /\ entries' = IF logged THEN [entries EXCEPT ![t] = Append(entries[t], filled)] ELSE entries
  BY BuyFill
<1>2. /\ t[1] = window /\ phase = "signals" /\ UNCHANGED <<window, key, due>>
      /\ phase' = IF logged THEN phase ELSE "check"
      /\ untracked' = IF logged THEN untracked ELSE untracked \cup {t}
  BY BuyFill
<1>3. SeqTotal(Append(entries[t], filled)) = SeqTotal(entries[t]) + filled
  BY TrackedType, SeqTotalAppend
<1>4. ASSUME NEW x \in Markets
      PROVE  /\ pos[x].size \in Nat /\ SeqTotal(entries[x]) \in Nat
             /\ pos'[x].size = IF x = t THEN pos[x].size + filled ELSE pos[x].size
             /\ SeqTotal(entries'[x]) = IF logged /\ x = t THEN SeqTotal(entries[x]) + filled
                                                           ELSE SeqTotal(entries[x])
  <2>1. pos[x].size \in Nat /\ SeqTotal(entries[x]) \in Nat
    BY <1>4, TrackedType
  <2>2. pos'[x].size = IF x = t THEN pos[x].size + filled ELSE pos[x].size
    BY <1>1, <1>4 DEF TypeOK, AfterBuy
  <2>3. entries'[x] = IF logged /\ x = t THEN Append(entries[t], filled) ELSE entries[x]
    BY <1>1, <1>4 DEF TypeOK, Tracking
  <2> QED
    BY <1>3, <2>1, <2>2, <2>3
<1>5. KeyBehind'
  BY <1>2 DEF CoverInv, KeyBehind
<1>6. ASSUME NEW x \in Markets, x[1] > key' PROVE pos'[x].size = 0
  <2>1. pos[x].size = 0 /\ key = window /\ key' = key
    BY <1>2, <1>6 DEF CoverInv, KeyBehind, EntriesCover
  <2>2. x # t
    BY <1>2, <1>6, <2>1, TrackedType
  <2> QED
    BY <1>4, <2>1, <2>2
<1>7. ASSUME NEW x \in Markets \ untracked', x[1] = key'
      PROVE  pos'[x].size <= SeqTotal(entries'[x])
  <2>1. x \notin untracked /\ (x = t => logged)
    BY <1>2, <1>7
  <2>2. pos[x].size <= SeqTotal(entries[x])
    BY <1>2, <1>7, <2>1 DEF CoverInv, EntriesCover
  <2> QED
    BY <1>4, <2>1, <2>2
<1>8. phase' # "settle"
  BY <1>2
<1> QED
  BY <1>5, <1>6, <1>7, <1>8 DEF CoverInv, EntriesCover

\* The steps that trade nothing: a roll makes up entries for what none tracks.
LEMMA QuietKeepsCover ==
  ASSUME TypeOK, CoverInv, QuietStep
  PROVE  CoverInv'
<1>1. UNCHANGED <<pos, untracked>>
  BY QuietTypes
<1>2. \A x \in Markets : /\ pos[x].size \in Nat /\ SeqTotal(entries[x]) \in Nat
                         /\ x[1] \in Nat /\ window \in Nat /\ key \in Nat
  BY TrackedType
<1>3. /\ key <= window /\ window \in Nat /\ key \in Nat
      /\ \A x \in Markets : x[1] > key => pos[x].size = 0
      /\ \A x \in Markets \ untracked : x[1] = key => pos[x].size <= SeqTotal(entries[x])
  BY DEF CoverInv, KeyBehind, EntriesCover, TypeOK
<1>4. ASSUME NEW answer \in Sides, Roll(answer) PROVE CoverInv'
  <2>1. /\ window' \in Shown \ {key} /\ key' = key /\ phase' = "settle"
        /\ entries' = Reconciled /\ due' = Reconciled
    BY <1>4 DEF Roll, RollDetected
  <2>2. window' \in {window, window + 1} /\ window' # key
    BY <2>1, ShownType
  <2>3. key' < window'
    BY <1>3, <2>1, <2>2
  <2>4. ASSUME NEW x \in Markets \ untracked', x[1] = key'
        PROVE  pos'[x].size <= SeqTotal(Reconciled[x])
    <3>1. pos[x].size <= SeqTotal(entries[x])
      BY <1>1, <1>3, <2>1, <2>4
    <3>2. SeqTotal(Reconciled[x]) \in {SeqTotal(entries[x]), pos[x].size}
      BY ReconciledTotal
    <3> QED
      BY <1>1, <1>2, <3>1, <3>2
  <2>5. KeyBehind'
    BY <1>3, <2>1, <2>2, <2>3 DEF KeyBehind
  <2>6. \A x \in Markets : x[1] > key' => pos'[x].size = 0
    BY <1>1, <1>3, <2>1
  <2> HIDE DEF Reconciled
  <2>7. \A x \in Markets \ untracked' : x[1] = key' =>
          /\ pos'[x].size <= SeqTotal(entries'[x])
          /\ phase' = "settle" => pos'[x].size <= SeqTotal(due'[x])
    BY <2>1, <2>4
  <2> QED
    BY <2>5, <2>6, <2>7 DEF CoverInv, EntriesCover
<1>5. CASE RollWithoutOutcome
  <2>1. /\ window' \in Shown \ {key} /\ key' = window' /\ phase' = "signals"
        /\ entries' = NoEntries
    BY <1>5 DEF RollWithoutOutcome, RollDetected
  <2>2. window' \in {window, window + 1} /\ window' # key
    BY <2>1, ShownType
  <2>3. key < key' /\ key' = window' /\ key' \in Nat
    BY <1>3, <2>1, <2>2
  <2>4. \A x \in Markets : x[1] >= key' => pos'[x].size = 0
    BY <1>1, <1>2, <1>3, <2>3
  <2>5. \A x \in Markets : SeqTotal(entries'[x]) = 0
    BY <2>1, NoEntriesTotal
  <2>6. \A x \in Markets : x[1] > key' \/ x[1] = key' => x[1] >= key'
    BY <1>2, <2>3
  <2>7. key' <= window'
    BY <2>3
  <2>8. \A x \in Markets \ untracked' : x[1] = key' => pos'[x].size <= SeqTotal(entries'[x])
    BY <2>4, <2>5, <2>6
  <2> QED
    BY <2>1, <2>3, <2>4, <2>6, <2>7, <2>8 DEF CoverInv, KeyBehind, EntriesCover
<1>6. CASE RefreshFails
  <2>1. window' \in Shown /\ phase' = "check" /\ UNCHANGED <<key, entries>>
    BY <1>6 DEF RefreshFails
  <2>2. window' \in {window, window + 1}
    BY <2>1, ShownType
  <2>3. key' <= window'
    BY <1>3, <2>1, <2>2
  <2> QED
    BY <1>1, <1>3, <2>1, <2>3 DEF CoverInv, KeyBehind, EntriesCover
<1>7. CASE SettlementDone
  <2>1. /\ phase = "settle" /\ phase' = "signals" /\ key' = window /\ window' = window
        /\ entries' = NoEntries
    BY <1>7 DEF SettlementDone
  <2>2. key < key'
    BY <2>1 DEF CoverInv, KeyBehind
  <2>3. \A x \in Markets : x[1] >= key' => pos'[x].size = 0
    BY <1>1, <1>2, <1>3, <2>1, <2>2
  <2>4. \A x \in Markets : x[1] > key' \/ x[1] = key' => x[1] >= key'
    BY <1>2, <1>3, <2>1
  <2>5. \A x \in Markets : SeqTotal(entries'[x]) = 0
    BY <2>1, NoEntriesTotal
  <2>6. \A x \in Markets \ untracked' : x[1] = key' => pos'[x].size <= SeqTotal(entries'[x])
    BY <2>3, <2>4, <2>5
  <2>7. key' <= window'
    BY <1>3, <2>1
  <2> QED
    BY <2>1, <2>3, <2>4, <2>6, <2>7 DEF CoverInv, KeyBehind, EntriesCover
<1>8. CASE /\ UNCHANGED <<window, key, entries, due>>
           /\ phase' = "settle" => phase = "settle"
           /\ phase' = "signals" => phase = "signals" \/ window = key
  BY <1>1, <1>8 DEF CoverInv, KeyBehind, EntriesCover
<1> QED
  BY <1>4, <1>5, <1>6, <1>7, <1>8, QuietCases

\* Every step keeps the cover.
LEMMA NextCoverInv ==
  ASSUME TypeOK, CoverInv, [Next]_vars
  PROVE  CoverInv'
<1>1. Sellers \subseteq Traders
  BY TradingAssumption
<1>2. ASSUME NEW t \in Markets, NEW logged \in LogResults,
             StopLossSell(t, logged) \/ KillSwitchSell(t, logged) \/ CloseOne(t, logged)
      PROVE  CoverInv'
  <2>1. PICK source \in SystemSources, n \in 0..pos[t].size, price \in ExitPrices :
          SellFromTodo(source, t, n, price)
    BY <1>2, LoopSales
  <2>2. RecordSell(t, n, price) /\ n \in Nat /\ price \in Nat
    BY <2>1, TradingAssumption, TrackedType DEF SellFromTodo
  <2>3. /\ UNCHANGED <<window, key, entries, due, untracked>>
        /\ phase' \in {"stops", "kill", "close", "crashed"}
    BY <1>2, LoopSales
  <2> QED
    BY <2>2, <2>3, SaleKeepsCover
<1>3. ASSUME NEW s \in Traders, NEW t \in Markets, NEW price \in Prices, NEW n \in OrderSizes,
             OrderFails(s, t, price, n)
      PROVE  CoverInv'
  <2>1. UNCHANGED <<pos, window, key, entries, due, untracked, phase>>
    BY <1>3 DEF OrderFails
  <2> QED
    BY <2>1 DEF CoverInv, KeyBehind, EntriesCover
<1>4. ASSUME NEW s \in Sellers, NEW t \in Markets, NEW price \in Prices, NEW n \in OrderSizes,
             NEW logged \in LogResults, SellSignal(s, t, price, n, logged)
      PROVE  CoverInv'
  <2>1. PICK filled \in Nat, fillPrice \in Nat : RecordSell(t, filled, fillPrice)
    BY <1>1, <1>4, SellFill
  <2>2. /\ UNCHANGED <<window, key, entries, due, untracked>>
        /\ phase' \in {phase, "check"}
    BY <1>1, <1>4, SellFill
  <2> QED
    BY <2>1, <2>2, SaleKeepsCover
<1> QED
  BY <1>1, <1>2, <1>3, <1>4, StepCases, QuietKeepsCover, SettleEntryKeepsCover, BuyKeepsCover

-------------------------------------------------------------------------------
(* Realized profit                                                         *)

\* In the loop no token has more entries than shares, and while a settlement runs no more
\* is due of it.
EntriesHeld ==
  /\ phase \in {"check", "stops", "refresh", "signals"} =>
       \A t \in Markets : SeqTotal(entries[t]) <= pos[t].size
  /\ phase = "settle" => \A t \in Markets : SeqTotal(due[t]) <= pos[t].size

LEMMA InitEntriesHeld == Init => EntriesHeld
<1> SUFFICES ASSUME Init PROVE EntriesHeld
  OBVIOUS
<1>1. ASSUME NEW t \in Markets PROVE pos[t].size = 0 /\ SeqTotal(entries[t]) = 0
  BY <1>1, NoEntriesTotal DEF Init, Flat
<1>2. phase = "check"
  BY DEF Init
<1> QED
  BY <1>1, <1>2 DEF EntriesHeld

\* A roll makes up entries only for what is held.
LEMMA QuietKeepsHeld ==
  ASSUME TypeOK, EntriesHeld, QuietStep
  PROVE  EntriesHeld'
<1>1. UNCHANGED pos
  BY QuietTypes
<1>2. \A x \in Markets : pos[x].size \in Nat /\ SeqTotal(entries[x]) \in Nat
  BY TrackedType
<1>3. ASSUME NEW answer \in Sides, Roll(answer) PROVE EntriesHeld'
  <2>1. due' = Reconciled /\ phase = "refresh" /\ phase' = "settle"
    BY <1>3 DEF Roll, RollDetected
  <2>2. ASSUME NEW x \in Markets PROVE SeqTotal(due'[x]) <= pos'[x].size
    <3>1. SeqTotal(entries[x]) <= pos[x].size
      BY <2>1, <2>2 DEF EntriesHeld
    <3>2. SeqTotal(due'[x]) \in {SeqTotal(entries[x]), pos[x].size}
      BY <2>1, <2>2, ReconciledTotal
    <3> QED
      BY <1>1, <1>2, <2>2, <3>1, <3>2
  <2> QED
    BY <2>1, <2>2 DEF EntriesHeld
<1>4. CASE RollWithoutOutcome \/ SettlementDone
  <2>1. phase' = "signals" /\ entries' = NoEntries
    BY <1>4 DEF RollWithoutOutcome, SettlementDone
  <2>2. \A x \in Markets : SeqTotal(entries'[x]) = 0 /\ pos'[x].size \in Nat
    BY <1>1, <1>2, <2>1, NoEntriesTotal
  <2> QED
    BY <2>1, <2>2 DEF EntriesHeld
<1>5. CASE RefreshFails
  <2>1. entries' = entries /\ phase = "refresh" /\ phase' = "check"
    BY <1>5 DEF RefreshFails
  <2> QED
    BY <1>1, <2>1 DEF EntriesHeld
<1>6. CASE /\ UNCHANGED <<window, key, entries, due>>
           /\ phase' = "settle" => phase = "settle"
           /\ phase' \in {"check", "stops", "refresh", "signals"} =>
                phase \in {"check", "stops", "refresh", "signals"}
  BY <1>1, <1>6 DEF EntriesHeld
<1> QED
  BY <1>3, <1>4, <1>5, <1>6, QuietCases

\* A settled entry was held, and takes as much from both.
LEMMA SettleEntryKeepsHeld ==
  ASSUME TypeOK, EntriesHeld, NEW t \in Markets, SettleEntry(t, TRUE), TRUE \in LogResults
  PROVE  EntriesHeld' /\ Head(due[t]) <= pos[t].size
<1> DEFINE n == Head(due[t])
<1>1. /\ n <= SeqTotal(due[t]) /\ n \in Nat
      /\ \A x \in Markets :
           pos'[x].size = IF x # t THEN pos[x].size
                          ELSE IF n >= pos[x].size THEN 0 ELSE pos[x].size - n
      /\ TRUE => \A x \in Markets :
           SeqTotal(due'[x]) = IF x = t THEN SeqTotal(due[x]) - n ELSE SeqTotal(due[x])
  BY SettleEntryEffect
<1>2. phase = "settle" /\ phase' = "settle"
  BY DEF SettleEntry
<1> HIDE DEF n
<1>3. \A x \in Markets : /\ SeqTotal(due[x]) <= pos[x].size
                         /\ pos[x].size \in Nat /\ SeqTotal(due[x]) \in Nat
  BY <1>2, TrackedType DEF EntriesHeld
<1>4. n <= pos[t].size
  BY <1>1, <1>3
<1>5. ASSUME NEW x \in Markets PROVE SeqTotal(due'[x]) <= pos'[x].size
  <2>1. /\ pos'[x].size = IF x # t THEN pos[x].size ELSE pos[x].size - n
        /\ SeqTotal(due'[x]) = IF x = t THEN SeqTotal(due[x]) - n ELSE SeqTotal(due[x])
    BY <1>1, <1>3, <1>4
  <2> QED
    BY <1>1, <1>3, <2>1
<1>6. EntriesHeld'
  BY <1>2, <1>5 DEF EntriesHeld
<1> QED
  BY <1>4, <1>6 DEF n

\* A fill adds at least as much to the position as to the entries.
LEMMA BuyKeepsHeld ==
  ASSUME TypeOK, EntriesHeld, NEW source \in Traders, NEW t \in Markets, NEW price \in Prices,
         NEW n \in OrderSizes, NEW logged \in LogResults, BuySignal(source, t, price, n, logged)
  PROVE  EntriesHeld'
<1>1. PICK filled \in Nat \ {0}, fillPrice \in Nat :
        /\ pos' = [pos EXCEPT ![t] = AfterBuy(pos[t], filled, fillPrice)]
        /\ entries' = IF logged THEN [entries EXCEPT ![t] = Append(entries[t], filled)] ELSE entries
  BY BuyFill
<1>2. phase = "signals" /\ phase' = IF logged THEN phase ELSE "check"
  BY BuyFill
<1>3. SeqTotal(Append(entries[t], filled)) = SeqTotal(entries[t]) + filled
  BY TrackedType, SeqTotalAppend
<1>4. ASSUME NEW x \in Markets PROVE SeqTotal(entries'[x]) <= pos'[x].size
  <2>1. /\ pos[x].size \in Nat /\ SeqTotal(entries[x]) \in Nat
        /\ SeqTotal(entries[x]) <= pos[x].size
    BY <1>2, <1>4, TrackedType DEF EntriesHeld
  <2>2. pos'[x].size = IF x = t THEN pos[x].size + filled ELSE pos[x].size
    BY <1>1, <1>4 DEF TypeOK, AfterBuy
  <2>3. entries'[x] = IF logged /\ x = t THEN Append(entries[t], filled) ELSE entries[x]
    BY <1>1, <1>4 DEF TypeOK, Tracking
  <2> QED
    BY <1>3, <2>1, <2>2, <2>3
<1> QED
  BY <1>2, <1>4 DEF EntriesHeld

\* A sale that does not take what an entry tracks leaves the entries held, whether it is
\* of a token without entries, of one that is not held, or of no share.
LEMMA SaleKeepsHeld ==
  ASSUME TypeOK, EntriesHeld, NEW t \in Markets, NEW n \in Nat, NEW price \in Nat,
         RecordSell(t, n, price), ~Resells(t, n), UNCHANGED entries,
         phase \in {"check", "stops", "refresh", "signals"}, phase' # "settle"
  PROVE  /\ EntriesHeld'
         /\ n <= pos[t].size \/ pos[t].size = 0
<1>1. pos[t] \in PositionRecord /\ pos[t].size \in Nat /\ pos \in [Markets -> PositionRecord]
  BY TrackedType DEF TypeOK
<1>2. n = 0 \/ pos[t].size = 0 \/ (entries[t] = <<>> /\ n <= pos[t].size)
  BY <1>1 DEF Resells
<1>3. ASSUME NEW x \in Markets PROVE SeqTotal(entries'[x]) <= pos'[x].size
  <2>1. /\ pos[x].size \in Nat /\ SeqTotal(entries[x]) \in Nat
        /\ SeqTotal(entries[x]) <= pos[x].size
    BY <1>3, TrackedType DEF EntriesHeld
  <2>2. pos'[x] = IF x = t THEN AfterSell(pos[x], n) ELSE pos[x]
    BY <1>1, <1>3 DEF RecordSell
  <2>3. AfterSell(pos[t], n).size = IF n >= pos[t].size THEN 0 ELSE pos[t].size - n
    BY <1>1, SizeAfterSell
  <2>4. CASE x # t \/ n = 0 \/ pos[t].size = 0
    BY <1>1, <2>1, <2>2, <2>3, <2>4
  <2>5. CASE x = t /\ entries[t] = <<>> /\ n <= pos[t].size
    <3>1. SeqTotal(entries[x]) = 0
      BY <2>5, SeqTotalEmpty
    <3> QED
      BY <1>1, <2>2, <2>3, <2>5, <3>1
  <2> QED
    BY <1>2, <2>4, <2>5
<1> QED
  BY <1>1, <1>2, <1>3 DEF EntriesHeld

\* The exposure changes by what one position changes.
LEMMA ExposureUpdate ==
  ASSUME TypeOK, pos' \in [Markets -> PositionRecord], NEW t \in Markets,
         \A x \in Markets : x # t => pos'[x] = pos[x]
  PROVE  /\ Exposure \in Int
         /\ Exposure' = Exposure + pos'[t].cost - pos[t].cost
<1> DEFINE f == [x \in Markets |-> Notional(pos[x])]
           h == [x \in Markets |-> Notional(pos'[x])]
<1>1. f \in [Markets -> Int] /\ h \in [Markets -> Int]
  BY SMTT(30) DEF TypeOK, PositionRecord, Notional
<1>2. \A x \in Markets : x # t => h[x] = f[x]
  OBVIOUS
<1>3. f[t] = pos[t].cost /\ h[t] = pos'[t].cost
  BY DEF Notional
<1>4. Exposure = OverMarkets(f) /\ Exposure' = OverMarkets(h)
  BY DEF Exposure, OverMarkets, MarketOrder
<1> HIDE DEF f, h
<1>5. OverMarkets(f) \in Int /\ OverMarkets(h) = OverMarkets(f) + h[t] - f[t]
  BY <1>1, <1>2, MarketsFinite, SumType, SumUpdate DEF OverMarkets, MarketOrder
<1> QED
  BY <1>3, <1>4, <1>5

\* A sale of no more than is held, or of a token that is not held.
LEMMA SaleKeepsPnl ==
  ASSUME TypeOK, RealPnl, NEW t \in Markets, NEW n \in Nat, n <= pos[t].size \/ pos[t].size = 0,
         NEW price \in Nat, RecordSell(t, n, price)
  PROVE  RealPnl'
<1>0. CASE pos[t].size = 0
  <2>1. AfterSell(pos[t], n) = pos[t] /\ RealizedOn(pos[t], n, price) = 0
    BY <1>0 DEF AfterSell, RealizedOn
  <2>2. Fewer(pos[t].size, n) = 0
    BY <1>0 DEF Fewer
  <2>3. /\ pos' = pos
        /\ realized' = realized + 0
        /\ cash' = cash + 0 * price
    BY <2>1, <2>2 DEF RecordSell, TypeOK
  <2>4. realized' = realized /\ cash' = cash
    BY <2>3 DEF TypeOK
  <2> QED
    BY <2>3, <2>4 DEF RealPnl, Exposure, OverMarkets, MarketOrder
<1> SUFFICES ASSUME n <= pos[t].size PROVE RealPnl'
  BY <1>0
<1>1. pos[t] \in PositionRecord /\ pos[t].cost \in Nat /\ pos \in [Markets -> PositionRecord]
  BY DEF TypeOK, PositionRecord
<1>2. /\ AfterSell(pos[t], n) \in PositionRecord
      /\ CapitalFreed(pos[t], n) \in Nat
      /\ AfterSell(pos[t], n).cost = pos[t].cost - CapitalFreed(pos[t], n)
  BY <1>1, SellEffect
<1>3. /\ RealizedOn(pos[t], n, price) = n * price - CapitalFreed(pos[t], n)
      /\ Fewer(pos[t].size, n) = n
  BY <1>1, SaleOfHeld
<1>4. /\ pos' = [pos EXCEPT ![t] = AfterSell(pos[t], n)]
      /\ realized' = realized + RealizedOn(pos[t], n, price)
      /\ cash' = cash + Fewer(pos[t].size, n) * price
  BY DEF RecordSell
<1>5. Exposure \in Int /\ Exposure' = Exposure + pos'[t].cost - pos[t].cost
  <2>1. pos' \in [Markets -> PositionRecord] /\ \A x \in Markets : x # t => pos'[x] = pos[x]
    BY <1>1, <1>2, <1>4
  <2> QED
    BY <2>1, ExposureUpdate
<1>6. pos'[t].cost = pos[t].cost - CapitalFreed(pos[t], n)
  BY <1>1, <1>2, <1>4
<1>7. realized \in Int /\ cash \in Int /\ n * price \in Int
  BY DEF TypeOK
<1>8. cash = realized - Exposure
  BY DEF RealPnl
<1> HIDE DEF Exposure
<1>9. cash' = realized' - Exposure'
  BY <1>1, <1>2, <1>3, <1>4, <1>5, <1>6, <1>7, <1>8
<1> QED
  BY <1>9 DEF RealPnl

\* A BUY fill turns cash into cost.
LEMMA BuyKeepsPnl ==
  ASSUME TypeOK, RealPnl, NEW source \in Traders, NEW t \in Markets, NEW price \in Prices,
         NEW n \in OrderSizes, NEW logged \in LogResults, BuySignal(source, t, price, n, logged)
  PROVE  RealPnl'
<1>1. PICK filled \in Nat \ {0}, fillPrice \in Nat :
        /\ pos' = [pos EXCEPT ![t] = AfterBuy(pos[t], filled, fillPrice)]
        /\ realized' = realized /\ cash' = cash - filled * fillPrice
        /\ entries' = IF logged THEN [entries EXCEPT ![t] = Append(entries[t], filled)] ELSE entries
  BY BuyFill
<1>2. pos[t] \in PositionRecord /\ pos[t].cost \in Nat /\ pos \in [Markets -> PositionRecord]
  BY DEF TypeOK, PositionRecord
<1>3. /\ AfterBuy(pos[t], filled, fillPrice) \in PositionRecord
      /\ AfterBuy(pos[t], filled, fillPrice).cost = pos[t].cost + filled * fillPrice
  BY <1>2, BuyEffect
<1>4. Exposure \in Int /\ Exposure' = Exposure + pos'[t].cost - pos[t].cost
  <2>1. pos' \in [Markets -> PositionRecord] /\ \A x \in Markets : x # t => pos'[x] = pos[x]
    BY <1>1, <1>2, <1>3
  <2> QED
    BY <2>1, ExposureUpdate
<1>5. pos'[t].cost = pos[t].cost + filled * fillPrice
  BY <1>1, <1>2, <1>3
<1>6. realized \in Int /\ cash \in Int /\ filled * fillPrice \in Int
  BY DEF TypeOK
<1>7. cash = realized - Exposure
  BY DEF RealPnl
<1> HIDE DEF Exposure
<1>8. cash' = realized' - Exposure'
  BY <1>1, <1>2, <1>4, <1>5, <1>6, <1>7
<1> QED
  BY <1>8 DEF RealPnl

\* As long as no sale took shares that an entry tracks, every step keeps the entries held
\* and the profit real.
PnlInv == ~resold => EntriesHeld /\ RealPnl

LEMMA NextPnlInv ==
  ASSUME TypeOK, PnlInv, [Next]_vars
  PROVE  PnlInv'
<1> SUFFICES ASSUME ~resold' PROVE EntriesHeld' /\ RealPnl'
  BY DEF PnlInv
<1>1. CASE QuietStep
  <2>1. UNCHANGED <<pos, realized, cash, resold>>
    BY <1>1, QuietTypes
  <2>2. EntriesHeld /\ RealPnl
    BY <2>1 DEF PnlInv
  <2>3. RealPnl'
    BY <2>1, <2>2 DEF RealPnl, Exposure, OverMarkets, MarketOrder
  <2> QED
    BY <1>1, <2>2, <2>3, QuietKeepsHeld
<1>2. ASSUME NEW t \in Markets, NEW logged \in LogResults,
             StopLossSell(t, logged) \/ KillSwitchSell(t, logged) \/ CloseOne(t, logged)
      PROVE  EntriesHeld' /\ RealPnl'
  <2>1. PICK source \in SystemSources, n \in 0..pos[t].size, price \in ExitPrices :
          /\ SellFromTodo(source, t, n, price)
          /\ \/ phase = "stops" /\ resold' = (resold \/ Resells(t, n))
             \/ phase' # "stops" /\ resold' = resold
    BY <1>2, LoopSales
  <2>2. RecordSell(t, n, price) /\ n \in Nat /\ n <= pos[t].size /\ price \in Nat
    BY <2>1, TradingAssumption, TrackedType DEF SellFromTodo
  <2>3. EntriesHeld /\ RealPnl
    <3>1. ~resold
      BY <2>1, Zenon
    <3> QED
      BY <3>1 DEF PnlInv
  <2>4. RealPnl'
    BY <2>2, <2>3, SaleKeepsPnl
  <2>5. /\ phase' \in {"stops", "kill", "close", "crashed"}
        /\ UNCHANGED entries
    BY <1>2, LoopSales
  <2>6. CASE phase = "stops" /\ resold' = (resold \/ Resells(t, n))
    <3>1. ~Resells(t, n)
      BY <2>6, Zenon
    <3>2. phase' # "settle"
      BY <2>5
    <3>3. EntriesHeld'
      BY <2>2, <2>3, <2>5, <2>6, <3>1, <3>2, SaleKeepsHeld
    <3> QED
      BY <2>4, <3>3
  <2>7. CASE phase' # "stops"
    BY <2>4, <2>5, <2>7 DEF EntriesHeld
  <2> QED
    BY <2>1, <2>6, <2>7
<1>3. ASSUME NEW t \in Markets, NEW logged \in LogResults, SettleEntry(t, logged)
      PROVE  EntriesHeld' /\ RealPnl'
  <2>1. logged = TRUE /\ ~resold
    <3>1. resold' = (resold \/ ~logged) /\ logged \in BOOLEAN
      BY <1>3, TradingAssumption DEF SettleEntry
    <3> QED
      BY <3>1, Zenon
  <2>2. EntriesHeld /\ RealPnl
    BY <2>1 DEF PnlInv
  <2>3. EntriesHeld' /\ Head(due[t]) <= pos[t].size
    BY <1>3, <2>1, <2>2, SettleEntryKeepsHeld
  <2>4. /\ RecordSell(t, Head(due[t]), Payout(t))
        /\ Head(due[t]) \in Nat /\ Payout(t) \in Nat
    BY <1>3, SettleEntryTypes DEF SettleEntry
  <2> HIDE DEF Payout
  <2>5. RealPnl'
    BY <2>2, <2>3, <2>4, SaleKeepsPnl
  <2> QED
    BY <2>3, <2>5
<1>4. ASSUME NEW s \in Traders, NEW t \in Markets, NEW price \in Prices, NEW n \in OrderSizes,
             OrderFails(s, t, price, n)
      PROVE  EntriesHeld' /\ RealPnl'
  <2>1. UNCHANGED <<pos, realized, cash, entries, due, phase, resold>>
    BY <1>4 DEF OrderFails
  <2>2. EntriesHeld /\ RealPnl
    BY <2>1 DEF PnlInv
  <2>3. RealPnl'
    BY <2>1, <2>2 DEF RealPnl, Exposure, OverMarkets, MarketOrder
  <2> QED
    BY <2>1, <2>2, <2>3 DEF EntriesHeld
<1>5. ASSUME NEW s \in Traders, NEW t \in Markets, NEW price \in Prices, NEW n \in OrderSizes,
             NEW logged \in LogResults, BuySignal(s, t, price, n, logged)
      PROVE  EntriesHeld' /\ RealPnl'
  <2>1. UNCHANGED resold
    BY <1>5, BuyFill
  <2>2. EntriesHeld /\ RealPnl
    BY <2>1 DEF PnlInv
  <2> QED
    BY <1>5, <2>2, BuyKeepsHeld, BuyKeepsPnl
<1>6. ASSUME NEW s \in Sellers, NEW t \in Markets, NEW price \in Prices, NEW n \in OrderSizes,
             NEW logged \in LogResults, SellSignal(s, t, price, n, logged)
      PROVE  EntriesHeld' /\ RealPnl'
  <2>1. s \in Traders
    BY TradingAssumption
  <2>2. PICK filled \in Nat, fillPrice \in Nat :
          /\ RecordSell(t, filled, fillPrice)
          /\ resold' = (resold \/ Resells(t, filled))
    BY <1>6, <2>1, SellFill
  <2>3. ~resold /\ ~Resells(t, filled)
    BY <2>2, Zenon
  <2>4. EntriesHeld /\ RealPnl
    BY <2>3 DEF PnlInv
  <2>5. /\ UNCHANGED entries /\ phase = "signals"
        /\ phase' = IF logged THEN phase ELSE "check"
    BY <1>6, <2>1, SellFill
  <2>6. phase' # "settle" /\ phase \in {"check", "stops", "refresh", "signals"}
    BY <2>5
  <2>7. EntriesHeld' /\ (filled <= pos[t].size \/ pos[t].size = 0)
    BY <2>2, <2>3, <2>4, <2>5, <2>6, SaleKeepsHeld
  <2>8. RealPnl'
    BY <2>2, <2>4, <2>7, SaleKeepsPnl
  <2> QED
    BY <2>7, <2>8
<1> QED
  BY <1>1, <1>2, <1>3, <1>4, <1>5, <1>6, StepCases

\* Before the first trade nothing is paid, received or held.
LEMMA InitPnl == Init => RealPnl
<1> SUFFICES ASSUME Init PROVE RealPnl
  OBVIOUS
<1> DEFINE f == [x \in Markets |-> Notional(pos[x])]
<1>1. f \in [Markets -> Int] /\ \A x \in Markets : f[x] = 0
  BY DEF Init, Flat, Notional
<1>2. OverMarkets(f) = 0
  <2> HIDE DEF f
  <2> QED
    BY <1>1, MarketsFinite, SumZero DEF OverMarkets, MarketOrder
<1>3. Exposure = 0
  BY <1>2 DEF Exposure
<1> QED
  BY <1>3 DEF Init, RealPnl

-------------------------------------------------------------------------------
(* Theorems                                                                *)

\* The inductive invariant of paper trading.
THEOREM Invariance ==
  ASSUME PricesOnTick
  PROVE  Spec => []IInv
<1>1. IInv /\ [Next]_vars => IInv'
  BY NextIInv
<1> QED
  BY <1>1, InitIInv, PTL DEF Spec

\* Ledgers, positions and entries keep their types: no size, cost or booked amount
\* becomes negative, whatever is sold, oversold or released.
THEOREM TypeCorrect == Spec => []TypeOK
<1>1. TypeOK /\ [Next]_vars => TypeOK'
  BY NextTypes
<1> QED
  BY <1>1, InitTypes, PTL DEF Spec

\* On every token the capital booked covers the cost of what is held.
THEOREM CostIsCovered ==
  ASSUME PricesOnTick
  PROVE  Spec => []CapitalCoversCost
<1>1. IInv => CapitalCoversCost
  BY DEF IInv, Backed, CapitalCoversCost
<1> QED
  BY <1>1, Invariance, PTL

\* The exposure is at most what is booked for the tokens, token by token.
LEMMA ExposureBound ==
  ASSUME IInv
  PROVE  /\ Exposure \in Int /\ Deployed(cap) \in Nat
         /\ Exposure <= Deployed(cap)
         /\ Deployed(cap) + Reserve <= TotalCapital
<1> DEFINE f == [t \in Markets |-> Notional(pos[t])]
<1>1. f \in [Markets -> Int] /\ cap.market \in [Markets -> Int]
  BY DEF IInv, TypeOK, PositionRecord, Notional, Ledgers
<1>2. \A t \in Markets : f[t] <= cap.market[t]
  BY DEF IInv, Backed, Notional
<1> HIDE DEF f
<1>3. OverMarkets(f) \in Int /\ OverMarkets(cap.market) \in Int
  BY <1>1, MarketsFinite, SumType DEF OverMarkets, MarketOrder
<1>4. OverMarkets(f) <= OverMarkets(cap.market)
  BY <1>1, <1>2, MarketsFinite, SumMonotonic DEF OverMarkets, MarketOrder
<1>5. Deployed(cap) \in Nat
  BY DeployedType DEF IInv, TypeOK
<1>6. OverMarkets(cap.market) <= Deployed(cap) /\ Deployed(cap) + Reserve <= TotalCapital
  BY DEF IInv, Backed
<1>7. OverMarkets(f) <= Deployed(cap)
  BY <1>3, <1>4, <1>5, <1>6
<1>8. Exposure = OverMarkets(f)
  BY DEF Exposure, f
<1> QED
  BY <1>3, <1>5, <1>6, <1>7, <1>8

\* The budgets together cover everything held, though releases may be credited to
\* a strategy that did not buy.
THEOREM ExposureIsAllocated ==
  ASSUME PricesOnTick
  PROVE  Spec => []AllocationCoversExposure
<1>1. IInv => AllocationCoversExposure
  BY ExposureBound DEF AllocationCoversExposure
<1> QED
  BY <1>1, Invariance, PTL

\* What is held at cost never reaches into the system reserve.
THEOREM ExposureLeavesReserve ==
  ASSUME PricesOnTick
  PROVE  Spec => []ExposureRespectsReserve
<1>1. IInv => ExposureRespectsReserve
  <2>1. SUFFICES ASSUME IInv PROVE ExposureRespectsReserve
    OBVIOUS
  <2> HIDE DEF Exposure, Deployed
  <2>2. /\ Exposure \in Int /\ Deployed(cap) \in Nat
        /\ Exposure <= Deployed(cap)
        /\ Deployed(cap) + Reserve <= TotalCapital
    BY <2>1, ExposureBound
  <2> QED
    BY <2>2, AllocatorAssumption DEF ExposureRespectsReserve
<1> QED
  BY <1>1, Invariance, PTL

\* The step that ends a settlement finds the tokens of the windows that ended flat, whoever
\* bought them and whatever was sold of them in between.
LEMMA SettlementDoneFlat ==
  ASSUME TypeOK, CoverInv, [Next]_vars, phase = "settle", phase' = "signals"
  PROVE  \A t \in Markets \ untracked : key <= t[1] /\ t[1] < window => pos[t].size = 0
<1>1. CASE SettlementDone
  <2>1. due = NoEntries
    BY <1>1 DEF SettlementDone
  <2>2. ASSUME NEW t \in Markets \ untracked, key <= t[1], t[1] < window PROVE pos[t].size = 0
    <3>1. /\ pos[t].size \in Nat /\ SeqTotal(due[t]) = 0
          /\ key \in Nat /\ t[1] \in Nat
      BY <2>1, TrackedType, NoEntriesTotal
    <3>2. CASE t[1] > key
      BY <3>2 DEF CoverInv, EntriesCover
    <3>3. CASE t[1] = key
      <4>1. pos[t].size <= SeqTotal(due[t])
        BY <3>3 DEF CoverInv, EntriesCover
      <4> QED
        BY <3>1, <4>1
    <3> QED
      BY <2>2, <3>1, <3>2, <3>3
  <2> QED
    BY <2>2
<1>2. CASE Refresh \/ StepDone \/ Interrupt
  BY <1>2 DEF Refresh, RefreshFails, SameWindow, RollDetected, RollWithoutOutcome, Roll, StepDone,
              Interrupt, BeginClose
<1>3. CASE RiskChecks \/ UNCHANGED vars \/ Terminated
  BY <1>3 DEF RiskChecks, AtLoopTop, CheckDrawdownFails, CheckExposureFails, CheckStopsFail,
              CheckPasses, vars, Terminated
<1>4. CASE SellLoops
  <2>1. ASSUME NEW t \in Markets, NEW logged \in LogResults,
               StopLossSell(t, logged) \/ KillSwitchSell(t, logged) \/ CloseOne(t, logged)
        PROVE  FALSE
    BY <2>1, LoopSales
  <2> QED
    BY <1>4, <2>1 DEF SellLoops, StopsDone, KillSwitchDone, BeginClose, CloseDone
<1>5. CASE Signals
  BY <1>5 DEF Signals, StepDone, OrderFails, BuySignal, SellSignal, PassesGates
<1>6. CASE \E t \in Markets, logged \in LogResults : SettleEntry(t, logged)
  BY <1>6 DEF SettleEntry
<1> QED
  BY <1>1, <1>2, <1>3, <1>4, <1>5, <1>6 DEF Next, Settlement

\* After every settlement the ended windows' tokens are flat but for those with a fill the
\* runner never heard of, for any strategies that buy and sell them, whatever steps return
\* early and however often a settlement was interrupted and begun again.
THEOREM WindowSettlesFlat == Spec => SettledWindowFlat
<1>1. Init => TypeOK /\ CoverInv
  BY InitTypes, InitCoverInv
<1>2. TypeOK /\ CoverInv /\ [Next]_vars => (TypeOK /\ CoverInv)'
  BY NextTypes, NextCoverInv
<1>3. TypeOK /\ CoverInv /\ [Next]_vars =>
        [phase = "settle" /\ phase' = "signals" =>
           \A t \in Markets \ untracked : key <= t[1] /\ t[1] < window => pos[t].size = 0]_vars
  BY SettlementDoneFlat
<1> QED
  BY <1>1, <1>2, <1>3, PTL DEF Spec, SettledWindowFlat

\* The realized profit and what the open positions cost is exactly the money paid and
\* received, through settlements, stop-losses, SELL signals, the kill switch and the
\* shutdown, whichever callbacks raise, up to the first sale that takes shares an entry
\* goes on tracking, or more than is held, or raises in a settlement: record_fill books
\* the profit of the whole fill of every later one.
THEOREM PnlIsReal == Spec => []RealUntilResold
<1>1. Init => TypeOK /\ PnlInv
  BY InitTypes, InitEntriesHeld, InitPnl DEF PnlInv
<1>2. TypeOK /\ PnlInv /\ [Next]_vars => (TypeOK /\ PnlInv)'
  BY NextTypes, NextPnlInv
<1>3. PnlInv => RealUntilResold
  BY DEF PnlInv, RealUntilResold
<1> QED
  BY <1>1, <1>2, <1>3, PTL DEF Spec
===============================================================================
