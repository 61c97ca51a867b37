--------------------------- MODULE CapitalAllocator ---------------------------
(***************************************************************************)
(* The capital allocator of oms/capital_allocator.py: every strategy asks  *)
(* it for capital before an order is placed, and it books what it grants   *)
(* twice, once under the strategy's budget key and once under the market.  *)
(*                                                                         *)
(* The allocator's state is one record, so that a handler that books and   *)
(* releases in one go (pipeline/engine.py, main.py) is written as a        *)
(* composition of the operators below.  Money is counted in cents.         *)
(***************************************************************************)
EXTENDS Integers, FiniteSets, Sums

CONSTANTS
  Strategies,    \* the source names a signal or a fill may carry
  Markets,       \* the tokens traded; the allocator calls a token a market
  Keys,          \* the budget keys
  NoKey,         \* no strategy has been granted capital on the market yet
  KeyOf,         \* _strategy_key: the budget key of a source name
  TotalCapital,  \* total_capital_usdc
  Reserve,       \* total_capital_usdc * reserve_pct
  Budget,        \* strategy_budgets.get(key, 0.20) * total_capital_usdc
  MarketCap,     \* total_capital_usdc * max_per_market_pct
  MinGrant,      \* grants below one dollar are refused
  Amounts        \* the amounts a caller asks for or gives back (a bound of the model)

ASSUME AllocatorAssumption ==
  /\ IsFiniteSet(Keys)
  /\ NoKey \notin Keys
  /\ KeyOf \in [Strategies -> Keys]
  /\ Budget \in [Keys -> Nat]
  /\ TotalCapital \in Nat
  /\ Reserve \in Nat
  /\ Reserve <= TotalCapital
  /\ MarketCap \in Nat
  /\ MinGrant \in Nat \ {0}
  /\ Amounts \subseteq Nat

VARIABLE cap     \* the allocator: [strategy, market, owner, locked]

Ledgers ==
  [strategy : [Keys -> Nat],                    \* _strategy_deployed
   market   : [Markets -> Nat],                 \* _market_deployed
   owner    : [Markets -> Keys \cup {NoKey}],   \* _market_strategy
   locked   : Nat]                              \* _locked_collateral

EmptyLedger ==
  [strategy |-> [k \in Keys |-> 0],
   market   |-> [m \in Markets |-> 0],
   owner    |-> [m \in Markets |-> NoKey],
   locked   |-> 0]

AtLeastZero(n) == IF n > 0 THEN n ELSE 0

Smaller(a, b) == IF a <= b THEN a ELSE b

-------------------------------------------------------------------------------
(* What is deployed, and what may still be granted                         *)

KeyOrder == Enumeration(Keys)

Deployed(c) == SumAlong(KeyOrder, Cardinality(Keys), c.strategy)

DeployedWithoutReserve(c) == AtLeastZero(TotalCapital - Deployed(c) - c.locked)

Available(c) == AtLeastZero(TotalCapital - Deployed(c) - c.locked - Reserve)

StrategyRoomOfOneOrder(c, k) == AtLeastZero(Budget[k])

StrategyRoom(c, k) == AtLeastZero(Budget[k] - c.strategy[k])

MarketRoom(c, m) == AtLeastZero(MarketCap - c.market[m])

\* The grant of request_capital: the least of the four limits, or nothing.
Granted(c, s, m, amount) ==
  LET room  == Smaller(Available(c), Smaller(StrategyRoom(c, KeyOf[s]), MarketRoom(c, m)))
      least == Smaller(amount, room)
  IN  IF amount <= 0 \/ least < MinGrant THEN 0 ELSE least

\* The booking half of request_capital; a refused request books nothing.
Booked(c, s, m, grant) ==
  IF grant = 0 THEN c
  ELSE [c EXCEPT !.strategy[KeyOf[s]] = @ + grant,
                 !.market[m] = @ + grant,
                 !.owner[m] = KeyOf[s]]

\* release_capital looks up who was last granted capital on the market.
ReleaseKey(c, s, m) == IF c.owner[m] = NoKey THEN KeyOf[s] ELSE c.owner[m]

Released(c, s, m, amount) ==
  [c EXCEPT !.strategy[ReleaseKey(c, s, m)] = AtLeastZero(@ - amount),
            !.market[m] = AtLeastZero(@ - amount)]

-------------------------------------------------------------------------------
(* The allocator on its own, called in any order                           *)

AllocInit == cap = EmptyLedger

RequestCapital(s, m, amount) == cap' = Booked(cap, s, m, Granted(cap, s, m, amount))

ReleaseCapital(s, m, amount) == cap' = Released(cap, s, m, amount)

\* lock_collateral has no bound of its own: the model keeps it below TotalCapital.
LockCollateral(amount) ==
  /\ cap.locked + amount <= TotalCapital
  /\ cap' = [cap EXCEPT !.locked = @ + amount]

UnlockCollateral(amount) == cap' = [cap EXCEPT !.locked = AtLeastZero(@ - amount)]

AllocNext ==
  \/ \E s \in Strategies, m \in Markets, amount \in Amounts : RequestCapital(s, m, amount)
  \/ \E s \in Strategies, m \in Markets, amount \in Amounts : ReleaseCapital(s, m, amount)
  \/ \E amount \in Amounts : LockCollateral(amount)
  \/ \E amount \in Amounts : UnlockCollateral(amount)

AllocSpec == AllocInit /\ [][AllocNext]_cap

-------------------------------------------------------------------------------
(* Properties                                                              *)

\* The allocator's dictionaries hold amounts that are never negative: a release
\* larger than what is booked (release_capital, lines 94-98) stops at zero.
AllocTypeOK == cap \in Ledgers

\* "Per-strategy budget": several source names share one budget key, and releases
\* are credited to the market's last grantee, yet no key ever exceeds its budget.
BudgetRespected == \A k \in Keys : cap.strategy[k] <= Budget[k]

\* "Per-market concentration": strategies that trade the same token share its cap.
MarketCapRespected == \A m \in Markets : cap.market[m] <= MarketCap

\* "System reserve": all keys together never reach into the reserve, though each
\* grant looks at a budget of its own and the budgets add up to more than the total.
ReserveRespected == Deployed(cap) + Reserve <= TotalCapital

\* All limits together, after any sequence of grants and releases (request_capital).
LimitsRespected == BudgetRespected /\ MarketCapRespected /\ ReserveRespected

===============================================================================
