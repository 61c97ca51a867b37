-------------------------- MODULE OrderExecutionProofs --------------------------
(***************************************************************************)
(* Proofs about OrderExecution: whatever the book, the call stays within    *)
(* the terms of FillTerms, which DryRunTradingProofs takes as given, and it *)
(* answers "nothing" only if it has placed nothing.                         *)
(*                                                                         *)
(* The argument about money: a smaller order never has a worse average      *)
(* price than a larger one (WalkAverage).  A BUY is cut to what its cost    *)
(* affords at the average of the full walk, and what is placed, in one      *)
(* order or in chunks, takes no more of the book at once than that walk.    *)
(*                                                                         *)
(* The argument about the walk: any other way to take as many shares lags   *)
(* behind it up to every level, and pays this level's price or a worse one  *)
(* for what it has still to take (WalkAhead).                               *)
(***************************************************************************)
EXTENDS OrderExecution, SumsProofs

\* For a BUY lower is better, for a SELL higher.
NoWorse(side, x, y) == IF side = "BUY" THEN x <= y ELSE y <= x

Walked(n) == [filled : 0..n, cost : Nat]

-------------------------------------------------------------------------------
(* The walk of the book                                                    *)

\* What a walk takes of one level more.
WalkOn(w, level, n) ==
  [filled |-> w.filled + Taken(level, n - w.filled),
   cost   |-> w.cost + level.price * Taken(level, n - w.filled)]

\* The recursion of WalkTo has a solution.
LEMMA WalkToDefined ==
  ASSUME NEW levs \in Seq(Level), NEW n \in Nat
  PROVE  WalkTo(levs, n) =
           [i \in 0..Len(levs) |-> IF i = 0 THEN [filled |-> 0, cost |-> 0]
                                   ELSE WalkOn(WalkTo(levs, n)[i-1], levs[i], n)]
<1> DEFINE Start == [filled |-> 0, cost |-> 0]
           Solves(t, k) == t = [i \in 0..k |-> IF i = 0 THEN Start ELSE WalkOn(t[i-1], levs[i], n)]
           S == {k \in Nat : k <= Len(levs) => \E t : Solves(t, k)}
<1>0. Len(levs) \in Nat
  OBVIOUS
<1>1. 0 \in S
  <2> DEFINE t == [i \in 0..0 |-> Start]
  <2>1. Solves(t, 0)
    OBVIOUS
  <2> QED
    BY <2>1
<1>2. ASSUME NEW k \in Nat, k \in S PROVE k + 1 \in S
  <2>1. SUFFICES ASSUME k + 1 <= Len(levs) PROVE \E t : Solves(t, k + 1)
    <3> HIDE DEF Solves
    <3> QED
      OBVIOUS
  <2>2. PICK t : Solves(t, k)
    BY <1>0, <1>2, <2>1
  <2> DEFINE u == [i \in 0..(k+1) |-> IF i = k + 1 THEN WalkOn(t[k], levs[k+1], n) ELSE t[i]]
  <2>3. ASSUME NEW i \in 0..(k+1) PROVE u[i] = IF i = 0 THEN Start ELSE WalkOn(u[i-1], levs[i], n)
    <3>1. CASE i = k + 1
      BY <3>1
    <3>2. CASE i # k + 1
      <4>1. i \in 0..k
        BY <3>2
      <4>2. t[i] = IF i = 0 THEN Start ELSE WalkOn(t[i-1], levs[i], n)
        BY <2>2, <4>1
      <4>3. i # 0 => i - 1 \in 0..(k+1) /\ i - 1 # k + 1
        BY <4>1
      <4> QED
        BY <3>2, <4>2, <4>3
    <3> QED
      BY <3>1, <3>2
  <2>4. Solves(u, k + 1)
    BY <2>3
  <2> QED
    BY <2>4
<1>3. Len(levs) \in S
  <2> HIDE DEF S
  <2> QED
    BY <1>0, <1>1, <1>2, NatSetInduction
<1>4. \E t : Solves(t, Len(levs))
  BY <1>0, <1>3
<1> QED
  BY <1>4 DEF WalkTo, WalkOn

\* The walk of the first level on.
LEMMA WalkToStep ==
  ASSUME NEW levs \in Seq(Level), NEW n \in Nat
  PROVE  /\ WalkTo(levs, n)[0] = [filled |-> 0, cost |-> 0]
         /\ \A i \in 0..Len(levs) : i + 1 \in 0..Len(levs) =>
              WalkTo(levs, n)[i+1] = WalkOn(WalkTo(levs, n)[i], levs[i+1], n)
<1> DEFINE t == WalkTo(levs, n)
<1>0. Len(levs) \in Nat
  OBVIOUS
<1>1. t = [i \in 0..Len(levs) |-> IF i = 0 THEN [filled |-> 0, cost |-> 0]
                                  ELSE WalkOn(t[i-1], levs[i], n)]
  BY WalkToDefined
<1> HIDE DEF t
<1>2. t[0] = [filled |-> 0, cost |-> 0]
  BY <1>0, <1>1
<1>3. ASSUME NEW i \in 0..Len(levs), i + 1 \in 0..Len(levs) PROVE t[i+1] = WalkOn(t[i], levs[i+1], n)
  <2>1. t[i+1] = WalkOn(t[(i+1)-1], levs[i+1], n)
    BY <1>0, <1>1, <1>3
  <2> QED
    BY <2>1, <1>0
<1> QED
  BY <1>2, <1>3 DEF t

\* One level more keeps the types, and takes no more than the level and the rest.
LEMMA WalkOnType ==
  ASSUME NEW n \in Nat, NEW w \in Walked(n), NEW level \in Level
  PROVE  /\ Taken(level, n - w.filled) \in 0..(n - w.filled)
         /\ WalkOn(w, level, n) \in Walked(n)
<1>1. w.filled \in 0..n /\ w.cost \in Nat /\ level.price \in Nat /\ level.size \in Nat
  BY DEF Walked, Level
<1>2. Taken(level, n - w.filled) \in 0..(n - w.filled)
  BY <1>1 DEF Taken
<1>3. level.price * Taken(level, n - w.filled) \in Nat
  BY <1>1, <1>2
<1> QED
  BY <1>1, <1>2, <1>3 DEF WalkOn, Walked

\* A walk takes no more than it is asked for.
LEMMA WalkToType ==
  ASSUME NEW levs \in Seq(Level), NEW n \in Nat
  PROVE  \A i \in 0..Len(levs) : WalkTo(levs, n)[i] \in Walked(n)
<1> DEFINE S == {i \in 0..Len(levs) : WalkTo(levs, n)[i] \in Walked(n)}
<1>0. Len(levs) \in Nat
  OBVIOUS
<1>1. 0 \in S
  BY <1>0, WalkToStep DEF Walked
<1>2. ASSUME NEW i \in 0..Len(levs), i + 1 \in 0..Len(levs), i \in S PROVE i + 1 \in S
  <2>1. levs[i+1] \in Level
    BY <1>0, <1>2
  <2>2. WalkTo(levs, n)[i+1] = WalkOn(WalkTo(levs, n)[i], levs[i+1], n)
    BY <1>2, WalkToStep
  <2>3. WalkOn(WalkTo(levs, n)[i], levs[i+1], n) \in Walked(n)
    BY <1>2, <2>1, WalkOnType
  <2> QED
    BY <1>2, <2>2, <2>3
<1>3. 0..Len(levs) \subseteq S
  <2> HIDE DEF S
  <2> QED
    BY <1>0, <1>1, <1>2, BoundedSetInduction
<1> QED
  BY <1>3

LEMMA WalkType ==
  ASSUME NEW levs \in Seq(Level), NEW n \in Nat
  PROVE  Walk(levs, n) \in Walked(n)
BY WalkToType, Len(levs) \in 0..Len(levs) DEF Walk

-------------------------------------------------------------------------------
(* Average prices                                                          *)

\* Cost c of f shares, none worse than p, and t shares more at p.
LEMMA CostOn ==
  ASSUME NEW side, NEW c \in Nat, NEW f \in Nat, NEW p \in Nat, NEW t \in Nat,
         NoWorse(side, c, p * f)
  PROVE  NoWorse(side, c + p * t, p * (f + t))
<1>1. p * (f + t) = p * f + p * t /\ p * f \in Nat /\ p * t \in Nat
  OBVIOUS
<1> QED
  BY <1>1 DEF NoWorse

\* The larger order takes t shares more at a price that is no better than the smaller's.
LEMMA LargerGoesOn ==
  ASSUME NEW side, NEW c \in Nat, NEW f \in Nat, NEW d \in Nat, NEW g \in Nat,
         NEW p \in Nat, NEW t \in Nat,
         NoWorse(side, c * g, d * f), NoWorse(side, c, p * f)
  PROVE  NoWorse(side, c * (g + t), (d + p * t) * f)
<1>1. /\ c * (g + t) = c * g + c * t
      /\ (d + p * t) * f = d * f + (p * f) * t
      /\ c * g \in Nat /\ c * t \in Nat /\ d * f \in Nat /\ p * f \in Nat /\ (p * f) * t \in Nat
  OBVIOUS
<1>2. NoWorse(side, c * t, (p * f) * t)
  <2>1. CASE side = "BUY"
    <3>1. c <= p * f
      BY <2>1 DEF NoWorse
    <3> QED
      BY <1>1, <2>1, <3>1 DEF NoWorse
  <2>2. CASE side # "BUY"
    <3>1. p * f <= c
      BY <2>2 DEF NoWorse
    <3> QED
      BY <1>1, <2>2, <3>1 DEF NoWorse
  <2> QED
    BY <2>1, <2>2
<1> QED
  BY <1>1, <1>2 DEF NoWorse

\* Two orders go on from the same walk, the larger for more of the same level.
LEMMA BothGoOn ==
  ASSUME NEW side, NEW c \in Nat, NEW f \in Nat, NEW p \in Nat, NEW a \in Nat, NEW b \in Nat,
         a <= b, NoWorse(side, c, p * f)
  PROVE  NoWorse(side, (c + p * a) * (f + b), (c + p * b) * (f + a))
<1> DEFINE x == b - a
<1>1. x \in Nat /\ b = a + x
  OBVIOUS
<1>2. /\ (c + p * a) * (f + b) = (c + p * a) * (f + a) + c * x + (p * a) * x
      /\ (c + p * b) * (f + a) = (c + p * a) * (f + a) + (p * f) * x + (p * a) * x
  BY <1>1
<1>3. /\ (c + p * a) * (f + a) \in Nat /\ c * x \in Nat /\ (p * a) * x \in Nat
      /\ (p * f) \in Nat /\ (p * f) * x \in Nat
  BY <1>1
<1> HIDE DEF x
<1>4. NoWorse(side, c * x, (p * f) * x)
  <2>1. CASE side = "BUY"
    <3>1. c <= p * f
      BY <2>1 DEF NoWorse
    <3> QED
      BY <1>1, <1>3, <2>1, <3>1 DEF NoWorse
  <2>2. CASE side # "BUY"
    <3>1. p * f <= c
      BY <2>2 DEF NoWorse
    <3> QED
      BY <1>1, <1>3, <2>2, <3>1 DEF NoWorse
  <2> QED
    BY <2>1, <2>2
<1> QED
  BY <1>2, <1>3, <1>4 DEF NoWorse

\* What a walk has paid so far is no worse than the price of the next level.
LEMMA WalkNoWorseThanNext ==
  ASSUME NEW side, NEW levs \in Seq(Level), BestFirst(side, levs), NEW n \in Nat
  PROVE  \A i \in 0..Len(levs) : i + 1 \in 0..Len(levs) =>
           NoWorse(side, WalkTo(levs, n)[i].cost, levs[i+1].price * WalkTo(levs, n)[i].filled)
<1> DEFINE W == WalkTo(levs, n)
           Bound(i) == NoWorse(side, W[i].cost, levs[i+1].price * W[i].filled)
           S == {i \in 0..Len(levs) : i + 1 \in 0..Len(levs) => Bound(i)}
<1>0. Len(levs) \in Nat
  OBVIOUS
<1>1. 0 \in S
  <2>1. W[0] = [filled |-> 0, cost |-> 0]
    BY WalkToStep
  <2>2. 1 \in 0..Len(levs) => levs[1] \in Level
    BY <1>0
  <2>3. 1 \in 0..Len(levs) => levs[1].price * 0 = 0
    BY <2>2 DEF Level
  <2> QED
    BY <1>0, <2>1, <2>3 DEF NoWorse
<1>2. ASSUME NEW i \in 0..Len(levs), i + 1 \in 0..Len(levs), i \in S PROVE i + 1 \in S
  <2>1. SUFFICES ASSUME i + 2 \in 0..Len(levs) PROVE Bound(i + 1)
    BY <1>0, <1>2
  <2> DEFINE w == W[i]
             q == levs[i+1].price
             r == levs[i+2].price
             t == Taken(levs[i+1], n - w.filled)
             v == W[i+1]
  <2>2. levs[i+1] \in Level /\ levs[i+2] \in Level
    BY <1>0, <1>2, <2>1
  <2>3. w \in Walked(n) /\ v \in Walked(n)
    BY <1>2, WalkToType
  <2>4. v = WalkOn(w, levs[i+1], n)
    BY <1>2, WalkToStep
  <2>5. /\ w.filled \in 0..n /\ w.cost \in Nat /\ v.filled \in 0..n /\ v.cost \in Nat
        /\ q \in Nat /\ r \in Nat
    <3> HIDE DEF w, v
    <3>1. w.filled \in 0..n /\ w.cost \in Nat /\ v.filled \in 0..n /\ v.cost \in Nat
      BY <2>3 DEF Walked
    <3>2. q \in Nat /\ r \in Nat
      BY <2>2 DEF Level
    <3> QED
      BY <3>1, <3>2
  <2>6. t \in Nat
    <3>1. t \in 0..(n - w.filled)
      BY <2>2, <2>3, WalkOnType
    <3> HIDE DEF w, t
    <3> QED
      BY <2>5, <3>1
  <2>7. NoWorse(side, w.cost, q * w.filled)
    BY <1>2
  <2>8. v.filled = w.filled + t /\ v.cost = w.cost + q * t
    BY <2>4 DEF WalkOn
  <2>9. NoWorse(side, q, r)
    BY <1>0, <1>2, <2>1 DEF BestFirst, NoWorse
  <2> HIDE DEF w, q, r, t, v
  <2>10. NoWorse(side, v.cost, q * v.filled)
    <3>1. w.filled \in Nat
      BY <2>5
    <3> QED
      BY <2>5, <2>6, <2>7, <2>8, <3>1, CostOn
  <2>11. NoWorse(side, q * v.filled, r * v.filled)
    BY <2>5, <2>9, SMTT(30) DEF NoWorse
  <2>12. q * v.filled \in Nat /\ r * v.filled \in Nat
    BY <2>5
  <2>13. NoWorse(side, v.cost, r * v.filled)
    BY <2>5, <2>10, <2>11, <2>12, SMTT(30) DEF NoWorse
  <2> QED
    BY <2>13 DEF v, r
<1>3. 0..Len(levs) \subseteq S
  <2> HIDE DEF S
  <2> QED
    BY <1>0, <1>1, <1>2, BoundedSetInduction
<1> QED
  BY <1>3

\* A smaller order has no worse an average price, and it is served or takes the same.
LEMMA WalkAverage ==
  ASSUME NEW side, NEW levs \in Seq(Level), BestFirst(side, levs),
         NEW m \in Nat, NEW n \in Nat, m <= n
  PROVE  /\ NoWorse(side, Walk(levs, m).cost * Walk(levs, n).filled,
                          Walk(levs, n).cost * Walk(levs, m).filled)
         /\ Walk(levs, m).filled = m \/ Walk(levs, m) = Walk(levs, n)
<1> DEFINE M == WalkTo(levs, m)
           N == WalkTo(levs, n)
           Average(i) == NoWorse(side, M[i].cost * N[i].filled, N[i].cost * M[i].filled)
           Same(i) == M[i].filled = m \/ M[i] = N[i]
           S == {i \in 0..Len(levs) : Average(i) /\ Same(i)}
<1>0. Len(levs) \in Nat
  OBVIOUS
<1>1. 0 \in S
  BY <1>0, WalkToStep DEF NoWorse
<1>2. ASSUME NEW i \in 0..Len(levs), i + 1 \in 0..Len(levs), i \in S PROVE i + 1 \in S
  <2> DEFINE p == levs[i+1].price
             f == M[i].filled
             c == M[i].cost
             g == N[i].filled
             d == N[i].cost
             a == Taken(levs[i+1], m - f)
             b == Taken(levs[i+1], n - g)
  <2>1. levs[i+1] \in Level
    BY <1>0, <1>2
  <2>2. /\ M[i] \in Walked(m) /\ N[i] \in Walked(n)
        /\ M[i+1] = WalkOn(M[i], levs[i+1], m) /\ N[i+1] = WalkOn(N[i], levs[i+1], n)
    BY <1>2, WalkToType, WalkToStep
  <2>3. /\ f \in 0..m /\ c \in Nat /\ g \in 0..n /\ d \in Nat
        /\ p \in Nat /\ levs[i+1].size \in Nat
    BY <2>1, <2>2 DEF Walked, Level
  <2>4. a \in 0..(m - f) /\ b \in 0..(n - g)
    BY <2>1, <2>2, WalkOnType
  <2>5. /\ M[i+1] = [filled |-> f + a, cost |-> c + p * a]
        /\ N[i+1] = [filled |-> g + b, cost |-> d + p * b]
    BY <2>2 DEF WalkOn
  <2>6. NoWorse(side, c, p * f) /\ NoWorse(side, d, p * g)
    BY <1>2, WalkNoWorseThanNext
  <2>7. NoWorse(side, c * g, d * f) /\ (f = m \/ M[i] = N[i])
    BY <1>2
  <2>8. Same(i + 1) /\ NoWorse(side, (c + p * a) * (g + b), (d + p * b) * (f + a))
    <3>1. CASE f = m
      <4>1. a = 0
        BY <2>3, <2>4, <3>1
      <4>2. NoWorse(side, c * (g + b), (d + p * b) * f)
        <5> HIDE DEF p, f, c, g, d, a, b
        <5>1. b \in Nat /\ f \in Nat /\ g \in Nat
          BY <2>3, <2>4
        <5> QED
          BY <2>3, <2>6, <2>7, <5>1, LargerGoesOn
      <4>3. c + p * a = c /\ f + a = f
        BY <2>3, <4>1
      <4> QED
        BY <2>5, <3>1, <4>2, <4>3
    <3>2. CASE M[i] = N[i]
      <4>1. c = d /\ f = g
        BY <3>2
      <4>2. a <= b /\ (a = b \/ f + a = m)
        BY <2>3, <4>1, SMTT(30) DEF Taken
      <4>3. NoWorse(side, (c + p * a) * (f + b), (c + p * b) * (f + a))
        <5> HIDE DEF p, f, c, g, d, a, b
        <5>1. b \in Nat /\ f \in Nat /\ a \in Nat
          BY <2>3, <2>4
        <5> QED
          BY <2>3, <2>6, <4>2, <5>1, BothGoOn
      <4>4. Same(i + 1)
        BY <2>5, <4>1, <4>2
      <4> QED
        BY <4>1, <4>3, <4>4
    <3> QED
      BY <2>7, <3>1, <3>2
  <2> QED
    BY <1>2, <2>5, <2>8
<1>3. 0..Len(levs) \subseteq S
  <2> HIDE DEF S
  <2> QED
    BY <1>0, <1>1, <1>2, BoundedSetInduction
<1> QED
  BY <1>0, <1>3 DEF Walk

-------------------------------------------------------------------------------
(* The terms of an order                                                   *)

\* A limit price is positive.
LEMMA LimitType ==
  ASSUME NEW price \in Nat
  PROVE  Limit(price) \in Nat /\ Limit(price) > 0
<1>1. NearestTick(price) \in Nat
  <2>1. price \div Tick \in Nat
    BY FillTermsAssumption, DivisionRoundsDown
  <2> QED
    BY <2>1 DEF NearestTick
<1>2. Tick \in Nat /\ Tick > 0 /\ One \in Nat /\ One - Tick \in Nat
  BY FillTermsAssumption
<1>3. NearestTick(price) * Tick \in Nat
  BY <1>1, <1>2
<1> HIDE DEF NearestTick
<1> QED
  BY <1>2, <1>3 DEF Limit, Smallest, Largest

\* A common factor cancels.
LEMMA Cancel ==
  ASSUME NEW x \in Int, NEW y \in Int, NEW f \in Nat, f > 0, x * f <= y * f
  PROVE  x <= y
<1>1. SUFFICES ASSUME y + 1 <= x PROVE FALSE
  OBVIOUS
<1>2. (y + 1) * f <= x * f
  BY <1>1
<1>3. (y + 1) * f = y * f + f
  OBVIOUS
<1> QED
  BY <1>2, <1>3

\* A common factor may be added.
LEMMA Scale ==
  ASSUME NEW x \in Int, NEW y \in Int, NEW f \in Nat, x <= y
  PROVE  x * f <= y * f /\ f * x <= f * y
OBVIOUS

\* n shares at an average no worse than cost / filled of the walk, no more than what the
\* order affords at that average, are within the terms.
LEMMA AverageKeepsTerms ==
  ASSUME NEW side, NEW price \in Nat, NEW size0 \in Nat, NEW size1 \in Nat,
         NEW c \in Nat, NEW f \in Nat, f > 0, NEW n \in Nat, NEW cost \in Nat,
         n <= size1, size1 <= size0,
         NoWorse(side, cost * f, c * n),
         side = "BUY" => c - f * Limit(price) <= f * MaxSlippage,
         side # "BUY" => f * Limit(price) - c <= f * MaxSlippage,
         side = "BUY" => size1 * c <= (size0 * Limit(price)) * f
  PROVE  MayFill(side, price, size0, n, cost)
<1> DEFINE L == Limit(price)
           s == MaxSlippage
<1>1. L \in Nat /\ s \in Nat
  BY LimitType, FillTermsAssumption
<1> HIDE DEF L, s
<1>2. CASE side = "BUY"
  <2>1. cost * f <= c * n /\ c - f * L <= f * s /\ size1 * c <= (size0 * L) * f
    BY <1>2 DEF NoWorse, L, s
  <2>2. cost <= size0 * L
    <3>1. n * c <= size1 * c
      BY Scale
    <3>2. n * c = c * n /\ n * c \in Nat /\ size1 * c \in Nat /\ cost * f \in Nat
          /\ (size0 * L) * f \in Nat /\ size0 * L \in Nat
      BY <1>1
    <3>3. cost * f <= (size0 * L) * f
      BY <2>1, <3>1, <3>2
    <3> QED
      BY <3>2, <3>3, Cancel
  <2>3. cost - n * L <= n * s
    <3>1. (c - f * L) * n <= (f * s) * n
      <4>1. c - f * L \in Int /\ f * s \in Int
        BY <1>1
      <4> QED
        BY <2>1, <4>1, Scale
    <3>2. /\ (c - f * L) * n = c * n - (n * L) * f
          /\ (f * s) * n = (n * s) * f
          /\ (cost - n * L) * f = cost * f - (n * L) * f
      BY <1>1
    <3>3. c * n \in Int /\ (n * L) * f \in Int /\ cost * f \in Int /\ (n * s) * f \in Int
      BY <1>1
    <3>4. (cost - n * L) * f <= (n * s) * f
      BY <2>1, <3>1, <3>2, <3>3
    <3>5. cost - n * L \in Int /\ n * s \in Int
      BY <1>1
    <3> QED
      BY <3>4, <3>5, Cancel
  <2> QED
    BY <1>2, <2>2, <2>3 DEF MayFill, L, s
<1>3. CASE side # "BUY"
  <2>1. c * n <= cost * f /\ f * L - c <= f * s
    BY <1>3 DEF NoWorse, L, s
  <2>2. n * L - cost <= n * s
    <3>1. (f * L - c) * n <= (f * s) * n
      <4>1. f * L - c \in Int /\ f * s \in Int
        BY <1>1
      <4> QED
        BY <2>1, <4>1, Scale
    <3>2. /\ (f * L - c) * n = (n * L) * f - c * n
          /\ (f * s) * n = (n * s) * f
          /\ (n * L - cost) * f = (n * L) * f - cost * f
      BY <1>1
    <3>3. c * n \in Int /\ (n * L) * f \in Int /\ cost * f \in Int /\ (n * s) * f \in Int
      BY <1>1
    <3>4. (n * L - cost) * f <= (n * s) * f
      BY <2>1, <3>1, <3>2, <3>3
    <3>5. n * L - cost \in Int /\ n * s \in Int
      BY <1>1
    <3> QED
      BY <3>4, <3>5, Cancel
  <2> QED
    BY <1>3, <2>2 DEF MayFill, L, s
<1> QED
  BY <1>2, <1>3

\* So are n shares at the limit price, as live orders are placed.
LEMMA LimitKeepsTerms ==
  ASSUME NEW side, NEW price \in Nat, NEW size0 \in Nat, NEW n \in Nat, n <= size0
  PROVE  MayFill(side, price, size0, n, n * Limit(price))
<1>1. Limit(price) \in Nat /\ MaxSlippage \in Nat
  BY LimitType, FillTermsAssumption
<1>2. n * Limit(price) <= size0 * Limit(price)
  BY <1>1, Scale
<1>3. n * MaxSlippage \in Nat /\ n * Limit(price) \in Nat
  BY <1>1
<1> QED
  BY <1>2, <1>3 DEF MayFill

\* Shares cost at least a unit each.
LEMMA WalkCosts ==
  ASSUME NEW levs \in Seq(Level), NEW n \in Nat
  PROVE  Walk(levs, n).filled <= Walk(levs, n).cost
<1> DEFINE W == WalkTo(levs, n)
           S == {i \in 0..Len(levs) : W[i].filled <= W[i].cost}
<1>0. Len(levs) \in Nat
  OBVIOUS
<1>1. 0 \in S
  BY <1>0, WalkToStep
<1>2. ASSUME NEW i \in 0..Len(levs), i + 1 \in 0..Len(levs), i \in S PROVE i + 1 \in S
  <2> DEFINE t == Taken(levs[i+1], n - W[i].filled)
             p == levs[i+1].price
  <2>1. levs[i+1] \in Level
    BY <1>0, <1>2
  <2>2. W[i] \in Walked(n) /\ W[i+1] = WalkOn(W[i], levs[i+1], n)
    BY <1>2, WalkToType, WalkToStep
  <2>3. W[i].filled \in 0..n /\ W[i].cost \in Nat /\ p \in Nat \ {0}
    BY <2>1, <2>2 DEF Walked, Level
  <2>4. t \in 0..(n - W[i].filled)
    BY <2>1, <2>2, WalkOnType
  <2>5. W[i+1].filled = W[i].filled + t /\ W[i+1].cost = W[i].cost + p * t
    BY <2>2 DEF WalkOn
  <2>6. t <= p * t
    <3> HIDE DEF t, p, W
    <3>1. t \in Nat /\ 1 <= p
      BY <2>3, <2>4
    <3>2. 1 * t <= p * t
      BY <2>3, <3>1, Scale
    <3> QED
      BY <3>1, <3>2
  <2>7. W[i].filled <= W[i].cost
    BY <1>2
  <2>8. W[i+1].filled <= W[i+1].cost
    <3> DEFINE f == W[i].filled
               c == W[i].cost
               more == p * t
    <3>1. f \in Nat /\ c \in Nat /\ t \in Nat /\ f <= c /\ t <= more
      BY <2>3, <2>4, <2>6, <2>7
    <3>2. more \in Nat
      <4> HIDE DEF t, p
      <4> QED
        BY <2>3, <3>1
    <3>3. W[i+1].filled = f + t /\ W[i+1].cost = c + more
      BY <2>5
    <3> HIDE DEF f, c, t, more
    <3>4. f + t <= c + more
      BY <3>1, <3>2
    <3> QED
      BY <3>3, <3>4
  <2> QED
    BY <1>2, <2>8
<1>3. 0..Len(levs) \subseteq S
  <2> HIDE DEF S
  <2> QED
    BY <1>0, <1>1, <1>2, BoundedSetInduction
<1> QED
  BY <1>0, <1>3 DEF Walk

-------------------------------------------------------------------------------
(* The inductive invariant                                                 *)

\* The walk the call goes by.
FullWalk == Walk(levels, Capped(request.size))

\* The book has been found good enough for the order.
Served ==
  /\ levels # NoBook
  /\ FullWalk.filled >= Share
  /\ ~SlippageTooHigh(FullWalk)

\* n shares at the average of the walk cost no more than the order at its limit.
Affords(n) ==
  request.side = "BUY" => n * FullWalk.cost <= (request.size * LimitPrice) * FullWalk.filled

\* What has been placed so far: live at the limit, on paper at the average or better.
AtGoodPrices(d) ==
  IF mode = "live" THEN d.cost = d.size * LimitPrice
  ELSE levels # NoBook => NoWorse(request.side, d.cost * FullWalk.filled, FullWalk.cost * d.size)

InPhase ==
  /\ phase = "place" => size = request.size
  /\ phase \in {"place", "single"} => done = None
  /\ phase = "single" => size <= Capped(request.size)
  /\ phase = "single" /\ levels # NoBook => Served /\ Affords(size)
  /\ phase = "chunks" =>
       /\ Served /\ Affords(size) /\ AtGoodPrices(done)
       /\ chunk = FullWalk.filled
       /\ done.size + remaining <= size
  /\ phase # "returned" => answer = "none" /\ ~lost

IInv ==
  /\ TypeOK
  /\ levels # NoBook => levels \in Seq(Level) /\ BestFirst(request.side, levels)
  /\ size <= request.size
  /\ InPhase
  /\ KeepsTerms
  /\ NothingMeansNothing

\* The types of the request, the cap and the walk.
LEMMA WalkFacts ==
  ASSUME IInv
  PROVE  /\ request.side \in {"BUY", "SELL"} /\ request.price \in Nat /\ request.size \in Nat \ {0}
         /\ LimitPrice \in Nat \ {0}
         /\ \A n \in Nat : Capped(n) \in 0..n
         /\ levels # NoBook => FullWalk \in Walked(Capped(request.size)) /\ FullWalk.filled <= FullWalk.cost
<1>1. request \in RequestRecord
  BY ExecutionAssumption DEF IInv, TypeOK
<1>2. request.side \in {"BUY", "SELL"} /\ request.price \in Nat /\ request.size \in Nat \ {0}
  BY <1>1, FillTermsAssumption DEF RequestRecord
<1>3. LimitPrice \in Nat \ {0}
  BY <1>2, LimitType DEF LimitPrice
<1>4. OrderCap \div LimitPrice \in Nat
  BY <1>3, ExecutionAssumption, DivisionRoundsDown
<1>5. \A n \in Nat : Capped(n) \in 0..n
  BY <1>4 DEF Capped, Smallest
<1>6. ASSUME levels # NoBook
      PROVE FullWalk \in Walked(Capped(request.size)) /\ FullWalk.filled <= FullWalk.cost
  <2>1. levels \in Seq(Level) /\ Capped(request.size) \in Nat
    BY <1>2, <1>5, <1>6, SMTT(30) DEF IInv
  <2> QED
    BY <2>1, WalkType, WalkCosts DEF FullWalk
<1> QED
  BY <1>2, <1>3, <1>5, <1>6

\* What the next order may take is served in full: the book has not changed.
LEMMA NextChunkServed ==
  ASSUME IInv, phase = "chunks", remaining > 0
  PROVE  NextChunk = Smallest(remaining, chunk) /\ NextChunk \in Nat /\ NextChunk <= Capped(request.size)
<1> DEFINE n == Smallest(remaining, chunk)
           N == Capped(request.size)
<1>1. /\ Served /\ chunk = FullWalk.filled /\ remaining \in Nat /\ chunk \in Nat
      /\ levels \in Seq(Level) /\ BestFirst(request.side, levels)
  BY DEF IInv, TypeOK, InPhase, Served
<1>2. N \in Nat /\ FullWalk.filled \in 0..N
  <2>1. request.size \in Nat /\ FullWalk \in Walked(N)
    BY <1>1, WalkFacts DEF Served
  <2>2. N \in 0..request.size
    BY <2>1, WalkFacts
  <2> QED
    BY <2>1, <2>2 DEF Walked
<1>3. n \in Nat /\ n <= chunk /\ n <= N
  BY <1>1, <1>2 DEF Smallest
<1>4. Walk(levels, n).filled \in 0..n
  BY <1>1, <1>3, WalkType DEF Walked
<1>5. Walk(levels, n).filled = n \/ Walk(levels, n) = FullWalk
  BY <1>1, <1>2, <1>3, WalkAverage DEF FullWalk
<1>6. Walk(levels, n).filled = n
  BY <1>1, <1>3, <1>4, <1>5
<1> QED
  BY <1>3, <1>6 DEF NextChunk

-------------------------------------------------------------------------------
(* Steps                                                                   *)

\* The cap and the resizing leave an intended size that the order affords.
LEMMA SizesAfford ==
  ASSUME IInv, BookServes(FullWalk)
  PROVE  LET n == Resized(Capped(size), FullWalk)
         IN  /\ n \in 0..request.size
             /\ \A k \in 0..n : Affords(k)
<1> DEFINE N == Capped(size)
           L == LimitPrice
           f == FullWalk.filled
           c == FullWalk.cost
           q == (N * L * f) \div c
           n == Resized(N, FullWalk)
<1>1. levels # NoBook /\ f >= Share /\ size = request.size
  BY DEF BookServes, IInv, InPhase
<1>2. N \in 0..request.size /\ request.size \in Nat /\ L \in Nat
  BY <1>1, WalkFacts
<1>3. f \in Nat /\ c \in Nat /\ c > 0
  <2>1. FullWalk \in Walked(N) /\ f <= c /\ N \in Nat
    BY <1>1, <1>2, WalkFacts
  <2>2. f \in 0..N /\ c \in Nat
    BY <2>1 DEF Walked
  <2> QED
    BY <1>1, <2>1, <2>2, ExecutionAssumption
<1> HIDE DEF N, L, f, c
<1>4. q \in Nat /\ q * c <= N * L * f
  <2>1. N * L * f \in Nat
    BY <1>2, <1>3
  <2> HIDE DEF q
  <2> QED
    BY <1>3, <2>1, DivisionRoundsDown DEF q
<1> HIDE DEF q
<1>5. n = IF request.side = "BUY" THEN Smallest(N, q) ELSE N
  BY DEF Resized, q, L, f, c
<1>6. n \in 0..request.size
  BY <1>2, <1>4, <1>5 DEF Smallest
<1>7. ASSUME NEW k \in 0..n, request.side = "BUY" PROVE k * c <= (request.size * L) * f
  <2>1. k \in Nat /\ k <= q
    BY <1>2, <1>4, <1>5, <1>6, <1>7 DEF Smallest
  <2>2. k * c <= q * c /\ k * c \in Nat /\ q * c \in Nat
    BY <1>3, <1>4, <2>1, Scale
  <2>3. (N * L) * f <= (request.size * L) * f
    <3>1. N * L <= request.size * L /\ N * L \in Nat /\ request.size * L \in Nat
      BY <1>2, Scale
    <3> QED
      BY <1>3, <3>1, Scale
  <2>4. (N * L) * f \in Nat /\ (request.size * L) * f \in Nat
    BY <1>2, <1>3
  <2> QED
    BY <1>4, <2>2, <2>3, <2>4
<1> QED
  BY <1>6, <1>7 DEF Affords, L, f, c, N

\* Nothing placed is within any terms.
LEMMA NothingKeepsTerms ==
  ASSUME NEW side, NEW price \in Nat, NEW size0 \in Nat
  PROVE  MayFill(side, price, size0, 0, 0)
<1>1. Limit(price) \in Nat
  BY LimitType
<1>2. 0 * Limit(price) = 0
  BY <1>1
<1> QED
  BY <1>2, LimitKeepsTerms

\* What good prices are good for.
LEMMA GoodPricesKeepTerms ==
  ASSUME IInv, NEW d \in Portion, d.size <= size,
         mode = "paper" => Served /\ Affords(size), AtGoodPrices(d)
  PROVE  MayFill(request.side, request.price, request.size, d.size, d.cost)
<1>1. /\ request.side \in {"BUY", "SELL"} /\ request.price \in Nat /\ request.size \in Nat
      /\ size \in Nat /\ size <= request.size /\ d.size \in Nat /\ d.cost \in Nat
      /\ mode \in {"paper", "live"}
  BY WalkFacts, ExecutionAssumption DEF IInv, TypeOK, Portion
<1>2. CASE mode = "live"
  BY <1>1, <1>2, LimitKeepsTerms DEF AtGoodPrices, LimitPrice
<1>3. CASE mode = "paper"
  <2> DEFINE c == FullWalk.cost
             f == FullWalk.filled
  <2>1. levels # NoBook /\ f >= Share /\ ~SlippageTooHigh(FullWalk) /\ Affords(size)
    BY <1>3 DEF Served
  <2>2. c \in Nat /\ f \in Nat /\ f > 0
    <3>1. FullWalk \in Walked(Capped(request.size)) /\ Capped(request.size) \in 0..request.size
      BY <1>1, <2>1, WalkFacts
    <3> QED
      BY <1>1, <2>1, <3>1, ExecutionAssumption DEF Walked
  <2>3. NoWorse(request.side, d.cost * f, c * d.size)
    BY <1>3, <2>1 DEF AtGoodPrices
  <2>4. /\ request.side = "BUY" => c - f * Limit(request.price) <= f * MaxSlippage
        /\ request.side # "BUY" => f * Limit(request.price) - c <= f * MaxSlippage
    <3>1. Limit(request.price) \in Nat /\ MaxSlippage \in Nat
      BY <1>1, LimitType, FillTermsAssumption
    <3>2. f * Limit(request.price) \in Nat /\ f * MaxSlippage \in Nat
      BY <2>2, <3>1
    <3> QED
      BY <2>1, <2>2, <3>2 DEF SlippageTooHigh, LimitPrice
  <2>5. request.side = "BUY" => size * c <= (request.size * Limit(request.price)) * f
    BY <2>1 DEF Affords, LimitPrice
  <2> HIDE DEF c, f
  <2> QED
    BY <1>1, <2>2, <2>3, <2>4, <2>5, AverageKeepsTerms
<1> QED
  BY <1>1, <1>2, <1>3

\* An order of n shares, no more than the walk served, adds no more than n at good prices.
LEMMA PortionAtGoodPrices ==
  ASSUME IInv, phase \in {"single", "chunks"}, NEW n \in Nat, n <= Capped(request.size),
         MayExecute(n), Adds(n), AtGoodPrices(done)
  PROVE  /\ done' \in Portion /\ done'.size \in (done.size + 1)..(done.size + n)
         /\ AtGoodPrices(done')
<1>1. /\ done.size \in Nat /\ done.cost \in Nat /\ mode \in {"paper", "live"}
      /\ request.size \in Nat /\ LimitPrice \in Nat /\ n > 0
  BY WalkFacts, ExecutionAssumption DEF IInv, TypeOK, Portion, MayExecute
<1>2. done' = [size |-> done.size + PortionOf(n).size, cost |-> done.cost + PortionOf(n).cost]
  BY DEF Adds
<1>4. CASE mode = "live"
  <2>1. PortionOf(n) = [size |-> n, cost |-> n * LimitPrice]
    BY <1>4 DEF PortionOf
  <2>2. n * LimitPrice \in Nat /\ (done.size + n) * LimitPrice = done.size * LimitPrice + n * LimitPrice
    BY <1>1
  <2>3. done.cost = done.size * LimitPrice
    BY <1>4 DEF AtGoodPrices
  <2>4. done' = [size |-> done.size + n, cost |-> done.cost + n * LimitPrice]
    BY <1>2, <2>1
  <2>5. done' \in Portion /\ done'.size \in (done.size + 1)..(done.size + n)
    BY <1>1, <2>2, <2>4 DEF Portion
  <2>6. done'.cost = done'.size * LimitPrice
    BY <2>2, <2>3, <2>4
  <2> QED
    BY <1>4, <2>5, <2>6 DEF AtGoodPrices
<1>5. CASE mode = "paper"
  <2> DEFINE w == Walk(levels, n)
             f == FullWalk.filled
             c == FullWalk.cost
  <2>1. levels # NoBook /\ levels \in Seq(Level) /\ BestFirst(request.side, levels) /\ w.filled > 0
    BY <1>5 DEF MayExecute, PaperFills, IInv
  <2>2. w.filled \in 1..n /\ w.cost \in Nat
    <3>1. w \in Walked(n)
      BY <2>1, WalkType
    <3> HIDE DEF w
    <3>2. w.filled \in 0..n /\ w.cost \in Nat
      BY <3>1 DEF Walked
    <3> QED
      BY <2>1, <3>2
  <2>3. f \in Nat /\ c \in Nat /\ Capped(request.size) \in Nat
    <3>1. FullWalk \in Walked(Capped(request.size)) /\ Capped(request.size) \in 0..request.size
      BY <1>1, <2>1, WalkFacts
    <3> QED
      BY <1>1, <3>1 DEF Walked
  <2>4. NoWorse(request.side, w.cost * f, c * w.filled)
    BY <2>1, <2>3, WalkAverage DEF FullWalk
  <2>5. NoWorse(request.side, done.cost * f, c * done.size)
    BY <1>5, <2>1 DEF AtGoodPrices
  <2>6. done' = [size |-> done.size + w.filled, cost |-> done.cost + w.cost]
    BY <1>2, <1>5 DEF PortionOf
  <2> HIDE DEF w, f, c
  <2>7. NoWorse(request.side, (done.cost + w.cost) * f, c * (done.size + w.filled))
    <3>1. /\ (done.cost + w.cost) * f = done.cost * f + w.cost * f
          /\ c * (done.size + w.filled) = c * done.size + c * w.filled
      BY <1>1, <2>2, <2>3
    <3>2. done.cost * f \in Nat /\ w.cost * f \in Nat /\ c * done.size \in Nat /\ c * w.filled \in Nat
      BY <1>1, <2>2, <2>3
    <3> QED
      BY <2>4, <2>5, <3>1, <3>2 DEF NoWorse
  <2>8. done' \in Portion /\ done'.size \in (done.size + 1)..(done.size + n)
    BY <1>1, <2>2, <2>6 DEF Portion
  <2> QED
    BY <1>5, <2>6, <2>7, <2>8 DEF AtGoodPrices, f, c
<1> QED
  BY <1>1, <1>4, <1>5

\* The order that a step executes ends the call or is a chunk.
LEMMA ExecutedKeepsTerms ==
  ASSUME IInv, phase \in {"single", "chunks"}, NEW n \in Nat,
         n <= Capped(request.size), done.size + n <= size,
         MayExecute(n), Adds(n),
         UNCHANGED <<mode, request, levels, size>>
  PROVE  /\ done' \in Portion /\ done' # None /\ done'.size <= done.size + n
         /\ KeepsTerms' /\ AtGoodPrices(done')
<1>1. AtGoodPrices(done)
  <2>1. CASE phase = "single"
    <3>1. done = None /\ LimitPrice \in Nat
      BY <2>1, WalkFacts DEF IInv, InPhase
    <3>2. levels # NoBook => FullWalk.filled \in Nat /\ FullWalk.cost \in Nat
      <4>1. Capped(request.size) \in 0..request.size /\ request.size \in Nat
        BY WalkFacts
      <4>2. levels # NoBook => FullWalk \in Walked(Capped(request.size))
        BY WalkFacts
      <4> QED
        BY <4>1, <4>2 DEF Walked
    <3>3. /\ done.size = 0 /\ done.cost = 0 /\ 0 * LimitPrice = 0
          /\ levels # NoBook => 0 * FullWalk.filled = 0 /\ FullWalk.cost * 0 = 0
      BY <3>1, <3>2 DEF None
    <3> QED
      BY <3>3 DEF AtGoodPrices, NoWorse
  <2>2. CASE phase = "chunks"
    BY <2>2 DEF IInv, InPhase
  <2> QED
    BY <2>1, <2>2
<1>2. /\ done' \in Portion /\ done'.size \in (done.size + 1)..(done.size + n)
      /\ AtGoodPrices(done')
  BY <1>1, PortionAtGoodPrices
<1>3. done.size \in Nat /\ size \in Nat
  BY DEF IInv, TypeOK, Portion
<1>4. done'.size <= size /\ done'.size # 0
  BY <1>2, <1>3
<1>5. mode = "paper" => Served /\ Affords(size)
  BY DEF MayExecute, PaperFills, IInv, InPhase
<1>6. KeepsTerms'
  BY <1>2, <1>4, <1>5, GoodPricesKeepTerms DEF KeepsTerms
<1> QED
  BY <1>2, <1>3, <1>4, <1>6 DEF None

\* A call begins with nothing placed.
LEMMA InitIInv == Init => IInv
<1> SUFFICES ASSUME Init PROVE IInv
  OBVIOUS
<1>1. PICK book \in Books : levels = SideOf(book, request.side)
  BY DEF Init
<1>2. request \in RequestRecord /\ request \in Requests /\ mode \in Modes
  BY ExecutionAssumption DEF Init
<1>3. request.side \in {"BUY", "SELL"} /\ request.size \in Nat /\ request.price \in Nat
  BY <1>2, FillTermsAssumption DEF RequestRecord
<1>4. levels # NoBook => levels \in Seq(Level) /\ BestFirst(request.side, levels)
  <2>1. ASSUME levels # NoBook PROVE book \in Books \ {NoBook}
    BY <1>1, <2>1 DEF SideOf
  <2> QED
    BY <1>1, <1>3, <2>1, ExecutionAssumption DEF SideOf
<1>5. KeepsTerms
  BY <1>3, NothingKeepsTerms DEF KeepsTerms, Init, None
<1>6. TypeOK
  BY <1>2, <1>3, <1>4 DEF TypeOK, Init, Portion, None
<1> QED
  BY <1>3, <1>4, <1>5, <1>6 DEF IInv, InPhase, Init, NothingMeansNothing

\* A step that ends the call without placing anything more.
LEMMA ReturnsKeepsIInv ==
  ASSUME IInv, NEW result \in {"nothing", "id"}, Return(result), result = "nothing" => done = None,
         UNCHANGED <<mode, request, levels, size, chunk, remaining, done, lost>>
  PROVE  IInv'
BY DEF IInv, TypeOK, InPhase, KeepsTerms, NothingMeansNothing, Return

\* A step that places an order and ends the call.
LEMMA LastOrderKeepsIInv ==
  ASSUME IInv, NEW result \in {"exception", "id"}, Return(result),
         phase \in {"single", "chunks"}, NEW n \in Nat,
         n <= Capped(request.size), done.size + n <= size, MayExecute(n), Adds(n),
         UNCHANGED <<mode, request, levels, size, chunk, remaining, lost>>
  PROVE  IInv'
<1>1. done' \in Portion /\ done' # None /\ KeepsTerms'
  BY ExecutedKeepsTerms
<1> QED
  BY <1>1 DEF IInv, TypeOK, InPhase, NothingMeansNothing, Return

\* A step that places an order without a reply, and ends the call.
LEMMA LostOrderKeepsIInv ==
  ASSUME IInv, NEW result \in {"nothing", "id"}, Return(result), phase \in {"single", "chunks"},
         NEW n \in Nat, n <= Capped(request.size), done.size + n <= size, ReplyLost(n)
  PROVE  IInv'
<1>1. done' \in Portion /\ KeepsTerms'
  BY ExecutedKeepsTerms DEF ReplyLost
<1> QED
  BY <1>1 DEF IInv, TypeOK, InPhase, NothingMeansNothing, Return, ReplyLost

\* What a single order places is within what the walk served.
LEMMA SingleSize ==
  ASSUME IInv, phase = "single"
  PROVE  size \in Nat /\ size <= Capped(request.size) /\ done.size + size <= size
BY DEF IInv, TypeOK, InPhase, None

\* So is what a chunk places.
LEMMA ChunkSize ==
  ASSUME IInv, phase = "chunks", remaining > 0
  PROVE  /\ NextChunk \in Nat /\ NextChunk <= Capped(request.size) /\ NextChunk <= remaining
         /\ done.size + NextChunk <= size
<1>1. NextChunk = Smallest(remaining, chunk) /\ NextChunk \in Nat /\ NextChunk <= Capped(request.size)
  BY NextChunkServed
<1>2. remaining \in Nat /\ chunk \in Nat /\ done.size \in Nat /\ size \in Nat /\ done.size + remaining <= size
  BY DEF IInv, TypeOK, InPhase, Portion
<1> QED
  BY <1>1, <1>2 DEF Smallest

\* The walk does not depend on the progress of the call.
LEMMA SameWalk ==
  ASSUME UNCHANGED <<mode, request, levels>>
  PROVE  /\ LimitPrice' = LimitPrice /\ FullWalk' = FullWalk /\ Served' = Served
         /\ \A n : Capped(n)' = Capped(n)
         /\ Affords(size') = Affords(size)'
         /\ AtGoodPrices(done)' = AtGoodPrices(done')
BY DEF LimitPrice, FullWalk, Served, Capped, SlippageTooHigh, Affords, AtGoodPrices

\* Every step of the call keeps the invariant.
LEMMA StepKeepsIInv == IInv /\ [Next]_vars => IInv'
<1> SUFFICES ASSUME IInv, [Next]_vars PROVE IInv'
  OBVIOUS
<1>1. CASE Refused
  <2>1. done = None
    BY <1>1 DEF Refused, IInv, InPhase
  <2> QED
    BY <1>1, <2>1, ReturnsKeepsIInv DEF Refused
<1>2. CASE BookRefuses
  <2>1. done = None
    BY <1>2 DEF BookRefuses, IInv, InPhase
  <2> QED
    BY <1>2, <2>1, ReturnsKeepsIInv DEF BookRefuses
<1>3. CASE WithoutBook
  <2>1. size' = Capped(size) /\ size = request.size /\ phase' = "single" /\ done = None /\ levels = NoBook
    BY <1>3 DEF WithoutBook, IInv, InPhase
  <2>2. UNCHANGED <<mode, request, levels, chunk, remaining, done, answer, lost>>
    BY <1>3 DEF WithoutBook
  <2>3. size' \in 0..request.size
    BY <2>1, WalkFacts
  <2>4. size' <= Capped(request.size)'
    BY <2>1, <2>2, <2>3, SameWalk
  <2>5. KeepsTerms' /\ answer = "none" /\ ~lost
    BY <1>3, <2>2 DEF WithoutBook, IInv, InPhase, KeepsTerms
  <2>6. TypeOK'
    BY <2>1, <2>2, <2>3 DEF IInv, TypeOK
  <2>7. InPhase'
    BY <2>1, <2>2, <2>4, <2>5 DEF InPhase
  <2> QED
    BY <2>2, <2>3, <2>5, <2>6, <2>7 DEF IInv, NothingMeansNothing
<1>4. CASE TakesDepth
  <2> DEFINE n == Resized(Capped(size), FullWalk)
             k == Smallest(n, FullWalk.filled)
  <2>1. /\ BookServes(FullWalk) /\ size' = Capped(k) /\ phase' = "single"
        /\ size = request.size /\ done = None /\ answer = "none" /\ ~lost
        /\ UNCHANGED <<mode, request, levels, chunk, remaining, done, answer, lost>>
    BY <1>4 DEF TakesDepth, BookServes, IInv, InPhase, FullWalk
  <2>2. n \in 0..request.size /\ (\A m \in 0..n : Affords(m)) /\ request.size \in Nat
    BY <2>1, SizesAfford, WalkFacts
  <2>3. FullWalk.filled \in 0..Capped(request.size) /\ Capped(request.size) \in Nat
    <3>1. FullWalk \in Walked(Capped(request.size)) /\ Capped(request.size) \in 0..request.size
      BY <2>1, <2>2, WalkFacts DEF BookServes
    <3> QED
      BY <2>2, <3>1 DEF Walked
  <2>4. k \in 0..n /\ k \in Nat /\ k <= Capped(request.size)
    BY <2>2, <2>3 DEF Smallest
  <2>5. Capped(k) \in 0..k
    BY <2>4, WalkFacts
  <2>6. size' \in 0..n /\ size' \in Nat /\ size' <= request.size /\ size' <= Capped(request.size)
    BY <2>1, <2>2, <2>3, <2>4, <2>5
  <2>7. Served /\ Affords(size')
    BY <2>1, <2>2, <2>6 DEF Served, BookServes
  <2>8. TypeOK' /\ KeepsTerms'
    BY <2>1, <2>6 DEF IInv, TypeOK, KeepsTerms
  <2>9. InPhase'
    BY <2>1, <2>6, <2>7, SameWalk DEF InPhase
  <2> QED
    BY <2>1, <2>6, <2>8, <2>9 DEF IInv, NothingMeansNothing
<1>5. CASE SplitsInChunks
  <2> DEFINE n == Resized(Capped(size), FullWalk)
  <2>1. /\ BookServes(FullWalk) /\ size' = n /\ remaining' = n /\ chunk' = FullWalk.filled
        /\ phase' = "chunks" /\ size = request.size /\ done = None /\ answer = "none" /\ ~lost
        /\ UNCHANGED <<mode, request, levels, done, answer, lost>>
    BY <1>5 DEF SplitsInChunks, BookServes, IInv, InPhase, FullWalk
  <2>2. n \in 0..request.size /\ (\A m \in 0..n : Affords(m)) /\ request.size \in Nat
    BY <2>1, SizesAfford, WalkFacts
  <2>3. FullWalk.filled \in Nat /\ FullWalk.cost \in Nat /\ LimitPrice \in Nat
    <3>1. FullWalk \in Walked(Capped(request.size)) /\ Capped(request.size) \in 0..request.size
      BY <2>1, <2>2, WalkFacts DEF BookServes
    <3>2. LimitPrice \in Nat
      BY WalkFacts
    <3> QED
      BY <2>2, <3>1, <3>2 DEF Walked
  <2>4. size' \in Nat /\ size' <= request.size /\ Served /\ Affords(size')
    BY <2>1, <2>2 DEF Served, BookServes
  <2>5. AtGoodPrices(done)
    <3>1. 0 * LimitPrice = 0 /\ 0 * FullWalk.filled = 0 /\ FullWalk.cost * 0 = 0
      BY <2>3
    <3>2. done.size = 0 /\ done.cost = 0
      BY <2>1 DEF None
    <3> QED
      BY <3>1, <3>2 DEF AtGoodPrices, NoWorse
  <2>6. TypeOK' /\ KeepsTerms'
    BY <2>1, <2>2, <2>3, <2>4 DEF IInv, TypeOK, KeepsTerms
  <2>7. done'.size + remaining' <= size'
    BY <2>1, <2>4 DEF None
  <2>8. InPhase'
    BY <2>1, <2>4, <2>5, <2>7, SameWalk DEF InPhase
  <2> QED
    BY <2>1, <2>4, <2>6, <2>8 DEF IInv, NothingMeansNothing
<1>6. CASE SingleSucceeds
  BY <1>6, SingleSize, LastOrderKeepsIInv DEF SingleSucceeds
<1>7. CASE SingleFails
  <2>1. done = None
    BY <1>7 DEF SingleFails, IInv, InPhase
  <2> QED
    BY <1>7, <2>1, ReturnsKeepsIInv DEF SingleFails
<1>13. CASE SingleLost
  BY <1>13, SingleSize, LostOrderKeepsIInv DEF SingleLost
<1>8. CASE SingleRaises
  BY <1>8, SingleSize, LastOrderKeepsIInv DEF SingleRaises, Raises
<1>9. CASE ChunkPlaced
  <2>1. /\ phase = "chunks" /\ remaining > 0 /\ MayExecute(NextChunk) /\ Adds(NextChunk)
        /\ remaining' = remaining - NextChunk
        /\ UNCHANGED <<mode, request, levels, size, chunk, answer, lost, phase>>
    BY <1>9 DEF ChunkPlaced, RemainingLess
  <2>2. /\ NextChunk \in Nat /\ NextChunk <= Capped(request.size) /\ NextChunk <= remaining
        /\ done.size + NextChunk <= size
    BY <2>1, ChunkSize
  <2>3. /\ done' \in Portion /\ done'.size <= done.size + NextChunk
        /\ KeepsTerms' /\ AtGoodPrices(done')
    BY <2>1, <2>2, ExecutedKeepsTerms
  <2>4. /\ remaining \in Nat /\ done.size \in Nat /\ size \in Nat
        /\ done.size + remaining <= size /\ Served /\ Affords(size) /\ chunk = FullWalk.filled
        /\ answer = "none" /\ ~lost
    BY <2>1 DEF IInv, TypeOK, InPhase, Portion
  <2>5. remaining' \in Nat /\ done'.size \in Nat /\ done'.size + remaining' <= size'
    <3>1. done'.size \in Nat
      BY <2>3 DEF Portion
    <3> QED
      BY <2>1, <2>2, <2>3, <2>4, <3>1
  <2>6. TypeOK'
    BY <2>1, <2>3, <2>5 DEF IInv, TypeOK
  <2>7. InPhase'
    BY <2>1, <2>3, <2>4, <2>5, SameWalk DEF InPhase
  <2> QED
    BY <2>1, <2>3, <2>4, <2>6, <2>7 DEF IInv, NothingMeansNothing
<1>10. CASE ChunkRaises
  BY <1>10, ChunkSize, LastOrderKeepsIInv DEF ChunkRaises, Raises
<1>14. CASE ChunkLost
  <2>1. FirstChunk \in {"nothing", "id"} /\ phase = "chunks" /\ remaining > 0
    BY <1>14 DEF ChunkLost, FirstChunk
  <2> QED
    BY <1>14, <2>1, ChunkSize, LostOrderKeepsIInv DEF ChunkLost
<1>11. CASE ChunksEnd
  <2>1. FirstChunk \in {"nothing", "id"} /\ (FirstChunk = "nothing" => done = None)
    BY DEF FirstChunk
  <2> QED
    BY <1>11, <2>1, ReturnsKeepsIInv DEF ChunksEnd
<1>12. CASE UNCHANGED vars
  BY <1>12 DEF vars, IInv, TypeOK, InPhase, KeepsTerms, NothingMeansNothing, Served, Affords,
               AtGoodPrices, FullWalk, LimitPrice, Capped, SlippageTooHigh
<1> QED
  BY <1>1, <1>2, <1>3, <1>4, <1>5, <1>6, <1>7, <1>8, <1>9, <1>10, <1>11, <1>12, <1>13, <1>14 DEF Next, Returned

\* Types of the call; what the chunks leave to place never becomes negative.
THEOREM ExecutionTypeCorrect == Spec => []TypeOK
<1>1. IInv => TypeOK
  BY DEF IInv
<1> QED
  BY InitIInv, StepKeepsIInv, <1>1, PTL DEF Spec

\* Whatever the book, the cap, the resizing and the chunks, what is placed keeps the terms
\* that DryRunTrading takes of place_order (execution.py:472-574), and an answer without an
\* id means that nothing was placed, so that the pipeline may give the grant back
\* (engine.py:84-102), but for a live order whose reply was lost (execution.py:669-671).
THEOREM TermsAreKept == Spec => []OrderKept
<1>1. IInv => OrderKept
  BY DEF IInv, OrderKept
<1> QED
  BY InitIInv, StepKeepsIInv, <1>1, PTL DEF Spec

-------------------------------------------------------------------------------
(* The best way to take of the book.  Any other way to take as many shares  *)
(* has at every level taken no more than the walk has, so what it has still *)
(* to take it takes at prices that are no better (WalkAhead).               *)

\* The further one adds up natural numbers, the more it is.
LEMMA PartialSumsGrow ==
  ASSUME NEW n \in Nat, NEW g \in [1..n -> Nat], NEW i \in 0..n
  PROVE  PartialSums(g, n)[i] <= PartialSums(g, n)[n]
<1> DEFINE S == {j \in 0..n : i <= j => PartialSums(g, n)[i] <= PartialSums(g, n)[j]}
<1>1. /\ g \in [1..n -> Int]
      /\ \A j \in 0..n : PartialSums(g, n)[j] \in Int
  <2>1. g \in [1..n -> Int]
    OBVIOUS
  <2> QED
    BY <2>1, PartialSumsType
<1>2. 0 \in S
  BY <1>1
<1>3. ASSUME NEW j \in 0..n, j + 1 \in 0..n, j \in S PROVE j + 1 \in S
  <2>1. g[j+1] \in Nat
    BY <1>3
  <2>2. PartialSums(g, n)[j+1] = PartialSums(g, n)[j] + g[j+1]
    BY <1>1, <1>3, PartialSumsStep
  <2>3. CASE i <= j
    BY <1>1, <1>3, <2>1, <2>2, <2>3
  <2>4. CASE i = j + 1
    BY <1>1, <1>3, <2>4
  <2> QED
    BY <1>3, <2>3, <2>4
<1>4. 0..n \subseteq S
  <2> HIDE DEF S
  <2> QED
    BY <1>2, <1>3, BoundedSetInduction
<1> QED
  BY <1>4

\* The walk has taken what is there, as far as it was asked for.
LEMMA WalkTakesDepth ==
  ASSUME NEW levs \in Seq(Level), NEW n \in Nat, NEW g \in [1..Len(levs) -> Nat],
         \A i \in 1..Len(levs) : g[i] = levs[i].size
  PROVE  \A i \in 0..Len(levs) :
           WalkTo(levs, n)[i].filled = Smallest(n, PartialSums(g, Len(levs))[i])
<1> DEFINE L == Len(levs)
           D(i) == PartialSums(g, L)[i]
           W(i) == WalkTo(levs, n)[i]
           S == {i \in 0..L : D(i) \in Nat /\ W(i).filled = Smallest(n, D(i))}
<1>1. L \in Nat /\ g \in [1..L -> Int]
  OBVIOUS
<1>2. 0 \in S
  <2>1. D(0) = 0 /\ W(0).filled = 0
    BY <1>1, PartialSumsStep, WalkToStep
  <2> QED
    BY <1>1, <2>1 DEF Smallest
<1>3. ASSUME NEW i \in 0..L, i + 1 \in 0..L, i \in S PROVE i + 1 \in S
  <2> DEFINE z == levs[i+1].size
  <2>1. i + 1 \in 1..L /\ z \in Nat /\ g[i+1] = z
    BY <1>1, <1>3 DEF Level
  <2>2. D(i+1) = D(i) + z
    BY <1>1, <1>3, <2>1, PartialSumsStep
  <2>3. W(i+1) = WalkOn(W(i), levs[i+1], n)
    BY <1>3, WalkToStep
  <2>4. W(i+1).filled = W(i).filled + (IF z <= n - W(i).filled THEN z ELSE n - W(i).filled)
    BY <2>3 DEF WalkOn, Taken
  <2>5. D(i) \in Nat /\ W(i).filled = Smallest(n, D(i))
    BY <1>3
  <2> HIDE DEF D, W, z
  <2> QED
    BY <1>3, <2>1, <2>2, <2>4, <2>5 DEF Smallest
<1>4. 0..L \subseteq S
  <2> HIDE DEF S, L
  <2> QED
    BY <1>1, <1>2, <1>3, BoundedSetInduction
<1> QED
  BY <1>4

\* The walk costs w and has d shares more than another way, which costs v and has to take
\* them at p or worse; the next level has the price q.
LEMMA WalkStaysAhead ==
  ASSUME NEW side, NEW w \in Int, NEW v \in Int, NEW d \in Nat, NEW p \in Nat, NEW q \in Nat,
         NEW t \in Nat, NEW k \in Nat, d + t - k \in Nat,
         NoWorse(side, w, v + p * d), NoWorse(side, p, q)
  PROVE  NoWorse(side, w + q * t, v + q * k + q * (d + t - k))
<1>1. /\ q * (d + t - k) = q * d + q * t - q * k
      /\ p * d \in Nat /\ q * d \in Nat /\ q * t \in Nat /\ q * k \in Nat
  OBVIOUS
<1>2. NoWorse(side, p * d, q * d)
  <2>1. CASE side = "BUY"
    <3>1. p <= q
      BY <2>1 DEF NoWorse
    <3> QED
      BY <2>1, <3>1, Scale DEF NoWorse
  <2>2. CASE side # "BUY"
    <3>1. q <= p
      BY <2>2 DEF NoWorse
    <3> QED
      BY <2>2, <3>1, Scale DEF NoWorse
  <2> QED
    BY <2>1, <2>2
<1> QED
  BY <1>1, <1>2 DEF NoWorse

LEMMA WalkAhead ==
  ASSUME NEW side, NEW levs \in Seq(Level), BestFirst(side, levs), NEW n \in Nat,
         NEW take \in [1..Len(levs) -> Nat], NEW paid \in [1..Len(levs) -> Int],
         \A i \in 1..Len(levs) : take[i] <= levs[i].size /\ paid[i] = levs[i].price * take[i],
         PartialSums(take, Len(levs))[Len(levs)] = Walk(levs, n).filled
  PROVE  NoWorse(side, Walk(levs, n).cost, PartialSums(paid, Len(levs))[Len(levs)])
<1> DEFINE L == Len(levs)
           depth == [i \in 1..L |-> levs[i].size]
           D(i) == PartialSums(depth, L)[i]
           C(i) == PartialSums(take, L)[i]
           V(i) == PartialSums(paid, L)[i]
           F(i) == WalkTo(levs, n)[i].filled
           W(i) == WalkTo(levs, n)[i].cost
           p(i) == levs[i].price
           S == {i \in 0..L : i > 0 => NoWorse(side, W(i), V(i) + p(i) * (F(i) - C(i)))}
<1>1. /\ L \in Nat /\ take \in [1..L -> Int] /\ depth \in [1..L -> Nat] /\ depth \in [1..L -> Int]
      /\ \A i \in 1..L : levs[i] \in Level /\ p(i) \in Nat
  <2>1. L \in Nat /\ \A i \in 1..L : levs[i] \in Level
    OBVIOUS
  <2>2. \A i \in 1..L : levs[i].size \in Nat /\ levs[i].price \in Nat
    BY <2>1 DEF Level
  <2>3. depth \in [1..L -> Nat]
    BY <2>2
  <2>4. depth \in [1..L -> Int] /\ take \in [1..L -> Int]
    BY <2>2
  <2> QED
    BY <2>1, <2>2, <2>3, <2>4
<1>2. \A i \in 0..L : C(i) \in Int /\ V(i) \in Int /\ D(i) \in Int /\ F(i) \in Nat /\ W(i) \in Nat
  <2>1. \A i \in 0..L : C(i) \in Int /\ V(i) \in Int /\ D(i) \in Int
    BY <1>1, PartialSumsType
  <2>2. \A i \in 0..L : WalkTo(levs, n)[i] \in Walked(n)
    BY WalkToType
  <2>3. \A i \in 0..L : F(i) \in Nat /\ W(i) \in Nat
    BY <2>2 DEF Walked
  <2> HIDE DEF C, V, D, F, W, L
  <2> QED
    BY <2>1, <2>3
<1>3. \A i \in 0..L : F(i) - C(i) \in Nat
  <2> TAKE i \in 0..L
  <2>1. C(i) <= D(i)
    BY <1>1, PartialSumsMonotonic
  <2>2. C(i) <= C(L)
    BY <1>1, PartialSumsGrow
  <2>3. C(L) = F(L) /\ F(L) <= n
    <3>1. Walk(levs, n) \in Walked(n)
      BY WalkType
    <3> QED
      BY <3>1 DEF Walk, Walked
  <2>4. F(i) = Smallest(n, D(i))
    BY <1>1, WalkTakesDepth
  <2> HIDE DEF C, D, F, L
  <2>5. L \in 0..L
    BY <1>1
  <2> QED
    BY <1>2, <2>1, <2>2, <2>3, <2>4, <2>5 DEF Smallest
<1>4. C(0) = 0 /\ V(0) = 0 /\ F(0) = 0 /\ W(0) = 0
  <2>1. C(0) = 0 /\ V(0) = 0
    BY <1>1, PartialSumsStep
  <2>2. F(0) = 0 /\ W(0) = 0
    BY WalkToStep
  <2> QED
    BY <2>1, <2>2
<1>5. ASSUME NEW i \in 0..L, i + 1 \in 0..L, i \in S PROVE i + 1 \in S
  <2> DEFINE t == Taken(levs[i+1], n - F(i))
             k == take[i+1]
             q == p(i+1)
             d == F(i) - C(i)
  <2>1. i + 1 \in 1..L /\ k \in Nat /\ q \in Nat
    BY <1>1, <1>5
  <2>2. /\ F(i+1) = F(i) + t /\ W(i+1) = W(i) + q * t
    <3>1. WalkTo(levs, n)[i+1] = WalkOn(WalkTo(levs, n)[i], levs[i+1], n)
      BY <1>5, WalkToStep
    <3> QED
      BY <3>1 DEF WalkOn
  <2>3. t \in Nat
    <3>1. WalkTo(levs, n)[i] \in Walked(n) /\ levs[i+1] \in Level
      BY <1>1, <2>1, WalkToType
    <3>2. t \in 0..(n - F(i))
      BY <3>1, WalkOnType
    <3> QED
      BY <3>2
  <2>4. C(i+1) = C(i) + k
    BY <1>1, <1>5, PartialSumsStep
  <2>5. V(i+1) = V(i) + q * k
    BY <1>1, <1>5, <2>1, PartialSumsStep
  <2>6. d \in Nat /\ F(i+1) - C(i+1) \in Nat
    BY <1>3, <1>5
  <2>7. V(i) \in Int /\ W(i) \in Int /\ F(i) \in Int /\ C(i) \in Int
    <3>1. V(i) \in Int /\ C(i) \in Int
      <4> HIDE DEF V, W, F, C, D, S
      <4> QED
        BY <1>2
    <3>2. W(i) \in Nat /\ F(i) \in Nat
      <4> HIDE DEF V, W, F, C, D, S
      <4> QED
        BY <1>2
    <3> HIDE DEF V, W, F, C, D, S
    <3> QED
      BY <3>1, <3>2
  <2>8. i > 0 => p(i) \in Nat /\ NoWorse(side, W(i), V(i) + p(i) * d) /\ NoWorse(side, p(i), q)
    <3> SUFFICES ASSUME i > 0
                 PROVE  p(i) \in Nat /\ NoWorse(side, W(i), V(i) + p(i) * d) /\ NoWorse(side, p(i), q)
      OBVIOUS
    <3>1. i \in 1..(L - 1) /\ i \in 1..L
      BY <1>1, <1>5
    <3>2. NoWorse(side, p(i), q)
      BY <3>1 DEF BestFirst, NoWorse
    <3>3. NoWorse(side, W(i), V(i) + p(i) * d)
      BY <1>5
    <3>4. p(i) \in Nat
      BY <1>1, <3>1
    <3> QED
      BY <3>2, <3>3, <3>4
  <2> HIDE DEF t, k, q, d, F, C, W, V, p, L
  <2>9. F(i+1) - C(i+1) = d + t - k
    BY <2>1, <2>2, <2>3, <2>4, <2>7 DEF d
  <2>10. NoWorse(side, W(i) + q * t, V(i) + q * k + q * (d + t - k))
    <3>1. CASE i > 0
      BY <2>1, <2>3, <2>6, <2>7, <2>8, <2>9, <3>1, WalkStaysAhead
    <3>2. CASE i = 0
      <4>1. W(i) = 0 /\ V(i) = 0 /\ d = 0
        BY <1>4, <3>2 DEF d
      <4>2. NoWorse(side, W(i), V(i) + q * d) /\ NoWorse(side, q, q)
        BY <2>1, <4>1 DEF NoWorse
      <4> QED
        BY <2>1, <2>3, <2>6, <2>7, <2>9, <4>2, WalkStaysAhead
    <3> QED
      BY <1>5, <3>1, <3>2
  <2>11. NoWorse(side, W(i+1), V(i+1) + q * (F(i+1) - C(i+1)))
    BY <2>2, <2>5, <2>9, <2>10
  <2> QED
    BY <1>5, <2>11 DEF q
<1>6. 0..L \subseteq S
  <2>1. 0 \in S
    BY <1>1
  <2> HIDE DEF S, L
  <2> QED
    BY <1>1, <1>5, <2>1, BoundedSetInduction
<1>7. C(L) = F(L) /\ Walk(levs, n).cost = W(L)
  BY DEF Walk
<1>8. L \in 0..L
  BY <1>1
<1>9. CASE L = 0
  BY <1>4, <1>7, <1>9 DEF NoWorse
<1>10. CASE L > 0
  <2>1. NoWorse(side, W(L), V(L) + p(L) * (F(L) - C(L)))
    BY <1>6, <1>8, <1>10
  <2>2. V(L) \in Int /\ p(L) \in Nat /\ F(L) \in Int
    <3>1. L \in 1..L
      BY <1>1, <1>10
    <3> HIDE DEF V, p, F, C, D, W, S
    <3>2. V(L) \in Int /\ F(L) \in Nat
      BY <1>2, <1>8
    <3>3. p(L) \in Nat
      BY <1>1, <3>1
    <3> QED
      BY <3>2, <3>3
  <2> HIDE DEF V, p, F, C, W, L
  <2>3. p(L) * (F(L) - C(L)) = 0
    BY <1>7, <2>2
  <2> QED
    BY <1>7, <2>1, <2>2, <2>3 DEF V, L
<1> QED
  BY <1>1, <1>9, <1>10

\* Whatever the book, the price that place_order decides by is that of the best way to
\* take what the order asks for (vwap_price), for any levels and sizes.
THEOREM WalksAreBest == Spec => []WalkIsBest
<1>1. IInv => WalkIsBest
  <2> SUFFICES ASSUME IInv, levels # NoBook, phase = "place"
               PROVE  WalkIsBest
    BY DEF WalkIsBest
  <2> DEFINE L == Len(levels)
             depth == [i \in DOMAIN levels |-> levels[i].size]
  <2>1. /\ levels \in Seq(Level) /\ BestFirst(request.side, levels) /\ size \in Nat
        /\ L \in Nat /\ DOMAIN levels = 1..L
        /\ \A i \in 1..L : levels[i] \in Level
    BY DEF IInv, TypeOK
  <2>2. depth \in [1..L -> Nat] /\ Len(depth) = L
    BY <2>1 DEF Level
  <2>3. Walk(levels, size).filled = Smallest(size, Depth)
    <3>1. Depth = PartialSums(depth, L)[L]
      BY <2>2 DEF Depth, SeqTotal
    <3>2. L \in 0..L /\ \A i \in 1..L : depth[i] = levels[i].size
      BY <2>1
    <3> HIDE DEF depth
    <3> QED
      BY <2>1, <2>2, <3>1, <3>2, WalkTakesDepth DEF Walk
  <2>4. ASSUME NEW take \in [DOMAIN levels -> 0..size],
               \A i \in DOMAIN levels : take[i] <= levels[i].size,
               SeqTotal(take) = Walk(levels, size).filled
        PROVE  NoWorse(request.side, Walk(levels, size).cost, CostOf(take))
    <3> DEFINE paid == [i \in DOMAIN levels |-> levels[i].price * take[i]]
    <3>1. take \in [1..L -> Nat] /\ Len(take) = L
      BY <2>1, <2>4
    <3>2. ASSUME NEW i \in 1..L PROVE levels[i].price * take[i] \in Int
      BY <2>1, <3>1, <3>2 DEF Level
    <3>3. paid \in [1..L -> Int] /\ Len(paid) = L /\ \A i \in 1..L : paid[i] = levels[i].price * take[i]
      BY <2>1, <3>2
    <3> HIDE DEF paid
    <3>4. PartialSums(take, L)[L] = Walk(levels, size).filled
      BY <2>4, <3>1 DEF SeqTotal
    <3>5. CostOf(take) = PartialSums(paid, L)[L]
      BY <3>3 DEF CostOf, SeqTotal, paid
    <3>6. \A i \in 1..L : take[i] <= levels[i].size
      BY <2>1, <2>4
    <3>7. NoWorse(request.side, Walk(levels, size).cost, PartialSums(paid, L)[L])
      BY <2>1, <3>1, <3>3, <3>4, <3>6, WalkAhead
    <3> QED
      BY <3>5, <3>7
  <2> HIDE DEF depth, L
  <2> QED
    BY <2>3, <2>4 DEF WalkIsBest, NoWorse
<1> QED
  BY InitIInv, StepKeepsIInv, <1>1, PTL DEF Spec
===============================================================================
