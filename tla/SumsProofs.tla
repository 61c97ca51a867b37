------------------------------ MODULE SumsProofs ------------------------------
(***************************************************************************)
(* What the totals of module Sums are: integers that change by exactly the *)
(* change of one summand, and that are monotonic in the summands; and the  *)
(* same for the total of a sequence, which queues grow and shrink.  Also    *)
(* what the proofs share: induction for sets in the place of predicates,    *)
(* the existence of recursive functions, and products and quotients.        *)
(***************************************************************************)
EXTENDS Sums, FiniteSetTheorems, TLAPS

\* Induction over the naturals, for a set in the place of a predicate.
LEMMA NatSetInduction ==
  ASSUME NEW S,
         0 \in S,
         \A n \in Nat : n \in S => n + 1 \in S
  PROVE  Nat \subseteq S
<1> DEFINE T == Nat \ S
<1>1. SUFFICES ASSUME T # {} PROVE FALSE
  OBVIOUS
<1> DEFINE R == {ss \in Nat \X Nat : ss[1] < ss[2]}
<1>2. PICK x \in T : \A y \in T : ~ (<<y, x>> \in R)
  <2>1. T \subseteq Nat
    OBVIOUS
  <2>2. IsWellFoundedOn(R, Nat)
    BY NatLessThanWellFounded DEF OpToRel
  <2> HIDE DEF R
  <2> QED
    BY <1>1, <2>1, <2>2, WFMin
<1>3. x # 0 /\ x \in Nat
  OBVIOUS
<1>4. x - 1 \in Nat /\ (x - 1) + 1 = x
  BY <1>3
<1>5. x - 1 \notin S
  BY <1>4
<1>6. <<x - 1, x>> \in R
  BY <1>3, <1>4
<1> QED
  BY <1>2, <1>4, <1>5, <1>6

\* The partial sums are a function: the recursion has a solution.
LEMMA PartialSumsDefined ==
  ASSUME NEW n \in Nat, NEW g \in [1..n -> Int]
  PROVE  PartialSums(g, n) = [i \in 0..n |-> IF i = 0 THEN 0 ELSE PartialSums(g, n)[i-1] + g[i]]
<1> DEFINE Solves(t, k) == t = [i \in 0..k |-> IF i = 0 THEN 0 ELSE t[i-1] + g[i]]
           S == {k \in Nat : k <= n => \E t : Solves(t, k)}
<1>1. 0 \in S
  <2> DEFINE t == [i \in 0..0 |-> 0]
  <2>1. Solves(t, 0)
    OBVIOUS
  <2> QED
    BY <2>1
<1>2. ASSUME NEW k \in Nat, k \in S PROVE k + 1 \in S
  <2>1. SUFFICES ASSUME k + 1 <= n PROVE \E t : Solves(t, k + 1)
    OBVIOUS
  <2>2. PICK t : Solves(t, k)
    BY <1>2, <2>1
  <2> DEFINE u == [i \in 0..(k+1) |-> IF i = k + 1 THEN t[k] + g[k+1] ELSE t[i]]
  <2>3. ASSUME NEW i \in 0..(k+1) PROVE u[i] = IF i = 0 THEN 0 ELSE u[i-1] + g[i]
    <3>1. CASE i = k + 1
      BY <3>1
    <3>2. CASE i # k + 1
      <4>1. i \in 0..k
        BY <3>2
      <4>2. t[i] = IF i = 0 THEN 0 ELSE t[i-1] + g[i]
        BY <2>2, <4>1
      <4>3. i # 0 => i - 1 \in 0..(k+1) /\ i - 1 # k + 1
        BY <4>1
      <4> QED
        BY <3>2, <4>2, <4>3
    <3> QED
      BY <3>1, <3>2
  <2>4. Solves(u, k + 1)
    BY <2>3
  <2> QED
    BY <2>4
<1>3. n \in S
  <2> HIDE DEF S
  <2> QED
    BY <1>1, <1>2, NatSetInduction
<1>4. \E t : Solves(t, n)
  BY <1>3
<1> QED
  BY <1>4 DEF PartialSums

\* The sum up to an element is the sum before it plus the element.
LEMMA PartialSumsStep ==
  ASSUME NEW n \in Nat, NEW g \in [1..n -> Int]
  PROVE  /\ PartialSums(g, n)[0] = 0
         /\ \A i \in 0..n : i + 1 \in 0..n =>
              PartialSums(g, n)[i+1] = PartialSums(g, n)[i] + g[i+1]
<1> DEFINE t == PartialSums(g, n)
<1>1. t = [i \in 0..n |-> IF i = 0 THEN 0 ELSE t[i-1] + g[i]]
  BY PartialSumsDefined
<1> HIDE DEF t
<1>2. t[0] = 0
  BY <1>1
<1>3. ASSUME NEW i \in 0..n, i + 1 \in 0..n PROVE t[i+1] = t[i] + g[i+1]
  <2>1. t[i+1] = t[(i+1)-1] + g[i+1]
    BY <1>1, <1>3
  <2> QED
    BY <2>1
<1> QED
  BY <1>2, <1>3 DEF t

\* Induction up to a bound: the form in which the lemmas below use it.
LEMMA BoundedSetInduction ==
  ASSUME NEW n \in Nat, NEW S,
         0 \in S,
         \A i \in 0..n : i + 1 \in 0..n /\ i \in S => i + 1 \in S
  PROVE  0..n \subseteq S
<1> DEFINE T == {i \in Nat : i <= n => i \in S}
<1>1. 0 \in T
  OBVIOUS
<1>2. ASSUME NEW i \in Nat, i \in T PROVE i + 1 \in T
  BY <1>2
<1>3. Nat \subseteq T
  <2> HIDE DEF T
  <2> QED
    BY <1>1, <1>2, NatSetInduction
<1> QED
  BY <1>3

\* There is a function that gives `a` for 0, and for every further number up to n what F
\* makes of its value before.
Recursion(n, V, a, F) ==
  \E t \in [0..n -> V] : t[0] = a /\ \A i \in 1..n : t[i] = F[i][t[i-1]]

\* The recursive functions of the modules exist by this.
LEMMA RecursionDefined ==
  ASSUME NEW n \in Nat, NEW V, NEW a \in V, NEW F \in [1..n -> [V -> V]]
  PROVE  Recursion(n, V, a, F)
<1> DEFINE Solves(t, k) == /\ t \in [0..k -> V] /\ t[0] = a
                           /\ \A i \in 1..k : t[i] = F[i][t[i-1]]
           S == {k \in Nat : k <= n => \E t : Solves(t, k)}
<1>1. 0 \in S
  <2> DEFINE t == [i \in 0..0 |-> a]
  <2>1. Solves(t, 0)
    OBVIOUS
  <2> QED
    BY <2>1
<1>2. ASSUME NEW k \in Nat, k \in S PROVE k + 1 \in S
  <2>1. SUFFICES ASSUME k + 1 <= n PROVE \E t : Solves(t, k + 1)
    OBVIOUS
  <2>2. PICK t : Solves(t, k)
    BY <1>2, <2>1
  <2> DEFINE u == [i \in 0..(k+1) |-> IF i = k + 1 THEN F[k+1][t[k]] ELSE t[i]]
  <2>3. t[k] \in V /\ k + 1 \in 1..n
    BY <2>1, <2>2
  <2>4. F[k+1][t[k]] \in V
    BY <2>3
  <2>5. u \in [0..(k+1) -> V] /\ u[0] = a
    BY <2>2, <2>4
  <2>6. ASSUME NEW i \in 1..(k+1) PROVE u[i] = F[i][u[i-1]]
    <3>1. CASE i = k + 1
      <4>1. i - 1 = k /\ i - 1 \in 0..(k+1) /\ i - 1 # k + 1
        BY <3>1
      <4> QED
        BY <3>1, <4>1
    <3>2. CASE i # k + 1
      <4>1. i \in 1..k /\ i - 1 \in 0..(k+1) /\ i - 1 # k + 1
        BY <3>2
      <4>2. t[i] = F[i][t[i-1]]
        BY <2>2, <4>1
      <4> QED
        BY <3>2, <4>1, <4>2
    <3> QED
      BY <3>1, <3>2
  <2>7. Solves(u, k + 1)
    BY <2>5, <2>6
  <2> QED
    BY <2>7
<1>3. n \in S
  <2> HIDE DEF S
  <2> QED
    BY <1>1, <1>2, NatSetInduction
<1> QED
  BY <1>3 DEF Recursion

\* Partial sums of integers are integers.
LEMMA PartialSumsType ==
  ASSUME NEW n \in Nat, NEW g \in [1..n -> Int]
  PROVE  \A i \in 0..n : PartialSums(g, n)[i] \in Int
<1> DEFINE S == {i \in 0..n : PartialSums(g, n)[i] \in Int}
<1>1. 0 \in S
  BY PartialSumsStep
<1>2. ASSUME NEW i \in 0..n, i + 1 \in 0..n, i \in S PROVE i + 1 \in S
  <2>1. g[i+1] \in Int /\ PartialSums(g, n)[i] \in Int
    BY <1>2
  <2>2. PartialSums(g, n)[i+1] = PartialSums(g, n)[i] + g[i+1]
    BY <1>2, PartialSumsStep
  <2> QED
    BY <1>2, <2>1, <2>2
<1>3. 0..n \subseteq S
  <2> HIDE DEF S
  <2> QED
    BY <1>1, <1>2, BoundedSetInduction
<1> QED
  BY <1>3

\* Where every addend is no greater, every partial sum is no greater.
LEMMA PartialSumsMonotonic ==
  ASSUME NEW n \in Nat, NEW g \in [1..n -> Int], NEW h \in [1..n -> Int],
         \A i \in 1..n : g[i] <= h[i]
  PROVE  \A i \in 0..n : PartialSums(g, n)[i] <= PartialSums(h, n)[i]
<1> DEFINE S == {i \in 0..n : PartialSums(g, n)[i] <= PartialSums(h, n)[i]}
<1>1. 0 \in S
  <2>1. PartialSums(g, n)[0] = 0
    BY PartialSumsStep
  <2>2. PartialSums(h, n)[0] = 0
    BY PartialSumsStep
  <2> QED
    BY <2>1, <2>2
<1>2. ASSUME NEW i \in 0..n, i + 1 \in 0..n, i \in S PROVE i + 1 \in S
  <2>1. g[i+1] \in Int /\ h[i+1] \in Int /\ g[i+1] <= h[i+1]
    BY <1>2
  <2>2. PartialSums(g, n)[i] \in Int /\ PartialSums(h, n)[i] \in Int
    BY PartialSumsType
  <2>3. PartialSums(g, n)[i+1] = PartialSums(g, n)[i] + g[i+1]
    BY <1>2, PartialSumsStep
  <2>4. PartialSums(h, n)[i+1] = PartialSums(h, n)[i] + h[i+1]
    BY <1>2, PartialSumsStep
  <2> QED
    BY <1>2, <2>1, <2>2, <2>3, <2>4
<1>3. 0..n \subseteq S
  <2> HIDE DEF S
  <2> QED
    BY <1>1, <1>2, BoundedSetInduction
<1> QED
  BY <1>3

\* Partial sums of zeros are zero.
LEMMA PartialSumsZero ==
  ASSUME NEW n \in Nat, NEW g \in [1..n -> Int], \A i \in 1..n : g[i] = 0
  PROVE  \A i \in 0..n : PartialSums(g, n)[i] = 0
<1> DEFINE S == {i \in 0..n : PartialSums(g, n)[i] = 0}
<1>1. 0 \in S
  BY PartialSumsStep
<1>2. ASSUME NEW i \in 0..n, i + 1 \in 0..n, i \in S PROVE i + 1 \in S
  <2>1. g[i+1] = 0
    BY <1>2
  <2> QED
    BY <1>2, <2>1, PartialSumsStep
<1>3. 0..n \subseteq S
  <2> HIDE DEF S
  <2> QED
    BY <1>1, <1>2, BoundedSetInduction
<1> QED
  BY <1>3

\* Changing one summand changes the sums that contain it by the same amount.
LEMMA PartialSumsUpdate ==
  ASSUME NEW n \in Nat, NEW g \in [1..n -> Int], NEW h \in [1..n -> Int], NEW j \in 1..n,
         \A i \in 1..n : i # j => h[i] = g[i]
  PROVE  \A i \in 0..n : PartialSums(h, n)[i] =
           IF i < j THEN PartialSums(g, n)[i] ELSE PartialSums(g, n)[i] + h[j] - g[j]
<1> DEFINE Claim(i) == PartialSums(h, n)[i] =
             IF i < j THEN PartialSums(g, n)[i] ELSE PartialSums(g, n)[i] + h[j] - g[j]
           S == {i \in 0..n : Claim(i)}
<1>1. 0 \in S
  BY PartialSumsStep
<1>2. ASSUME NEW i \in 0..n, i + 1 \in 0..n, i \in S PROVE i + 1 \in S
  <2>1. g[i+1] \in Int /\ h[i+1] \in Int /\ g[j] \in Int /\ h[j] \in Int
    BY <1>2
  <2>2. PartialSums(g, n)[i] \in Int /\ PartialSums(h, n)[i] \in Int
    BY PartialSumsType
  <2>3. PartialSums(g, n)[i+1] = PartialSums(g, n)[i] + g[i+1]
    BY <1>2, PartialSumsStep
  <2>4. PartialSums(h, n)[i+1] = PartialSums(h, n)[i] + h[i+1]
    BY <1>2, PartialSumsStep
  <2>5. CASE i + 1 = j
    BY <1>2, <2>1, <2>2, <2>3, <2>4, <2>5
  <2>6. CASE i + 1 # j
    <3>1. h[i+1] = g[i+1]
      BY <1>2, <2>6
    <3>2. CASE i < j
      BY <1>2, <2>1, <2>2, <2>3, <2>4, <2>6, <3>1, <3>2
    <3>3. CASE ~(i < j)
      BY <1>2, <2>1, <2>2, <2>3, <2>4, <2>6, <3>1, <3>3, SMTT(30)
    <3> QED
      BY <3>2, <3>3
  <2> QED
    BY <2>5, <2>6
<1>3. 0..n \subseteq S
  <2> HIDE DEF S
  <2> QED
    BY <1>1, <1>2, BoundedSetInduction
<1> QED
  BY <1>3

-------------------------------------------------------------------------------
(* The same for the total of a function over a finite set                  *)

\* The enumeration of a finite set lists each of its elements once.
LEMMA EnumerationType ==
  ASSUME NEW S, IsFiniteSet(S)
  PROVE  /\ Cardinality(S) \in Nat
         /\ Enumeration(S) \in [1..Cardinality(S) -> S]
         /\ \A i, j \in 1..Cardinality(S) : Enumeration(S)[i] = Enumeration(S)[j] => i = j
         /\ \A x \in S : \E i \in 1..Cardinality(S) : Enumeration(S)[i] = x
<1>1. Cardinality(S) \in Nat /\ Bijection(1..Cardinality(S), S) # {}
  BY FS_CardinalityType DEF ExistsBijection
<1>2. Enumeration(S) \in Bijection(1..Cardinality(S), S)
  BY <1>1 DEF Enumeration
<1> QED
  BY <1>1, <1>2 DEF Bijection, Injection, IsInjective, Surjection

\* The total of a dictionary of integers is an integer.
LEMMA SumType ==
  ASSUME NEW S, IsFiniteSet(S), NEW f \in [S -> Int]
  PROVE  SumAlong(Enumeration(S), Cardinality(S), f) \in Int
<1> DEFINE n == Cardinality(S)
           g == [i \in 1..n |-> f[Enumeration(S)[i]]]
<1>1. n \in Nat /\ g \in [1..n -> Int] /\ n \in 0..n
  BY EnumerationType
<1> HIDE DEF n, g
<1>2. PartialSums(g, n)[n] \in Int
  BY <1>1, PartialSumsType
<1> QED
  BY <1>2 DEF SumAlong, n, g

\* A dictionary that is nowhere larger has no larger total.
LEMMA SumMonotonic ==
  ASSUME NEW S, IsFiniteSet(S), NEW f \in [S -> Int], NEW h \in [S -> Int],
         \A x \in S : f[x] <= h[x]
  PROVE  SumAlong(Enumeration(S), Cardinality(S), f) <= SumAlong(Enumeration(S), Cardinality(S), h)
<1> DEFINE n == Cardinality(S)
           ff == [i \in 1..n |-> f[Enumeration(S)[i]]]
           hh == [i \in 1..n |-> h[Enumeration(S)[i]]]
<1>1. n \in Nat /\ ff \in [1..n -> Int] /\ hh \in [1..n -> Int] /\ n \in 0..n
  BY EnumerationType
<1>2. \A i \in 1..n : ff[i] <= hh[i]
  BY EnumerationType
<1> HIDE DEF n, ff, hh
<1>3. PartialSums(ff, n)[n] <= PartialSums(hh, n)[n]
  BY <1>1, <1>2, PartialSumsMonotonic
<1> QED
  BY <1>3 DEF SumAlong, n, ff, hh

\* The total of a dictionary of zeros.
LEMMA SumZero ==
  ASSUME NEW S, IsFiniteSet(S), NEW f \in [S -> Int], \A x \in S : f[x] = 0
  PROVE  SumAlong(Enumeration(S), Cardinality(S), f) = 0
<1> DEFINE n == Cardinality(S)
           g == [i \in 1..n |-> f[Enumeration(S)[i]]]
<1>1. n \in Nat /\ g \in [1..n -> Int] /\ n \in 0..n
  BY EnumerationType
<1>2. \A i \in 1..n : g[i] = 0
  BY EnumerationType
<1> HIDE DEF n, g
<1>3. PartialSums(g, n)[n] = 0
  BY <1>1, <1>2, PartialSumsZero
<1> QED
  BY <1>3 DEF SumAlong, n, g

\* Writing one entry changes the total by the change of that entry.
LEMMA SumUpdate ==
  ASSUME NEW S, IsFiniteSet(S), NEW f \in [S -> Int], NEW h \in [S -> Int], NEW x \in S,
         \A y \in S : y # x => h[y] = f[y]
  PROVE  SumAlong(Enumeration(S), Cardinality(S), h) =
           SumAlong(Enumeration(S), Cardinality(S), f) + h[x] - f[x]
<1> DEFINE n == Cardinality(S)
           e == Enumeration(S)
           ff == [i \in 1..n |-> f[e[i]]]
           hh == [i \in 1..n |-> h[e[i]]]
<1>1. n \in Nat /\ ff \in [1..n -> Int] /\ hh \in [1..n -> Int] /\ n \in 0..n
  BY EnumerationType
<1>2. PICK j \in 1..n : e[j] = x
  BY EnumerationType
<1>3. \A i \in 1..n : i # j => hh[i] = ff[i]
  BY <1>2, EnumerationType
<1>4. ff[j] = f[x] /\ hh[j] = h[x]
  BY <1>2
<1> HIDE DEF n, e, ff, hh
<1>5. PartialSums(hh, n)[n] = PartialSums(ff, n)[n] + hh[j] - ff[j]
  <2>1. ~(n < j)
    BY <1>1, <1>2
  <2> QED
    BY <1>1, <1>2, <1>3, <2>1, PartialSumsUpdate
<1> QED
  BY <1>4, <1>5 DEF SumAlong, n, e, ff, hh

\* No entry of a dictionary of naturals exceeds the total, which is a natural.
LEMMA SumOfNaturals ==
  ASSUME NEW S, IsFiniteSet(S), NEW f \in [S -> Nat]
  PROVE  /\ SumAlong(Enumeration(S), Cardinality(S), f) \in Nat
         /\ \A x \in S : f[x] <= SumAlong(Enumeration(S), Cardinality(S), f)
<1> DEFINE Total(h) == SumAlong(Enumeration(S), Cardinality(S), h)
           none == [x \in S |-> 0]
<1> f \in [S -> Int] /\ none \in [S -> Int]
  OBVIOUS
<1>1. Total(f) \in Int /\ Total(none) = 0
  BY SumType, SumZero
<1>2. Total(none) <= Total(f)
  <2>1. \A x \in S : none[x] <= f[x]
    OBVIOUS
  <2> QED
    BY <2>1, SumMonotonic
<1>3. ASSUME NEW x \in S PROVE f[x] <= Total(f)
  <2> DEFINE only == [y \in S |-> IF y = x THEN f[x] ELSE 0]
  <2>1. only \in [S -> Int] /\ \A y \in S : only[y] <= f[y]
    OBVIOUS
  <2>2. Total(only) = Total(none) + only[x] - none[x]
    <3>1. \A y \in S : y # x => only[y] = none[y]
      OBVIOUS
    <3> QED
      BY <2>1, <3>1, SumUpdate
  <2>3. Total(only) <= Total(f)
    BY <2>1, SumMonotonic
  <2>4. only[x] = f[x] /\ none[x] = 0
    OBVIOUS
  <2> HIDE DEF only, none, Total
  <2> QED
    BY <1>1, <2>2, <2>3, <2>4
<1> HIDE DEF Total
<1>4. Total(f) \in Nat /\ \A x \in S : f[x] <= Total(f)
  BY <1>1, <1>2, <1>3
<1> QED
  BY <1>4 DEF Total

-------------------------------------------------------------------------------
(* The total of a sequence                                                 *)

\* Equal summands, up to a shift, have equal partial sums, up to what came before.
LEMMA PartialSumsShift ==
  ASSUME NEW m \in Nat, NEW n \in Nat, NEW k \in Nat, k + m <= n,
         NEW g \in [1..n -> Int], NEW h \in [1..m -> Int],
         \A i \in 1..m : h[i] = g[k + i]
  PROVE  \A i \in 0..m : PartialSums(g, n)[k + i] = PartialSums(g, n)[k] + PartialSums(h, m)[i]
<1> DEFINE S == {i \in 0..m : PartialSums(g, n)[k + i] = PartialSums(g, n)[k] + PartialSums(h, m)[i]}
<1>t. /\ \A i \in 0..n : PartialSums(g, n)[i] \in Int
      /\ \A i \in 0..m : PartialSums(h, m)[i] \in Int
  BY PartialSumsType
<1>1. 0 \in S
  <2>1. PartialSums(h, m)[0] = 0
    BY PartialSumsStep
  <2>2. PartialSums(g, n)[k] \in Int /\ k + 0 = k
    BY <1>t
  <2> QED
    BY <2>1, <2>2
<1>2. ASSUME NEW i \in 0..m, i + 1 \in 0..m, i \in S PROVE i + 1 \in S
  <2>1. PartialSums(h, m)[i+1] = PartialSums(h, m)[i] + h[i+1]
    BY <1>2, PartialSumsStep
  <2>2. PartialSums(g, n)[(k+i)+1] = PartialSums(g, n)[k+i] + g[(k+i)+1]
    <3>1. k + i \in 0..n /\ (k + i) + 1 \in 0..n
      BY <1>2
    <3> QED
      BY <3>1, PartialSumsStep
  <2>3. h[i+1] = g[k+(i+1)] /\ h[i+1] \in Int
    BY <1>2
  <2>4. (k + i) + 1 = k + (i + 1)
    BY <1>2
  <2>5. PartialSums(g, n)[k+i] = PartialSums(g, n)[k] + PartialSums(h, m)[i]
    BY <1>2
  <2>6. PartialSums(h, m)[i] \in Int /\ PartialSums(g, n)[k] \in Int
    BY <1>2, <1>t
  <2> QED
    BY <1>2, <2>1, <2>2, <2>3, <2>4, <2>5, <2>6, SMTT(30)
<1>3. 0..m \subseteq S
  <2> HIDE DEF S
  <2> QED
    BY <1>1, <1>2, BoundedSetInduction
<1> QED
  BY <1>3

\* An empty sequence has nothing in it.
LEMMA SeqTotalEmpty == SeqTotal(<<>>) = 0
<1>1. <<>> \in [1..0 -> Int] /\ Len(<<>>) = 0
  OBVIOUS
<1>2. PartialSums(<<>>, 0)[0] = 0
  BY <1>1, PartialSumsStep
<1>3. SeqTotal(<<>>) = PartialSums(<<>>, Len(<<>>))[Len(<<>>)]
  BY DEF SeqTotal
<1> QED
  BY <1>1, <1>2, <1>3

\* The total of a sequence of integers is an integer.
LEMMA SeqTotalType ==
  ASSUME NEW s \in Seq(Int)
  PROVE  SeqTotal(s) \in Int
<1>1. Len(s) \in Nat /\ s \in [1..Len(s) -> Int]
  OBVIOUS
<1> QED
  BY <1>1, PartialSumsType DEF SeqTotal

\* A sequence that is one element longer has that element more in it.
LEMMA SeqTotalExtend ==
  ASSUME NEW s \in Seq(Int), NEW a \in Seq(Int), Len(a) = Len(s) + 1,
         \A i \in 1..Len(s) : a[i] = s[i]
  PROVE  SeqTotal(a) = SeqTotal(s) + a[Len(s)+1]
<1> DEFINE n == Len(s)
<1>1. n \in Nat /\ s \in [1..n -> Int]
  OBVIOUS
<1>2. Len(a) = n + 1 /\ a \in [1..(n+1) -> Int] /\ \A i \in 1..n : a[i] = s[i]
  OBVIOUS
<1> HIDE DEF n
<1>3. PartialSums(a, n+1)[n+1] = PartialSums(a, n+1)[n] + a[n+1]
  <2>1. n \in 0..(n+1) /\ n + 1 \in 0..(n+1) /\ n + 1 \in Nat
    BY <1>1
  <2> QED
    BY <1>2, <2>1, PartialSumsStep
<1>4. PartialSums(a, n+1)[0+n] = PartialSums(a, n+1)[0] + PartialSums(s, n)[n]
  <2>1. n + 1 \in Nat /\ 0 + n <= n + 1 /\ n \in 0..n /\ 0 \in Nat
    BY <1>1
  <2>2. \A i \in 1..n : s[i] = a[0 + i]
    BY <1>1, <1>2
  <2> QED
    BY <1>1, <1>2, <2>1, <2>2, PartialSumsShift
<1>5. PartialSums(a, n+1)[0] = 0
  BY <1>1, <1>2, PartialSumsStep
<1>6. PartialSums(s, n)[n] \in Int
  BY <1>1, PartialSumsType
<1>7. PartialSums(a, n+1)[n+1] = PartialSums(s, n)[n] + a[n+1]
  <2>1. 0 + n = n
    BY <1>1
  <2>2. a[n+1] \in Int
    BY <1>1, <1>2
  <2> QED
    BY <1>3, <1>4, <1>5, <1>6, <2>1, <2>2
<1>8. SeqTotal(a) = PartialSums(a, n+1)[n+1] /\ SeqTotal(s) = PartialSums(s, n)[n]
  BY <1>2 DEF SeqTotal, n
<1> QED
  BY <1>7, <1>8 DEF n

\* What is appended is added.
LEMMA SeqTotalAppend ==
  ASSUME NEW s \in Seq(Int), NEW x \in Int
  PROVE  SeqTotal(Append(s, x)) = SeqTotal(s) + x
<1> DEFINE n == Len(s)
           a == Append(s, x)
<1>1. a \in Seq(Int) /\ Len(a) = Len(s) + 1 /\ a[n+1] = x /\ \A i \in 1..Len(s) : a[i] = s[i]
  OBVIOUS
<1> HIDE DEF a
<1>2. SeqTotal(a) = SeqTotal(s) + a[n+1]
  BY <1>1, SeqTotalExtend
<1> QED
  BY <1>1, <1>2 DEF a

\* What leaves at the head is subtracted.
LEMMA SeqTotalTail ==
  ASSUME NEW s \in Seq(Int), s # <<>>
  PROVE  /\ Head(s) \in Int /\ Tail(s) \in Seq(Int)
         /\ SeqTotal(Tail(s)) = SeqTotal(s) - Head(s)
<1> DEFINE n == Len(s)
           b == Tail(s)
<1>1. n \in Nat /\ n > 0 /\ s \in [1..n -> Int] /\ Head(s) = s[1]
  OBVIOUS
<1>2. Len(b) = n - 1 /\ b \in Seq(Int) /\ b \in [1..(n-1) -> Int] /\ \A i \in 1..(n-1) : b[i] = s[1 + i]
  <2>1. b \in Seq(Int) /\ Len(b) = n - 1
    OBVIOUS
  <2>2. b \in [1..Len(b) -> Int]
    <3> HIDE DEF b
    <3> QED
      BY <2>1
  <2>3. ASSUME NEW i \in 1..(n-1) PROVE b[i] = s[1 + i]
    <3>1. b[i] = s[i + 1]
      BY <2>3
    <3>2. i + 1 = 1 + i
      OBVIOUS
    <3> QED
      BY <3>1, <3>2
  <2> QED
    BY <2>1, <2>2, <2>3
<1> HIDE DEF n, b
<1>3. PartialSums(s, n)[1 + (n-1)] = PartialSums(s, n)[1] + PartialSums(b, n-1)[n-1]
  <2>1. n - 1 \in Nat /\ 1 + (n - 1) <= n /\ n - 1 \in 0..(n-1) /\ 1 \in Nat
    BY <1>1
  <2> QED
    BY <1>1, <1>2, <2>1, PartialSumsShift, SMTT(30)
<1>4. PartialSums(s, n)[0+1] = PartialSums(s, n)[0] + s[0+1] /\ PartialSums(s, n)[0] = 0
  <2>1. 0 \in 0..n /\ 0 + 1 \in 0..n
    BY <1>1
  <2> QED
    BY <1>1, <2>1, PartialSumsStep
<1>5. PartialSums(b, n-1)[n-1] \in Int /\ s[1] \in Int
  <2>1. n - 1 \in Nat /\ n - 1 \in 0..(n-1)
    BY <1>1
  <2> QED
    BY <1>1, <1>2, <2>1, PartialSumsType, SMTT(30)
<1>6. SeqTotal(b) = PartialSums(b, n-1)[n-1] /\ SeqTotal(s) = PartialSums(s, n)[n]
  BY <1>2 DEF SeqTotal, n
<1>7. 1 + (n - 1) = n /\ 0 + 1 = 1
  BY <1>1
<1>8. SeqTotal(b) = SeqTotal(s) - s[1]
  BY <1>3, <1>4, <1>5, <1>6, <1>7
<1> QED
  BY <1>1, <1>2, <1>5, <1>8 DEF b

\* A sequence of one has it as its total.
LEMMA SeqTotalSingle ==
  ASSUME NEW x \in Int
  PROVE  SeqTotal(<<x>>) = x
<1>1. <<>> \in Seq(Int) /\ Append(<<>>, x) = <<x>>
  OBVIOUS
<1>2. SeqTotal(Append(<<>>, x)) = SeqTotal(<<>>) + x
  BY <1>1, SeqTotalAppend
<1> QED
  BY <1>1, <1>2, SeqTotalEmpty

\* The total of natural numbers is one.
LEMMA SeqTotalOfNaturals ==
  ASSUME NEW s \in Seq(Nat)
  PROVE  SeqTotal(s) \in Nat
<1> DEFINE n == Len(s)
           none == [i \in 1..n |-> 0]
<1>1. n \in Nat /\ s \in [1..n -> Int] /\ none \in [1..n -> Int] /\ s \in Seq(Int)
  OBVIOUS
<1>2. \A i \in 1..n : none[i] = 0 /\ none[i] <= s[i]
  OBVIOUS
<1> HIDE DEF none, n
<1>3. PartialSums(none, n)[n] = 0
  <2>1. n \in 0..n
    BY <1>1
  <2> QED
    BY <1>1, <1>2, <2>1, PartialSumsZero
<1>4. PartialSums(none, n)[n] <= PartialSums(s, n)[n]
  <2>1. n \in 0..n
    BY <1>1
  <2> QED
    BY <1>1, <1>2, <2>1, PartialSumsMonotonic
<1>5. SeqTotal(s) \in Int /\ SeqTotal(s) = PartialSums(s, n)[n]
  BY <1>1, SeqTotalType DEF SeqTotal, n
<1> QED
  BY <1>3, <1>4, <1>5

-------------------------------------------------------------------------------
(* Products and quotients                                                   *)

\* Integer division rounds down: what the provers need of arithmetic with money and shares.
LEMMA DivisionRoundsDown ==
  ASSUME NEW a \in Nat, NEW b \in Nat, b > 0
  PROVE  a \div b \in Nat /\ (a \div b) * b <= a
OBVIOUS

\* More shares cost more.
LEMMA ProductMonotonic ==
  ASSUME NEW a \in Nat, NEW b \in Nat, NEW c \in Nat, a <= b
  PROVE  c * a <= c * b
OBVIOUS

\* A quotient is bounded by what it is multiplied back to.
LEMMA QuotientBound ==
  ASSUME NEW q \in Nat, NEW c \in Nat, NEW s \in Nat, s > 0, q * s <= c * s
  PROVE  q <= c
<1>1. SUFFICES ASSUME q >= c + 1 PROVE FALSE
  OBVIOUS
<1>2. s * (c + 1) <= s * q
  BY <1>1, ProductMonotonic
<1> QED
  BY <1>2

\* A quotient is the largest number with that product.
LEMMA QuotientLargest ==
  ASSUME NEW a \in Nat, NEW b \in Nat, b > 0, NEW x \in Nat, x * b <= a
  PROVE  x <= a \div b
<1> DEFINE q == a \div b
<1>1. q \in Nat /\ a < (q + 1) * b
  OBVIOUS
<1> HIDE DEF q
<1>2. SUFFICES ASSUME x >= q + 1 PROVE FALSE
  BY <1>1 DEF q
<1>3. b * (q + 1) <= b * x
  BY <1>1, <1>2, ProductMonotonic
<1> QED
  BY <1>1, <1>3
===============================================================================
