--------------------------------- MODULE Sums ---------------------------------
(***************************************************************************)
(* The total of a dictionary's values, sum(d.values()) in the source.  The *)
(* values are added one after the other along a fixed enumeration of the   *)
(* dictionary's keys, which is what the code's loop does and what makes    *)
(* the total something one can prove about (module SumsProofs).            *)
(***************************************************************************)
EXTENDS Integers, Sequences, FiniteSets, Functions

\* Some order in which all elements of the finite set S appear once.
Enumeration(S) == CHOOSE e \in Bijection(1..Cardinality(S), S) : TRUE

\* PartialSums(g, n)[i] is g[1] + ... + g[i], for i up to n.
PartialSums(g, n) ==
  LET total[i \in 0..n] == IF i = 0 THEN 0 ELSE total[i-1] + g[i]
  IN  total

\* All elements of a sequence of integers together.
SeqTotal(s) == PartialSums(s, Len(s))[Len(s)]

\* The total of f over the elements that `order`, of length n, enumerates.
SumAlong(order, n, f) == PartialSums([i \in 1..n |-> f[order[i]]], n)[n]
===============================================================================
