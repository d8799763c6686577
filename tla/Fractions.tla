----------------------------- MODULE Fractions -----------------------------
(***************************************************************************)
(* Exact fractions that are not negative, as records that need not be      *)
(* reduced, and finite sums of them.                                       *)
(***************************************************************************)
EXTENDS Integers

Fraction == [num : Nat, den : Nat \ {0}]

Whole(n)     == [num |-> n, den |-> 1]
Plus(a, b)   == [num |-> a.num * b.den + b.num * a.den, den |-> a.den * b.den]
Times(a, b)  == [num |-> a.num * b.num, den |-> a.den * b.den]
AtMost(a, b) == a.num * b.den <= b.num * a.den
Lesser(a, b) == IF AtMost(a, b) THEN a ELSE b
Floor(a)     == a.num \div a.den

\* The sums of the first i of n fractions, for each i.
PartialSums(f, n) ==
  LET sum[i \in 0..n] == IF i = 0 THEN Whole(0) ELSE Plus(sum[i - 1], f[i])
  IN  sum

Summed(f, n) == PartialSums(f, n)[n]
=============================================================================
