---------------------------- MODULE SumTheorems ----------------------------
(***************************************************************************)
(* Induction over the subsets of a finite set, and what it yields about    *)
(* SumFunctionOnSet of the community modules: the sum of a function over a *)
(* finite set does not depend on the order its elements are chosen in.     *)
(* Induction from 0 to n, and what it yields about functions that are      *)
(* computed step by step and about sums of fractions.                      *)
(***************************************************************************)
EXTENDS Fractions, Functions, FiniteSets, FiniteSetTheorems, WellFoundedInduction, TLAPS

\* A set that has A whenever it has A without any one of its elements has
\* every subset of S.
LEMMA SubsetDescent ==
  ASSUME NEW S, IsFiniteSet(S), NEW T,
         \A A \in SUBSET S : (\A x \in A : A \ {x} \in T) => A \in T
  PROVE  SUBSET S \subseteq T
<1> SUFFICES ASSUME (SUBSET S) \ T # {} PROVE FALSE
  OBVIOUS
<1>1. IsWellFoundedOn(StrictSubsetOrdering(S), SUBSET S)
  <2>1. IsWellFoundedOn(StrictSubsetOrdering(S), FiniteSubsetsOf(S))
    BY FS_StrictSubsetOrderingWellFounded
  <2>2. FiniteSubsetsOf(S) = SUBSET S
    BY FS_FiniteSubsetsOfFinite
  <2> QED  BY <2>1, <2>2
<1>2. PICK A \in (SUBSET S) \ T : \A B \in (SUBSET S) \ T : <<B, A>> \notin StrictSubsetOrdering(S)
  BY <1>1, WFMin
<1>3. ASSUME NEW x \in A PROVE A \ {x} \in T
  <2>1. <<A \ {x}, A>> \in StrictSubsetOrdering(S)
    BY DEF StrictSubsetOrdering
  <2>2. A \ {x} \in SUBSET S
    OBVIOUS
  <2> QED  BY <1>2, <2>1, <2>2
<1> QED  BY <1>2, <1>3

\* A set that has the empty set, and A with one more element whenever it has
\* A, has every subset of S.
LEMMA SubsetInduction ==
  ASSUME NEW S, IsFiniteSet(S), NEW T, {} \in T,
         \A A \in SUBSET S, x \in S : x \notin A /\ A \in T => A \cup {x} \in T
  PROVE  SUBSET S \subseteq T
<1>1. ASSUME NEW A \in SUBSET S, \A x \in A : A \ {x} \in T PROVE A \in T
  <2>1. CASE A = {}
    BY <2>1
  <2>2. ASSUME NEW x \in A PROVE A \in T
    <3>1. A = (A \ {x}) \cup {x} /\ A \ {x} \in SUBSET S /\ x \in S /\ x \notin A \ {x}
      OBVIOUS
    <3> QED  BY <1>1, <3>1
  <2> QED  BY <2>1, <2>2
<1> QED  BY <1>1, SubsetDescent

-----------------------------------------------------------------------------
(* The sums over all subsets at once *)

Summable(h, S) == \A x \in S : h[x] \in Int

Adds(g, h, S) ==
  /\ g \in [SUBSET S -> Int]
  /\ g[{}] = 0
  /\ \A A \in SUBSET S, x \in S : x \notin A => g[A \cup {x}] = g[A] + h[x]

\* They exist ...
LEMMA SumsExist ==
  ASSUME NEW S, IsFiniteSet(S), NEW h, Summable(h, S)
  PROVE  \E g : Adds(g, h, S)
<1> DEFINE T == {A \in SUBSET S : \E g : Adds(g, h, A)}
<1>1. {} \in T
  <2>1. Adds([A \in SUBSET {} |-> 0], h, {})
    BY DEF Adds
  <2> QED  BY <2>1
<1>2. ASSUME NEW A \in SUBSET S, NEW x \in S, x \notin A, A \in T
      PROVE  A \cup {x} \in T
  <2>1. PICK g : Adds(g, h, A)
    BY <1>2
  <2> DEFINE G == [B \in SUBSET (A \cup {x}) |-> IF x \in B THEN g[B \ {x}] + h[x] ELSE g[B]]
  <2>2. \A B \in SUBSET (A \cup {x}) : B \ {x} \in SUBSET A /\ (x \notin B => B \in SUBSET A)
    OBVIOUS
  <2>3. h[x] \in Int /\ g \in [SUBSET A -> Int] /\ g[{}] = 0
    BY <2>1 DEF Summable, Adds
  <2>4. G \in [SUBSET (A \cup {x}) -> Int]
    BY <2>2, <2>3
  <2>5. G[{}] = 0
    BY <2>3
  <2>6. ASSUME NEW B \in SUBSET (A \cup {x}), NEW y \in A \cup {x}, y \notin B
        PROVE  G[B \cup {y}] = G[B] + h[y]
    <3>1. B \cup {y} \in SUBSET (A \cup {x})
      OBVIOUS
    <3>2. CASE y = x
      <4>1. (B \cup {y}) \ {x} = B
        BY <2>6, <3>2
      <4> QED  BY <2>6, <3>1, <3>2, <4>1
    <3>3. CASE y # x /\ x \in B
      <4>1. (B \cup {y}) \ {x} = (B \ {x}) \cup {y} /\ y \in A /\ B \ {x} \in SUBSET A /\ y \notin B \ {x}
        BY <2>6, <3>3
      <4>2. g[(B \ {x}) \cup {y}] = g[B \ {x}] + h[y]
        BY <2>1, <4>1 DEF Adds
      <4>3. g[B \ {x}] \in Int /\ h[y] \in Int
        BY <2>3, <4>1 DEF Summable
      <4>4. G[B \cup {y}] = g[(B \ {x}) \cup {y}] + h[x] /\ G[B] = g[B \ {x}] + h[x]
        BY <3>1, <3>3, <4>1
      <4> QED  BY <2>3, <4>2, <4>3, <4>4
    <3>4. CASE y # x /\ x \notin B
      <4>1. x \notin B \cup {y} /\ y \in A /\ B \in SUBSET A
        BY <3>4
      <4>2. g[B \cup {y}] = g[B] + h[y]
        BY <2>1, <2>6, <4>1 DEF Adds
      <4> QED  BY <3>1, <3>4, <4>1, <4>2
    <3> QED  BY <3>2, <3>3, <3>4
  <2> HIDE DEF G
  <2>7. Adds(G, h, A \cup {x})
    BY <2>4, <2>5, <2>6 DEF Adds
  <2> QED  BY <2>7
<1> HIDE DEF T
<1>3. SUBSET S \subseteq T
  BY <1>1, <1>2, SubsetInduction
<1> QED  BY <1>3 DEF T

Chosen(A) == CHOOSE x \in A : TRUE

Unfolded(iter, h, S) ==
  [A \in SUBSET S |-> IF A = {} THEN 0 ELSE h[Chosen(A)] + iter[A \ {Chosen(A)}]]

LEMMA SumDef ==
  \A h, S : SumFunctionOnSet(h, S) = (CHOOSE iter : iter = Unfolded(iter, h, S))[S]
  BY Zenon DEF SumFunctionOnSet, FoldFunctionOnSet, MapThenFoldSet, Chosen, Unfolded

\* ... and SumFunctionOnSet is one of them.
LEMMA SumIs ==
  ASSUME NEW S, IsFiniteSet(S), NEW h, Summable(h, S), NEW g, Adds(g, h, S)
  PROVE  SumFunctionOnSet(h, S) = g[S]
<1>1. g = Unfolded(g, h, S)
  <2>1. g \in [SUBSET S -> Int]
    BY DEF Adds
  <2>2. ASSUME NEW A \in SUBSET S, A # {}
        PROVE  g[A] = h[Chosen(A)] + g[A \ {Chosen(A)}]
    <3>1. Chosen(A) \in A
      BY <2>2 DEF Chosen
    <3>2. A = (A \ {Chosen(A)}) \cup {Chosen(A)} /\ A \ {Chosen(A)} \in SUBSET S
      BY <3>1
    <3>3. g[A] = g[A \ {Chosen(A)}] + h[Chosen(A)]
      BY <3>1, <3>2 DEF Adds
    <3>4. g[A \ {Chosen(A)}] \in Int /\ h[Chosen(A)] \in Int
      BY <2>1, <3>1, <3>2 DEF Summable
    <3> QED  BY <3>3, <3>4
  <2>3. g[{}] = 0
    BY DEF Adds
  <2> QED  BY <2>1, <2>2, <2>3 DEF Unfolded
<1> DEFINE f == CHOOSE iter : iter = Unfolded(iter, h, S)
<1>2. f = Unfolded(f, h, S)
  BY <1>1
<1>3. SumFunctionOnSet(h, S) = f[S]
  BY SumDef
<1> HIDE DEF f
<1> DEFINE T == {A \in SUBSET S : f[A] = g[A]}
<1>4. ASSUME NEW A \in SUBSET S, \A x \in A : A \ {x} \in T
      PROVE  A \in T
  <2>1. CASE A = {}
    BY <1>1, <1>2, <2>1 DEF Unfolded
  <2>2. CASE A # {}
    <3>1. Chosen(A) \in A
      BY <2>2 DEF Chosen
    <3>2. f[A] = h[Chosen(A)] + f[A \ {Chosen(A)}]
      BY <1>2, <2>2 DEF Unfolded
    <3>3. g[A] = h[Chosen(A)] + g[A \ {Chosen(A)}]
      BY <1>1, <2>2 DEF Unfolded
    <3> QED  BY <1>4, <3>1, <3>2, <3>3
  <2> QED  BY <2>1, <2>2
<1> HIDE DEF T
<1>5. SUBSET S \subseteq T
  BY <1>4, SubsetDescent
<1> QED  BY <1>3, <1>5 DEF T

LEMMA SumsAre ==
  ASSUME NEW S, IsFiniteSet(S), NEW h, Summable(h, S)
  PROVE  \E g : Adds(g, h, S) /\ \A A \in SUBSET S : SumFunctionOnSet(h, A) = g[A]
<1>1. PICK g : Adds(g, h, S)
  BY SumsExist
<1>2. ASSUME NEW A \in SUBSET S PROVE SumFunctionOnSet(h, A) = g[A]
  <2>1. IsFiniteSet(A) /\ Summable(h, A)
    BY FS_Subset DEF Summable
  <2> DEFINE part == [B \in SUBSET A |-> g[B]]
  <2>2. Adds(part, h, A)
    BY <1>1 DEF Adds
  <2>3. part[A] = g[A]
    OBVIOUS
  <2> HIDE DEF part
  <2> QED  BY <2>1, <2>2, <2>3, SumIs
<1> QED  BY <1>1, <1>2

-----------------------------------------------------------------------------
(* What the proofs use *)

\* Nothing adds up to zero.
THEOREM SumEmpty == \A h : SumFunctionOnSet(h, {}) = 0
<1> TAKE h
<1>1. IsFiniteSet({}) /\ Summable(h, {})
  BY FS_EmptySet DEF Summable
<1>2. PICK g : Adds(g, h, {}) /\ \A A \in SUBSET {} : SumFunctionOnSet(h, A) = g[A]
  BY <1>1, SumsAre
<1> QED  BY <1>2 DEF Adds

\* Sums of numbers are numbers, and of naturals naturals.
THEOREM SumType ==
  ASSUME NEW S, IsFiniteSet(S), NEW h
  PROVE  /\ (\A x \in S : h[x] \in Int) => SumFunctionOnSet(h, S) \in Int
         /\ (\A x \in S : h[x] \in Nat) => SumFunctionOnSet(h, S) \in Nat
<1>1. ASSUME Summable(h, S) PROVE SumFunctionOnSet(h, S) \in Int
  <2>1. PICK g : Adds(g, h, S) /\ \A A \in SUBSET S : SumFunctionOnSet(h, A) = g[A]
    BY <1>1, SumsAre
  <2> QED  BY <2>1 DEF Adds
<1>2. ASSUME \A x \in S : h[x] \in Nat PROVE SumFunctionOnSet(h, S) \in Nat
  <2>1. PICK g : Adds(g, h, S) /\ \A A \in SUBSET S : SumFunctionOnSet(h, A) = g[A]
    BY <1>2, SumsAre DEF Summable
  <2> DEFINE T == {A \in SUBSET S : g[A] \in Nat}
  <2>2. {} \in T
    BY <2>1 DEF Adds
  <2>3. ASSUME NEW A \in SUBSET S, NEW x \in S, x \notin A, A \in T PROVE A \cup {x} \in T
    BY <1>2, <2>1, <2>3 DEF Adds
  <2> HIDE DEF T
  <2>4. SUBSET S \subseteq T
    BY <2>2, <2>3, SubsetInduction
  <2> QED  BY <2>1, <2>4 DEF T
<1> QED  BY <1>1, <1>2 DEF Summable

\* Zeros add up to zero.
THEOREM SumZero ==
  ASSUME NEW S, IsFiniteSet(S), NEW h, \A x \in S : h[x] = 0
  PROVE  SumFunctionOnSet(h, S) = 0
<1>1. PICK g : Adds(g, h, S) /\ \A A \in SUBSET S : SumFunctionOnSet(h, A) = g[A]
  BY SumsAre DEF Summable
<1> DEFINE T == {A \in SUBSET S : g[A] = 0}
<1>2. {} \in T
  BY <1>1 DEF Adds
<1>3. ASSUME NEW A \in SUBSET S, NEW x \in S, x \notin A, A \in T PROVE A \cup {x} \in T
  BY <1>1, <1>3 DEF Adds
<1> HIDE DEF T
<1>4. SUBSET S \subseteq T
  BY <1>2, <1>3, SubsetInduction
<1> QED  BY <1>1, <1>4 DEF T

\* One more element adds its number.
THEOREM SumAdd ==
  ASSUME NEW S, IsFiniteSet(S), NEW h, \A x \in S : h[x] \in Int,
         NEW e, e \notin S, h[e] \in Int
  PROVE  SumFunctionOnSet(h, S \cup {e}) = SumFunctionOnSet(h, S) + h[e]
<1>1. IsFiniteSet(S \cup {e}) /\ Summable(h, S \cup {e})
  BY FS_AddElement DEF Summable
<1>2. PICK g : Adds(g, h, S \cup {e}) /\ \A A \in SUBSET (S \cup {e}) : SumFunctionOnSet(h, A) = g[A]
  BY <1>1, SumsAre
<1>3. g[S \cup {e}] = g[S] + h[e]
  BY <1>2 DEF Adds
<1> QED  BY <1>2, <1>3

\* Sums keep the order of what they add, so equal functions have equal sums.
THEOREM SumBelow ==
  ASSUME NEW S, IsFiniteSet(S), NEW h, NEW k,
         \A x \in S : h[x] \in Int /\ k[x] \in Int /\ h[x] <= k[x]
  PROVE  SumFunctionOnSet(h, S) <= SumFunctionOnSet(k, S)
<1>1. Summable(h, S) /\ Summable(k, S)
  BY DEF Summable
<1>2. PICK g : Adds(g, h, S) /\ \A A \in SUBSET S : SumFunctionOnSet(h, A) = g[A]
  BY <1>1, SumsAre
<1>3. PICK f : Adds(f, k, S) /\ \A A \in SUBSET S : SumFunctionOnSet(k, A) = f[A]
  BY <1>1, SumsAre
<1> DEFINE T == {A \in SUBSET S : g[A] <= f[A]}
<1>4. {} \in T
  BY <1>2, <1>3 DEF Adds
<1>5. ASSUME NEW A \in SUBSET S, NEW x \in S, x \notin A, A \in T PROVE A \cup {x} \in T
  <2>1. g[A \cup {x}] = g[A] + h[x] /\ f[A \cup {x}] = f[A] + k[x]
    BY <1>2, <1>3, <1>5 DEF Adds
  <2>2. g[A] \in Int /\ f[A] \in Int
    BY <1>2, <1>3 DEF Adds
  <2> QED  BY <1>5, <2>1, <2>2
<1> HIDE DEF T
<1>6. SUBSET S \subseteq T
  BY <1>4, <1>5, SubsetInduction
<1> QED  BY <1>2, <1>3, <1>6 DEF T

THEOREM SumSame ==
  ASSUME NEW S, IsFiniteSet(S), NEW h, NEW k, \A x \in S : h[x] \in Int /\ k[x] = h[x]
  PROVE  SumFunctionOnSet(h, S) = SumFunctionOnSet(k, S)
<1>1. /\ SumFunctionOnSet(h, S) \in Int /\ SumFunctionOnSet(k, S) \in Int
  BY SumType
<1>2. SumFunctionOnSet(h, S) <= SumFunctionOnSet(k, S)
  BY SumBelow
<1>3. SumFunctionOnSet(k, S) <= SumFunctionOnSet(h, S)
  BY SumBelow
<1> QED  BY <1>1, <1>2, <1>3

\* A function that changes at one place changes its sum by as much.
THEOREM SumChange ==
  ASSUME NEW S, IsFiniteSet(S), NEW h, NEW k, NEW e \in S,
         \A x \in S : h[x] \in Int /\ k[x] \in Int,
         \A x \in S \ {e} : k[x] = h[x]
  PROVE  SumFunctionOnSet(k, S) = SumFunctionOnSet(h, S) + (k[e] - h[e])
<1> DEFINE R == S \ {e}
<1>1. IsFiniteSet(R) /\ S = R \cup {e} /\ e \notin R
  BY FS_RemoveElement
<1>2. SumFunctionOnSet(k, R) = SumFunctionOnSet(h, R)
  BY <1>1, SumSame
<1>3. SumFunctionOnSet(h, R) \in Int
  BY <1>1, SumType
<1>4. /\ SumFunctionOnSet(h, S) = SumFunctionOnSet(h, R) + h[e]
      /\ SumFunctionOnSet(k, S) = SumFunctionOnSet(k, R) + k[e]
  <2> HIDE DEF R
  <2> QED  BY <1>1, SumAdd
<1> QED  BY <1>2, <1>3, <1>4

\* Adding the sums of two functions is the sum of what they add.
THEOREM SumOfSums ==
  ASSUME NEW S, IsFiniteSet(S), NEW h, NEW k, NEW l,
         \A x \in S : h[x] \in Int /\ k[x] \in Int /\ l[x] = h[x] + k[x]
  PROVE  SumFunctionOnSet(l, S) = SumFunctionOnSet(h, S) + SumFunctionOnSet(k, S)
<1>1. Summable(h, S) /\ Summable(k, S) /\ Summable(l, S)
  BY DEF Summable
<1>2. PICK g : Adds(g, h, S) /\ \A A \in SUBSET S : SumFunctionOnSet(h, A) = g[A]
  BY <1>1, SumsAre
<1>3. PICK f : Adds(f, k, S) /\ \A A \in SUBSET S : SumFunctionOnSet(k, A) = f[A]
  BY <1>1, SumsAre
<1> DEFINE both == [A \in SUBSET S |-> g[A] + f[A]]
<1>4. Adds(both, l, S)
  <2>1. both \in [SUBSET S -> Int] /\ both[{}] = 0
    BY <1>2, <1>3 DEF Adds
  <2>2. ASSUME NEW A \in SUBSET S, NEW x \in S, x \notin A
        PROVE  both[A \cup {x}] = both[A] + l[x]
    <3>1. g[A \cup {x}] = g[A] + h[x] /\ f[A \cup {x}] = f[A] + k[x]
      BY <1>2, <1>3, <2>2 DEF Adds
    <3>2. g[A] \in Int /\ f[A] \in Int
      BY <1>2, <1>3 DEF Adds
    <3>3. both[A \cup {x}] = g[A \cup {x}] + f[A \cup {x}] /\ both[A] = g[A] + f[A]
      OBVIOUS
    <3> QED  BY <3>1, <3>2, <3>3
  <2> HIDE DEF both
  <2> QED  BY <2>1, <2>2 DEF Adds
<1>5. both[S] = g[S] + f[S]
  OBVIOUS
<1> HIDE DEF both
<1>6. SumFunctionOnSet(l, S) = both[S]
  BY <1>1, <1>4, SumIs
<1> QED  BY <1>2, <1>3, <1>5, <1>6

-----------------------------------------------------------------------------
(* Walks: functions that are computed from 0 to n, one step at a time *)

\* Induction from 0 to n.
LEMMA UpTo ==
  ASSUME NEW n \in Nat, NEW T, 0 \in T, \A i \in 1..n : i - 1 \in T => i \in T
  PROVE  0..n \subseteq T
<1> SUFFICES ASSUME (0..n) \ T # {} PROVE FALSE
  OBVIOUS
<1>1. PICK i \in (0..n) \ T : \A j \in (0..n) \ T : <<j, i>> \notin OpToRel(<, Nat)
  <2>1. (0..n) \ T \subseteq Nat
    OBVIOUS
  <2> QED  BY <2>1, NatLessThanWellFounded, WFMin
<1>2. i # 0 /\ i \in 1..n /\ i - 1 \in 0..n
  <2>1. i \in 0..n /\ i \notin T
    BY ONLY <1>1
  <2>2. i # 0
    BY ONLY <2>1, 0 \in T
  <2> QED  BY ONLY <2>1, <2>2, n \in Nat
<1>3. <<i - 1, i>> \in OpToRel(<, Nat)
  BY <1>2 DEF OpToRel
<1> QED  BY <1>1, <1>2, <1>3

\* The steps of a walk through A, and the walk that begins with a.
Steps(G, n, A) == \A i \in 1..n, x \in A : G[i][x] \in A

Walks(f, G, n, A, a) ==
  f \in [0..n -> A] /\ f[0] = a /\ \A i \in 1..n : f[i] = G[i][f[i - 1]]

\* It exists.
THEOREM WalkExists ==
  ASSUME NEW n \in Nat, NEW A, NEW a \in A, NEW G, Steps(G, n, A)
  PROVE  \E f : Walks(f, G, n, A, a)
<1> DEFINE T == {k \in 0..n : \E f : Walks(f, G, k, A, a)}
<1>1. 0 \in T
  <2>1. Walks([i \in 0..0 |-> a], G, 0, A, a)
    BY DEF Walks
  <2> QED  BY <2>1
<1>2. ASSUME NEW k \in 1..n, k - 1 \in T PROVE k \in T
  <2>1. PICK f : Walks(f, G, k - 1, A, a)
    BY <1>2
  <2> DEFINE g == [i \in 0..k |-> IF i = k THEN G[k][f[k - 1]] ELSE f[i]]
  <2>2. f[k - 1] \in A /\ G[k][f[k - 1]] \in A
    BY <2>1 DEF Steps, Walks
  <2>3. g \in [0..k -> A] /\ g[0] = a
    BY <2>1, <2>2 DEF Walks
  <2>4. ASSUME NEW i \in 1..k PROVE g[i] = G[i][g[i - 1]]
    <3>1. CASE i = k
      BY <3>1
    <3>2. CASE i # k
      BY <2>1, <3>2 DEF Walks
    <3> QED  BY <3>1, <3>2
  <2>5. Walks(g, G, k, A, a)
    <3> HIDE DEF g
    <3> QED  BY <2>3, <2>4 DEF Walks
  <2> QED  BY <2>5
<1>3. n \in T
  <2> HIDE DEF T
  <2> QED  BY <1>1, <1>2, UpTo
<1> QED  BY <1>3

\* What takes these steps whenever it is in A is that walk.
THEOREM WalkIs ==
  ASSUME NEW n \in Nat, NEW A, NEW a \in A, NEW G, Steps(G, n, A),
         NEW f, f = [i \in 0..n |-> f[i]], f[0] = a,
         \A i \in 1..n : f[i - 1] \in A => f[i] = G[i][f[i - 1]]
  PROVE  Walks(f, G, n, A, a)
<1> DEFINE T == {i \in 0..n : f[i] \in A}
<1>1. 0 \in T
  OBVIOUS
<1>2. ASSUME NEW i \in 1..n, i - 1 \in T PROVE i \in T
  <2>1. f[i - 1] \in A /\ f[i] = G[i][f[i - 1]]
    BY <1>2
  <2>2. G[i][f[i - 1]] \in A
    BY <2>1 DEF Steps
  <2> QED  BY <2>1, <2>2
<1>3. 0..n \subseteq T
  <2> HIDE DEF T
  <2> QED  BY <1>1, <1>2, UpTo
<1>4. \A i \in 0..n : f[i] \in A
  BY <1>3
<1>5. f \in [0..n -> A]
  BY Zenon, <1>4
<1>6. ASSUME NEW i \in 1..n PROVE f[i] = G[i][f[i - 1]]
  <2>1. f[i - 1] \in A
    BY <1>4
  <2> QED  BY <2>1
<1> QED  BY <1>5, <1>6 DEF Walks

-----------------------------------------------------------------------------
(* Fractions *)

LEMMA FractionParts ==
  ASSUME NEW a \in Fraction
  PROVE  a.num \in Nat /\ a.den \in Nat /\ a.den > 0
BY DEF Fraction

LEMMA FractionType ==
  /\ \A n \in Nat : Whole(n) \in Fraction
  /\ \A a, b \in Fraction : Plus(a, b) \in Fraction /\ Times(a, b) \in Fraction
                            /\ Lesser(a, b) \in Fraction
<1>1. ASSUME NEW x \in Nat \ {0}, NEW y \in Nat \ {0} PROVE x * y \in Nat \ {0}
  OBVIOUS
<1>2. ASSUME NEW a \in Fraction, NEW b \in Fraction
      PROVE  Plus(a, b) \in Fraction /\ Times(a, b) \in Fraction /\ Lesser(a, b) \in Fraction
  BY <1>1 DEF Fraction, Plus, Times, Lesser
<1> QED  BY <1>2 DEF Fraction, Whole

\* What is less by a positive factor is less.
LEMMA Cancelled ==
  ASSUME NEW x \in Int, NEW y \in Int, NEW c \in Nat \ {0}
  PROVE  x <= y <=> x * c <= y * c
OBVIOUS

LEMMA Scaled ==
  ASSUME NEW x \in Int, NEW y \in Int, x <= y, NEW c \in Nat
  PROVE  x * c <= y * c
OBVIOUS

LEMMA AtMostOrder ==
  /\ \A a \in Fraction : AtMost(a, a)
  /\ \A a, b \in Fraction : AtMost(a, b) \/ AtMost(b, a)
  /\ \A a, b, c \in Fraction : AtMost(a, b) /\ AtMost(b, c) => AtMost(a, c)
<1>1. ASSUME NEW a \in Fraction, NEW b \in Fraction, NEW c \in Fraction,
             AtMost(a, b), AtMost(b, c)
      PROVE  AtMost(a, c)
  <2> DEFINE n == a.num  d == a.den  p == b.num  q == b.den  r == c.num  s == c.den
  <2>1. /\ n \in Nat /\ d \in Nat \ {0} /\ p \in Nat /\ q \in Nat \ {0} /\ r \in Nat /\ s \in Nat \ {0}
        /\ n * q <= p * d /\ p * s <= r * q
    BY <1>1 DEF Fraction, AtMost
  <2> SUFFICES n * s <= r * d
    BY DEF AtMost
  <2> HIDE DEF n, d, p, q, r, s
  <2>2. (n * q) * s <= (p * d) * s
    BY <2>1, Scaled
  <2>3. (p * s) * d <= (r * q) * d
    BY <2>1, Scaled
  <2>4. (n * s) * q <= (r * d) * q
    BY <2>1, <2>2, <2>3
  <2> QED  BY <2>1, <2>4, Cancelled
<1> QED  BY <1>1 DEF Fraction, AtMost

LEMMA PlusAtMost ==
  ASSUME NEW a \in Fraction, NEW b \in Fraction, NEW c \in Fraction, NEW e \in Fraction,
         AtMost(a, b), AtMost(c, e)
  PROVE  AtMost(Plus(a, c), Plus(b, e))
<1> DEFINE n == a.num  d == a.den  p == b.num  q == b.den
           r == c.num  s == c.den  t == e.num  u == e.den
<1>1. /\ n \in Nat /\ d \in Nat \ {0} /\ p \in Nat /\ q \in Nat \ {0}
      /\ r \in Nat /\ s \in Nat \ {0} /\ t \in Nat /\ u \in Nat \ {0}
      /\ n * q <= p * d /\ r * u <= t * s
  BY DEF Fraction, AtMost
<1> SUFFICES (n * s + r * d) * (q * u) <= (p * u + t * q) * (d * s)
  BY DEF AtMost, Plus
<1> HIDE DEF n, d, p, q, r, s, t, u
<1>2. (n * q) * (s * u) <= (p * d) * (s * u)
  <2>1. s * u \in Nat
    BY <1>1
  <2> QED  BY <1>1, <2>1, Scaled
<1>3. (r * u) * (d * q) <= (t * s) * (d * q)
  <2>1. d * q \in Nat
    BY <1>1
  <2> QED  BY <1>1, <2>1, Scaled
<1>4. /\ (n * s + r * d) * (q * u) = (n * q) * (s * u) + (r * u) * (d * q)
      /\ (p * u + t * q) * (d * s) = (p * d) * (s * u) + (t * s) * (d * q)
  BY <1>1
<1> QED  BY <1>1, <1>2, <1>3, <1>4

LEMMA TimesAtMost ==
  ASSUME NEW a \in Fraction, NEW b \in Fraction, NEW c \in Fraction, NEW e \in Fraction,
         AtMost(a, b), AtMost(c, e)
  PROVE  AtMost(Times(a, c), Times(b, e))
<1> DEFINE n == a.num  d == a.den  p == b.num  q == b.den
           r == c.num  s == c.den  t == e.num  u == e.den
<1>1. /\ n \in Nat /\ d \in Nat \ {0} /\ p \in Nat /\ q \in Nat \ {0}
      /\ r \in Nat /\ s \in Nat \ {0} /\ t \in Nat /\ u \in Nat \ {0}
      /\ n * q <= p * d /\ r * u <= t * s
  BY DEF Fraction, AtMost
<1> SUFFICES (n * r) * (q * u) <= (p * t) * (d * s)
  BY DEF AtMost, Times
<1> HIDE DEF n, d, p, q, r, s, t, u
<1>2. (n * q) * (r * u) <= (p * d) * (r * u)
  <2>1. r * u \in Nat
    BY <1>1
  <2> QED  BY <1>1, <2>1, Scaled
<1>3. (r * u) * (p * d) <= (t * s) * (p * d)
  <2>1. p * d \in Nat
    BY <1>1
  <2> QED  BY <1>1, <2>1, Scaled
<1>4. /\ (n * r) * (q * u) = (n * q) * (r * u)
      /\ (p * t) * (d * s) = (t * s) * (p * d)
      /\ (p * d) * (r * u) = (r * u) * (p * d)
  BY <1>1
<1> QED  BY <1>1, <1>2, <1>3, <1>4

LEMMA Quotient ==
  ASSUME NEW x \in Nat, NEW q \in Nat \ {0}
  PROVE  x \div q \in Nat /\ (x \div q) * q <= x /\ x < (x \div q) * q + q
OBVIOUS

\* The floor keeps the order.
LEMMA FloorAtMost ==
  ASSUME NEW a \in Fraction, NEW b \in Fraction, AtMost(a, b)
  PROVE  Floor(a) \in Nat /\ Floor(b) \in Nat /\ Floor(a) <= Floor(b)
<1> DEFINE n == a.num  d == a.den  p == b.num  q == b.den  x == n \div d  y == p \div q
<1>1. n \in Nat /\ d \in Nat \ {0} /\ p \in Nat /\ q \in Nat \ {0} /\ n * q <= p * d
  BY DEF Fraction, AtMost
<1>2. Floor(a) = x /\ Floor(b) = y
  BY DEF Floor
<1> HIDE DEF n, d, p, q
<1>3. x \in Nat /\ y \in Nat /\ x * d <= n /\ p < (y + 1) * q
  <2>1. x \in Nat /\ y \in Nat /\ x * d <= n /\ p < y * q + q
    BY <1>1, Quotient
  <2> HIDE DEF x, y
  <2>2. (y + 1) * q = y * q + q
    BY <1>1, <2>1
  <2> QED  BY <2>1, <2>2
<1> HIDE DEF x, y
<1>4. (x * d) * q <= n * q
  BY <1>1, <1>3, Scaled
<1>5. p * d < ((y + 1) * q) * d
  BY <1>1, <1>3
<1>6. x * (d * q) < (y + 1) * (d * q)
  BY <1>1, <1>3, <1>4, <1>5
<1>7. x < y + 1
  <2>1. d * q \in Nat \ {0}
    BY <1>1
  <2>2. CASE y + 1 <= x
    <3>1. (y + 1) * (d * q) <= x * (d * q)
      BY <1>3, <2>1, <2>2, Scaled
    <3> QED  BY <1>3, <1>6, <2>1, <3>1
  <2> QED  BY <1>3, <2>2
<1> QED  BY <1>2, <1>3, <1>7

\* The partial sums are sums, each one fraction more than the one before.
LEMMA PartialSumsAre ==
  ASSUME NEW n \in Nat, NEW f, \A i \in 1..n : f[i] \in Fraction
  PROVE  /\ PartialSums(f, n) \in [0..n -> Fraction]
         /\ PartialSums(f, n)[0] = Whole(0)
         /\ \A i \in 1..n : PartialSums(f, n)[i] = Plus(PartialSums(f, n)[i - 1], f[i])
<1> DEFINE Step(g) == [i \in 0..n |-> IF i = 0 THEN Whole(0) ELSE Plus(g[i - 1], f[i])]
           G == [i \in 1..n |-> [x \in Fraction |-> Plus(x, f[i])]]
<1>1. PartialSums(f, n) = CHOOSE g : g = Step(g)
  BY Zenon DEF PartialSums
<1>2. PICK g \in [0..n -> Fraction] : g[0] = Whole(0) /\ \A i \in 1..n : g[i] = G[i][g[i - 1]]
  <2> DEFINE zero == Whole(0)
  <2>1. zero \in Fraction /\ Steps(G, n, Fraction)
    BY FractionType DEF Steps
  <2> HIDE DEF G, zero
  <2>2. \E h : Walks(h, G, n, Fraction, zero)
    BY <2>1, WalkExists
  <2> QED  BY <2>2 DEF zero, Walks
<1>3. g = Step(g)
  <2>1. ASSUME NEW i \in 0..n PROVE g[i] = Step(g)[i]
    <3>1. CASE i = 0
      BY <1>2, <3>1
    <3>2. CASE i # 0
      <4>1. i \in 1..n /\ g[i - 1] \in Fraction
        BY <3>2
      <4> QED  BY <1>2, <3>2, <4>1
    <3> QED  BY <3>1, <3>2
  <2> QED  BY <2>1
<1> DEFINE s == PartialSums(f, n)
<1>4. s = Step(s)
  <2> HIDE DEF Step
  <2> QED  BY <1>1, <1>3
<1> HIDE DEF s
<1>5. s = [i \in 0..n |-> s[i]] /\ s[0] = Whole(0) /\ \A i \in 1..n : s[i] = Plus(s[i - 1], f[i])
  <2>1. \A i \in 0..n : s[i] = Step(s)[i]
    BY <1>4
  <2>2. s = [i \in 0..n |-> s[i]]
    BY <1>4
  <2>3. s[0] = Whole(0)
    BY <2>1
  <2>4. ASSUME NEW i \in 1..n PROVE s[i] = Plus(s[i - 1], f[i])
    <3>1. i \in 0..n /\ i # 0
      OBVIOUS
    <3> QED  BY <2>1, <3>1
  <2> QED  BY <2>2, <2>3, <2>4
<1>6. Walks(s, G, n, Fraction, Whole(0))
  <2>1. Whole(0) \in Fraction /\ Steps(G, n, Fraction)
    BY FractionType DEF Steps
  <2>2. \A i \in 1..n : s[i - 1] \in Fraction => s[i] = G[i][s[i - 1]]
    BY <1>5
  <2> HIDE DEF G
  <2> QED  BY <1>5, <2>1, <2>2, WalkIs
<1> QED  BY <1>5, <1>6 DEF s, Walks

\* Sums of fractions keep the order of what they add.
THEOREM SummedBelow ==
  ASSUME NEW n \in Nat, NEW f, NEW g,
         \A i \in 1..n : f[i] \in Fraction /\ g[i] \in Fraction /\ AtMost(f[i], g[i])
  PROVE  /\ Summed(f, n) \in Fraction /\ Summed(g, n) \in Fraction
         /\ AtMost(Summed(f, n), Summed(g, n))
<1> DEFINE p == PartialSums(f, n)  q == PartialSums(g, n)
           T == {i \in 0..n : AtMost(p[i], q[i])}
<1>1. /\ p \in [0..n -> Fraction] /\ p[0] = Whole(0)
      /\ \A i \in 1..n : p[i] = Plus(p[i - 1], f[i])
  BY PartialSumsAre
<1>2. /\ q \in [0..n -> Fraction] /\ q[0] = Whole(0)
      /\ \A i \in 1..n : q[i] = Plus(q[i - 1], g[i])
  BY PartialSumsAre
<1> HIDE DEF p, q
<1>3. 0 \in T
  BY <1>1, <1>2, AtMostOrder, FractionType
<1>4. ASSUME NEW i \in 1..n, i - 1 \in T PROVE i \in T
  <2>1. p[i - 1] \in Fraction /\ q[i - 1] \in Fraction /\ AtMost(p[i - 1], q[i - 1])
    BY <1>1, <1>2, <1>4
  <2>2. AtMost(Plus(p[i - 1], f[i]), Plus(q[i - 1], g[i]))
    BY <2>1, PlusAtMost
  <2> QED  BY <1>1, <1>2, <2>2
<1>5. n \in T
  <2> HIDE DEF T
  <2> QED  BY <1>3, <1>4, UpTo
<1> QED  BY <1>1, <1>2, <1>5 DEF Summed, p, q
=============================================================================
