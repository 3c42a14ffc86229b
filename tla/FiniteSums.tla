----------------------------- MODULE FiniteSums -----------------------------
(* Sums and products over finite sets, of which the library has the          *)
(* definitions only: they do not depend on the order in which the terms are *)
(* taken. A lemma cannot have an operator as its parameter, so the one       *)
(* recursion behind both has a function `op` of pairs.                       *)
EXTENDS Integers, Functions, FiniteSetTheorems, WellFoundedInduction, TLAPS

\* Induction: what holds of a subset of a finite set once it holds of all smaller ones holds of
\* each. P is the set of those of which it holds.
THEOREM SubsetInduction ==
  ASSUME NEW S, IsFiniteSet(S), NEW P,
         \A s \in SUBSET S : (\A t \in SUBSET s : t # s => t \in P) => s \in P
  PROVE SUBSET S \subseteq P
<1> DEFINE R == StrictSubsetOrdering(S)
<1>1. IsWellFoundedOn(R, SUBSET S)
  BY FS_StrictSubsetOrderingWellFounded, FS_FiniteSubsetsOfFinite
<1> DEFINE B == (SUBSET S) \ P
<1> SUFFICES ASSUME B # {} PROVE FALSE
  OBVIOUS
<1>2. PICK s \in B : \A t \in B : <<t, s>> \notin R
  <2>1. B \subseteq SUBSET S
    OBVIOUS
  <2> HIDE DEF R, B
  <2> QED
    BY <1>1, <2>1, WFMin
<1>3. \A t \in SUBSET s : t # s => t \in P
  BY <1>2 DEF StrictSubsetOrdering
<1>4. s \in SUBSET S /\ s \notin P
  OBVIOUS
<1> HIDE DEF B
<1> QED
  BY <1>3, <1>4

-----------------------------------------------------------------------------
\* g has what op makes of f over each subset of S, and `unit` over none.
Pick(s) == CHOOSE x \in s : TRUE
IsFold(g, op, unit, f, S) ==
  g = [s \in SUBSET S |-> IF s = {} THEN unit ELSE op[<<f[Pick(s)], g[s \ {Pick(s)}]>>]]
Fold(op, unit, f, S) == CHOOSE g : IsFold(g, op, unit, f, S)
\* The order of two terms does not matter.
Swaps(op, A) == \A a, b, c \in A : op[<<a, op[<<b, c>>]>>] = op[<<b, op[<<a, c>>]>>]

\* op takes terms of A to A in whichever order, `unit` is one, and f has one for each member of S.
Terms(op, unit, f, A, S) ==
  /\ op \in [A \X A -> A]
  /\ unit \in A
  /\ Swaps(op, A)
  /\ IsFiniteSet(S)
  /\ \A x \in S : f[x] \in A

LEMMA PickIsIn ==
  ASSUME NEW s, s # {}
  PROVE Pick(s) \in s
BY DEF Pick

LEMMA FoldSteps ==
  ASSUME NEW g, NEW op, NEW unit, NEW f, NEW S, IsFold(g, op, unit, f, S), NEW s \in SUBSET S
  PROVE g[s] = IF s = {} THEN unit ELSE op[<<f[Pick(s)], g[s \ {Pick(s)}]>>]
BY DEF IsFold

\* The folds of what agrees on a set agree.
LEMMA FoldsAgree ==
  ASSUME NEW op, NEW unit, NEW S, NEW T \in SUBSET S, IsFiniteSet(T), NEW f, NEW h, NEW g, NEW k,
         IsFold(g, op, unit, f, S), IsFold(k, op, unit, h, T), \A x \in T : f[x] = h[x]
  PROVE \A s \in SUBSET T : g[s] = k[s]
<1> DEFINE P == {s \in SUBSET T : g[s] = k[s]}
<1>1. ASSUME NEW s \in SUBSET T, \A t \in SUBSET s : t # s => t \in P PROVE s \in P
  <2>1. g[s] = IF s = {} THEN unit ELSE op[<<f[Pick(s)], g[s \ {Pick(s)}]>>]
    BY FoldSteps
  <2>2. k[s] = IF s = {} THEN unit ELSE op[<<h[Pick(s)], k[s \ {Pick(s)}]>>]
    <3>1. IsFold(k, op, unit, h, T) /\ s \in SUBSET T
      OBVIOUS
    <3> QED
      BY ONLY <3>1, FoldSteps
  <2>3. CASE s # {}
    <3>1. Pick(s) \in s
      BY <2>3, PickIsIn
    <3>2. s \ {Pick(s)} \in P /\ f[Pick(s)] = h[Pick(s)]
      BY <1>1, <3>1
    <3> QED
      BY <2>1, <2>2, <3>2
  <2> QED
    BY <2>1, <2>2, <2>3
<1> HIDE DEF P
<1>2. SUBSET T \subseteq P
  BY <1>1, SubsetInduction
<1> QED
  BY <1>2 DEF P

\* Over a finite set there is one.
LEMMA FoldsExist ==
  ASSUME NEW op, NEW unit, NEW S, IsFiniteSet(S), NEW f
  PROVE IsFold(Fold(op, unit, f, S), op, unit, f, S)
<1> DEFINE P == {s \in SUBSET S : \E g : IsFold(g, op, unit, f, s)}
           whole(t) == Fold(op, unit, f, t)[t]
<1>1. ASSUME NEW s \in SUBSET S, \A t \in SUBSET s : t # s => t \in P PROVE s \in P
  <2> DEFINE h == [u \in SUBSET s |-> IF u = {} THEN unit ELSE op[<<f[Pick(u)], whole(u \ {Pick(u)})>>]]
  <2>1. ASSUME NEW t \in SUBSET s, t # s PROVE IsFold(Fold(op, unit, f, t), op, unit, f, t)
    BY <1>1, <2>1 DEF Fold
  <2>2. ASSUME NEW v \in SUBSET s, v # s PROVE h[v] = whole(v)
    <3>1. IsFold(Fold(op, unit, f, v), op, unit, f, v)
      BY <2>1, <2>2
    <3>2. CASE v = {}
      BY <3>1, <3>2, FoldSteps, ZenonT(60)
    <3>3. CASE v # {}
      <4> DEFINE w == v \ {Pick(v)}
      <4>1. w \in SUBSET v /\ w \in SUBSET s /\ w # s
        BY <2>2
      <4>2. IsFold(Fold(op, unit, f, w), op, unit, f, w) /\ IsFiniteSet(w)
        BY <2>1, <4>1, FS_Subset
      <4>3. Fold(op, unit, f, v)[w] = Fold(op, unit, f, w)[w]
        <5> HIDE DEF w
        <5>1. PICK g, k : g = Fold(op, unit, f, v) /\ k = Fold(op, unit, f, w)
          OBVIOUS
        <5>2. IsFold(g, op, unit, f, v) /\ IsFold(k, op, unit, f, w)
          BY <3>1, <4>2, <5>1
        <5>3. \A u \in SUBSET w : g[u] = k[u]
          BY <4>1, <4>2, <5>2, FoldsAgree
        <5> QED
          BY <5>1, <5>3
      <4>4. Fold(op, unit, f, v)[v] = op[<<f[Pick(v)], Fold(op, unit, f, v)[w]>>]
        BY <3>1, <3>3, FoldSteps
      <4> QED
        BY <3>3, <4>3, <4>4
    <3> QED
      BY <3>2, <3>3
  <2>3. ASSUME NEW u \in SUBSET s, u # {} PROVE h[u] = op[<<f[Pick(u)], h[u \ {Pick(u)}]>>]
    <3>1. Pick(u) \in u
      BY <2>3, PickIsIn
    <3>2. u \ {Pick(u)} \in SUBSET s /\ u \ {Pick(u)} # s
      BY <3>1
    <3> QED
      BY <2>2, <2>3, <3>2
  <2>4. IsFold(h, op, unit, f, s)
    <3>1. h[{}] = unit /\ h = [u \in SUBSET s |-> h[u]]
      OBVIOUS
    <3>2. \A u \in SUBSET s : h[u] = IF u = {} THEN unit ELSE op[<<f[Pick(u)], h[u \ {Pick(u)}]>>]
      BY <2>3, <3>1
    <3> HIDE DEF h
    <3>3. [u \in SUBSET s |-> h[u]] = [u \in SUBSET s |-> IF u = {} THEN unit ELSE op[<<f[Pick(u)], h[u \ {Pick(u)}]>>]]
      BY <3>2
    <3> QED
      BY <3>1, <3>3 DEF IsFold
  <2> QED
    BY <2>4
<1> HIDE DEF P
<1>2. SUBSET S \subseteq P
  BY <1>1, SubsetInduction
<1> QED
  BY <1>2 DEF P, Fold

\* What is closed under op, and has the unit and the terms, has the folds.
LEMMA FoldsAreIn ==
  ASSUME NEW A, NEW op \in [A \X A -> A], NEW unit \in A, NEW S, IsFiniteSet(S), NEW f,
         \A x \in S : f[x] \in A, NEW g, IsFold(g, op, unit, f, S)
  PROVE \A s \in SUBSET S : g[s] \in A
<1> DEFINE P == {s \in SUBSET S : g[s] \in A}
<1>1. ASSUME NEW s \in SUBSET S, \A t \in SUBSET s : t # s => t \in P PROVE s \in P
  <2>1. g[s] = IF s = {} THEN unit ELSE op[<<f[Pick(s)], g[s \ {Pick(s)}]>>]
    BY FoldSteps
  <2>2. CASE s # {}
    <3>1. Pick(s) \in s
      BY <2>2, PickIsIn
    <3>2. g[s \ {Pick(s)}] \in A /\ f[Pick(s)] \in A
      BY <1>1, <3>1
    <3> QED
      BY <2>1, <2>2, <3>2
  <2> QED
    BY <2>1, <2>2
<1> HIDE DEF P
<1>2. SUBSET S \subseteq P
  BY <1>1, SubsetInduction
<1> QED
  BY <1>2 DEF P

\* Then that of none does: any of them may be the last.
LEMMA FoldWithout ==
  ASSUME NEW A, NEW op, NEW unit, NEW S, NEW f, NEW g,
         Terms(op, unit, f, A, S), IsFold(g, op, unit, f, S)
  PROVE \A s \in SUBSET S : \A z \in s : g[s] = op[<<f[z], g[s \ {z}]>>]
<1> USE DEF Terms
<1> DEFINE P == {s \in SUBSET S : \A z \in s : g[s] = op[<<f[z], g[s \ {z}]>>]}
<1>0. \A s \in SUBSET S : g[s] \in A
  BY FoldsAreIn
<1>1. ASSUME NEW s \in SUBSET S, \A t \in SUBSET s : t # s => t \in P PROVE s \in P
  <2> SUFFICES ASSUME NEW z \in s PROVE g[s] = op[<<f[z], g[s \ {z}]>>]
    OBVIOUS
  <2> DEFINE x == Pick(s)
             rest == (s \ {x}) \ {z}
  <2>1. x \in s /\ g[s] = op[<<f[x], g[s \ {x}]>>]
    BY FoldSteps, PickIsIn
  <2> HIDE DEF x
  <2>2. CASE x = z
    BY <2>1, <2>2
  <2>3. CASE x # z
    <3>1. g[s \ {x}] = op[<<f[z], g[rest]>>]
      BY <1>1, <2>1, <2>3
    <3>2. g[s \ {z}] = op[<<f[x], g[rest]>>]
      <4>1. PICK u : u = s \ {z}
        OBVIOUS
      <4>2. rest = u \ {x} /\ x \in u /\ u \in P
        BY <1>1, <2>1, <2>3, <4>1
      <4>3. g[u] = op[<<f[x], g[u \ {x}]>>]
        BY <4>2
      <4> HIDE DEF rest
      <4> QED
        BY <4>1, <4>2, <4>3
    <3>3. f[x] \in A /\ f[z] \in A /\ g[rest] \in A
      BY <1>0, <2>1
    <3> HIDE DEF rest
    <3> QED
      BY <2>1, <3>1, <3>2, <3>3 DEF Swaps
  <2> QED
    BY <2>2, <2>3
<1> HIDE DEF P
<1>2. SUBSET S \subseteq P
  BY <1>1, SubsetInduction
<1> QED
  BY <1>2 DEF P

-----------------------------------------------------------------------------
(* Sums of integers. *)

Plus == [p \in Int \X Int |-> p[1] + p[2]]
IsSum(g, f, S) == g = [s \in SUBSET S |-> IF s = {} THEN 0 ELSE f[Pick(s)] + g[s \ {Pick(s)}]]

LEMMA SumIsFold ==
  ASSUME NEW S, IsFiniteSet(S), NEW f, \A x \in S : f[x] \in Int, NEW g, IsFold(g, Plus, 0, f, S)
  PROVE SumFunctionOnSet(f, S) = g[S]
<1>1. \A s \in SUBSET S : g[s] \in Int
  <2>1. Plus \in [Int \X Int -> Int] /\ 0 \in Int
    BY DEF Plus
  <2> QED
    BY <2>1, FoldsAreIn
<1>2. ASSUME NEW s \in SUBSET S PROVE g[s] = IF s = {} THEN 0 ELSE f[Pick(s)] + g[s \ {Pick(s)}]
  <2>1. g[s] = IF s = {} THEN 0 ELSE Plus[<<f[Pick(s)], g[s \ {Pick(s)}]>>]
    BY FoldSteps
  <2>2. CASE s # {}
    <3>1. Pick(s) \in S
      BY <2>2, PickIsIn
    <3>2. f[Pick(s)] \in Int /\ g[s \ {Pick(s)}] \in Int
      BY <1>1, <3>1
    <3>3. Plus[<<f[Pick(s)], g[s \ {Pick(s)}]>>] = f[Pick(s)] + g[s \ {Pick(s)}]
      BY <3>2 DEF Plus
    <3> QED
      BY <2>1, <2>2, <3>3
  <2> QED
    BY <2>1, <2>2
<1>3. IsSum(g, f, S)
  <2>1. g = [s \in SUBSET S |-> g[s]]
    BY DEF IsFold
  <2>2. [s \in SUBSET S |-> g[s]] = [s \in SUBSET S |-> IF s = {} THEN 0 ELSE f[Pick(s)] + g[s \ {Pick(s)}]]
    BY <1>2
  <2> QED
    BY <2>1, <2>2 DEF IsSum
<1>4. PICK k : k = CHOOSE h : IsSum(h, f, S)
  OBVIOUS
<1>5. SumFunctionOnSet(f, S) = k[S]
  BY <1>4 DEF SumFunctionOnSet, FoldFunctionOnSet, MapThenFoldSet, IsSum, Pick
<1>6. IsSum(k, f, S)
  BY <1>3, <1>4
<1> DEFINE P == {s \in SUBSET S : k[s] = g[s]}
<1>7. ASSUME NEW s \in SUBSET S, \A t \in SUBSET s : t # s => t \in P PROVE s \in P
  <2>1. k[s] = IF s = {} THEN 0 ELSE f[Pick(s)] + k[s \ {Pick(s)}]
    BY <1>6 DEF IsSum
  <2>2. CASE s # {}
    <3>1. Pick(s) \in s
      BY <2>2, PickIsIn
    <3>2. s \ {Pick(s)} \in P
      BY <1>7, <3>1
    <3> QED
      BY <1>2, <2>1, <2>2, <3>2
  <2> QED
    BY <1>2, <2>1, <2>2
<1> HIDE DEF P
<1>8. SUBSET S \subseteq P
  BY <1>7, SubsetInduction
<1> QED
  BY <1>5, <1>8 DEF P

THEOREM SumOfNone ==
  ASSUME NEW f
  PROVE SumFunctionOnSet(f, {}) = 0
<1>1. PICK g : g = Fold(Plus, 0, f, {})
  OBVIOUS
<1>2. IsFiniteSet({}) /\ IsFold(g, Plus, 0, f, {})
  BY <1>1, FS_EmptySet, FoldsExist
<1>3. g[{}] = 0
  BY <1>2, FoldSteps
<1> QED
  BY <1>2, <1>3, SumIsFold

THEOREM SumIsInt ==
  ASSUME NEW S, IsFiniteSet(S), NEW f, \A x \in S : f[x] \in Int
  PROVE SumFunctionOnSet(f, S) \in Int
<1>1. PICK g : g = Fold(Plus, 0, f, S)
  OBVIOUS
<1>2. IsFold(g, Plus, 0, f, S) /\ Plus \in [Int \X Int -> Int] /\ 0 \in Int
  BY <1>1, FoldsExist DEF Plus
<1>3. \A s \in SUBSET S : g[s] \in Int
  BY <1>2, FoldsAreIn
<1> QED
  BY <1>2, <1>3, SumIsFold

THEOREM SumAgrees ==
  ASSUME NEW S, IsFiniteSet(S), NEW f, NEW h, \A x \in S : f[x] = h[x] /\ f[x] \in Int
  PROVE SumFunctionOnSet(f, S) = SumFunctionOnSet(h, S)
<1>1. PICK g, k : g = Fold(Plus, 0, f, S) /\ k = Fold(Plus, 0, h, S)
  OBVIOUS
<1>2. IsFold(g, Plus, 0, f, S) /\ IsFold(k, Plus, 0, h, S)
  BY <1>1, FoldsExist
<1>3. \A s \in SUBSET S : g[s] = k[s]
  BY <1>2, FoldsAgree
<1>4. SumFunctionOnSet(f, S) = g[S] /\ SumFunctionOnSet(h, S) = k[S]
  BY <1>2, SumIsFold
<1> QED
  BY <1>3, <1>4

THEOREM SumWithout ==
  ASSUME NEW S, IsFiniteSet(S), NEW f, \A x \in S : f[x] \in Int, NEW y \in S
  PROVE SumFunctionOnSet(f, S) = f[y] + SumFunctionOnSet(f, S \ {y})
<1>1. PICK g, k : g = Fold(Plus, 0, f, S) /\ k = Fold(Plus, 0, f, S \ {y})
  OBVIOUS
<1>2. /\ IsFiniteSet(S \ {y}) /\ IsFold(g, Plus, 0, f, S) /\ IsFold(k, Plus, 0, f, S \ {y})
      /\ Plus \in [Int \X Int -> Int] /\ 0 \in Int
  BY <1>1, FoldsExist, FS_Subset DEF Plus
<1>3. Swaps(Plus, Int)
  BY DEF Plus, Swaps
<1>4. g[S] = Plus[<<f[y], g[S \ {y}]>>]
  <2>1. PICK op, unit, A : op = Plus /\ unit = 0 /\ A = Int
    OBVIOUS
  <2>2. Terms(op, unit, f, A, S) /\ IsFold(g, op, unit, f, S)
    BY <1>2, <1>3, <2>1 DEF Terms
  <2>3. \A s \in SUBSET S : \A z \in s : g[s] = op[<<f[z], g[s \ {z}]>>]
    BY ONLY <2>2, FoldWithout
  <2> QED
    BY <2>1, <2>3
<1>5. g[S \ {y}] = k[S \ {y}]
  <2>1. PICK R : R = S \ {y}
    OBVIOUS
  <2>2. R \in SUBSET S /\ IsFiniteSet(R) /\ IsFold(k, Plus, 0, f, R)
    BY <1>2, <2>1
  <2>3. \A s \in SUBSET R : g[s] = k[s]
    BY <1>2, <2>2, FoldsAgree
  <2> QED
    BY <2>1, <2>3
<1>6. SumFunctionOnSet(f, S) = g[S] /\ SumFunctionOnSet(f, S \ {y}) = k[S \ {y}]
  BY <1>2, SumIsFold
<1>7. f[y] \in Int /\ SumFunctionOnSet(f, S \ {y}) \in Int
  BY <1>2, SumIsInt
<1> QED
  BY <1>4, <1>5, <1>6, <1>7 DEF Plus

THEOREM SumIsNat ==
  ASSUME NEW S, IsFiniteSet(S), NEW f, \A x \in S : f[x] \in Nat
  PROVE SumFunctionOnSet(f, S) \in Nat
<1> DEFINE P == {s \in SUBSET S : SumFunctionOnSet(f, s) \in Nat}
<1>1. ASSUME NEW s \in SUBSET S, \A t \in SUBSET s : t # s => t \in P PROVE s \in P
  <2>1. CASE s = {}
    BY <2>1, SumOfNone
  <2>2. ASSUME NEW z \in s PROVE SumFunctionOnSet(f, s) \in Nat
    <3>1. IsFiniteSet(s) /\ \A x \in s : f[x] \in Int
      BY FS_Subset
    <3>2. SumFunctionOnSet(f, s) = f[z] + SumFunctionOnSet(f, s \ {z})
      BY <3>1, SumWithout
    <3>3. s \ {z} \in P /\ f[z] \in Nat
      BY <1>1
    <3> QED
      BY <3>2, <3>3
  <2> QED
    BY <2>1, <2>2
<1> HIDE DEF P
<1>2. SUBSET S \subseteq P
  BY <1>1, SubsetInduction
<1> QED
  BY <1>2 DEF P

\* What a term more, or a term less, makes of the sum of a function.
THEOREM SumOfMore ==
  ASSUME NEW f, IsFiniteSet(DOMAIN f), \A x \in DOMAIN f : f[x] \in Int, NEW y \in DOMAIN f,
         NEW g, DOMAIN g = DOMAIN f \ {y}, \A x \in DOMAIN g : g[x] = f[x]
  PROVE SumFunction(f) = f[y] + SumFunction(g) /\ SumFunction(g) \in Int
<1> DEFINE S == DOMAIN f
           R == S \ {y}
<1>1. SumFunctionOnSet(f, S) = f[y] + SumFunctionOnSet(f, R)
  BY SumWithout
<1>2. IsFiniteSet(R) /\ \A x \in R : g[x] = f[x] /\ g[x] \in Int
  BY FS_Subset
<1> HIDE DEF R
<1>3. SumFunctionOnSet(f, R) = SumFunctionOnSet(g, R)
  BY <1>2, SumAgrees
<1>4. SumFunctionOnSet(g, R) \in Int
  BY <1>2, SumIsInt
<1> QED
  BY <1>1, <1>3, <1>4 DEF SumFunction, R

-----------------------------------------------------------------------------
(* Products of integers. *)

ProductOnSet(f, S) == FoldFunctionOnSet(LAMBDA x, y : x * y, 1, f, S)
Times == [p \in Int \X Int |-> p[1] * p[2]]
IsProduct(g, f, S) == g = [s \in SUBSET S |-> IF s = {} THEN 1 ELSE f[Pick(s)] * g[s \ {Pick(s)}]]

LEMMA ProductIsFold ==
  ASSUME NEW S, IsFiniteSet(S), NEW f, \A x \in S : f[x] \in Int, NEW g, IsFold(g, Times, 1, f, S)
  PROVE ProductOnSet(f, S) = g[S]
<1>1. \A s \in SUBSET S : g[s] \in Int
  <2>1. Times \in [Int \X Int -> Int] /\ 1 \in Int
    BY DEF Times
  <2> QED
    BY <2>1, FoldsAreIn
<1>2. ASSUME NEW s \in SUBSET S PROVE g[s] = IF s = {} THEN 1 ELSE f[Pick(s)] * g[s \ {Pick(s)}]
  <2>1. g[s] = IF s = {} THEN 1 ELSE Times[<<f[Pick(s)], g[s \ {Pick(s)}]>>]
    BY FoldSteps, SMTT(60)
  <2>2. CASE s # {}
    <3>1. Pick(s) \in S
      BY <2>2, PickIsIn
    <3>2. f[Pick(s)] \in Int /\ g[s \ {Pick(s)}] \in Int
      BY <1>1, <3>1
    <3>3. Times[<<f[Pick(s)], g[s \ {Pick(s)}]>>] = f[Pick(s)] * g[s \ {Pick(s)}]
      BY <3>2 DEF Times
    <3> QED
      BY <2>1, <2>2, <3>3
  <2> QED
    BY <2>1, <2>2
<1>3. IsProduct(g, f, S)
  <2>1. g = [s \in SUBSET S |-> g[s]]
    BY DEF IsFold
  <2>2. [s \in SUBSET S |-> g[s]] = [s \in SUBSET S |-> IF s = {} THEN 1 ELSE f[Pick(s)] * g[s \ {Pick(s)}]]
    BY <1>2
  <2> QED
    BY <2>1, <2>2 DEF IsProduct
<1>4. PICK k : k = CHOOSE h : IsProduct(h, f, S)
  OBVIOUS
<1>5. ProductOnSet(f, S) = k[S]
  BY <1>4 DEF ProductOnSet, FoldFunctionOnSet, MapThenFoldSet, IsProduct, Pick
<1>6. IsProduct(k, f, S)
  BY <1>3, <1>4
<1> DEFINE P == {s \in SUBSET S : k[s] = g[s]}
<1>7. ASSUME NEW s \in SUBSET S, \A t \in SUBSET s : t # s => t \in P PROVE s \in P
  <2>1. k[s] = IF s = {} THEN 1 ELSE f[Pick(s)] * k[s \ {Pick(s)}]
    BY <1>6 DEF IsProduct
  <2>2. CASE s # {}
    <3>1. Pick(s) \in s
      BY <2>2, PickIsIn
    <3>2. s \ {Pick(s)} \in P
      BY <1>7, <3>1
    <3> QED
      BY <1>2, <2>1, <2>2, <3>2
  <2> QED
    BY <1>2, <2>1, <2>2
<1> HIDE DEF P
<1>8. SUBSET S \subseteq P
  BY <1>7, SubsetInduction
<1> QED
  BY <1>5, <1>8 DEF P

THEOREM ProductOfNone ==
  ASSUME NEW f
  PROVE ProductOnSet(f, {}) = 1
<1>1. PICK g : g = Fold(Times, 1, f, {})
  OBVIOUS
<1>2. IsFiniteSet({}) /\ IsFold(g, Times, 1, f, {})
  BY <1>1, FS_EmptySet, FoldsExist
<1>3. g[{}] = 1
  BY ONLY <1>2 DEF IsFold
<1> QED
  BY <1>2, <1>3, ProductIsFold

THEOREM ProductIsInt ==
  ASSUME NEW S, IsFiniteSet(S), NEW f, \A x \in S : f[x] \in Int
  PROVE ProductOnSet(f, S) \in Int
<1>1. PICK g : g = Fold(Times, 1, f, S)
  OBVIOUS
<1>2. IsFold(g, Times, 1, f, S) /\ Times \in [Int \X Int -> Int] /\ 1 \in Int
  BY <1>1, FoldsExist DEF Times
<1>3. \A s \in SUBSET S : g[s] \in Int
  BY <1>2, FoldsAreIn
<1> QED
  BY <1>2, <1>3, ProductIsFold

THEOREM ProductAgrees ==
  ASSUME NEW S, IsFiniteSet(S), NEW f, NEW h, \A x \in S : f[x] = h[x] /\ f[x] \in Int
  PROVE ProductOnSet(f, S) = ProductOnSet(h, S)
<1>1. PICK g, k : g = Fold(Times, 1, f, S) /\ k = Fold(Times, 1, h, S)
  OBVIOUS
<1>2. IsFold(g, Times, 1, f, S) /\ IsFold(k, Times, 1, h, S)
  BY <1>1, FoldsExist
<1>3. \A s \in SUBSET S : g[s] = k[s]
  BY <1>2, FoldsAgree
<1>4. ProductOnSet(f, S) = g[S] /\ ProductOnSet(h, S) = k[S]
  BY <1>2, ProductIsFold
<1> QED
  BY <1>3, <1>4

THEOREM ProductWithout ==
  ASSUME NEW S, IsFiniteSet(S), NEW f, \A x \in S : f[x] \in Int, NEW y \in S
  PROVE ProductOnSet(f, S) = f[y] * ProductOnSet(f, S \ {y})
<1>1. PICK g, k : g = Fold(Times, 1, f, S) /\ k = Fold(Times, 1, f, S \ {y})
  OBVIOUS
<1>2. /\ IsFiniteSet(S \ {y}) /\ IsFold(g, Times, 1, f, S) /\ IsFold(k, Times, 1, f, S \ {y})
      /\ Times \in [Int \X Int -> Int] /\ 1 \in Int
  BY <1>1, FoldsExist, FS_Subset DEF Times
<1>3. Swaps(Times, Int)
  BY DEF Times, Swaps
<1>4. g[S] = Times[<<f[y], g[S \ {y}]>>]
  <2>1. PICK op, unit, A : op = Times /\ unit = 1 /\ A = Int
    OBVIOUS
  <2>2. Terms(op, unit, f, A, S) /\ IsFold(g, op, unit, f, S)
    BY <1>2, <1>3, <2>1 DEF Terms
  <2>3. \A s \in SUBSET S : \A z \in s : g[s] = op[<<f[z], g[s \ {z}]>>]
    BY ONLY <2>2, FoldWithout
  <2> QED
    BY <2>1, <2>3
<1>5. g[S \ {y}] = k[S \ {y}]
  <2>1. PICK R : R = S \ {y}
    OBVIOUS
  <2>2. R \in SUBSET S /\ IsFiniteSet(R) /\ IsFold(k, Times, 1, f, R)
    BY <1>2, <2>1
  <2>3. \A s \in SUBSET R : g[s] = k[s]
    BY <1>2, <2>2, FoldsAgree
  <2> QED
    BY <2>1, <2>3
<1>6. ProductOnSet(f, S) = g[S] /\ ProductOnSet(f, S \ {y}) = k[S \ {y}]
  BY <1>2, ProductIsFold
<1>7. f[y] \in Int /\ ProductOnSet(f, S \ {y}) \in Int
  BY <1>2, ProductIsInt
<1> QED
  BY <1>4, <1>5, <1>6, <1>7 DEF Times

THEOREM ProductIsPositive ==
  ASSUME NEW S, IsFiniteSet(S), NEW f, \A x \in S : f[x] \in Nat \ {0}
  PROVE ProductOnSet(f, S) \in Nat \ {0}
<1> DEFINE P == {s \in SUBSET S : ProductOnSet(f, s) \in Nat \ {0}}
<1>1. ASSUME NEW s \in SUBSET S, \A t \in SUBSET s : t # s => t \in P PROVE s \in P
  <2>1. CASE s = {}
    BY <2>1, ProductOfNone
  <2>2. ASSUME NEW z \in s PROVE ProductOnSet(f, s) \in Nat \ {0}
    <3>1. IsFiniteSet(s) /\ \A x \in s : f[x] \in Int
      BY FS_Subset
    <3>2. ProductOnSet(f, s) = f[z] * ProductOnSet(f, s \ {z})
      BY <3>1, ProductWithout
    <3>3. s \ {z} \in P /\ f[z] \in Nat \ {0}
      BY <1>1
    <3>4. \A a, b \in Nat \ {0} : a * b \in Nat \ {0}
      OBVIOUS
    <3> QED
      BY <3>2, <3>3, <3>4
  <2> QED
    BY <2>1, <2>2
<1> HIDE DEF P
<1>2. SUBSET S \subseteq P
  BY <1>1, SubsetInduction
<1> QED
  BY <1>2 DEF P

\* A product is that of a part times that of the rest.
THEOREM ProductOfParts ==
  ASSUME NEW S, IsFiniteSet(S), NEW f, \A x \in S : f[x] \in Int, NEW T \in SUBSET S
  PROVE ProductOnSet(f, S) = ProductOnSet(f, T) * ProductOnSet(f, S \ T)
<1> DEFINE R == S \ T
           Whole(s) == ProductOnSet(f, T \union s) = ProductOnSet(f, T) * ProductOnSet(f, s)
           P == {s \in SUBSET R : Whole(s)}
<1>1. IsFiniteSet(R) /\ \A s \in SUBSET S : IsFiniteSet(s) /\ ProductOnSet(f, s) \in Int
  BY FS_Subset, ProductIsInt
<1>2. ASSUME NEW s \in SUBSET R, \A t \in SUBSET s : t # s => t \in P PROVE s \in P
  <2>1. CASE s = {}
    <3>1. T \union s = T /\ ProductOnSet(f, s) = 1 /\ ProductOnSet(f, T) \in Int
      BY <1>1, <2>1, ProductOfNone
    <3> QED
      BY <3>1
  <2>2. ASSUME NEW z \in s PROVE Whole(s)
    <3> DEFINE u == s \ {z}
               v == T \union s
    <3>1. /\ v \in SUBSET S /\ z \in v /\ v \ {z} = T \union u /\ s \in SUBSET S /\ u \in SUBSET S
          /\ \A x \in v : f[x] \in Int
      OBVIOUS
    <3>2. u \in P
      BY <1>2
    <3> HIDE DEF u, v
    <3>3. ProductOnSet(f, v) = f[z] * ProductOnSet(f, v \ {z})
      BY <1>1, <3>1, ProductWithout
    <3>4. ProductOnSet(f, s) = f[z] * ProductOnSet(f, u)
      BY <1>1, ProductWithout DEF u
    <3>5. ProductOnSet(f, T \union u) = ProductOnSet(f, T) * ProductOnSet(f, u)
      BY <3>2
    <3>6. f[z] \in Int /\ ProductOnSet(f, T) \in Int /\ ProductOnSet(f, u) \in Int
      BY <1>1, <3>1
    <3>7. \A a, b, c \in Int : a * (b * c) = b * (a * c)
      OBVIOUS
    <3>8. ProductOnSet(f, v) = f[z] * (ProductOnSet(f, T) * ProductOnSet(f, u))
      BY <3>1, <3>3, <3>5
    <3>9. ProductOnSet(f, T) * ProductOnSet(f, s) = ProductOnSet(f, T) * (f[z] * ProductOnSet(f, u))
      BY <3>4
    <3>10. ProductOnSet(f, v) = ProductOnSet(f, T) * ProductOnSet(f, s)
      BY <3>6, <3>7, <3>8, <3>9
    <3> QED
      BY <3>10 DEF v
  <2> QED
    BY <2>1, <2>2
<1> HIDE DEF P, R
<1>3. SUBSET R \subseteq P
  BY <1>1, <1>2, SubsetInduction
<1>4. Whole(R) /\ T \union R = S
  BY <1>3 DEF P, R
<1> QED
  BY <1>4 DEF R
=============================================================================
