-------------------------- MODULE ReconcilerProofs --------------------------
(***************************************************************************)
(* What the reconciler makes of the legs, for every number of them, every  *)
(* value and every tolerance: which are left of the sources, what their    *)
(* mean and their spread are, and how far a reconciled value can be from a *)
(* leg.                                                                    *)
(*                                                                         *)
(* The legs left over and the sum are folds over a finite set, that is, a  *)
(* function on its subsets chosen to satisfy an equation. FoldExists shows *)
(* that there is one; what then holds of the fold holds because no subset  *)
(* is a least offender (LeastSet). Of one and of two legs the values are   *)
(* computed.                                                               *)
(***************************************************************************)
EXTENDS Reconciler, FiniteSetTheorems, WellFoundedInduction, TLAPS

-----------------------------------------------------------------------------
\* Least and greatest elements, as the naturals and finite sets are well-founded.

LEMMA LeastNatural ==
  ASSUME NEW S \in SUBSET Nat, S # {}
  PROVE  Min(S) \in S /\ \A n \in S : Min(S) <= n
<1> DEFINE R == {p \in Nat \X Nat : p[1] < p[2]}
<1>1. IsWellFoundedOn(R, Nat)
  BY NatLessThanWellFounded DEF OpToRel
<1>2. \A m, n \in Nat : <<n, m>> \notin R => m <= n
  <2>1. \A m, n \in Nat : n < m => <<n, m>> \in R
    OBVIOUS
  <2> HIDE DEF R
  <2> QED BY <2>1
<1> HIDE DEF R
<1>3. PICK m \in S : \A n \in S : ~(<<n, m>> \in R)
  BY <1>1, WFMin
<1>4. \A n \in S : m <= n
  BY <1>2, <1>3
<1> QED BY <1>4 DEF Min

LEMMA LeastOf ==
  ASSUME NEW S, S # {}, NEW f \in [S -> Nat]
  PROVE  \E x \in S : \A y \in S : f[x] <= f[y]
<1> DEFINE V == {f[x] : x \in S}
<1>1. V \in SUBSET Nat /\ V # {}
  OBVIOUS
<1>2. Min(V) \in V /\ \A n \in V : Min(V) <= n
  <2> HIDE DEF V
  <2> QED BY <1>1, LeastNatural
<1> QED BY <1>2

LEMMA GreatestOf ==
  ASSUME NEW S, S # {}, NEW n \in Nat, NEW f \in [S -> 0..n]
  PROVE  \E x \in S : \A y \in S : f[y] <= f[x]
<1> DEFINE g == [x \in S |-> n - f[x]]
<1>1. g \in [S -> Nat]
  OBVIOUS
<1>2. PICK x \in S : \A y \in S : g[x] <= g[y]
  <2> HIDE DEF g
  <2> QED BY <1>1, LeastOf
<1>3. \A y \in S : f[y] <= f[x]
  BY <1>2
<1> QED BY <1>3

LEMMA GreatestNatural ==
  ASSUME NEW n \in Nat, NEW S \in SUBSET (0..n), S # {}
  PROVE  Max(S) \in S /\ \A m \in S : m <= Max(S)
<1> DEFINE f == [m \in S |-> m]
<1>1. f \in [S -> 0..n]
  OBVIOUS
<1>2. PICK x \in S : \A y \in S : f[y] <= f[x]
  <2> HIDE DEF f
  <2> QED BY <1>1, GreatestOf
<1>3. \A y \in S : x >= y
  BY <1>2
<1> QED BY <1>3 DEF Max

\* A finite set that has offenders among its subsets has a least one.
LEMMA LeastSet ==
  ASSUME NEW D, IsFiniteSet(D), NEW bad \in SUBSET (SUBSET D), bad # {}
  PROVE  \E S \in bad : \A T \in bad : T \subseteq S => T = S
<1>1. IsWellFoundedOn(StrictSubsetOrdering(D), SUBSET D)
  BY FS_StrictSubsetOrderingWellFounded, FS_FiniteSubsetsOfFinite
<1>2. PICK S \in bad : \A T \in bad : ~(<<T, S>> \in StrictSubsetOrdering(D))
  BY <1>1, WFMin
<1>3. ASSUME NEW T \in bad, T \subseteq S PROVE T = S
  <2> SUFFICES ASSUME T # S PROVE FALSE
    OBVIOUS
  <2>1. T \in SUBSET D /\ S \in SUBSET D
    OBVIOUS
  <2>2. <<T, S>> \in StrictSubsetOrdering(D)
    BY <1>3, <2>1 DEF StrictSubsetOrdering
  <2> QED BY <1>2, <1>3, <2>2
<1> QED BY <1>3

LEMMA LeastOfFinite ==
  ASSUME NEW S, IsFiniteSet(S), S # {}, NEW f \in [S -> Int]
  PROVE  \E x \in S : \A y \in S : f[x] <= f[y]
<1> DEFINE HasLeast(T) == \E x \in T : \A y \in T : f[x] <= f[y]
           bad == {T \in SUBSET S : T # {} /\ ~HasLeast(T)}
<1> SUFFICES ASSUME bad # {} PROVE FALSE
  <2>1. S \in SUBSET S
    OBVIOUS
  <2> QED BY <2>1
<1>1. bad \in SUBSET (SUBSET S)
  OBVIOUS
<1>2. PICK T \in bad : \A U \in bad : U \subseteq T => U = T
  <2> HIDE DEF bad
  <2> QED BY <1>1, LeastSet
<1>3. T \in SUBSET S /\ T # {} /\ ~HasLeast(T)
  OBVIOUS
<1>4. PICK x \in T : TRUE
  BY <1>3
<1> DEFINE rest == T \ {x}
<1>5. x \in S /\ f[x] \in Int /\ \A y \in T : f[y] \in Int
  BY <1>3, <1>4
<1>6. rest \notin bad
  <2>1. rest \in SUBSET S /\ rest \subseteq T /\ rest # T
    BY <1>3, <1>4
  <2> HIDE DEF bad, rest
  <2> QED BY <1>2, <2>1
<1>7. CASE rest = {}
  <2>1. \A y \in T : y = x
    BY <1>7
  <2>2. HasLeast(T)
    BY <1>4, <1>5, <2>1
  <2> QED BY <1>3, <2>2
<1>8. CASE rest # {}
  <2>1. rest \in SUBSET S
    BY <1>3
  <2>2. HasLeast(rest)
    <3> HIDE DEF HasLeast, rest
    <3> QED BY <1>6, <1>8, <2>1
  <2>3. PICK z \in rest : \A y \in rest : f[z] <= f[y]
    BY <2>2
  <2>4. z \in T /\ \A y \in T : y = x \/ f[z] <= f[y]
    BY <2>3
  <2>5. CASE f[x] <= f[z]
    <3>1. \A y \in T : f[x] <= f[y]
      BY <1>5, <2>4, <2>5
    <3> QED BY <1>3, <1>4, <3>1
  <2>6. CASE ~(f[x] <= f[z])
    <3>1. \A y \in T : f[z] <= f[y]
      BY <1>5, <2>4, <2>6
    <3> QED BY <1>3, <2>4, <3>1
  <2> QED BY <2>5, <2>6
<1> QED BY <1>7, <1>8

LEMMA GreatestOfFinite ==
  ASSUME NEW S, IsFiniteSet(S), S # {}, NEW f \in [S -> Int]
  PROVE  \E x \in S : \A y \in S : f[y] <= f[x]
<1> DEFINE g == [x \in S |-> -f[x]]
<1>1. g \in [S -> Int]
  OBVIOUS
<1>2. PICK x \in S : \A y \in S : g[x] <= g[y]
  <2> HIDE DEF g
  <2> QED BY <1>1, LeastOfFinite
<1>3. \A y \in S : f[y] <= f[x]
  BY <1>2
<1> QED BY <1>3


-----------------------------------------------------------------------------
\* Folds over a finite set.

\* A function on the subsets of a set that takes out one element after the other, in
\* the order that pick gives, and adds it by G.
Unfolds(D, base, pick, G, h) ==
    \A S \in SUBSET D : h[S] = IF S = {} THEN base ELSE G[<<pick[S], h[S \ {pick[S]}]>>]

\* Two of them agree wherever both are defined.
LEMMA FoldsAgree ==
  ASSUME NEW D, IsFiniteSet(D), NEW base, NEW G,
         NEW pick, \A S \in SUBSET D : S # {} => pick[S] \in S,
         NEW T \in SUBSET D, NEW h, Unfolds(T, base, pick, G, h),
         NEW U \in SUBSET D, NEW k, Unfolds(U, base, pick, G, k),
         NEW R \in SUBSET (T \cap U)
  PROVE  h[R] = k[R]
<1> DEFINE bad == {S \in SUBSET (T \cap U) : h[S] # k[S]}
<1> SUFFICES ASSUME bad # {} PROVE FALSE
  OBVIOUS
<1>1. bad \in SUBSET (SUBSET D)
  OBVIOUS
<1>2. PICK S \in bad : \A X \in bad : X \subseteq S => X = S
  <2> HIDE DEF bad
  <2> QED BY <1>1, LeastSet
<1>3. S \in SUBSET (T \cap U) /\ h[S] # k[S]
  OBVIOUS
<1>4. S \in SUBSET D /\ S \in SUBSET T /\ S \in SUBSET U
  BY <1>3
<1>5. S # {}
  BY <1>3, <1>4 DEF Unfolds
<1> DEFINE rest == S \ {pick[S]}
<1>6. h[S] = G[<<pick[S], h[rest]>>] /\ k[S] = G[<<pick[S], k[rest]>>]
  BY <1>4, <1>5 DEF Unfolds
<1>7. pick[S] \in S
  BY <1>4, <1>5
<1>8. rest \in SUBSET (T \cap U) /\ rest \subseteq S /\ rest # S
  BY <1>4, <1>7
<1>9. h[rest] = k[rest]
  <2>1. rest \notin bad
    <3> HIDE DEF bad, rest
    <3> QED BY <1>2, <1>8
  <2> HIDE DEF rest
  <2> QED BY <1>8, <2>1
<1> HIDE DEF rest
<1> QED BY <1>3, <1>6, <1>9

\* And there is one.
LEMMA FoldExists ==
  ASSUME NEW D, IsFiniteSet(D), NEW V, NEW base \in V,
         NEW G, \A x \in D, y \in V : G[<<x, y>>] \in V,
         NEW pick, \A S \in SUBSET D : S # {} => pick[S] \in S
  PROVE  \E h \in [SUBSET D -> V] : Unfolds(D, base, pick, G, h)
<1> DEFINE Folds(T, h) == h \in [SUBSET T -> V] /\ Unfolds(T, base, pick, G, h)
           Foldable(T) == \E h : Folds(T, h)
           bad == {T \in SUBSET D : ~Foldable(T)}
<1> SUFFICES ASSUME bad # {} PROVE FALSE
  <2>1. D \in SUBSET D
    OBVIOUS
  <2>2. Foldable(D)
    <3> HIDE DEF Foldable
    <3> QED BY <2>1
  <2> QED BY <2>2
<1>1. bad \in SUBSET (SUBSET D)
  OBVIOUS
<1>2. PICK T \in bad : \A U \in bad : U \subseteq T => U = T
  <2> HIDE DEF bad
  <2> QED BY <1>1, LeastSet
<1>3. T \in SUBSET D /\ ~Foldable(T)
  OBVIOUS
<1> DEFINE fold(U) == CHOOSE h : Folds(U, h)
           below(S) == S \ {pick[S]}
           H == [S \in SUBSET T |-> IF S = {} THEN base
                                    ELSE G[<<pick[S], fold(below(S))[below(S)]>>]]
<1>4. ASSUME NEW U \in SUBSET T, U # T PROVE Folds(U, fold(U))
  <2>1. Foldable(U)
    <3>1. U \notin bad
      <4> HIDE DEF bad
      <4> QED BY <1>2, <1>4
    <3> HIDE DEF Foldable
    <3> QED BY <1>3, <3>1
  <2> HIDE DEF Folds
  <2> QED BY <2>1
<1>5. ASSUME NEW S \in SUBSET T, S # {}
      PROVE  /\ pick[S] \in D /\ below(S) \in SUBSET T /\ below(S) # T
             /\ below(S) \in SUBSET S
  <2>1. S \in SUBSET D /\ pick[S] \in S
    BY <1>3, <1>5
  <2> QED BY <1>3, <2>1
<1>6. ASSUME NEW U \in SUBSET T, U # T PROVE H[U] = fold(U)[U] /\ H[U] \in V
  <2>1. Folds(U, fold(U))
    BY <1>4, <1>6
  <2>2. U \in SUBSET U
    OBVIOUS
  <2>3. fold(U)[U] \in V
    <3> HIDE DEF fold
    <3> QED BY <2>1, <2>2
  <2>4. CASE U = {}
    <3>1. fold(U)[U] = base
      <4> HIDE DEF fold
      <4> QED BY <2>1, <2>2, <2>4 DEF Unfolds
    <3> QED BY <2>3, <2>4, <3>1
  <2>5. CASE U # {}
    <3>1. below(U) \in SUBSET T /\ below(U) # T /\ below(U) \in SUBSET U
      BY <1>5, <2>5
    <3>2. Folds(below(U), fold(below(U)))
      <4> HIDE DEF below, fold, Folds
      <4> QED BY <1>4, <3>1
    <3>3. fold(U)[U] = G[<<pick[U], fold(U)[below(U)]>>]
      <4> HIDE DEF fold
      <4> QED BY <2>1, <2>2, <2>5 DEF Unfolds
    <3>4. fold(U)[below(U)] = fold(below(U))[below(U)]
      <4>1. below(U) \in SUBSET D /\ U \in SUBSET D
        BY <1>3, <3>1
      <4> DEFINE B == below(U)
      <4>2. B \in SUBSET (U \cap B)
        BY <3>1
      <4>3. /\ Unfolds(U, base, pick, G, fold(U))
            /\ Unfolds(B, base, pick, G, fold(B))
        BY <2>1, <3>2
      <4>4. B \in SUBSET D
        BY <4>1
      <4> HIDE DEF fold, Folds, B
      <4>5. fold(U)[B] = fold(B)[B]
        BY <4>1, <4>2, <4>3, <4>4, FoldsAgree
      <4> QED BY <4>5 DEF B
    <3>5. H[U] = G[<<pick[U], fold(below(U))[below(U)]>>]
      <4> HIDE DEF fold, below
      <4> QED BY <2>5
    <3> HIDE DEF fold, below, H
    <3> QED BY <2>3, <3>3, <3>4, <3>5
  <2> QED BY <2>4, <2>5
<1>7. ASSUME NEW S \in SUBSET T, S # {}
      PROVE  H[S] = G[<<pick[S], H[below(S)]>>] /\ H[S] \in V
  <2>1. /\ pick[S] \in D /\ below(S) \in SUBSET T /\ below(S) # T
    BY <1>5, <1>7
  <2>2. H[S] = G[<<pick[S], fold(below(S))[below(S)]>>]
    <3> HIDE DEF fold, below
    <3> QED BY <1>7
  <2> HIDE DEF H, fold, below
  <2>3. H[below(S)] = fold(below(S))[below(S)] /\ H[below(S)] \in V
    BY <1>6, <2>1
  <2> QED BY <2>1, <2>2, <2>3
<1>8. H[{}] = base
  OBVIOUS
<1>9. Unfolds(T, base, pick, G, H)
  <2> HIDE DEF H
  <2> QED BY <1>7, <1>8 DEF Unfolds
<1>10. H \in [SUBSET T -> V]
  <2>1. \A S \in SUBSET T : H[S] \in V
    <3> HIDE DEF H
    <3> QED BY <1>7, <1>8
  <2>2. H = [S \in SUBSET T |-> H[S]]
    <3> HIDE DEF fold, below
    <3> QED OBVIOUS
  <2> HIDE DEF H
  <2> QED BY <2>1, <2>2
<1>11. Foldable(T)
  <2>1. Folds(T, H)
    <3> HIDE DEF H
    <3> QED BY <1>9, <1>10
  <2> HIDE DEF Folds, H
  <2> QED BY <2>1
<1> QED BY <1>3, <1>11

-----------------------------------------------------------------------------
\* The mean, the legs left over and the spread.

\* The sum over a finite set, whichever is added first, when its values lie between
\* two bounds.
LEMMA SumIsBetween ==
  ASSUME NEW C, IsFiniteSet(C), NEW v, NEW lo \in Int, NEW hi \in Int,
         \A i \in C : v[i] \in Int /\ lo <= v[i] /\ v[i] <= hi
  PROVE  LET sum == FoldFunctionOnSet(+, 0, v, C)
         IN /\ sum \in Int
            /\ Cardinality(C) * lo <= sum /\ sum <= Cardinality(C) * hi
<1> DEFINE choose(S) == CHOOSE x \in S : TRUE
           step(h, S) == IF S = {} THEN 0 ELSE v[choose(S)] + h[S \ {choose(S)}]
           fold == CHOOSE h : h = [S \in SUBSET C |-> step(h, S)]
           pick == [S \in SUBSET C |-> choose(S)]
           G == [p \in C \X Int |-> v[p[1]] + p[2]]
           Between(S) == /\ fold[S] \in Int
                         /\ Cardinality(S) * lo <= fold[S]
                         /\ fold[S] <= Cardinality(S) * hi
           bad == {S \in SUBSET C : ~Between(S)}
<1>1. FoldFunctionOnSet(+, 0, v, C) = fold[C]
  BY DEF FoldFunctionOnSet, MapThenFoldSet
<1>2. \A S \in SUBSET C : S # {} => choose(S) \in S
  OBVIOUS
<1> HIDE DEF choose
<1>3. PICK h \in [SUBSET C -> Int] : Unfolds(C, 0, pick, G, h)
  <2>1. \A S \in SUBSET C : S # {} => pick[S] \in S
    BY <1>2
  <2>2. \A x \in C, y \in Int : G[<<x, y>>] \in Int
    OBVIOUS
  <2>3. 0 \in Int
    OBVIOUS
  <2> HIDE DEF pick, G
  <2> QED BY <2>1, <2>2, <2>3, FoldExists
<1>4. ASSUME NEW S \in SUBSET C PROVE h[S] = step(h, S)
  <2>1. CASE S = {}
    BY <1>3, <2>1 DEF Unfolds
  <2>2. CASE S # {}
    <3>1. choose(S) \in C /\ S \ {choose(S)} \in SUBSET C /\ pick[S] = choose(S)
      BY <1>2, <2>2
    <3>2. h[S \ {choose(S)}] \in Int
      BY <3>1
    <3>3. h[S] = G[<<choose(S), h[S \ {choose(S)}]>>]
      <4> HIDE DEF pick, G
      <4> QED BY <1>3, <2>2, <3>1 DEF Unfolds
    <3> QED BY <2>2, <3>1, <3>2, <3>3
  <2> QED BY <2>1, <2>2
<1>5. fold = [S \in SUBSET C |-> step(fold, S)]
  <2>1. h = [S \in SUBSET C |-> step(h, S)]
    <3>1. h = [S \in SUBSET C |-> h[S]]
      OBVIOUS
    <3> HIDE DEF step
    <3> QED BY <1>4, <3>1
  <2> HIDE DEF step
  <2> QED BY <2>1
<1> HIDE DEF fold
<1>6. bad = {}
  <2> SUFFICES ASSUME bad # {} PROVE FALSE
    OBVIOUS
  <2>1. PICK S \in bad : \A T \in bad : T \subseteq S => T = S
    <3>1. bad \in SUBSET (SUBSET C)
      OBVIOUS
    <3> HIDE DEF bad
    <3> QED BY <3>1, LeastSet
  <2>2. S \in SUBSET C /\ ~Between(S)
    OBVIOUS
  <2>3. fold[S] = step(fold, S)
    <3> HIDE DEF step
    <3> QED BY <1>5, <2>2
  <2>4. IsFiniteSet(S) /\ Cardinality(S) \in Nat
    BY <2>2, FS_Subset, FS_CardinalityType
  <2>5. CASE S = {}
    <3>1. Cardinality(S) = 0 /\ fold[S] = 0
      BY <2>3, <2>5, FS_EmptySet
    <3> QED BY <2>2, <3>1
  <2>6. CASE S # {}
    <3> DEFINE c == choose(S)
               rest == S \ {c}
               n == Cardinality(rest)
    <3>1. c \in S /\ c \in C
      BY <1>2, <2>2, <2>6
    <3>2. rest \in SUBSET C /\ rest \subseteq S /\ rest # S
      BY <2>2, <3>1
    <3>3. Between(rest)
      <4>1. rest \notin bad
        <5> HIDE DEF bad, rest
        <5> QED BY <2>1, <3>2
      <4> HIDE DEF Between, rest
      <4> QED BY <3>2, <4>1
    <3>4. Cardinality(S) = n + 1 /\ n \in Nat
      <4>1. n = Cardinality(S) - 1
        BY <2>4, <3>1, FS_RemoveElement
      <4>2. IsFiniteSet(rest)
        BY <2>4, FS_RemoveElement
      <4>3. n \in Nat
        BY <4>2, FS_CardinalityType
      <4> HIDE DEF n
      <4> QED BY <2>4, <4>1, <4>3
    <3>5. fold[S] = v[c] + fold[rest]
      BY <2>3, <2>6
    <3>6. /\ v[c] \in Int /\ lo <= v[c] /\ v[c] <= hi
          /\ fold[rest] \in Int /\ n * lo <= fold[rest] /\ fold[rest] <= n * hi
      BY <3>1, <3>3
    <3> HIDE DEF n, rest, c
    <3>7. (n + 1) * lo = n * lo + lo /\ (n + 1) * hi = n * hi + hi
          /\ n * lo \in Int /\ n * hi \in Int
      BY <3>4
    <3>8. /\ fold[S] \in Int /\ (n + 1) * lo <= fold[S] /\ fold[S] <= (n + 1) * hi
      BY <3>5, <3>6, <3>7
    <3> QED BY <2>2, <3>4, <3>8
  <2> QED BY <2>5, <2>6
<1>7. C \in SUBSET C
  OBVIOUS
<1>8. Between(C)
  <2> HIDE DEF Between
  <2> QED BY <1>6, <1>7
<1> QED BY <1>1, <1>8

\* So the mean lies between them.
LEMMA MeanIsBetween ==
  ASSUME NEW C, IsFiniteSet(C), C # {}, NEW v, NEW lo \in Int, NEW hi \in Int,
         \A i \in C : v[i] \in Int /\ lo <= v[i] /\ v[i] <= hi
  PROVE  LET mean == FoldFunctionOnSet(+, 0, v, C) \div Cardinality(C)
         IN mean \in Int /\ lo <= mean /\ mean <= hi
<1> DEFINE n == Cardinality(C)
           sum == FoldFunctionOnSet(+, 0, v, C)
           mean == sum \div n
<1>1. n \in Nat /\ n # 0
  BY FS_CardinalityType, FS_EmptySet
<1>2. sum \in Int /\ n * lo <= sum /\ sum <= n * hi
  BY SumIsBetween
<1> HIDE DEF n, sum
<1>3. mean \in Int /\ n * mean <= sum /\ sum < n * (mean + 1)
  <2>1. mean \in Int /\ n * mean <= sum /\ sum < n * mean + n
    BY <1>1, <1>2
  <2> HIDE DEF mean
  <2>2. n * (mean + 1) = n * mean + n
    BY <1>1, <2>1
  <2> QED BY <2>1, <2>2
<1> HIDE DEF mean
<1>4. \A x, y \in Int : x <= y => n * x <= n * y
  BY <1>1
<1>5. lo <= mean
  <2> SUFFICES ASSUME mean + 1 <= lo PROVE FALSE
    BY <1>3
  <2>1. n * (mean + 1) <= n * lo /\ mean + 1 \in Int
    BY <1>3, <1>4
  <2>2. n * (mean + 1) \in Int /\ n * lo \in Int
    BY <1>1, <2>1
  <2> QED BY <1>2, <1>3, <2>1, <2>2
<1>6. mean <= hi
  <2> SUFFICES ASSUME hi + 1 <= mean PROVE FALSE
    BY <1>3
  <2>1. n * (hi + 1) <= n * mean
    BY <1>3, <1>4
  <2>2. n * (hi + 1) = n * hi + n /\ n * hi \in Int /\ n * mean \in Int
    BY <1>1, <1>3
  <2> QED BY <1>1, <1>2, <1>3, <2>1, <2>2
<1> QED BY <1>3, <1>5, <1>6 DEF n, sum, mean

\* The mean of a sequence.
LEMMA MeanOfASequence ==
  ASSUME NEW v \in Seq(Int), v # <<>>, NEW lo \in Int, NEW hi \in Int,
         \A i \in 1..Len(v) : lo <= v[i] /\ v[i] <= hi
  PROVE  Mean(v) \in Int /\ lo <= Mean(v) /\ Mean(v) <= hi
<1> DEFINE D == 1..Len(v)
<1>1. DOMAIN v = D /\ Len(v) \in Nat \ {0} /\ \A i \in D : v[i] \in Int
  OBVIOUS
<1>2. IsFiniteSet(D) /\ Cardinality(D) = Len(v)
  <2>1. 1 \in Int /\ Len(v) \in Int /\ ~(1 > Len(v)) /\ Len(v) - 1 + 1 = Len(v)
    BY <1>1
  <2> QED BY <2>1, FS_Interval
<1>3. D # {}
  BY <1>1
<1>4. Mean(v) = FoldFunctionOnSet(+, 0, v, D) \div Cardinality(D)
  BY <1>1, <1>2 DEF Mean, FoldSeq, FoldFunction
<1> HIDE DEF D
<1> QED BY <1>1, <1>2, <1>3, <1>4, MeanIsBetween DEF D

\* What the sources leave: what some of them answer, in a sequence.
LEMMA LeftOver ==
  ASSUME NEW n \in Nat, NEW s, DOMAIN s = 1..n
  PROVE  getYieldObservation(s) \in Seq({s[i] : i \in {j \in 1..n : s[j] # Failed}})
<1> DEFINE answered == {s[i] : i \in {j \in 1..n : s[j] # Failed}}
           D == 1..n
           push(legs, leg) == IF leg = Failed THEN legs ELSE Append(legs, leg)
           step(h, S) == IF S = {} THEN <<>> ELSE push(h[S \ {Max(S)}], s[Max(S)])
           fold == CHOOSE h : h = [S \in SUBSET D |-> step(h, S)]
           pick == [S \in SUBSET D |-> Max(S)]
           G == [p \in D \X Seq(answered) |-> push(p[2], s[p[1]])]
           bad == {S \in SUBSET D : fold[S] \notin Seq(answered)}
<1>1. getYieldObservation(s) = fold[D]
  BY DEF getYieldObservation, FoldLeft, MapThenFoldSet
<1>2. IsFiniteSet(D)
  <2>1. 1 \in Int /\ n \in Int
    OBVIOUS
  <2> QED BY <2>1, FS_Interval
<1>3. \A S \in SUBSET D : S # {} => Max(S) \in S
  <2>1. \A S \in SUBSET D : S \in SUBSET (0..n)
    OBVIOUS
  <2> QED BY <2>1, GreatestNatural
<1>4. \A i \in D : s[i] = Failed \/ s[i] \in answered
  OBVIOUS
<1> HIDE DEF answered
<1>5. \A i \in D, legs \in Seq(answered) : push(legs, s[i]) \in Seq(answered)
  BY <1>4
<1> HIDE DEF push
<1>6. PICK h \in [SUBSET D -> Seq(answered)] : Unfolds(D, <<>>, pick, G, h)
  <2>1. \A S \in SUBSET D : S # {} => pick[S] \in S
    BY <1>3
  <2>2. \A x \in D, y \in Seq(answered) : G[<<x, y>>] \in Seq(answered)
    BY <1>5
  <2>3. <<>> \in Seq(answered)
    OBVIOUS
  <2> HIDE DEF pick, G, D
  <2> QED BY <1>2, <2>1, <2>2, <2>3, FoldExists
<1>7. ASSUME NEW S \in SUBSET D PROVE h[S] = step(h, S)
  <2>1. CASE S = {}
    BY <1>6, <2>1 DEF Unfolds
  <2>2. CASE S # {}
    <3>1. Max(S) \in D /\ S \ {Max(S)} \in SUBSET D /\ pick[S] = Max(S)
      BY <1>3, <2>2
    <3>2. h[S \ {Max(S)}] \in Seq(answered)
      BY <3>1
    <3>3. h[S] = G[<<Max(S), h[S \ {Max(S)}]>>]
      <4> HIDE DEF pick, G
      <4> QED BY <1>6, <2>2, <3>1 DEF Unfolds
    <3> QED BY <2>2, <3>1, <3>2, <3>3
  <2> QED BY <2>1, <2>2
<1>8. fold = [S \in SUBSET D |-> step(fold, S)]
  <2>1. h = [S \in SUBSET D |-> step(h, S)]
    <3>1. h = [S \in SUBSET D |-> h[S]]
      OBVIOUS
    <3> HIDE DEF step
    <3> QED BY <1>7, <3>1
  <2> HIDE DEF step
  <2> QED BY <2>1
<1> HIDE DEF fold
<1>9. bad = {}
  <2> SUFFICES ASSUME bad # {} PROVE FALSE
    OBVIOUS
  <2>1. PICK S \in bad : \A T \in bad : T \subseteq S => T = S
    <3>1. bad \in SUBSET (SUBSET D)
      OBVIOUS
    <3> HIDE DEF bad, D
    <3> QED BY <1>2, <3>1, LeastSet
  <2>2. S \in SUBSET D /\ fold[S] \notin Seq(answered)
    OBVIOUS
  <2>3. fold[S] = step(fold, S)
    <3> HIDE DEF step
    <3> QED BY <1>8, <2>2
  <2>4. S # {}
    BY <2>2, <2>3
  <2> DEFINE rest == S \ {Max(S)}
  <2>5. Max(S) \in S /\ Max(S) \in D
    BY <1>3, <2>2, <2>4
  <2>6. rest \in SUBSET D /\ rest \subseteq S /\ rest # S
    BY <2>2, <2>5
  <2>7. fold[rest] \in Seq(answered)
    <3>1. rest \notin bad
      <4> HIDE DEF bad, rest
      <4> QED BY <2>1, <2>6
    <3> HIDE DEF rest
    <3> QED BY <2>6, <3>1
  <2>8. fold[S] = push(fold[rest], s[Max(S)])
    BY <2>3, <2>4
  <2> HIDE DEF rest
  <2> QED BY <1>5, <2>2, <2>5, <2>7, <2>8
<1> QED BY <1>1, <1>9 DEF answered

\* The spread is the distance between the least and the greatest.
LEMMA SpreadIs ==
  ASSUME NEW v \in Seq(Int), v # <<>>
  PROVE  /\ Spread(v) \in Nat
         /\ \E i, j \in 1..Len(v) :
              /\ Spread(v) = v[j] - v[i]
              /\ \A k \in 1..Len(v) : v[i] <= v[k] /\ v[k] <= v[j]
<1> DEFINE D == 1..Len(v)
<1>1. v \in [D -> Int] /\ D # {} /\ Range(v) = {v[i] : i \in D}
  <2>1. v \in [D -> Int] /\ DOMAIN v = D
    OBVIOUS
  <2>2. Len(v) \in Nat /\ Len(v) # 0
    OBVIOUS
  <2>3. D # {}
    <3>1. 1 \in D
      BY <2>2
    <3> QED BY <3>1
  <2> HIDE DEF D
  <2> QED BY <2>1, <2>3 DEF Range
<1>2. IsFiniteSet(D)
  <2>1. 1 \in Int /\ Len(v) \in Int
    OBVIOUS
  <2> QED BY <2>1, FS_Interval
<1>3. PICK i \in D : \A k \in D : v[i] <= v[k]
  <2> HIDE DEF D
  <2> QED BY <1>1, <1>2, LeastOfFinite
<1>4. PICK j \in D : \A k \in D : v[k] <= v[j]
  <2> HIDE DEF D
  <2> QED BY <1>1, <1>2, GreatestOfFinite
<1>5. Min(Range(v)) = v[i]
  <2>1. v[i] \in Range(v) /\ \A x \in Range(v) : v[i] <= x
    BY <1>1, <1>3
  <2>2. \A m \in Range(v) : (\A x \in Range(v) : m <= x) => m = v[i]
    <3> HIDE DEF D
    <3> SUFFICES ASSUME NEW k \in D, \A x \in Range(v) : v[k] <= x PROVE v[k] = v[i]
      BY <1>1
    <3>1. v[k] <= v[i] /\ v[k] \in Int /\ v[i] \in Int
      BY <1>1
    <3> QED BY <3>1, <1>3
  <2> QED BY <2>1, <2>2 DEF Min
<1>6. Max(Range(v)) = v[j]
  <2>1. v[j] \in Range(v) /\ \A x \in Range(v) : v[j] >= x
    BY <1>1, <1>4
  <2>2. \A m \in Range(v) : (\A x \in Range(v) : m >= x) => m = v[j]
    <3> HIDE DEF D
    <3> SUFFICES ASSUME NEW k \in D, \A x \in Range(v) : v[k] >= x PROVE v[k] = v[j]
      BY <1>1
    <3>1. v[k] >= v[j] /\ v[k] \in Int /\ v[j] \in Int
      BY <1>1
    <3> QED BY <3>1, <1>4
  <2> QED BY <2>1, <2>2 DEF Max
<1>7. v[i] \in Int /\ v[j] \in Int /\ v[i] <= v[j]
  BY <1>1, <1>3, <1>4
<1>8. Spread(v) = v[j] - v[i]
  BY <1>5, <1>6 DEF Spread
<1> QED BY <1>3, <1>4, <1>7, <1>8

-----------------------------------------------------------------------------
\* Extremes of a set of one or two numbers.

LEMMA MaxOfTwo ==
  ASSUME NEW x \in Int, NEW y \in Int
  PROVE  Max({x, y}) \in {x, y} /\ Max({x, y}) >= x /\ Max({x, y}) >= y
<1> DEFINE IsMax(m) == m \in {x, y} /\ \A z \in {x, y} : m >= z
<1>1. \E m : IsMax(m)
  <2>1. CASE x >= y
    <3>1. IsMax(x) BY <2>1
    <3> QED BY <3>1
  <2>2. CASE ~(x >= y)
    <3>1. IsMax(y) BY <2>2
    <3> QED BY <3>1
  <2> QED BY <2>1, <2>2
<1>2. Max({x, y}) = CHOOSE m : IsMax(m)
  BY DEF Max
<1>3. IsMax(Max({x, y}))
  <2> HIDE DEF IsMax
  <2> QED BY <1>1, <1>2
<1> QED BY <1>3

LEMMA MinOfTwo ==
  ASSUME NEW x \in Int, NEW y \in Int
  PROVE  Min({x, y}) \in {x, y} /\ Min({x, y}) <= x /\ Min({x, y}) <= y
<1> DEFINE IsMin(m) == m \in {x, y} /\ \A z \in {x, y} : m =< z
<1>1. \E m : IsMin(m)
  <2>1. CASE x <= y
    <3>1. IsMin(x) BY <2>1
    <3> QED BY <3>1
  <2>2. CASE ~(x <= y)
    <3>1. IsMin(y) BY <2>2
    <3> QED BY <3>1
  <2> QED BY <2>1, <2>2
<1>2. Min({x, y}) = CHOOSE m : IsMin(m)
  BY DEF Min
<1>3. IsMin(Min({x, y}))
  <2> HIDE DEF IsMin
  <2> QED BY <1>1, <1>2
<1> QED BY <1>3

LEMMA MaxOfOne ==
  ASSUME NEW x \in Int
  PROVE  Max({x}) = x
<1>1. Max({x, x}) = x
  BY MaxOfTwo
<1>2. {x, x} = {x}
  OBVIOUS
<1> QED BY <1>1, <1>2

LEMMA MaxOfOneAndTwo == Max({1}) = 1 /\ Max({2}) = 2 /\ Max({1, 2}) = 2
<1>1. Max({1, 2}) = 2
  BY MaxOfTwo
<1>2. Max({1}) = 1
  BY MaxOfOne
<1>3. Max({2}) = 2
  BY MaxOfOne
<1> QED BY <1>1, <1>2, <1>3

-----------------------------------------------------------------------------
\* The legs that are left of one source, and of two.

LEMMA Appended ==
  ASSUME NEW x, NEW y
  PROVE  Append(<<>>, x) = <<x>> /\ Append(<<x>>, y) = <<x, y>>
<1> DEFINE two == Append(<<x>>, y)
<1>1. <<>> \in Seq({x, y}) /\ <<x>> \in Seq({x, y})
  OBVIOUS
<1>2. two \in Seq({x, y}) /\ Len(two) = 2 /\ two[1] = x /\ two[2] = y
  BY <1>1
<1>3. Append(<<>>, x) = <<x>>
  BY <1>1
<1> HIDE DEF two
<1>4. two = <<x, y>>
  BY <1>2
<1> QED BY <1>3, <1>4 DEF two

LEMMA LeftOfOne ==
  ASSUME NEW s, DOMAIN s = {1}
  PROVE  getYieldObservation(s) = IF s[1] = Failed THEN <<>> ELSE <<s[1]>>
<1> DEFINE push(legs, leg) == IF leg = Failed THEN legs ELSE Append(legs, leg)
           step(h, S) == IF S = {} THEN <<>> ELSE push(h[S \ {Max(S)}], s[Max(S)])
           fold == CHOOSE h : h = [S \in SUBSET {1} |-> step(h, S)]
           g == [S \in SUBSET {1} |-> IF S = {} THEN <<>> ELSE push(<<>>, s[1])]
<1>1. getYieldObservation(s) = fold[{1}]
  BY DEF getYieldObservation, FoldLeft, MapThenFoldSet
<1>2. g = [S \in SUBSET {1} |-> step(g, S)]
  <2>1. ASSUME NEW S \in SUBSET {1} PROVE g[S] = step(g, S)
    <3>1. CASE S = {}
      BY <3>1
    <3>2. CASE S = {1}
      <4>1. S \ {Max(S)} = {} /\ Max(S) = 1
        BY <3>2, MaxOfOneAndTwo
      <4> QED BY <4>1, <3>2
    <3> QED BY <3>1, <3>2
  <2> HIDE DEF step
  <2> QED BY <2>1
<1>3. fold = [S \in SUBSET {1} |-> step(fold, S)]
  <2> HIDE DEF step, g
  <2> QED BY <1>2
<1> HIDE DEF fold
<1>4. fold[{}] = <<>>
  BY <1>3
<1>5. fold[{1}] = push(fold[{}], s[1])
  <2>1. fold[{1}] = step(fold, {1})
    <3> HIDE DEF step
    <3> QED BY <1>3
  <2>2. {1} \ {Max({1})} = {} /\ Max({1}) = 1
    BY MaxOfOneAndTwo
  <2> QED BY <2>1, <2>2
<1> QED BY <1>1, <1>4, <1>5

LEMMA LeftOfTwo ==
  ASSUME NEW s, DOMAIN s = {1, 2}
  PROVE  getYieldObservation(s) =
           IF s[1] = Failed THEN IF s[2] = Failed THEN <<>> ELSE <<s[2]>>
           ELSE IF s[2] = Failed THEN <<s[1]>> ELSE <<s[1], s[2]>>
<1> DEFINE push(legs, leg) == IF leg = Failed THEN legs ELSE Append(legs, leg)
           step(h, S) == IF S = {} THEN <<>> ELSE push(h[S \ {Max(S)}], s[Max(S)])
           fold == CHOOSE h : h = [S \in SUBSET {1, 2} |-> step(h, S)]
           one == push(<<>>, s[1])
           g == [S \in SUBSET {1, 2} |->
                   IF S = {} THEN <<>> ELSE IF S = {1} THEN one
                   ELSE IF S = {2} THEN push(<<>>, s[2]) ELSE push(one, s[2])]
<1>0. /\ {1} \ {Max({1})} = {} /\ Max({1}) = 1
      /\ {2} \ {Max({2})} = {} /\ Max({2}) = 2
      /\ {1, 2} \ {Max({1, 2})} = {1} /\ Max({1, 2}) = 2
  BY MaxOfOneAndTwo
<1>1. getYieldObservation(s) = fold[{1, 2}]
  BY DEF getYieldObservation, FoldLeft, MapThenFoldSet
<1>2. g = [S \in SUBSET {1, 2} |-> step(g, S)]
  <2>1. ASSUME NEW S \in SUBSET {1, 2} PROVE g[S] = step(g, S)
    <3>0. /\ g[{}] = <<>> /\ g[{1}] = one /\ g[{2}] = push(<<>>, s[2])
          /\ g[{1, 2}] = push(one, s[2])
      <4> HIDE DEF push, one
      <4> QED OBVIOUS
    <3>1. CASE S = {}
      BY <3>1
    <3>2. CASE S = {1}
      <4> HIDE DEF g, push
      <4> QED BY <1>0, <3>0, <3>2 DEF one
    <3>3. CASE S = {2}
      <4> HIDE DEF g, push
      <4> QED BY <1>0, <3>0, <3>3
    <3>4. CASE S = {1, 2}
      <4> HIDE DEF g, push, one
      <4> QED BY <1>0, <3>0, <3>4
    <3>5. S = {} \/ S = {1} \/ S = {2} \/ S = {1, 2}
      <4>1. CASE 1 \in S /\ 2 \in S BY <4>1
      <4>2. CASE 1 \in S /\ 2 \notin S BY <4>2
      <4>3. CASE 1 \notin S /\ 2 \in S BY <4>3
      <4>4. CASE 1 \notin S /\ 2 \notin S BY <4>4
      <4> QED BY <4>1, <4>2, <4>3, <4>4
    <3> QED BY <3>1, <3>2, <3>3, <3>4, <3>5
  <2>2. g = [S \in SUBSET {1, 2} |-> g[S]]
    <3> HIDE DEF push, one
    <3> QED OBVIOUS
  <2> HIDE DEF g, step
  <2> QED BY <2>1, <2>2
<1>3. fold = [S \in SUBSET {1, 2} |-> step(fold, S)]
  <2> HIDE DEF step, g
  <2> QED BY <1>2
<1> HIDE DEF fold
<1>4. fold[{}] = <<>>
  BY <1>3
<1>5. fold[{1}] = push(fold[{}], s[1])
  <2>1. fold[{1}] = step(fold, {1})
    <3> HIDE DEF step
    <3> QED BY <1>3
  <2> HIDE DEF push
  <2> QED BY <2>1, <1>0
<1> HIDE DEF g
<1>6. fold[{1, 2}] = push(fold[{1}], s[2])
  <2>1. fold[{1, 2}] = step(fold, {1, 2})
    <3> HIDE DEF step
    <3> QED BY <1>3
  <2>2. {1, 2} # {}
    OBVIOUS
  <2> HIDE DEF push
  <2> QED BY <2>1, <2>2, <1>0
<1> HIDE DEF step
<1>7. CASE s[1] = Failed
  BY <1>1, <1>4, <1>5, <1>6, <1>7, Appended
<1>8. CASE s[1] # Failed
  <2>1. fold[{1}] = <<s[1]>>
    BY <1>4, <1>5, <1>8, Appended
  <2>2. Append(<<s[1]>>, s[2]) = <<s[1], s[2]>>
    BY Appended
  <2> QED BY <1>1, <1>6, <1>8, <2>1, <2>2
<1> QED BY <1>7, <1>8

-----------------------------------------------------------------------------
\* The mean of one value and of two.

LEMMA MeanOfOne ==
  ASSUME NEW v \in Seq(Int), Len(v) = 1
  PROVE  Mean(v) = v[1]
<1> DEFINE pick(S) == CHOOSE x \in S : TRUE
           step(h, S) == IF S = {} THEN 0
                         ELSE v[pick(S)] + h[S \ {pick(S)}]
           fold == CHOOSE h : h = [S \in SUBSET {1} |-> step(h, S)]
           g == [S \in SUBSET {1} |-> IF S = {} THEN 0 ELSE v[1]]
<1>0. DOMAIN v = {1} /\ v[1] \in Int
  OBVIOUS
<1>1. FoldSeq(+, 0, v) = fold[{1}]
  BY <1>0 DEF FoldSeq, FoldFunction, FoldFunctionOnSet, MapThenFoldSet
<1>x. pick({1}) = 1 /\ {1} \ {1} = {} /\ {1} # {}
  OBVIOUS
<1> HIDE DEF pick
<1>2. g = [S \in SUBSET {1} |-> step(g, S)]
  <2>1. ASSUME NEW S \in SUBSET {1} PROVE g[S] = step(g, S)
    <3>1. CASE S = {}
      BY <3>1
    <3>2. CASE S = {1}
      <4>1. pick(S) = 1 /\ S \ {1} = {}
        BY <3>2, <1>x
      <4>2. g[S] = v[1] /\ g[{}] = 0
        BY <3>2
      <4>3. step(g, S) = v[pick(S)] + g[S \ {pick(S)}]
        BY <3>2
      <4> HIDE DEF g, step
      <4>4. step(g, S) = v[1] + g[{}]
        BY <4>1, <4>3
      <4> QED BY <4>2, <4>4, <1>0
    <3> QED BY <3>1, <3>2
  <2>2. g = [S \in SUBSET {1} |-> g[S]]
    OBVIOUS
  <2> HIDE DEF g, step
  <2> QED BY <2>1, <2>2
<1>3. fold = [S \in SUBSET {1} |-> step(fold, S)]
  <2> HIDE DEF step, g
  <2> QED BY <1>2
<1> HIDE DEF fold, g
<1>4. fold[{}] = 0
  BY <1>3
<1>5. fold[{1}] = v[1]
  <2>1. fold[{1}] = step(fold, {1})
    <3> HIDE DEF step
    <3> QED BY <1>3
  <2>2. step(fold, {1}) = v[pick({1})] + fold[{1} \ {pick({1})}]
    BY <1>x
  <2> HIDE DEF step
  <2>3. fold[{1}] = v[1] + fold[{}]
    BY <2>1, <2>2, <1>x
  <2> QED BY <2>3, <1>0, <1>4
<1>6. Len(v) = 1 /\ v[1] \div 1 = v[1]
  BY <1>0
<1> HIDE DEF step
<1> QED BY <1>1, <1>5, <1>6 DEF Mean

LEMMA MeanOfTwo ==
  ASSUME NEW v \in Seq(Int), Len(v) = 2
  PROVE  Mean(v) = (v[1] + v[2]) \div 2
<1> DEFINE pick(S) == CHOOSE x \in S : TRUE
           step(h, S) == IF S = {} THEN 0
                         ELSE v[pick(S)] + h[S \ {pick(S)}]
           fold == CHOOSE h : h = [S \in SUBSET {1, 2} |-> step(h, S)]
           g == [S \in SUBSET {1, 2} |-> IF S = {} THEN 0 ELSE IF S = {1} THEN v[1]
                                        ELSE IF S = {2} THEN v[2] ELSE v[1] + v[2]]
<1>0. DOMAIN v = {1, 2} /\ v[1] \in Int /\ v[2] \in Int
  OBVIOUS
<1>1. FoldSeq(+, 0, v) = fold[{1, 2}]
  BY <1>0 DEF FoldSeq, FoldFunction, FoldFunctionOnSet, MapThenFoldSet
<1>x. /\ pick({1}) = 1 /\ {1} \ {1} = {}
      /\ pick({2}) = 2 /\ {2} \ {2} = {}
      /\ pick({1, 2}) \in {1, 2}
      /\ {1, 2} \ {1} = {2} /\ {1, 2} \ {2} = {1}
      /\ {1, 2} # {} /\ {1} # {} /\ {2} # {}
  OBVIOUS
<1> HIDE DEF pick
<1>2. g = [S \in SUBSET {1, 2} |-> step(g, S)]
  <2>1. ASSUME NEW S \in SUBSET {1, 2} PROVE g[S] = step(g, S)
    <3>0. g[{}] = 0 /\ g[{1}] = v[1] /\ g[{2}] = v[2] /\ g[{1, 2}] = v[1] + v[2]
      OBVIOUS
    <3> HIDE DEF g
    <3>1. CASE S = {}
      BY <3>0, <3>1
    <3>s. S # {} => step(g, S) = v[pick(S)] + g[S \ {pick(S)}]
      OBVIOUS
    <3> HIDE DEF step
    <3>2. CASE S = {1}
      <4>1. step(g, S) = v[1] + g[{}]
        BY <3>2, <3>s, <1>x
      <4> QED BY <4>1, <3>0, <3>2, <1>0
    <3>3. CASE S = {2}
      <4>1. step(g, S) = v[2] + g[{}]
        BY <3>3, <3>s, <1>x
      <4> QED BY <4>1, <3>0, <3>3, <1>0
    <3>4. CASE S = {1, 2}
      <4>1. CASE pick(S) = 1
        <5>1. step(g, S) = v[1] + g[{2}]
          BY <3>4, <4>1, <3>s, <1>x
        <5> QED BY <5>1, <3>0, <3>4, <1>0
      <4>2. CASE pick(S) = 2
        <5>1. step(g, S) = v[2] + g[{1}]
          BY <3>4, <4>2, <3>s, <1>x
        <5> QED BY <5>1, <3>0, <3>4, <1>0
      <4> QED BY <4>1, <4>2, <3>4, <1>x
    <3>5. S = {} \/ S = {1} \/ S = {2} \/ S = {1, 2}
      <4>1. CASE 1 \in S /\ 2 \in S BY <4>1
      <4>2. CASE 1 \in S /\ 2 \notin S BY <4>2
      <4>3. CASE 1 \notin S /\ 2 \in S BY <4>3
      <4>4. CASE 1 \notin S /\ 2 \notin S BY <4>4
      <4> QED BY <4>1, <4>2, <4>3, <4>4
    <3> HIDE DEF step
    <3> QED BY <3>1, <3>2, <3>3, <3>4, <3>5
  <2>2. g = [S \in SUBSET {1, 2} |-> g[S]]
    OBVIOUS
  <2> HIDE DEF g, step
  <2> QED BY <2>1, <2>2
<1>3. fold = [S \in SUBSET {1, 2} |-> step(fold, S)]
  <2> HIDE DEF step, g
  <2> QED BY <1>2
<1> HIDE DEF fold, g
<1>4. /\ fold[{}] = step(fold, {}) /\ fold[{1}] = step(fold, {1})
      /\ fold[{2}] = step(fold, {2}) /\ fold[{1, 2}] = step(fold, {1, 2})
  <2> HIDE DEF step
  <2> QED BY <1>3
<1>5. fold[{}] = 0
  BY <1>4
<1>s. /\ fold[{1}] = v[pick({1})] + fold[{1} \ {pick({1})}]
      /\ fold[{2}] = v[pick({2})] + fold[{2} \ {pick({2})}]
      /\ fold[{1, 2}] = v[pick({1, 2})] + fold[{1, 2} \ {pick({1, 2})}]
  BY <1>4, <1>x
<1> HIDE DEF step
<1>6. fold[{1}] = v[1]
  <2>1. fold[{1}] = v[1] + fold[{}]
    BY <1>s, <1>x
  <2> QED BY <2>1, <1>5, <1>0
<1>7. fold[{2}] = v[2]
  <2>1. fold[{2}] = v[2] + fold[{}]
    BY <1>s, <1>x
  <2> QED BY <2>1, <1>5, <1>0
<1>8. fold[{1, 2}] = v[1] + v[2]
  <2>1. CASE pick({1, 2}) = 1
    <3>1. fold[{1, 2}] = v[1] + fold[{2}]
      BY <2>1, <1>s, <1>x
    <3> QED BY <3>1, <1>7
  <2>2. CASE pick({1, 2}) = 2
    <3>1. fold[{1, 2}] = v[2] + fold[{1}]
      BY <2>2, <1>s, <1>x
    <3> QED BY <3>1, <1>6, <1>0
  <2> QED BY <2>1, <2>2, <1>x
<1> QED BY <1>1, <1>8 DEF Mean

-----------------------------------------------------------------------------
\* The spread and the reconciled value.

LEMMA SpreadOfTwo ==
  ASSUME NEW v \in Seq(Int), Len(v) \in 1..2
  PROVE  /\ Spread(v) \in Nat
         /\ \A i, j \in 1..Len(v) : v[i] - v[j] <= Spread(v)
<1>1. v # <<>> /\ \A k \in 1..Len(v) : v[k] \in Int
  OBVIOUS
<1>2. PICK lo \in 1..Len(v), hi \in 1..Len(v) :
        /\ Spread(v) = v[hi] - v[lo]
        /\ \A k \in 1..Len(v) : v[lo] <= v[k] /\ v[k] <= v[hi]
  BY <1>1, SpreadIs
<1>3. Spread(v) \in Nat
  BY <1>1, SpreadIs
<1>4. ASSUME NEW i \in 1..Len(v), NEW j \in 1..Len(v) PROVE v[i] - v[j] <= Spread(v)
  <2>1. v[lo] <= v[j] /\ v[i] <= v[hi]
    BY <1>2
  <2>2. v[i] \in Int /\ v[j] \in Int /\ v[lo] \in Int /\ v[hi] \in Int
    BY <1>1
  <2> QED BY <1>2, <2>1, <2>2
<1> QED BY <1>3, <1>4

LEMMA AbsOfDifference ==
  ASSUME NEW x \in Int, NEW y \in Int, NEW n \in Int
  PROVE  Abs(x - y) <= n <=> x - y <= n /\ y - x <= n
BY DEF Abs

\* The reconciled value is as near to each leg as the legs are to each other.
LEMMA ReconciledIsNear ==
  ASSUME NEW v \in Seq(Int), v # <<>>,
         NEW r, r = reconcileLegs(v), ~Failing(r)
  PROVE  /\ r.reconciledValue \in Int
         /\ Spread(v) \in Nat /\ Spread(v) <= reconcileToleranceBps
         /\ \A i \in 1..Len(v) : Abs(r.reconciledValue - v[i]) <= Spread(v)
<1>1. Spread(v) <= reconcileToleranceBps /\ r.reconciledValue = Mean(v)
  BY DEF reconcileLegs, Failing
<1>2. \A k \in 1..Len(v) : v[k] \in Int
  OBVIOUS
<1>3. PICK lo \in 1..Len(v), hi \in 1..Len(v) :
        /\ Spread(v) = v[hi] - v[lo]
        /\ \A k \in 1..Len(v) : v[lo] <= v[k] /\ v[k] <= v[hi]
  BY SpreadIs
<1>4. Mean(v) \in Int /\ v[lo] <= Mean(v) /\ Mean(v) <= v[hi]
  <2>1. v[lo] \in Int /\ v[hi] \in Int
    BY <1>2
  <2> QED BY <1>3, <2>1, MeanOfASequence
<1>5. ASSUME NEW i \in 1..Len(v) PROVE Abs(Mean(v) - v[i]) <= Spread(v)
  <2>1. v[i] \in Int /\ v[lo] \in Int /\ v[hi] \in Int
    BY <1>2
  <2>2. v[lo] <= v[i] /\ v[i] <= v[hi]
    BY <1>3
  <2>3. Mean(v) - v[i] <= Spread(v) /\ v[i] - Mean(v) <= Spread(v) /\ Spread(v) \in Int
    BY <1>3, <1>4, <2>1, <2>2
  <2> QED BY <1>4, <2>1, <2>3, AbsOfDifference
<1> QED BY <1>1, <1>4, <1>5, SpreadIs

-----------------------------------------------------------------------------
\* The verdict on the legs.

LEMMA VerdictIsOnAValueNearTheLegs ==
  ASSUME NEW S, \A leg \in S : leg.valueBps \in Int,
         NEW legs \in Seq(S), legs # <<>>, NEW asserted \in Int,
         Judge(legs, asserted) # "ABSTAIN"
  PROVE  LET v == LegValues(legs)
         IN /\ v \in Seq(Int) /\ Len(v) = Len(legs)
            /\ Spread(v) \in Nat /\ Spread(v) <= reconcileToleranceBps
            /\ \E r \in Int :
                 /\ \A i \in 1..Len(legs) : Abs(r - v[i]) <= Spread(v)
                 /\ Judge(legs, asserted) =
                      IF Abs(r - asserted) <= verdictToleranceBps
                      THEN "VALID" ELSE "REJECTED"
<1> DEFINE v == LegValues(legs)
           reconciled == reconcileLegs(v)
<1>1. v \in Seq(Int) /\ Len(v) = Len(legs)
  BY DEF LegValues
<1>2. Judge(legs, asserted) = deterministicVerdict(reconciled, asserted)
  BY DEF Judge, decideTier1
<1>3. ~Failing(reconciled)
  BY <1>2 DEF deterministicVerdict
<1>4. v # <<>>
  <2> HIDE DEF v
  <2> QED BY <1>1
<1> HIDE DEF v
<1>5. /\ reconciled.reconciledValue \in Int
      /\ Spread(v) \in Nat /\ Spread(v) <= reconcileToleranceBps
      /\ \A i \in 1..Len(v) : Abs(reconciled.reconciledValue - v[i]) <= Spread(v)
  BY <1>1, <1>3, <1>4, ReconciledIsNear
<1> HIDE DEF reconciled
<1>6. Judge(legs, asserted) =
        IF Abs(reconciled.reconciledValue - asserted) <= verdictToleranceBps
        THEN "VALID" ELSE "REJECTED"
  BY <1>2, <1>3 DEF deterministicVerdict
<1> QED BY <1>1, <1>5, <1>6 DEF v

LEMMA VerdictIsAVerdict ==
  ASSUME NEW legs, NEW asserted
  PROVE  Judge(legs, asserted) \in {"VALID", "REJECTED", "ABSTAIN"}
BY DEF Judge, decideTier1, deterministicVerdict

=============================================================================
