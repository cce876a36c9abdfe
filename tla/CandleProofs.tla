---------------------------- MODULE CandleProofs ----------------------------
(***************************************************************************)
(* Lemmas about folds over finite sets (SumFunctionOnSet and SumFunction   *)
(* of the community modules, Max and Min), about units of time, about the  *)
(* accumulators of OHLCV and about rows of candles rolled up into a day.   *)
(* They hold for every finite set and know nothing of where trades come    *)
(* from: OHLCVCombineProofs, GoldProofs and BeamProofs rest on them.       *)
(*                                                                         *)
(* A fold is a recursive function on the subsets of its set, which the     *)
(* language defines by CHOOSE.  So first a function that solves the        *)
(* recursion is shown to exist, by induction over the finite subsets; the  *)
(* induction speaks of the set of good subsets, not of a predicate.        *)
(***************************************************************************)
EXTENDS GoldModels, FiniteSetTheorems, WellFoundedInduction, TLAPS

\* A set of subsets of S that contains each subset all of whose proper
\* subsets it contains is the set of all of them.
LEMMA SubsetInduction ==
    ASSUME NEW S, IsFiniteSet(S), NEW G \in SUBSET (SUBSET S),
           \A U \in SUBSET S :
                (\A V \in SUBSET U : V # U => V \in G) => U \in G
    PROVE  G = SUBSET S
<1> SUFFICES ASSUME G # SUBSET S PROVE FALSE
    OBVIOUS
<1> DEFINE T == (SUBSET S) \ G
<1>1. IsWellFoundedOn(StrictSubsetOrdering(S), SUBSET S)
    <2>1. FiniteSubsetsOf(S) = SUBSET S
        BY FS_FiniteSubsetsOfFinite
    <2>2. IsWellFoundedOn(StrictSubsetOrdering(S), FiniteSubsetsOf(S))
        BY FS_StrictSubsetOrderingWellFounded
    <2> QED BY <2>1, <2>2
<1>2. T \subseteq SUBSET S /\ T # {}
    OBVIOUS
<1> HIDE DEF T
<1>3. PICK U \in T : \A V \in T : ~(<<V, U>> \in StrictSubsetOrdering(S))
    BY <1>1, <1>2, WFMin
<1>4. \A V \in SUBSET U : V # U => V \in G
    BY <1>2, <1>3 DEF StrictSubsetOrdering, T
<1> QED BY <1>3, <1>4 DEF T

-----------------------------------------------------------------------------
(* Folds.  p picks an element of a set, h combines it with the fold of the  *)
(* others.                                                                  *)

Picks(p, S) == \A U \in SUBSET S : U # {} => p[U] \in U

Folds(g, S, p, h, base) ==
    g = [U \in SUBSET S |->
            IF U = {} THEN base ELSE h[<<p[U], g[U \ {p[U]}]>>]]

\* The equations of a fold have at most one solution.
LEMMA FoldUnique ==
    ASSUME NEW S, IsFiniteSet(S), NEW p, Picks(p, S), NEW h, NEW base,
           NEW f, Folds(f, S, p, h, base), NEW g, Folds(g, S, p, h, base)
    PROVE  f = g
<1> DEFINE G == {U \in SUBSET S : f[U] = g[U]}
<1>1. ASSUME NEW U \in SUBSET S, \A V \in SUBSET U : V # U => V \in G
      PROVE  U \in G
    <2>1. CASE U = {}
        BY <2>1 DEF Folds
    <2>2. CASE U # {}
        <3>1. p[U] \in U
            BY <2>2 DEF Picks
        <3>2. U \ {p[U]} \in SUBSET U /\ U \ {p[U]} # U
            BY <3>1
        <3>3. f[U \ {p[U]}] = g[U \ {p[U]}]
            BY <3>2, <1>1
        <3>4. /\ f[U] = h[<<p[U], f[U \ {p[U]}]>>]
              /\ g[U] = h[<<p[U], g[U \ {p[U]}]>>]
            BY <2>2 DEF Folds
        <3> QED BY <3>3, <3>4
    <2> QED BY <2>1, <2>2
<1>2. G = SUBSET S
    <2> G \in SUBSET (SUBSET S)
        OBVIOUS
    <2> HIDE DEF G
    <2> QED BY <1>1, SubsetInduction
<1>3. \A U \in SUBSET S : f[U] = g[U]
    BY <1>2
<1> QED BY <1>3 DEF Folds

\* A solution on S, restricted to the subsets of R, is one on R.
LEMMA FoldRestrict ==
    ASSUME NEW S, NEW p, Picks(p, S), NEW h, NEW base,
           NEW g, Folds(g, S, p, h, base), NEW R \in SUBSET S
    PROVE  Folds([U \in SUBSET R |-> g[U]], R, p, h, base)
<1> DEFINE f == [U \in SUBSET R |-> g[U]]
<1>1. ASSUME NEW U \in SUBSET R
      PROVE  f[U] = IF U = {} THEN base ELSE h[<<p[U], f[U \ {p[U]}]>>]
    <2>1. U \in SUBSET S /\ U \ {p[U]} \in SUBSET R
        OBVIOUS
    <2>2. g[U] = IF U = {} THEN base ELSE h[<<p[U], g[U \ {p[U]}]>>]
        BY <2>1 DEF Folds
    <2> QED BY <2>1, <2>2
<1> QED BY <1>1 DEF Folds

\* The equations of a fold over a finite set have a solution.
LEMMA FoldExists ==
    ASSUME NEW S, IsFiniteSet(S), NEW p, Picks(p, S), NEW h, NEW base
    PROVE  \E g : Folds(g, S, p, h, base)
<1> DEFINE G == {U \in SUBSET S : \E g : Folds(g, U, p, h, base)}
           F(U) == CHOOSE g : Folds(g, U, p, h, base)
<1>1. ASSUME NEW U \in SUBSET S, \A V \in SUBSET U : V # U => V \in G
      PROVE  U \in G
    <2> DEFINE rest(V) == V \ {p[V]}
               g == [V \in SUBSET U |->
                        IF V = {} THEN base ELSE h[<<p[V], F(rest(V))[rest(V)]>>]]
    <2>1. ASSUME NEW V \in SUBSET U, V # {}
          PROVE  /\ rest(V) \in SUBSET U /\ rest(V) # U
                 /\ rest(V) \in SUBSET S
        BY <2>1 DEF Picks
    <2>2. ASSUME NEW V \in SUBSET U, V # U
          PROVE  Folds(F(V), V, p, h, base)
        BY <2>2, <1>1
    <2>3. ASSUME NEW V \in SUBSET U, V # {}
          PROVE  F(rest(V))[rest(V)] = g[rest(V)]
        <3> DEFINE R == rest(V)
        <3>1. R \in SUBSET U /\ R # U /\ R \in SUBSET S
            BY <2>1, <2>3
        <3> HIDE DEF R
        <3>2. Folds(F(R), R, p, h, base)
            BY <3>1, <2>2
        <3> HIDE DEF F
        <3>3. CASE R = {}
            BY <3>1, <3>2, <3>3 DEF Folds, R
        <3>4. CASE R # {}
            <4> DEFINE Q == rest(R)
            <4>1. Q \in SUBSET U /\ Q # U /\ Q \in SUBSET R
                BY <2>1, <3>1, <3>4
            <4>2. Folds(F(Q), Q, p, h, base)
                BY <4>1, <2>2
            <4>3. Picks(p, R) /\ Picks(p, Q) /\ IsFiniteSet(Q)
                BY <3>1, <4>1, FS_Subset DEF Picks
            <4>4. Folds([W \in SUBSET Q |-> F(R)[W]], Q, p, h, base)
                BY <4>1, <4>3, <3>2, FoldRestrict
            <4>5. [W \in SUBSET Q |-> F(R)[W]] = F(Q)
                BY <4>2, <4>3, <4>4, FoldUnique
            <4>6. F(R)[Q] = F(Q)[Q]
                BY <4>5
            <4>7. F(R)[R] = h[<<p[R], F(R)[Q]>>]
                BY <3>2, <3>4 DEF Folds
            <4>8. g[R] = h[<<p[R], F(Q)[Q]>>]
                BY <3>1, <3>4
            <4> QED BY <4>6, <4>7, <4>8 DEF R
        <3> QED BY <3>3, <3>4
    <2>4. Folds(g, U, p, h, base)
        <3>1. ASSUME NEW V \in SUBSET U
              PROVE  g[V] = IF V = {} THEN base ELSE h[<<p[V], g[rest(V)]>>]
            <4>1. g[V] = IF V = {} THEN base
                         ELSE h[<<p[V], F(rest(V))[rest(V)]>>]
                OBVIOUS
            <4> HIDE DEF g, F
            <4> QED BY <4>1, <2>3
        <3>2. g = [V \in SUBSET U |-> g[V]]
            OBVIOUS
        <3> HIDE DEF g
        <3> QED BY <3>1, <3>2 DEF Folds
    <2> QED BY <2>4
<1>2. G = SUBSET S
    <2> G \in SUBSET (SUBSET S)
        OBVIOUS
    <2> HIDE DEF G
    <2> QED BY <1>1, SubsetInduction
<1> QED BY <1>2
-----------------------------------------------------------------------------
(* Sums.                                                                    *)

\* The equations of a sum, when p picks the element to add next.
Sums(g, S, p, f) ==
    g = [U \in SUBSET S |-> IF U = {} THEN 0 ELSE f[p[U]] + g[U \ {p[U]}]]

\* A solution of them has integer values.
LEMMA SumsType ==
    ASSUME NEW S, IsFiniteSet(S), NEW p, Picks(p, S),
           NEW f, \A x \in S : f[x] \in Int, NEW g, Sums(g, S, p, f)
    PROVE  g \in [SUBSET S -> Int]
<1> DEFINE G == {U \in SUBSET S : g[U] \in Int}
<1>1. ASSUME NEW U \in SUBSET S, \A V \in SUBSET U : V # U => V \in G
      PROVE  U \in G
    <2>1. CASE U = {}
        BY <2>1 DEF Sums
    <2>2. CASE U # {}
        <3>1. p[U] \in U
            BY <2>2 DEF Picks
        <3>2. f[p[U]] \in Int /\ g[U \ {p[U]}] \in Int
            BY <3>1, <1>1
        <3>3. g[U] = f[p[U]] + g[U \ {p[U]}]
            BY <2>2 DEF Sums
        <3> QED BY <3>2, <3>3
    <2> QED BY <2>1, <2>2
<1>2. G = SUBSET S
    <2> G \in SUBSET (SUBSET S)
        OBVIOUS
    <2> HIDE DEF G
    <2> QED BY <1>1, SubsetInduction
<1>3. \A U \in SUBSET S : g[U] \in Int
    BY <1>2
<1>4. g = [U \in SUBSET S |-> g[U]]
    BY DEF Sums
<1> QED BY <1>3, <1>4

\* They have one.
LEMMA SumsExist ==
    ASSUME NEW S, IsFiniteSet(S), NEW p, Picks(p, S),
           NEW f, \A x \in S : f[x] \in Int
    PROVE  \E g : Sums(g, S, p, f)
<1> DEFINE h == [y \in S \X Int |-> f[y[1]] + y[2]]
<1>1. PICK g : Folds(g, S, p, h, 0)
    BY FoldExists
<1> DEFINE G == {U \in SUBSET S : g[U] \in Int}
<1>2. ASSUME NEW U \in SUBSET S, U # {}, g[U \ {p[U]}] \in Int
      PROVE  g[U] = f[p[U]] + g[U \ {p[U]}] /\ p[U] \in U
    <2>1. g[U] = h[<<p[U], g[U \ {p[U]}]>>]
        BY <1>1, <1>2 DEF Folds
    <2>2. p[U] \in U
        BY <1>2 DEF Picks
    <2> QED BY <1>2, <2>1, <2>2
<1>3. ASSUME NEW U \in SUBSET S, \A V \in SUBSET U : V # U => V \in G
      PROVE  U \in G
    <2>1. CASE U = {}
        BY <1>1, <2>1 DEF Folds
    <2>2. CASE U # {}
        <3>1. p[U] \in U
            BY <2>2 DEF Picks
        <3>2. f[p[U]] \in Int /\ g[U \ {p[U]}] \in Int
            BY <3>1, <1>3
        <3>3. g[U] = f[p[U]] + g[U \ {p[U]}]
            BY <3>2, <1>2, <2>2
        <3> QED BY <3>2, <3>3
    <2> QED BY <2>1, <2>2
<1>4. G = SUBSET S
    <2> G \in SUBSET (SUBSET S)
        OBVIOUS
    <2> HIDE DEF G
    <2> QED BY <1>3, SubsetInduction
<1>5. \A U \in SUBSET S : U # {} => g[U] = f[p[U]] + g[U \ {p[U]}]
    BY <1>2, <1>4
<1>6. g = [U \in SUBSET S |-> g[U]] /\ g[{}] = 0
    BY <1>1 DEF Folds
<1>7. Sums(g, S, p, f)
    BY <1>5, <1>6 DEF Sums
<1> QED BY <1>7

\* And only one.
LEMMA SumsUnique ==
    ASSUME NEW S, IsFiniteSet(S), NEW p, Picks(p, S),
           NEW f, \A x \in S : f[x] \in Int,
           NEW g, Sums(g, S, p, f), NEW k, Sums(k, S, p, f)
    PROVE  g = k
<1> DEFINE h == [y \in S \X Int |-> f[y[1]] + y[2]]
<1>1. ASSUME NEW e, Sums(e, S, p, f) PROVE Folds(e, S, p, h, 0)
    <2>1. e \in [SUBSET S -> Int]
        BY <1>1, SumsType
    <2>2. ASSUME NEW U \in SUBSET S, U # {}
          PROVE  e[U] = h[<<p[U], e[U \ {p[U]}]>>]
        <3>1. p[U] \in S /\ e[U \ {p[U]}] \in Int
            BY <2>1, <2>2 DEF Picks
        <3>2. e[U] = f[p[U]] + e[U \ {p[U]}]
            BY <1>1, <2>2 DEF Sums
        <3> QED BY <3>1, <3>2
    <2>3. e = [U \in SUBSET S |-> e[U]] /\ e[{}] = 0
        BY <1>1 DEF Sums
    <2> HIDE DEF h
    <2> QED BY <2>2, <2>3 DEF Folds
<1>2. Folds(g, S, p, h, 0) /\ Folds(k, S, p, h, 0)
    BY <1>1
<1> HIDE DEF h
<1> QED BY <1>2, FoldUnique

\* SumFunctionOnSet is this solution, for the element CHOOSE takes.
LEMMA SumIsSums ==
    ASSUME NEW S, IsFiniteSet(S), NEW f, \A x \in S : f[x] \in Int
    PROVE  LET p == [U \in SUBSET S |-> CHOOSE x \in U : TRUE]
           IN  /\ Picks(p, S)
               /\ Sums([U \in SUBSET S |-> SumFunctionOnSet(f, U)], S, p, f)
<1> DEFINE p == [U \in SUBSET S |-> CHOOSE x \in U : TRUE]
<1>1. Picks(p, S)
    BY DEF Picks
<1>2. PICK g : Sums(g, S, p, f)
    BY <1>1, SumsExist
<1>3. ASSUME NEW R \in SUBSET S PROVE SumFunctionOnSet(f, R) = g[R]
    <2> DEFINE q == [U \in SUBSET R |-> CHOOSE x \in U : TRUE]
               I == CHOOSE i : i = [U \in SUBSET R |->
                        IF U = {} THEN 0
                        ELSE f[CHOOSE x \in U : TRUE]
                                + i[U \ {CHOOSE x \in U : TRUE}]]
               k == [U \in SUBSET R |-> g[U]]
    <2>1. SumFunctionOnSet(f, R) = I[R]
        BY DEF SumFunctionOnSet, FoldFunctionOnSet, MapThenFoldSet
    <2>2. k = [U \in SUBSET R |->
                    IF U = {} THEN 0
                    ELSE f[CHOOSE x \in U : TRUE]
                            + k[U \ {CHOOSE x \in U : TRUE}]]
        BY <1>2 DEF Sums
    <2>3. I = [U \in SUBSET R |->
                    IF U = {} THEN 0
                    ELSE f[CHOOSE x \in U : TRUE]
                            + I[U \ {CHOOSE x \in U : TRUE}]]
        <3> HIDE DEF k
        <3> QED BY <2>2
    <2>4. Sums(I, R, q, f) /\ Sums(k, R, q, f)
        <3> HIDE DEF I, k
        <3> QED BY <2>2, <2>3 DEF Sums
    <2>5. Picks(q, R) /\ IsFiniteSet(R)
        BY FS_Subset DEF Picks
    <2>6. I = k
        <3> HIDE DEF I, k, q
        <3> QED BY <2>4, <2>5, SumsUnique
    <2> HIDE DEF I
    <2> QED BY <2>1, <2>6
<1>4. [U \in SUBSET S |-> SumFunctionOnSet(f, U)] = g
    BY <1>2, <1>3 DEF Sums
<1> QED BY <1>1, <1>2, <1>4
-----------------------------------------------------------------------------
(* What a sum is, whatever CHOOSE takes.                                    *)

\* The sum over no element is zero.
LEMMA SumEmpty == ASSUME NEW f PROVE SumFunctionOnSet(f, {}) = 0
<1> DEFINE p == [U \in SUBSET {} |-> CHOOSE x \in U : TRUE]
           g == [U \in SUBSET {} |-> SumFunctionOnSet(f, U)]
<1>1. IsFiniteSet({}) /\ \A x \in {} : f[x] \in Int
    BY FS_EmptySet
<1>2. Sums(g, {}, p, f)
    BY <1>1, SumIsSums
<1>3. g[{}] = 0 /\ g[{}] = SumFunctionOnSet(f, {})
    BY <1>2 DEF Sums
<1> QED BY <1>3

\* The sum of integers is an integer.
LEMMA SumInt ==
    ASSUME NEW S, IsFiniteSet(S), NEW f, \A x \in S : f[x] \in Int
    PROVE  SumFunctionOnSet(f, S) \in Int
<1> DEFINE p == [U \in SUBSET S |-> CHOOSE x \in U : TRUE]
           g == [U \in SUBSET S |-> SumFunctionOnSet(f, U)]
<1>1. Picks(p, S) /\ Sums(g, S, p, f)
    BY SumIsSums
<1> HIDE DEF p
<1>2. g[S] = SumFunctionOnSet(f, S)
    OBVIOUS
<1> HIDE DEF g
<1>3. g \in [SUBSET S -> Int]
    BY <1>1, SumsType
<1> QED BY <1>2, <1>3

\* Some element can be taken out of a sum.
LEMMA SumPick ==
    ASSUME NEW S, IsFiniteSet(S), NEW f, \A x \in S : f[x] \in Int, S # {}
    PROVE  \E x \in S : SumFunctionOnSet(f, S)
                            = f[x] + SumFunctionOnSet(f, S \ {x})
<1> DEFINE p == [U \in SUBSET S |-> CHOOSE x \in U : TRUE]
           g == [U \in SUBSET S |-> SumFunctionOnSet(f, U)]
<1>1. Picks(p, S) /\ Sums(g, S, p, f)
    BY SumIsSums
<1> HIDE DEF p
<1>2. /\ g[S] = SumFunctionOnSet(f, S)
      /\ g[S \ {p[S]}] = SumFunctionOnSet(f, S \ {p[S]})
    OBVIOUS
<1> HIDE DEF g
<1>3. p[S] \in S /\ g[S] = f[p[S]] + g[S \ {p[S]}]
    BY <1>1 DEF Picks, Sums
<1> QED BY <1>2, <1>3

\* Any element can be taken out of a sum.
LEMMA SumRemove ==
    ASSUME NEW S, IsFiniteSet(S), NEW f, \A x \in S : f[x] \in Int, NEW y \in S
    PROVE  SumFunctionOnSet(f, S) = f[y] + SumFunctionOnSet(f, S \ {y})
<1> DEFINE Sum(U) == SumFunctionOnSet(f, U)
           G == {U \in SUBSET S : \A x \in U : Sum(U) = f[x] + Sum(U \ {x})}
<1>1. \A U \in SUBSET S : Sum(U) \in Int
    BY FS_Subset, SumInt
<1>2. \A U \in SUBSET S : U # {} => \E x \in U : Sum(U) = f[x] + Sum(U \ {x})
    BY FS_Subset, SumPick
<1> HIDE DEF Sum
<1>3. ASSUME NEW U \in SUBSET S, \A V \in SUBSET U : V # U => V \in G
      PROVE  U \in G
    <2> SUFFICES ASSUME NEW x \in U PROVE Sum(U) = f[x] + Sum(U \ {x})
        OBVIOUS
    <2>1. PICK c \in U : Sum(U) = f[c] + Sum(U \ {c})
        BY <1>2
    <2>2. CASE c = x
        BY <2>1, <2>2
    <2>3. CASE c # x
        <3> DEFINE R == U \ {c, x}
        <3>1. /\ U \ {c} \in SUBSET U /\ U \ {c} # U /\ x \in U \ {c}
              /\ U \ {x} \in SUBSET U /\ U \ {x} # U /\ c \in U \ {x}
              /\ (U \ {c}) \ {x} = R /\ (U \ {x}) \ {c} = R
            BY <2>3
        <3>2. Sum(U \ {c}) = f[x] + Sum(R)
            BY <3>1, <1>3
        <3>3. Sum(U \ {x}) = f[c] + Sum(R)
            BY <3>1, <1>3
        <3>4. f[x] \in Int /\ f[c] \in Int /\ Sum(R) \in Int
            BY <1>1
        <3> QED BY <2>1, <3>2, <3>3, <3>4
    <2> QED BY <2>2, <2>3
<1>4. G = SUBSET S
    <2> G \in SUBSET (SUBSET S)
        OBVIOUS
    <2> HIDE DEF G
    <2> QED BY <1>3, SubsetInduction
<1> QED BY <1>4 DEF Sum

\* A new element adds its value.
LEMMA SumAdd ==
    ASSUME NEW S, IsFiniteSet(S), NEW f, NEW y, y \notin S,
           \A x \in S \union {y} : f[x] \in Int
    PROVE  SumFunctionOnSet(f, S \union {y}) = f[y] + SumFunctionOnSet(f, S)
<1>1. IsFiniteSet(S \union {y})
    BY FS_AddElement
<1>2. (S \union {y}) \ {y} = S
    OBVIOUS
<1> QED BY <1>1, <1>2, SumRemove

\* A sum over a single element.
LEMMA SumSingle ==
    ASSUME NEW f, NEW y, f[y] \in Int
    PROVE  SumFunctionOnSet(f, {y}) = f[y]
<1>1. IsFiniteSet({y}) /\ {y} \ {y} = {} /\ y \in {y}
    BY FS_Singleton
<1>2. SumFunctionOnSet(f, {y}) = f[y] + SumFunctionOnSet(f, {y} \ {y})
    BY <1>1, SumRemove
<1> QED BY <1>1, <1>2, SumEmpty

\* A sum depends on the values over its set alone.
LEMMA SumAgree ==
    ASSUME NEW S, IsFiniteSet(S), NEW f, \A x \in S : f[x] \in Int,
           NEW g, \A x \in S : g[x] = f[x]
    PROVE  SumFunctionOnSet(g, S) = SumFunctionOnSet(f, S)
<1> DEFINE F(U) == SumFunctionOnSet(f, U)
           E(U) == SumFunctionOnSet(g, U)
           G == {U \in SUBSET S : E(U) = F(U)}
<1>1. F({}) = 0 /\ E({}) = 0
    BY SumEmpty
<1>2. ASSUME NEW U \in SUBSET S, NEW x \in U
      PROVE  F(U) = f[x] + F(U \ {x}) /\ E(U) = f[x] + E(U \ {x})
    <2>1. IsFiniteSet(U) /\ \A z \in U : f[z] \in Int /\ g[z] \in Int
        BY FS_Subset
    <2>2. F(U) = f[x] + F(U \ {x})
        BY <2>1, SumRemove
    <2>3. E(U) = g[x] + E(U \ {x})
        BY <2>1, SumRemove
    <2> QED BY <2>2, <2>3
<1> HIDE DEF F, E
<1>3. ASSUME NEW U \in SUBSET S, \A V \in SUBSET U : V # U => V \in G
      PROVE  U \in G
    <2>1. CASE U = {}
        BY <2>1, <1>1
    <2>2. CASE U # {}
        <3>1. PICK x \in U : TRUE
            BY <2>2
        <3>2. U \ {x} \in G
            BY <1>3
        <3> QED BY <3>2, <1>2
    <2> QED BY <2>1, <2>2
<1>4. G = SUBSET S
    <2> G \in SUBSET (SUBSET S)
        OBVIOUS
    <2> HIDE DEF G
    <2> QED BY <1>3, SubsetInduction
<1> QED BY <1>4 DEF F, E

\* The sum over two disjoint sets is the sum of their sums.
LEMMA SumUnion ==
    ASSUME NEW S, IsFiniteSet(S), NEW R, IsFiniteSet(R), S \intersect R = {},
           NEW f, \A x \in S \union R : f[x] \in Int
    PROVE  SumFunctionOnSet(f, S \union R)
                = SumFunctionOnSet(f, S) + SumFunctionOnSet(f, R)
<1> DEFINE Sum(U) == SumFunctionOnSet(f, U)
           G == {U \in SUBSET R : Sum(S \union U) = Sum(S) + Sum(U)}
<1>1. Sum({}) = 0 /\ Sum(S) \in Int
    BY SumEmpty, SumInt
<1>2. ASSUME NEW U \in SUBSET R, NEW x \in U
      PROVE  /\ Sum(U) = f[x] + Sum(U \ {x})
             /\ Sum(S \union U) = f[x] + Sum(S \union (U \ {x}))
             /\ Sum(U \ {x}) \in Int /\ f[x] \in Int
    <2>1. /\ IsFiniteSet(U) /\ IsFiniteSet(S \union U) /\ IsFiniteSet(U \ {x})
          /\ (S \union U) \ {x} = S \union (U \ {x}) /\ x \in S \union U
        BY FS_Subset, FS_Union
    <2>2. Sum(U) = f[x] + Sum(U \ {x})
        BY <2>1, SumRemove
    <2>3. Sum(S \union U) = f[x] + Sum((S \union U) \ {x})
        BY <2>1, SumRemove
    <2>4. Sum(U \ {x}) \in Int
        BY <2>1, SumInt
    <2> HIDE DEF Sum
    <2> QED BY <2>1, <2>2, <2>3, <2>4
<1> HIDE DEF Sum
<1>3. ASSUME NEW U \in SUBSET R, \A V \in SUBSET U : V # U => V \in G
      PROVE  U \in G
    <2>1. CASE U = {}
        <3>1. S \union U = S
            BY <2>1
        <3> QED BY <2>1, <3>1, <1>1
    <2>2. CASE U # {}
        <3>1. PICK x \in U : TRUE
            BY <2>2
        <3>2. Sum(S \union (U \ {x})) = Sum(S) + Sum(U \ {x})
            <4>1. U \ {x} \in G
                BY <1>3
            <4> QED BY <4>1
        <3>3. /\ Sum(U) = f[x] + Sum(U \ {x})
              /\ Sum(S \union U) = f[x] + Sum(S \union (U \ {x}))
              /\ Sum(U \ {x}) \in Int /\ f[x] \in Int /\ Sum(S) \in Int
            BY <1>1, <1>2
        <3>4. Sum(S \union U) = Sum(S) + Sum(U)
            BY <3>2, <3>3
        <3> QED BY <3>4
    <2> QED BY <2>1, <2>2
<1>4. G = SUBSET R
    <2> G \in SUBSET (SUBSET R)
        OBVIOUS
    <2> HIDE DEF G
    <2> QED BY <1>3, SubsetInduction
<1> QED BY <1>4 DEF Sum

\* Elements may be grouped into disjoint parts before they are added.
LEMMA SumPartition ==
    ASSUME NEW S, IsFiniteSet(S), NEW f, \A x \in S : f[x] \in Int,
           NEW K, IsFiniteSet(K), NEW P,
           \A u \in K : P[u] \in SUBSET S,
           \A x \in S : \E u \in K : x \in P[u],
           \A u, v \in K : u # v => P[u] \intersect P[v] = {},
           NEW F, \A u \in K : F[u] = SumFunctionOnSet(f, P[u])
    PROVE  SumFunctionOnSet(f, S) = SumFunctionOnSet(F, K)
<1> DEFINE In(U) == {x \in S : \E u \in U : x \in P[u]}
           G == {U \in SUBSET K : SumFunctionOnSet(f, In(U))
                                    = SumFunctionOnSet(F, U)}
<1>1. \A U \in SUBSET S : IsFiniteSet(U) /\ SumFunctionOnSet(f, U) \in Int
    BY FS_Subset, SumInt
<1>2. \A u \in K : F[u] \in Int
    BY <1>1
<1>3. ASSUME NEW U \in SUBSET K, NEW u \in U,
             SumFunctionOnSet(f, In(U \ {u})) = SumFunctionOnSet(F, U \ {u})
      PROVE  SumFunctionOnSet(f, In(U)) = SumFunctionOnSet(F, U)
    <2> DEFINE A == P[u]
               B == In(U \ {u})
    <2>1. In(U) = A \union B /\ A \intersect B = {}
        OBVIOUS
    <2>2. /\ A \in SUBSET S /\ IsFiniteSet(A)
          /\ B \in SUBSET S /\ IsFiniteSet(B)
        BY <1>1
    <2>3. F[u] = SumFunctionOnSet(f, A)
        OBVIOUS
    <2> HIDE DEF A, B, In
    <2>4. SumFunctionOnSet(f, A \union B)
            = SumFunctionOnSet(f, A) + SumFunctionOnSet(f, B)
        BY <2>1, <2>2, SumUnion
    <2>5. SumFunctionOnSet(F, U) = F[u] + SumFunctionOnSet(F, U \ {u})
        BY <1>2, FS_Subset, SumRemove
    <2> QED BY <2>1, <2>3, <2>4, <2>5, <1>3 DEF B
<1>4. ASSUME NEW U \in SUBSET K, \A V \in SUBSET U : V # U => V \in G
      PROVE  U \in G
    <2>1. CASE U = {}
        <3>1. In(U) = {}
            BY <2>1
        <3> QED BY <2>1, <3>1, SumEmpty
    <2>2. CASE U # {}
        <3>1. PICK u \in U : TRUE
            BY <2>2
        <3>2. U \ {u} \in G
            BY <1>4
        <3> QED BY <3>2, <1>3
    <2> QED BY <2>1, <2>2
<1>5. G = SUBSET K
    <2> G \in SUBSET (SUBSET K)
        OBVIOUS
    <2> HIDE DEF G
    <2> QED BY <1>4, SubsetInduction
<1>6. In(K) = S
    OBVIOUS
<1> QED BY <1>5, <1>6

\* A sum may be taken over another set of the same elements.
LEMMA SumReindex ==
    ASSUME NEW S, IsFiniteSet(S), NEW b,
           \A x, y \in S : b[x] = b[y] => x = y,
           NEW R, \A x \in S : b[x] \in R, \A u \in R : \E x \in S : b[x] = u,
           NEW f, \A y \in R : f[y] \in Int, NEW g, \A x \in S : g[x] = f[b[x]]
    PROVE  SumFunctionOnSet(g, S) = SumFunctionOnSet(f, R)
<1> DEFINE P == [x \in S |-> {b[x]}]
<1>1. IsFiniteSet(R)
    <2>1. [x \in S |-> b[x]] \in Surjection(S, R)
        BY DEF Surjection
    <2> QED BY <2>1, FS_Surjection
<1>2. /\ \A x \in S : P[x] \in SUBSET R
      /\ \A u \in R : \E x \in S : u \in P[x]
      /\ \A x, y \in S : x # y => P[x] \intersect P[y] = {}
    OBVIOUS
<1>3. ASSUME NEW x \in S PROVE g[x] = SumFunctionOnSet(f, P[x])
    BY SumSingle
<1> HIDE DEF P
<1> QED BY <1>1, <1>2, <1>3, SumPartition

\* Bounds on the parts bound the sum.
LEMMA SumAbove ==
    ASSUME NEW S, IsFiniteSet(S), NEW c \in Int,
           NEW f, \A x \in S : f[x] \in Int, NEW g, \A x \in S : g[x] \in Int,
           \A x \in S : c * f[x] <= g[x]
    PROVE  c * SumFunctionOnSet(f, S) <= SumFunctionOnSet(g, S)
<1> DEFINE F(U) == SumFunctionOnSet(f, U)
           E(U) == SumFunctionOnSet(g, U)
           G == {U \in SUBSET S : c * F(U) <= E(U)}
<1>1. F({}) = 0 /\ E({}) = 0
    BY SumEmpty
<1>2. ASSUME NEW U \in SUBSET S, NEW x \in U
      PROVE  /\ F(U) = f[x] + F(U \ {x}) /\ F(U \ {x}) \in Int
             /\ E(U) = g[x] + E(U \ {x}) /\ E(U \ {x}) \in Int
    <2>1. IsFiniteSet(U) /\ IsFiniteSet(U \ {x})
        BY FS_Subset
    <2>2. F(U) = f[x] + F(U \ {x})
        BY <2>1, SumRemove
    <2>3. E(U) = g[x] + E(U \ {x})
        BY <2>1, SumRemove
    <2> QED BY <2>1, <2>2, <2>3, SumInt
<1> HIDE DEF F, E
<1>3. ASSUME NEW U \in SUBSET S, \A V \in SUBSET U : V # U => V \in G
      PROVE  U \in G
    <2>1. CASE U = {}
        <3>1. c * 0 <= 0
            OBVIOUS
        <3> QED BY <2>1, <3>1, <1>1
    <2>2. CASE U # {}
        <3>1. PICK x \in U : TRUE
            BY <2>2
        <3> DEFINE A == F(U \ {x})
                   B == E(U \ {x})
        <3>2. U \ {x} \in G
            BY <1>3
        <3>3. c * A <= B /\ c * f[x] <= g[x]
            BY <3>2
        <3>4. /\ F(U) = f[x] + A /\ A \in Int /\ f[x] \in Int
              /\ E(U) = g[x] + B /\ B \in Int /\ g[x] \in Int
            BY <1>2
        <3> HIDE DEF A, B
        <3>5. c * (f[x] + A) = c * f[x] + c * A
              /\ c * f[x] \in Int /\ c * A \in Int
            BY <3>4
        <3>6. c * F(U) <= E(U)
            BY <3>3, <3>4, <3>5
        <3> QED BY <3>6
    <2> QED BY <2>1, <2>2
<1>4. G = SUBSET S
    <2> G \in SUBSET (SUBSET S)
        OBVIOUS
    <2> HIDE DEF G
    <2> QED BY <1>3, SubsetInduction
<1> QED BY <1>4 DEF F, E

\* The same from above.
LEMMA SumBelow ==
    ASSUME NEW S, IsFiniteSet(S), NEW c \in Int,
           NEW f, \A x \in S : f[x] \in Int, NEW g, \A x \in S : g[x] \in Int,
           \A x \in S : g[x] <= c * f[x]
    PROVE  SumFunctionOnSet(g, S) <= c * SumFunctionOnSet(f, S)
<1> DEFINE F(U) == SumFunctionOnSet(f, U)
           E(U) == SumFunctionOnSet(g, U)
           G == {U \in SUBSET S : E(U) <= c * F(U)}
<1>1. F({}) = 0 /\ E({}) = 0
    BY SumEmpty
<1>2. ASSUME NEW U \in SUBSET S, NEW x \in U
      PROVE  /\ F(U) = f[x] + F(U \ {x}) /\ F(U \ {x}) \in Int
             /\ E(U) = g[x] + E(U \ {x}) /\ E(U \ {x}) \in Int
    <2>1. IsFiniteSet(U) /\ IsFiniteSet(U \ {x})
        BY FS_Subset
    <2>2. F(U) = f[x] + F(U \ {x})
        BY <2>1, SumRemove
    <2>3. E(U) = g[x] + E(U \ {x})
        BY <2>1, SumRemove
    <2> QED BY <2>1, <2>2, <2>3, SumInt
<1> HIDE DEF F, E
<1>3. ASSUME NEW U \in SUBSET S, \A V \in SUBSET U : V # U => V \in G
      PROVE  U \in G
    <2>1. CASE U = {}
        <3>1. 0 <= c * 0
            OBVIOUS
        <3> QED BY <2>1, <3>1, <1>1
    <2>2. CASE U # {}
        <3>1. PICK x \in U : TRUE
            BY <2>2
        <3> DEFINE A == F(U \ {x})
                   B == E(U \ {x})
        <3>2. U \ {x} \in G
            BY <1>3
        <3>3. B <= c * A /\ g[x] <= c * f[x]
            BY <3>2
        <3>4. /\ F(U) = f[x] + A /\ A \in Int /\ f[x] \in Int
              /\ E(U) = g[x] + B /\ B \in Int /\ g[x] \in Int
            BY <1>2
        <3> HIDE DEF A, B
        <3>5. c * (f[x] + A) = c * f[x] + c * A
              /\ c * f[x] \in Int /\ c * A \in Int
            BY <3>4
        <3>6. E(U) <= c * F(U)
            BY <3>3, <3>4, <3>5
        <3> QED BY <3>6
    <2> QED BY <2>1, <2>2
<1>4. G = SUBSET S
    <2> G \in SUBSET (SUBSET S)
        OBVIOUS
    <2> HIDE DEF G
    <2> QED BY <1>3, SubsetInduction
<1> QED BY <1>4 DEF F, E

\* Counting is adding ones.
LEMMA SumOnes ==
    ASSUME NEW S, IsFiniteSet(S), NEW f, \A x \in S : f[x] = 1
    PROVE  SumFunctionOnSet(f, S) = Cardinality(S)
<1> DEFINE F(U) == SumFunctionOnSet(f, U)
           G == {U \in SUBSET S : F(U) = Cardinality(U)}
<1>1. F({}) = 0 /\ Cardinality({}) = 0
    BY SumEmpty, FS_EmptySet
<1>2. ASSUME NEW U \in SUBSET S, NEW x \in U
      PROVE  /\ F(U) = 1 + F(U \ {x})
             /\ Cardinality(U) = 1 + Cardinality(U \ {x})
    <2>1. IsFiniteSet(U) /\ IsFiniteSet(U \ {x})
        BY FS_Subset
    <2>2. F(U) = f[x] + F(U \ {x})
        BY <2>1, SumRemove
    <2>3. /\ Cardinality(U \ {x}) = Cardinality(U) - 1
          /\ Cardinality(U) \in Nat
        BY <2>1, FS_RemoveElement, FS_CardinalityType
    <2> QED BY <2>2, <2>3
<1> HIDE DEF F
<1>3. ASSUME NEW U \in SUBSET S, \A V \in SUBSET U : V # U => V \in G
      PROVE  U \in G
    <2>1. CASE U = {}
        BY <2>1, <1>1
    <2>2. CASE U # {}
        <3>1. PICK x \in U : TRUE
            BY <2>2
        <3>2. U \ {x} \in G
            BY <1>3
        <3> QED BY <3>2, <1>2
    <2> QED BY <2>1, <2>2
<1>4. G = SUBSET S
    <2> G \in SUBSET (SUBSET S)
        OBVIOUS
    <2> HIDE DEF G
    <2> QED BY <1>3, SubsetInduction
<1> QED BY <1>4 DEF F

-----------------------------------------------------------------------------
(* Extremes.                                                                *)

\* Among finitely many elements one has the least value.
LEMMA Least ==
    ASSUME NEW S, IsFiniteSet(S), S # {}, NEW f, \A x \in S : f[x] \in Int
    PROVE  \E x \in S : \A y \in S : f[x] <= f[y]
<1> DEFINE L(U) == \E x \in U : \A y \in U : f[x] <= f[y]
           G == {U \in SUBSET S : U = {} \/ L(U)}
<1>1. ASSUME NEW U \in SUBSET S, \A V \in SUBSET U : V # U => V \in G
      PROVE  U \in G
    <2> SUFFICES ASSUME U # {} PROVE L(U)
        OBVIOUS
    <2>1. PICK x \in U : TRUE
        OBVIOUS
    <2>2. U \ {x} \in G
        BY <1>1
    <2>3. CASE U \ {x} = {}
        BY <2>3
    <2>4. CASE L(U \ {x})
        <3>1. PICK z \in U \ {x} : \A y \in U \ {x} : f[z] <= f[y]
            BY <2>4
        <3>2. f[x] \in Int /\ \A y \in U : f[y] \in Int
            OBVIOUS
        <3>3. CASE f[z] <= f[x]
            BY <3>1, <3>3
        <3>4. CASE f[x] <= f[z]
            <4>1. \A y \in U : f[x] <= f[y]
                BY <3>1, <3>2, <3>4
            <4> QED BY <4>1
        <3> QED BY <3>2, <3>3, <3>4
    <2> QED BY <2>2, <2>3, <2>4
<1>2. G = SUBSET S
    <2> G \in SUBSET (SUBSET S)
        OBVIOUS
    <2> HIDE DEF G
    <2> QED BY <1>1, SubsetInduction
<1> QED BY <1>2

\* And one has the greatest.
LEMMA Greatest ==
    ASSUME NEW S, IsFiniteSet(S), S # {}, NEW f, \A x \in S : f[x] \in Int
    PROVE  \E x \in S : \A y \in S : f[y] <= f[x]
<1> DEFINE g == [x \in S |-> -f[x]]
<1>1. \A x \in S : g[x] \in Int
    OBVIOUS
<1>2. PICK x \in S : \A y \in S : g[x] <= g[y]
    <2> HIDE DEF g
    <2> QED BY <1>1, Least
<1>3. \A y \in S : f[y] <= f[x]
    BY <1>2
<1> QED BY <1>3

\* Max and Min of a finite non-empty set of integers are what they say.
LEMMA MaxMin ==
    ASSUME NEW S \in SUBSET Int, IsFiniteSet(S), S # {}
    PROVE  /\ Max(S) \in S /\ \A y \in S : y <= Max(S)
           /\ Min(S) \in S /\ \A y \in S : Min(S) <= y
<1> DEFINE id == [x \in S |-> x]
<1>1. \A x \in S : id[x] \in Int
    OBVIOUS
<1>2. /\ \E x \in S : \A y \in S : id[x] <= id[y]
      /\ \E x \in S : \A y \in S : id[y] <= id[x]
    <2> HIDE DEF id
    <2> QED BY <1>1, Least, Greatest
<1>3. /\ \E x \in S : \A y \in S : x <= y
      /\ \E x \in S : \A y \in S : x >= y
    BY <1>2
<1> QED BY <1>3 DEF Max, Min

\* No other number is.
LEMMA MaxMinUnique ==
    ASSUME NEW S \in SUBSET Int, NEW m \in S
    PROVE  /\ (\A y \in S : y <= m) => Max(S) = m
           /\ (\A y \in S : m <= y) => Min(S) = m
<1>1. ASSUME \A y \in S : y <= m PROVE Max(S) = m
    <2>1. \E x \in S : \A y \in S : x >= y
        BY <1>1
    <2>2. Max(S) \in S /\ \A y \in S : Max(S) >= y
        BY <2>1 DEF Max
    <2>3. Max(S) \in Int /\ m \in Int /\ Max(S) <= m /\ Max(S) >= m
        BY <1>1, <2>2
    <2> QED BY <2>3
<1>2. ASSUME \A y \in S : m <= y PROVE Min(S) = m
    <2>1. \E x \in S : \A y \in S : x <= y
        BY <1>2
    <2>2. Min(S) \in S /\ \A y \in S : Min(S) <= y
        BY <2>1 DEF Min
    <2>3. Min(S) \in Int /\ m \in Int /\ Min(S) <= m /\ Min(S) >= m
        BY <1>2, <2>2
    <2> QED BY <2>3
<1> QED BY <1>1, <1>2

-----------------------------------------------------------------------------
(* Units of time.                                                           *)

\* The quotient of a time by a unit is the number of the unit it lies in.
LEMMA DivFloor ==
    ASSUME NEW a \in Int, NEW b \in Nat \ {0}
    PROVE  /\ a \div b \in Int
           /\ (a \div b) * b <= a
           /\ a < (a \div b) * b + b
OBVIOUS

\* No other number is.
LEMMA DivUnique ==
    ASSUME NEW a \in Int, NEW b \in Nat \ {0}, NEW q \in Int,
           q * b <= a, a < q * b + b
    PROVE  a \div b = q
<1> DEFINE d == a \div b
<1>1. d \in Int /\ d * b <= a /\ a < d * b + b
    BY DivFloor
<1> HIDE DEF d
<1>2. ASSUME q < d PROVE FALSE
    <2>1. q + 1 <= d
        BY <1>1, <1>2
    <2>2. (q + 1) * b <= d * b /\ (q + 1) * b = q * b + b
        BY <2>1, <1>1
    <2> QED BY <2>2, <1>1
<1>3. ASSUME d < q PROVE FALSE
    <2>1. d + 1 <= q
        BY <1>1, <1>3
    <2>2. (d + 1) * b <= q * b /\ (d + 1) * b = d * b + b
        BY <2>1, <1>1
    <2> QED BY <2>2, <1>1
<1> QED BY <1>1, <1>2, <1>3 DEF d

\* The start of a unit lies in the same larger unit as all of it, when the
\* smaller divides the larger.
LEMMA StartOfUnit ==
    ASSUME NEW a \in Int, NEW b \in Nat \ {0}, NEW c \in Nat \ {0}, c % b = 0
    PROVE  ((a \div b) * b) \div c = a \div c
<1> DEFINE j == c \div b
           q == a \div b
           d == a \div c
<1>1. j \in Int /\ c = j * b
    OBVIOUS
<1>2. q \in Int /\ q * b <= a /\ a < q * b + b
    BY DivFloor
<1>3. d \in Int /\ d * c <= a /\ a < d * c + c
    BY DivFloor
<1> HIDE DEF j, q, d
<1>4. d * j \in Int /\ d * c = (d * j) * b
    BY <1>1, <1>3
<1>5. d * j <= q
    <2> SUFFICES ASSUME q < d * j PROVE FALSE
        BY <1>2, <1>4
    <2> DEFINE e == d * j
    <2>1. e \in Int /\ q < e /\ d * c = e * b
        BY <1>4
    <2> HIDE DEF e
    <2>2. q + 1 <= e
        BY <2>1, <1>2
    <2>3. (q + 1) * b <= e * b /\ (q + 1) * b = q * b + b
        BY <2>1, <2>2, <1>2
    <2> QED BY <2>1, <2>3, <1>2, <1>3
<1>6. d * c <= q * b /\ q * b < d * c + c
    <2>1. (d * j) * b <= q * b
        BY <1>2, <1>4, <1>5
    <2> QED BY <2>1, <1>2, <1>3, <1>4
<1>7. q * b \in Int
    BY <1>2
<1> QED BY <1>3, <1>6, <1>7, DivUnique DEF q, d

-----------------------------------------------------------------------------
(* Accumulators.  What is added to one is an item that carries a trade: a   *)
(* trade itself, or an event of a topic, of which two may carry the same.   *)

\* The trades that items carry.
Carried(tr, S) == {tr[x] : x \in S}

\* What the validators of both schemas ensure of every trade.
Typed(tr) == \A x \in DOMAIN tr :
    /\ tr[x].price \in Int /\ tr[x].qty \in Int /\ tr[x].time \in Int
    /\ tr[x].price > 0 /\ tr[x].qty > 0

Worth(tr) == [x \in DOMAIN tr |-> tr[x].price * tr[x].qty]

\* The accumulator a is the candle of the items of S.
IsCandle(a, tr, S) ==
    /\ a \in Accumulators
    /\ a.empty <=> S = {}
    /\ a.count = Cardinality(S)
    /\ a.volume = SumFunctionOnSet(Worth(tr), S)
    /\ S # {} => /\ ExtremesOf(a, Carried(tr, S))
                 /\ EndpointsOf(a, Carried(tr, S))
                 /\ a.volume > 0

\* The value of a trade is a positive integer.
LEMMA WorthType ==
    ASSUME NEW tr, Typed(tr), NEW x \in DOMAIN tr
    PROVE  /\ Worth(tr)[x] = tr[x].price * tr[x].qty
           /\ Worth(tr)[x] \in Int /\ Worth(tr)[x] > 0
<1>1. /\ tr[x].price \in Int /\ tr[x].qty \in Int
      /\ tr[x].price > 0 /\ tr[x].qty > 0
    BY DEF Typed
<1>2. \A p, q \in Int : p > 0 /\ q > 0 => p * q \in Int /\ p * q > 0
    OBVIOUS
<1> QED BY <1>1, <1>2 DEF Worth

LEMMA CandleEmpty == ASSUME NEW tr PROVE IsCandle(Empty, tr, {})
BY FS_EmptySet, SumEmpty DEF IsCandle, Empty, Accumulators

LEMMA CandleSingle ==
    ASSUME NEW tr, Typed(tr), NEW x \in DOMAIN tr
    PROVE  IsCandle(Single(tr[x]), tr, {x})
<1> DEFINE t == tr[x]
<1>1. /\ t.price \in Int /\ t.qty \in Int /\ t.time \in Int
      /\ t.price > 0 /\ t.qty > 0
    BY DEF Typed
<1>2. t.price * t.qty \in Int /\ t.price * t.qty > 0
      /\ SumFunctionOnSet(Worth(tr), {x}) = t.price * t.qty
    BY WorthType, SumSingle
<1>3. Carried(tr, {x}) = {t}
    BY DEF Carried
<1> HIDE DEF t
<1>4. Single(t) \in Accumulators
    BY <1>1, <1>2 DEF Single, Accumulators
<1>5. Cardinality({x}) = 1
    BY FS_Singleton
<1>6. ExtremesOf(Single(t), {t}) /\ EndpointsOf(Single(t), {t})
    BY <1>1 DEF Single, ExtremesOf, EndpointsOf
<1>7. IsCandle(Single(t), tr, {x})
    BY <1>2, <1>3, <1>4, <1>5, <1>6 DEF IsCandle, Single
<1> QED BY <1>7 DEF t

\* The join has the extremes of both.
LEMMA JoinExtremes ==
    ASSUME NEW a \in Accumulators, NEW b \in Accumulators, NEW T, NEW U,
           \A t \in T \union U : t.price \in Int,
           ExtremesOf(a, T), ExtremesOf(b, U)
    PROVE  ExtremesOf(Join(a, b), T \union U)
<1> DEFINE j == Join(a, b)
<1>1. \A x \in {a, b} : x.high \in Int /\ x.low \in Int
    BY DEF Accumulators
<1>2. PICK h1 \in T, h2 \in U : h1.price = a.high /\ h2.price = b.high
    BY DEF ExtremesOf
<1>3. PICK l1 \in T, l2 \in U : l1.price = a.low /\ l2.price = b.low
    BY DEF ExtremesOf
<1>4. /\ j.high = IF b.high > a.high THEN b.high ELSE a.high
      /\ j.low = IF b.low < a.low THEN b.low ELSE a.low
    BY DEF Join
<1>5. \A t \in T \union U : j.low <= t.price /\ t.price <= j.high
    BY <1>1, <1>4 DEF ExtremesOf
<1> HIDE DEF j
<1>6. ExtremesOf(j, T \union U)
    BY <1>2, <1>3, <1>4, <1>5 DEF ExtremesOf
<1> QED BY <1>6 DEF j

\* The join opens with the earlier and closes with the later of the two.
LEMMA JoinEndpoints ==
    ASSUME NEW a \in Accumulators, NEW b \in Accumulators, NEW T, NEW U,
           \A t \in T \union U : t.time \in Int,
           EndpointsOf(a, T), EndpointsOf(b, U)
    PROVE  EndpointsOf(Join(a, b), T \union U)
<1> DEFINE j == Join(a, b)
<1>1. \A x \in {a, b} : x.first \in Int /\ x.last \in Int
    BY DEF Accumulators
<1>2. PICK o1 \in T, o2 \in U : /\ o1.time = a.first /\ o1.price = a.open
                               /\ o2.time = b.first /\ o2.price = b.open
    BY DEF EndpointsOf
<1>3. PICK c1 \in T, c2 \in U : /\ c1.time = a.last /\ c1.price = a.close
                               /\ c2.time = b.last /\ c2.price = b.close
    BY DEF EndpointsOf
<1>4. /\ j.first = IF b.first < a.first THEN b.first ELSE a.first
      /\ j.open = IF b.first < a.first THEN b.open ELSE a.open
      /\ j.last = IF b.last > a.last THEN b.last ELSE a.last
      /\ j.close = IF b.last > a.last THEN b.close ELSE a.close
    BY DEF Join
<1>5. \A t \in T \union U : j.first <= t.time /\ t.time <= j.last
    BY <1>1, <1>4 DEF EndpointsOf
<1> HIDE DEF j
<1>6. \E t \in T \union U : t.time = j.first /\ t.price = j.open
    BY <1>2, <1>4
<1>7. \E t \in T \union U : t.time = j.last /\ t.price = j.close
    BY <1>3, <1>4
<1>8. EndpointsOf(j, T \union U)
    BY <1>5, <1>6, <1>7 DEF EndpointsOf
<1> QED BY <1>8 DEF j

\* Two candles of disjoint, non-empty sets of items join to one of both.
LEMMA CandleJoin ==
    ASSUME NEW tr, Typed(tr),
           NEW S \in SUBSET (DOMAIN tr), NEW R \in SUBSET (DOMAIN tr),
           IsFiniteSet(S), IsFiniteSet(R), S \intersect R = {},
           S # {}, R # {},
           NEW a, NEW b, IsCandle(a, tr, S), IsCandle(b, tr, R)
    PROVE  IsCandle(Join(a, b), tr, S \union R)
<1> DEFINE j == Join(a, b)
           T == Carried(tr, S)
           U == Carried(tr, R)
<1>1. /\ a \in Accumulators /\ b \in Accumulators
      /\ ExtremesOf(a, T) /\ ExtremesOf(b, U)
      /\ EndpointsOf(a, T) /\ EndpointsOf(b, U)
      /\ a.volume > 0 /\ b.volume > 0
      /\ a.count = Cardinality(S) /\ b.count = Cardinality(R)
      /\ a.volume = SumFunctionOnSet(Worth(tr), S)
      /\ b.volume = SumFunctionOnSet(Worth(tr), R)
    BY DEF IsCandle
<1>2. Carried(tr, S \union R) = T \union U
    BY DEF Carried
<1>3. \A t \in T \union U : t.price \in Int /\ t.time \in Int
    BY DEF Carried, Typed
<1> HIDE DEF T, U
<1>4. \A x \in {a, b} : /\ x.open \in Int /\ x.close \in Int
                       /\ x.high \in Int /\ x.low \in Int
                       /\ x.first \in Int /\ x.last \in Int
                       /\ x.volume \in Int /\ x.count \in Int
    BY <1>1 DEF Accumulators
<1>5. j \in Accumulators /\ ~j.empty
    BY <1>4 DEF Join, Accumulators
<1>6. j.volume = a.volume + b.volume /\ j.count = a.count + b.count
    BY DEF Join
<1>7. ExtremesOf(j, T \union U) /\ EndpointsOf(j, T \union U)
    BY <1>1, <1>3, JoinExtremes, JoinEndpoints
<1> HIDE DEF j
<1>8. j.count = Cardinality(S \union R)
    <2>1. /\ Cardinality(S \intersect R) = 0
          /\ Cardinality(S) \in Nat /\ Cardinality(R) \in Nat
        BY FS_EmptySet, FS_CardinalityType
    <2>2. Cardinality(S \union R) =
            Cardinality(S) + Cardinality(R) - Cardinality(S \intersect R)
        BY FS_Union
    <2> QED BY <1>1, <1>6, <2>1, <2>2
<1>9. j.volume = SumFunctionOnSet(Worth(tr), S \union R)
    <2>1. \A x \in S \union R : Worth(tr)[x] \in Int
        BY WorthType
    <2>2. SumFunctionOnSet(Worth(tr), S \union R)
            = SumFunctionOnSet(Worth(tr), S) + SumFunctionOnSet(Worth(tr), R)
        BY <2>1, SumUnion
    <2> QED BY <1>1, <1>6, <2>2
<1>10. j.volume > 0
    BY <1>1, <1>4, <1>6
<1>11. IsCandle(j, tr, S \union R)
    BY <1>2, <1>5, <1>7, <1>8, <1>9, <1>10 DEF IsCandle
<1> QED BY <1>11 DEF j

\* merge_accumulators, empty ones included.
LEMMA CandleMerge ==
    ASSUME NEW tr, Typed(tr),
           NEW S \in SUBSET (DOMAIN tr), NEW R \in SUBSET (DOMAIN tr),
           IsFiniteSet(S), IsFiniteSet(R), S \intersect R = {},
           NEW a, NEW b, IsCandle(a, tr, S), IsCandle(b, tr, R)
    PROVE  IsCandle(Merge(a, b), tr, S \union R)
<1>1. (a.empty <=> S = {}) /\ (b.empty <=> R = {})
    BY DEF IsCandle
<1>2. CASE R = {}
    <2>1. Merge(a, b) = a /\ S \union R = S
        BY <1>1, <1>2 DEF Merge
    <2> QED BY <2>1
<1>3. CASE R # {} /\ S = {}
    <2>1. Merge(a, b) = b /\ S \union R = R
        BY <1>1, <1>3 DEF Merge
    <2> QED BY <2>1
<1>4. CASE R # {} /\ S # {}
    <2>1. Merge(a, b) = Join(a, b)
        BY <1>1, <1>4 DEF Merge
    <2> QED BY <2>1, <1>4, CandleJoin
<1> QED BY <1>2, <1>3, <1>4

\* add_input is the merge with the accumulator of a single trade.
LEMMA AddIsMerge ==
    ASSUME NEW a, NEW t
    PROVE  AddInput(a, t) = Merge(a, Single(t))
BY DEF AddInput, Merge, Single

\* add_input of an item that the candle does not count yet.
LEMMA CandleAdd ==
    ASSUME NEW tr, Typed(tr), NEW S \in SUBSET (DOMAIN tr), IsFiniteSet(S),
           NEW x \in DOMAIN tr, x \notin S, NEW a, IsCandle(a, tr, S)
    PROVE  IsCandle(AddInput(a, tr[x]), tr, S \union {x})
<1>1. {x} \in SUBSET (DOMAIN tr) /\ IsFiniteSet({x}) /\ S \intersect {x} = {}
    BY FS_Singleton
<1>2. IsCandle(Merge(a, Single(tr[x])), tr, S \union {x})
    BY <1>1, CandleSingle, CandleMerge
<1> QED BY <1>2, AddIsMerge

\* A candle depends on what its items carry only.
LEMMA CandleAgrees ==
    ASSUME NEW tr, Typed(tr), NEW S \in SUBSET (DOMAIN tr), IsFiniteSet(S),
           NEW ts, S \subseteq DOMAIN ts, \A x \in S : ts[x] = tr[x],
           NEW a, IsCandle(a, tr, S)
    PROVE  IsCandle(a, ts, S)
<1>1. Carried(ts, S) = Carried(tr, S)
    BY DEF Carried
<1>2. \A x \in S : /\ Worth(tr)[x] \in Int
                   /\ Worth(ts)[x] = Worth(tr)[x]
    BY WorthType DEF Worth
<1>3. SumFunctionOnSet(Worth(ts), S) = SumFunctionOnSet(Worth(tr), S)
    BY <1>2, SumAgree
<1> QED BY <1>1, <1>3 DEF IsCandle

\* No candle of trades is dropped by the structural filter of the view.
LEMMA CandleWellFormed ==
    ASSUME NEW tr, NEW S, IsFiniteSet(S), S # {}, NEW a, IsCandle(a, tr, S)
    PROVE  WellFormed(a)
<1> DEFINE T == Carried(tr, S)
<1>1. /\ ExtremesOf(a, T) /\ EndpointsOf(a, T)
      /\ a.volume > 0 /\ a.count = Cardinality(S)
    BY DEF IsCandle
<1> HIDE DEF T
<1>2. /\ a.low <= a.open /\ a.open <= a.high
      /\ a.low <= a.close /\ a.close <= a.high
    BY <1>1 DEF ExtremesOf, EndpointsOf
<1>3. Cardinality(S) \in Nat /\ Cardinality(S) # 0
    BY FS_CardinalityType, FS_EmptySet
<1> QED BY <1>1, <1>2, <1>3 DEF WellFormed

-----------------------------------------------------------------------------
(* Rows.                                                                    *)

\* Open and close are prices of an earliest and of a latest trade.
EndsOf(r, S) ==
    /\ \E t \in S : t.price = r.open /\ \A u \in S : t.time <= u.time
    /\ \E t \in S : t.price = r.close /\ \A u \in S : u.time <= t.time

\* What a row of a table of candles says of the items it stands for.
Reports(r, tr, S) ==
    /\ ExtremesOf(r, Carried(tr, S))
    /\ EndsOf(r, Carried(tr, S))
    /\ r.volume = SumFunctionOnSet(Worth(tr), S)
    /\ r.count = Cardinality(S)

\* The row that is written of a candle.
LEMMA CandleReports ==
    ASSUME NEW tr, NEW S, S # {}, NEW a, IsCandle(a, tr, S),
           NEW start, NEW at
    PROVE  LET r == Row(start, at, a)
           IN  /\ Reports(r, tr, S)
               /\ r.start = start /\ r.at = at
               /\ WellFormed(r) <=> WellFormed(a)
<1> DEFINE r == Row(start, at, a)
           T == Carried(tr, S)
<1>1. /\ r.start = start /\ r.at = at
      /\ r.open = a.open /\ r.close = a.close
      /\ r.high = a.high /\ r.low = a.low
      /\ r.volume = a.volume /\ r.count = a.count
    BY DEF Row
<1> HIDE DEF r, T
<1>2. /\ ExtremesOf(a, T) /\ EndpointsOf(a, T)
      /\ a.count = Cardinality(S)
      /\ a.volume = SumFunctionOnSet(Worth(tr), S)
    BY DEF IsCandle, T
<1>3. EndsOf(r, T)
    <2>1. PICK o \in T : o.time = a.first /\ o.price = a.open
        BY <1>2 DEF EndpointsOf
    <2>2. PICK c \in T : c.time = a.last /\ c.price = a.close
        BY <1>2 DEF EndpointsOf
    <2>3. \A u \in T : o.time <= u.time /\ u.time <= c.time
        BY <1>2, <2>1, <2>2 DEF EndpointsOf
    <2> QED BY <1>1, <2>1, <2>2, <2>3 DEF EndsOf
<1>4. Reports(r, tr, S)
    BY <1>1, <1>2, <1>3 DEF Reports, ExtremesOf, T
<1>5. WellFormed(r) <=> WellFormed(a)
    BY <1>1 DEF WellFormed
<1> QED BY <1>1, <1>4, <1>5 DEF r

-----------------------------------------------------------------------------
(* From rows of spans of time to the row of all of them.                    *)

Spans(tr, size, D) == {tr[x].time \div size : x \in D}
InSpan(tr, size, D, k) == {x \in D : tr[x].time \div size = k}

\* R has for every span of time the row of its items.
RowsOfSpans(R, tr, size, D) == \A k \in Spans(tr, size, D) :
    /\ R[k].start = k * size
    /\ Reports(R[k], tr, InSpan(tr, size, D, k))

\* Items are finitely many, and so are their spans; what a row of one of them
\* reports are numbers.
LEMMA SpansOfItems ==
    ASSUME NEW tr, Typed(tr), NEW D \in SUBSET (DOMAIN tr), IsFiniteSet(D),
           NEW size \in Nat \ {0}
    PROVE  /\ IsFiniteSet(Spans(tr, size, D))
           /\ Spans(tr, size, D) \in SUBSET Int
           /\ \A k \in Spans(tr, size, D) :
                /\ InSpan(tr, size, D, k) # {}
                /\ InSpan(tr, size, D, k) \in SUBSET D
                /\ IsFiniteSet(InSpan(tr, size, D, k))
<1> DEFINE K == Spans(tr, size, D)
<1>1. [x \in D |-> tr[x].time \div size] \in Surjection(D, K)
    BY DEF Surjection, Spans
<1>2. IsFiniteSet(K)
    BY <1>1, FS_Surjection
<1>3. K \in SUBSET Int
    <2>1. \A x \in D : tr[x].time \in Int
        BY DEF Typed
    <2> QED BY <2>1, DivFloor DEF Spans
<1>4. \A k \in K : /\ InSpan(tr, size, D, k) # {}
                   /\ InSpan(tr, size, D, k) \in SUBSET D
    BY DEF Spans, InSpan
<1>5. \A k \in K : IsFiniteSet(InSpan(tr, size, D, k))
    BY <1>4, FS_Subset
<1> QED BY <1>2, <1>3, <1>4, <1>5

\* Rows are ordered as their spans are.
LEMMA RowsInOrder ==
    ASSUME NEW size \in Nat \ {0}, NEW m \in Int, NEW n \in Int,
           m * size <= n * size
    PROVE  m <= n
<1> SUFFICES ASSUME n < m PROVE FALSE
    OBVIOUS
<1>1. n + 1 <= m
    OBVIOUS
<1>2. (n + 1) * size <= m * size /\ (n + 1) * size = n * size + size
    BY <1>1
<1>3. n * size \in Int /\ m * size \in Int
    OBVIOUS
<1> QED BY <1>2, <1>3

\* What lies in an earlier span is earlier.
LEMMA SpansInOrder ==
    ASSUME NEW size \in Nat \ {0}, NEW s \in Int, NEW t \in Int,
           s \div size < t \div size
    PROVE  s < t
<1> DEFINE m == s \div size
           n == t \div size
<1>1. /\ m \in Int /\ s < m * size + size
      /\ n \in Int /\ n * size <= t
    BY DivFloor
<1>2. m < n
    OBVIOUS
<1> HIDE DEF m, n
<1>3. (m + 1) * size <= n * size
    BY <1>1, <1>2
<1>4. (m + 1) * size = m * size + size
    BY <1>1
<1>5. m * size \in Int /\ n * size \in Int
    BY <1>1
<1> QED BY <1>1, <1>3, <1>4, <1>5

\* The row made of the rows of all spans reports the items of all: rolled up,
\* nothing is lost or counted twice, and the first and the last span give the
\* open and the close.
LEMMA RolledUp ==
    ASSUME NEW tr, Typed(tr), NEW D \in SUBSET (DOMAIN tr), IsFiniteSet(D),
           D # {}, NEW size \in Nat \ {0},
           NEW R, RowsOfSpans(R, tr, size, D)
    PROVE  LET K == Spans(tr, size, D)
               day == DayCandle({R[k] : k \in K})
           IN  Reports(day, tr, D) /\ day.candles = Cardinality(K)
<1> DEFINE K == Spans(tr, size, D)
           In(k) == InSpan(tr, size, D, k)
           Of(x) == tr[x].time \div size
           rows == {R[k] : k \in K}
           day == DayCandle(rows)
           highs == {r.high : r \in rows}
           lows == {r.low : r \in rows}
<1>1. /\ day.open = Earliest(rows).open /\ day.close = Latest(rows).close
      /\ day.high = Max(highs) /\ day.low = Min(lows)
      /\ day.volume = SumFunction([r \in rows |-> r.volume])
      /\ day.count = SumFunction([r \in rows |-> r.count])
      /\ day.candles = Cardinality(rows)
    BY DEF DayCandle
<1>2. \A x \in D : tr[x].price \in Int /\ tr[x].time \in Int
    BY DEF Typed
<1>3. IsFiniteSet(K) /\ K \in SUBSET Int
    BY SpansOfItems
<1>4. \A x \in D : Of(x) \in K /\ x \in In(Of(x))
    BY DEF Spans, InSpan
<1>5. \A k \in K : /\ In(k) # {} /\ In(k) \in SUBSET D /\ IsFiniteSet(In(k))
                   /\ \A x \in In(k) : x \in D /\ Of(x) = k
    BY SpansOfItems DEF InSpan
<1>6. K # {}
    BY <1>4
<1>7. ASSUME NEW k \in K
      PROVE  R[k].start = k * size /\ Reports(R[k], tr, In(k))
    BY DEF RowsOfSpans
<1> HIDE DEF K, In, day
<1>8. \A x, y \in D : Of(x) < Of(y) => tr[x].time < tr[y].time
    BY <1>2, SpansInOrder
<1> HIDE DEF Of
<1>9. ASSUME NEW m \in K, NEW n \in K, R[m].start <= R[n].start
      PROVE  m <= n
    <2>1. m \in Int /\ n \in Int /\ m * size <= n * size
        BY <1>3, <1>7, <1>9
    <2> QED BY <2>1, RowsInOrder
<1>10. ASSUME NEW m \in K, NEW n \in K, R[m] = R[n]
       PROVE  m = n
    <2>1. m \in Int /\ n \in Int
        BY <1>3
    <2>2. R[m].start = m * size /\ R[n].start = n * size
        BY <1>7
    <2>3. m * size \in Int
        BY <2>1
    <2>4. R[m].start <= R[n].start /\ R[n].start <= R[m].start
        BY <1>10, <2>2, <2>3
    <2>5. m <= n /\ n <= m
        BY <1>9, <2>4
    <2> QED BY <2>1, <2>5
<1>11. IsFiniteSet(rows) /\ Cardinality(rows) = Cardinality(K)
    <2> DEFINE b == [k \in K |-> R[k]]
    <2>1. b \in Bijection(K, rows)
        BY <1>10 DEF Bijection, Injection, IsInjective, Surjection
    <2> HIDE DEF b, rows
    <2>2. ExistsBijection(K, rows)
        BY <2>1 DEF ExistsBijection
    <2> QED BY <1>3, <2>2, FS_Bijection
<1>12. ASSUME NEW k \in K
       PROVE  /\ \A x \in In(k) : /\ R[k].low <= tr[x].price
                                  /\ tr[x].price <= R[k].high
              /\ \E x \in In(k) : tr[x].price = R[k].high
              /\ \E x \in In(k) : tr[x].price = R[k].low
              /\ \E x \in In(k) : /\ tr[x].price = R[k].open
                                  /\ \A y \in In(k) : tr[x].time <= tr[y].time
              /\ \E x \in In(k) : /\ tr[x].price = R[k].close
                                  /\ \A y \in In(k) : tr[y].time <= tr[x].time
              /\ R[k].volume = SumFunctionOnSet(Worth(tr), In(k))
              /\ R[k].count = Cardinality(In(k))
    BY <1>7 DEF Reports, ExtremesOf, EndsOf, Carried
<1>13. ExtremesOf(day, Carried(tr, D))
    <2> DEFINE f == [x \in D |-> tr[x].price]
    <2>1. \A x \in D : f[x] \in Int /\ f[x] = tr[x].price
        BY <1>2
    <2> HIDE DEF f
    <2>2. PICK h \in D : \A x \in D : tr[x].price <= tr[h].price
        <3>1. PICK x \in D : \A y \in D : f[y] <= f[x]
            BY <2>1, Greatest
        <3> QED BY <2>1, <3>1
    <2>3. PICK l \in D : \A x \in D : tr[l].price <= tr[x].price
        <3>1. PICK x \in D : \A y \in D : f[x] <= f[y]
            BY <2>1, Least
        <3> QED BY <2>1, <3>1
    <2>4. \A k \in K : /\ R[k].high \in Int /\ R[k].low \in Int
                       /\ R[k].high <= tr[h].price
                       /\ tr[l].price <= R[k].low
        BY <1>2, <1>5, <1>12, <2>2, <2>3
    <2>5. highs \in SUBSET Int /\ lows \in SUBSET Int
        BY <2>4
    <2>6. tr[h].price \in highs /\ \A y \in highs : y <= tr[h].price
        <3>1. \A y \in highs : y <= tr[h].price
            BY <2>4
        <3>2. tr[h].price <= R[Of(h)].high
            BY <1>4, <1>12
        <3>3. R[Of(h)].high \in highs /\ R[Of(h)].high <= tr[h].price
            BY <1>4, <2>4
        <3>4. R[Of(h)].high = tr[h].price
            BY <1>2, <2>5, <3>2, <3>3
        <3> QED BY <3>1, <3>3, <3>4
    <2>7. tr[l].price \in lows /\ \A y \in lows : tr[l].price <= y
        <3>1. \A y \in lows : tr[l].price <= y
            BY <2>4
        <3>2. R[Of(l)].low <= tr[l].price
            BY <1>4, <1>12
        <3>3. R[Of(l)].low \in lows /\ tr[l].price <= R[Of(l)].low
            BY <1>4, <2>4
        <3>4. R[Of(l)].low = tr[l].price
            BY <1>2, <2>5, <3>2, <3>3
        <3> QED BY <3>1, <3>3, <3>4
    <2> HIDE DEF highs, lows
    <2>8. day.high = tr[h].price /\ day.low = tr[l].price
        BY <1>1, <2>5, <2>6, <2>7, MaxMinUnique
    <2> QED BY <2>2, <2>3, <2>8 DEF ExtremesOf, Carried
<1>14. EndsOf(day, Carried(tr, D))
    <2> DEFINE id == [k \in K |-> k]
    <2>1. \A k \in K : id[k] \in Int /\ id[k] = k
        BY <1>3
    <2> HIDE DEF id
    <2>2. PICK m \in K : \A k \in K : m <= k
        <3>1. PICK x \in K : \A k \in K : id[x] <= id[k]
            BY <1>3, <1>6, <2>1, Least
        <3> QED BY <2>1, <3>1
    <2>3. PICK n \in K : \A k \in K : k <= n
        <3>1. PICK x \in K : \A k \in K : id[k] <= id[x]
            BY <1>3, <1>6, <2>1, Greatest
        <3> QED BY <2>1, <3>1
    <2>4. \A k \in K : R[m].start <= R[k].start /\ R[k].start <= R[n].start
        <3> TAKE k \in K
        <3>1. m \in Int /\ k \in Int /\ n \in Int /\ m <= k /\ k <= n
            BY <1>3, <2>2, <2>3
        <3>2. m * size <= k * size /\ k * size <= n * size
            BY <3>1
        <3> QED BY <1>7, <3>2
    <2>5. Earliest(rows) = R[m]
        <3>1. \E r \in rows : \A q \in rows : r.start <= q.start
            BY <2>4
        <3>2. /\ Earliest(rows) \in rows
              /\ \A q \in rows : Earliest(rows).start <= q.start
            BY <3>1 DEF Earliest
        <3>3. PICK k \in K : Earliest(rows) = R[k]
            BY <3>2
        <3>4. k <= m /\ m <= k
            BY <1>9, <2>2, <3>2, <3>3
        <3> QED BY <1>3, <3>3, <3>4
    <2>6. Latest(rows) = R[n]
        <3>1. \E r \in rows : \A q \in rows : q.start <= r.start
            BY <2>4
        <3>2. /\ Latest(rows) \in rows
              /\ \A q \in rows : q.start <= Latest(rows).start
            BY <3>1 DEF Latest
        <3>3. PICK k \in K : Latest(rows) = R[k]
            BY <3>2
        <3>4. k <= n /\ n <= k
            BY <1>9, <2>3, <3>2, <3>3
        <3> QED BY <1>3, <3>3, <3>4
    <2>7. \E x \in D : /\ tr[x].price = day.open
                       /\ \A y \in D : tr[x].time <= tr[y].time
        <3>1. PICK x \in In(m) : /\ tr[x].price = R[m].open
                                 /\ \A y \in In(m) : tr[x].time <= tr[y].time
            BY <1>12
        <3>2. x \in D /\ Of(x) = m
            BY <1>5, <3>1
        <3>3. ASSUME NEW y \in D PROVE tr[x].time <= tr[y].time
            <4>1. CASE Of(y) = m
                BY <4>1, <1>4, <3>1
            <4>2. CASE Of(y) # m
                <5>1. Of(y) \in K /\ Of(y) \in Int /\ m \in Int
                    BY <1>3, <1>4
                <5>2. m < Of(y)
                    BY <4>2, <5>1, <2>2
                <5> QED BY <5>2, <1>2, <1>8, <3>2
            <4> QED BY <4>1, <4>2
        <3> QED BY <1>1, <2>5, <3>1, <3>2, <3>3
    <2>8. \E x \in D : /\ tr[x].price = day.close
                       /\ \A y \in D : tr[y].time <= tr[x].time
        <3>1. PICK x \in In(n) : /\ tr[x].price = R[n].close
                                 /\ \A y \in In(n) : tr[y].time <= tr[x].time
            BY <1>12
        <3>2. x \in D /\ Of(x) = n
            BY <1>5, <3>1
        <3>3. ASSUME NEW y \in D PROVE tr[y].time <= tr[x].time
            <4>1. CASE Of(y) = n
                BY <4>1, <1>4, <3>1
            <4>2. CASE Of(y) # n
                <5>1. Of(y) \in K /\ Of(y) \in Int /\ n \in Int
                    BY <1>3, <1>4
                <5>2. Of(y) < n
                    BY <4>2, <5>1, <2>3
                <5> QED BY <5>2, <1>2, <1>8, <3>2
            <4> QED BY <4>1, <4>2
        <3> QED BY <1>1, <2>6, <3>1, <3>2, <3>3
    <2> QED BY <2>7, <2>8 DEF EndsOf, Carried
<1> DEFINE P == [r \in rows |-> {x \in D : R[Of(x)] = r}]
<1>15. ASSUME NEW k \in K PROVE P[R[k]] = In(k)
    <2>1. R[k] \in rows
        OBVIOUS
    <2>2. \A x \in D : R[Of(x)] = R[k] => Of(x) = k
        BY <1>4, <1>10
    <2>3. P[R[k]] = {x \in D : R[Of(x)] = R[k]}
        BY <2>1
    <2> QED BY <1>4, <1>5, <2>2, <2>3
<1>16. /\ \A r \in rows : P[r] \in SUBSET D
       /\ \A x \in D : \E r \in rows : x \in P[r]
       /\ \A r, q \in rows : r # q => P[r] \intersect P[q] = {}
    BY <1>4
<1> HIDE DEF P
<1>17. day.volume = SumFunctionOnSet(Worth(tr), D)
    <2> DEFINE F == [r \in rows |-> r.volume]
    <2>1. day.volume = SumFunctionOnSet(F, rows)
        BY <1>1 DEF SumFunction
    <2>2. \A r \in rows : F[r] = SumFunctionOnSet(Worth(tr), P[r])
        BY <1>12, <1>15
    <2>3. \A x \in D : Worth(tr)[x] \in Int
        BY WorthType
    <2> HIDE DEF F, rows
    <2> QED BY <1>11, <1>16, <2>1, <2>2, <2>3, SumPartition
<1>18. day.count = Cardinality(D)
    <2> DEFINE F == [r \in rows |-> r.count]
               one == [x \in D |-> 1]
    <2>1. day.count = SumFunctionOnSet(F, rows)
        BY <1>1 DEF SumFunction
    <2>2. \A x \in D : one[x] = 1 /\ one[x] \in Int
        OBVIOUS
    <2> HIDE DEF one
    <2>3. \A r \in rows : F[r] = SumFunctionOnSet(one, P[r])
        <3> TAKE r \in rows
        <3>1. IsFiniteSet(P[r]) /\ \A x \in P[r] : one[x] = 1
            BY <1>16, <2>2, FS_Subset
        <3>2. SumFunctionOnSet(one, P[r]) = Cardinality(P[r])
            BY <3>1, SumOnes
        <3>3. F[r] = Cardinality(P[r])
            BY <1>12, <1>15
        <3> QED BY <3>2, <3>3
    <2> HIDE DEF F, rows
    <2>4. SumFunctionOnSet(one, D) = SumFunctionOnSet(F, rows)
        BY <1>11, <1>16, <2>2, <2>3, SumPartition
    <2> QED BY <2>1, <2>2, <2>4, SumOnes
<1> HIDE DEF rows
<1>19. Reports(day, tr, D)
    BY <1>13, <1>14, <1>17, <1>18 DEF Reports
<1> QED BY <1>1, <1>11, <1>19 DEF day, rows, K
=============================================================================
