------------------------------ MODULE FoldFacts ------------------------------
(***************************************************************************)
(* What the proofs need of folds over finite sets: what holds of the first *)
(* value and is kept by each turn of the loop holds of the result; and of  *)
(* sums, which are folds.                                                  *)
(***************************************************************************)
EXTENDS Integers, FiniteSets, FiniteSetTheorems, WellFoundedInduction, TLAPS

\* A fold takes one element after the other out of a finite set.
LEMMA SmallestSet ==
    ASSUME NEW S, IsFiniteSet(S), NEW Bad, Bad \subseteq SUBSET S, Bad # {}
    PROVE  \E s \in Bad : \A x \in s : s \ {x} \notin Bad
<1>. DEFINE sizes == {Cardinality(s) : s \in Bad}
<1>0. \A s \in SUBSET S : IsFiniteSet(s) /\ Cardinality(s) \in Nat
  BY FS_Subset, FS_CardinalityType
<1>1. sizes \subseteq Nat /\ sizes # {}
  BY <1>0
<1>2. \E m \in sizes : \A n \in sizes : ~(<<n, m>> \in OpToRel(<, Nat))
  <2>. HIDE DEF sizes
  <2>. QED BY <1>1, WFMin, NatLessThanWellFounded
<1>3. PICK m \in sizes : \A n \in sizes : ~(n < m)
  BY <1>1, <1>2 DEF OpToRel
<1>4. PICK s \in Bad : m = Cardinality(s)
  BY <1>3
<1>5. ASSUME NEW x \in s, s \ {x} \in Bad PROVE FALSE
  <2>1. Cardinality(s \ {x}) = Cardinality(s) - 1
    BY <1>0, <1>5, FS_RemoveElement
  <2>2. Cardinality(s \ {x}) \in sizes
    BY <1>5
  <2>3. Cardinality(s) \in Nat
    BY <1>0
  <2>. HIDE DEF sizes
  <2>. QED BY <1>3, <1>4, <2>1, <2>2, <2>3
<1>. QED BY <1>5

Stays(it, c, S, V) ==
    \A s \in SUBSET S : s # {} =>
        c[s] \in s /\ (it[s \ {c[s]}] \in V => it[s] \in V)

\* What holds of the first value and is kept by each turn holds of every fold.
LEMMA FoldRange ==
    ASSUME NEW S, IsFiniteSet(S), NEW V, NEW it, NEW c, it[{}] \in V,
           Stays(it, c, S, V)
    PROVE  \A s \in SUBSET S : it[s] \in V
<1>. DEFINE Bad == {s \in SUBSET S : it[s] \notin V}
<1>. SUFFICES ASSUME Bad # {} PROVE FALSE
  OBVIOUS
<1>1. PICK s \in Bad : \A x \in s : s \ {x} \notin Bad
  <2>1. Bad \subseteq SUBSET S
    OBVIOUS
  <2>. HIDE DEF Bad
  <2>. QED BY <2>1, SmallestSet
<1>2. s # {} /\ s \in SUBSET S
  OBVIOUS
<1>3. c[s] \in s /\ s \ {c[s]} \in SUBSET S
  BY <1>2 DEF Stays
<1>. QED BY <1>1, <1>2, <1>3 DEF Stays

IsFold(it, D, base, c, G) ==
    it = [s \in D |-> IF s = {} THEN base ELSE G[<<c[s], it[s \ {c[s]}]>>]]

\* The subsets with at most n elements.
UpTo(S, n) == {s \in SUBSET S : Cardinality(s) =< n}

\* A finite set has a fold: one of its subsets of at most n elements, for each n.
LEMMA FoldExists ==
    ASSUME NEW S, IsFiniteSet(S), NEW base, NEW c, NEW G,
           \A s \in SUBSET S : s # {} => c[s] \in s
    PROVE  \E it : IsFold(it, SUBSET S, base, c, G)
<1>. DEFINE Bad == {n \in Nat : ~\E it : IsFold(it, UpTo(S, n), base, c, G)}
<1>0. \A s \in SUBSET S : /\ IsFiniteSet(s) /\ Cardinality(s) \in Nat
                          /\ Cardinality(s) =< Cardinality(S)
  BY FS_Subset, FS_CardinalityType
<1>1. ASSUME Bad # {} PROVE FALSE
  <2>1. \E n \in Bad : \A m \in Bad : ~(<<m, n>> \in OpToRel(<, Nat))
    <3>1. Bad \subseteq Nat
      OBVIOUS
    <3>. HIDE DEF Bad
    <3>. QED BY <1>1, <3>1, WFMin, NatLessThanWellFounded
  <2>2. PICK n \in Bad : \A m \in Bad : ~(m < n)
    BY <2>1 DEF OpToRel
  <2>3. CASE n = 0
    <3>. DEFINE it == [s \in UpTo(S, 0) |-> base]
    <3>1. \A s \in UpTo(S, 0) : s = {}
      <4>. SUFFICES ASSUME NEW s \in UpTo(S, 0) PROVE s = {}
        OBVIOUS
      <4>1. s \in SUBSET S /\ Cardinality(s) = 0
        BY <1>0 DEF UpTo
      <4>. QED BY <1>0, <4>1, FS_EmptySet
    <3>2. IsFold(it, UpTo(S, 0), base, c, G)
      BY <3>1 DEF IsFold
    <3>. QED BY <2>3, <3>2
  <2>4. CASE n # 0
    <3>1. n - 1 \in Nat /\ n - 1 \notin Bad
      BY <2>2, <2>4
    <3>2. PICK g : IsFold(g, UpTo(S, n - 1), base, c, G)
      BY <3>1
    <3>. DEFINE it == [s \in UpTo(S, n) |->
                         IF s = {} THEN base ELSE G[<<c[s], g[s \ {c[s]}]>>]]
    <3>3. ASSUME NEW s \in UpTo(S, n), s # {}
          PROVE  s \ {c[s]} \in UpTo(S, n - 1) /\ s \ {c[s]} \in UpTo(S, n)
      <4>1. s \in SUBSET S /\ Cardinality(s) =< n /\ c[s] \in s
        BY <3>3 DEF UpTo
      <4>2. Cardinality(s \ {c[s]}) = Cardinality(s) - 1
        BY <1>0, <4>1, FS_RemoveElement
      <4>3. s \ {c[s]} \in SUBSET S /\ Cardinality(s) \in Nat /\ n \in Nat
        BY <1>0, <4>1
      <4>. QED BY <4>1, <4>2, <4>3 DEF UpTo
    <3>4. ASSUME NEW s \in UpTo(S, n - 1) PROVE s \in UpTo(S, n) /\ g[s] = it[s]
      <4>1. s \in UpTo(S, n)
        BY <1>0, <3>1 DEF UpTo
      <4>2. g[s] = IF s = {} THEN base ELSE G[<<c[s], g[s \ {c[s]}]>>]
        BY <3>2 DEF IsFold
      <4>. QED BY <4>1, <4>2
    <3>. HIDE DEF it
    <3>5. ASSUME NEW s \in UpTo(S, n), s # {} PROVE g[s \ {c[s]}] = it[s \ {c[s]}]
      BY <3>3, <3>4, <3>5
    <3>6. it = [s \in UpTo(S, n) |->
                  IF s = {} THEN base ELSE G[<<c[s], it[s \ {c[s]}]>>]]
      BY <3>5 DEF it
    <3>7. IsFold(it, UpTo(S, n), base, c, G)
      BY <3>6 DEF IsFold
    <3>. QED BY <3>7
  <2>. QED BY <2>3, <2>4
<1>2. Cardinality(S) \in Nat
  BY FS_CardinalityType
<1>3. Cardinality(S) \notin Bad
  BY <1>1
<1>4. UpTo(S, Cardinality(S)) = SUBSET S
  BY <1>0 DEF UpTo
<1>5. PICK it : IsFold(it, UpTo(S, Cardinality(S)), base, c, G)
  BY <1>2, <1>3
<1>6. IsFold(it, SUBSET S, base, c, G)
  BY <1>4, <1>5
<1>. QED BY <1>6

\* How a fold goes through a set, what it does with an element, and the fold
\* itself: a function on the subsets, with values in V.
Chooses(c, S) == \A s \in SUBSET S : s # {} => c[s] \in s
Keeps(G, S, V) == \A i \in S, v \in V : G[<<i, v>>] \in V
Folds(g, S, V, base, c, G) ==
    /\ g = [s \in SUBSET S |-> g[s]] /\ g[{}] = base
    /\ \A s \in SUBSET S : g[s] \in V
    /\ \A s \in SUBSET S : s # {} =>
          /\ c[s] \in S /\ g[s \ {c[s]}] \in V
          /\ g[s] = G[<<c[s], g[s \ {c[s]}]>>]

\* So has it one with values in V, if the loop stays in V.
LEMMA TypedFold ==
    ASSUME NEW S, IsFiniteSet(S), NEW V, NEW base \in V, NEW c, NEW G,
           Chooses(c, S), Keeps(G, S, V)
    PROVE  \E g : Folds(g, S, V, base, c, G)
<1>0. \A s \in SUBSET S : s # {} => c[s] \in s
  BY DEF Chooses
<1>1. PICK g : IsFold(g, SUBSET S, base, c, G)
  BY <1>0, FoldExists
<1>2. g = [s \in SUBSET S |-> IF s = {} THEN base ELSE G[<<c[s], g[s \ {c[s]}]>>]]
  BY <1>1 DEF IsFold
<1>3. g[{}] = base /\ g = [s \in SUBSET S |-> g[s]]
  BY <1>2
<1>4. \A s \in SUBSET S : s # {} =>
        /\ c[s] \in S /\ s \ {c[s]} \in SUBSET S
        /\ g[s] = G[<<c[s], g[s \ {c[s]}]>>]
  BY <1>0, <1>2
<1>5. \A s \in SUBSET S : g[s] \in V
  <2>1. Stays(g, c, S, V)
    BY <1>0, <1>4 DEF Keeps, Stays
  <2>. QED BY <1>3, <2>1, FoldRange
<1>6. Folds(g, S, V, base, c, G)
  BY <1>3, <1>4, <1>5 DEF Folds
<1>. QED BY <1>6

-----------------------------------------------------------------------------
(***************************************************************************)
(* Sums: what MapThenSumSet and SumFunction of the community modules are   *)
(* when they are expanded.                                                 *)
(***************************************************************************)
Sums(f, it) ==
    it = [s \in SUBSET DOMAIN f |->
            IF s = {} THEN 0
            ELSE f[CHOOSE x \in s : TRUE] + it[s \ {CHOOSE x \in s : TRUE}]]
SumOf(f) == (CHOOSE it : Sums(f, it))[DOMAIN f]

\* One turn of the loop.
Chosen(s) == CHOOSE x \in s : TRUE
Adds(f, it) ==
    /\ it[{}] = 0
    /\ \A s \in SUBSET DOMAIN f : s # {} =>
          /\ Chosen(s) \in s
          /\ it[s] = f[Chosen(s)] + it[s \ {Chosen(s)}]

\* A sum of integers is such a loop, and all its partial sums are integers.
LEMMA SumExists ==
    ASSUME NEW f, IsFiniteSet(DOMAIN f), \A i \in DOMAIN f : f[i] \in Int
    PROVE  \E it : SumOf(f) = it[DOMAIN f] /\ Adds(f, it)
                  /\ \A s \in SUBSET DOMAIN f : it[s] \in Int
<1>. DEFINE S == DOMAIN f
            c == [s \in SUBSET S |-> CHOOSE x \in s : TRUE]
            G == [p \in S \X Int |-> f[p[1]] + p[2]]
            it == CHOOSE it : Sums(f, it)
<1>1. SumOf(f) = it[S]
  BY DEF SumOf
<1>2. Chooses(c, S)
  BY DEF Chooses
<1>3. \A i \in S, v \in Int : G[<<i, v>>] = f[i] + v /\ G[<<i, v>>] \in Int
  OBVIOUS
<1>4. PICK g : Folds(g, S, Int, 0, c, G)
  <2>. DEFINE V == Int
              zero == 0
  <2>1. IsFiniteSet(S) /\ zero \in V
    OBVIOUS
  <2>2. Keeps(G, S, V)
    BY <1>3 DEF Keeps
  <2>. HIDE DEF S, c, G, V, zero
  <2>3. \E g : Folds(g, S, V, zero, c, G)
    BY <1>2, <2>1, <2>2, TypedFold
  <2>. QED BY <2>3 DEF V, zero
<1>5. Sums(f, g)
  <2>. HIDE DEF G
  <2>1. ASSUME NEW s \in SUBSET S, s # {}
        PROVE  g[s] = f[CHOOSE x \in s : TRUE] + g[s \ {CHOOSE x \in s : TRUE}]
    <3>1. c[s] = CHOOSE x \in s : TRUE
      OBVIOUS
    <3>2. /\ c[s] \in S /\ g[s \ {c[s]}] \in Int
          /\ g[s] = G[<<c[s], g[s \ {c[s]}]>>]
      BY <2>1, <1>4 DEF Folds
    <3>. HIDE DEF c
    <3>3. g[s] = f[c[s]] + g[s \ {c[s]}]
      BY <3>2, <1>3
    <3>. QED BY <3>1, <3>3
  <2>2. g[{}] = 0 /\ g = [s \in SUBSET S |-> g[s]]
    BY <1>4 DEF Folds
  <2>. QED BY <2>1, <2>2 DEF Sums
<1>6. Sums(f, it)
  BY <1>5
<1>. HIDE DEF it
<1>7. it[{}] = 0 /\ \A s \in SUBSET S : s # {} =>
        it[s] = f[CHOOSE x \in s : TRUE] + it[s \ {CHOOSE x \in s : TRUE}]
  BY <1>6 DEF Sums
<1>8. Adds(f, it)
  BY <1>7 DEF Adds, Chosen
<1>9. \A s \in SUBSET S : it[s] \in Int
  <2>. DEFINE Bad == {s \in SUBSET S : it[s] \notin Int}
  <2>. SUFFICES ASSUME Bad # {} PROVE FALSE
    OBVIOUS
  <2>1. PICK s \in Bad : \A x \in s : s \ {x} \notin Bad
    <3>1. Bad \subseteq SUBSET S /\ IsFiniteSet(S)
      OBVIOUS
    <3>. HIDE DEF Bad, S
    <3>. QED BY <3>1, SmallestSet
  <2>2. s # {} /\ s \in SUBSET S
    <3>1. it[{}] = 0
      BY <1>7
    <3>. QED BY <3>1
  <2>3. Chosen(s) \in s /\ it[s] = f[Chosen(s)] + it[s \ {Chosen(s)}]
    BY <1>8, <2>2 DEF Adds
  <2>4. it[s \ {Chosen(s)}] \in Int /\ f[Chosen(s)] \in Int
    BY <2>1, <2>2, <2>3
  <2>. QED BY <2>3, <2>4
<1>. QED BY <1>1, <1>8, <1>9

\* A sum of integers is an integer.
LEMMA SumIsInt ==
    ASSUME NEW f, IsFiniteSet(DOMAIN f), \A i \in DOMAIN f : f[i] \in Int
    PROVE  SumOf(f) \in Int
  BY SumExists

\* A sum of one number is that number.
LEMMA SumOfOne ==
    ASSUME NEW f, NEW a, DOMAIN f = {a}, f[a] \in Int
    PROVE  SumOf(f) = f[a]
<1>1. IsFiniteSet(DOMAIN f) /\ \A i \in DOMAIN f : f[i] \in Int
  BY FS_Singleton
<1>2. PICK it : SumOf(f) = it[DOMAIN f] /\ Adds(f, it)
  BY <1>1, SumExists
<1>3. Chosen({a}) \in {a} /\ it[{a}] = f[Chosen({a})] + it[{a} \ {Chosen({a})}]
  BY <1>2 DEF Adds
<1>4. Chosen({a}) = a /\ {a} \ {a} = {}
  BY <1>3
<1>5. it[{a}] = f[a] + it[{}] /\ it[{}] = 0
  BY <1>2, <1>3, <1>4 DEF Adds
<1>. QED BY <1>2, <1>5

\* Smaller numbers have a smaller sum.
LEMMA SumIsMonotone ==
    ASSUME NEW f, NEW g, IsFiniteSet(DOMAIN f), DOMAIN g = DOMAIN f,
           \A i \in DOMAIN f : f[i] \in Int /\ g[i] \in Int /\ f[i] =< g[i]
    PROVE  SumOf(f) =< SumOf(g)
<1>. DEFINE S == DOMAIN f
<1>1. PICK a : SumOf(f) = a[S] /\ Adds(f, a) /\ \A s \in SUBSET S : a[s] \in Int
  BY SumExists
<1>2. PICK b : SumOf(g) = b[S] /\ Adds(g, b) /\ \A s \in SUBSET S : b[s] \in Int
  BY SumExists
<1>3. \A s \in SUBSET S : a[s] =< b[s]
  <2>. DEFINE Bad == {s \in SUBSET S : ~(a[s] =< b[s])}
  <2>. SUFFICES ASSUME Bad # {} PROVE FALSE
    OBVIOUS
  <2>1. PICK s \in Bad : \A x \in s : s \ {x} \notin Bad
    <3>1. Bad \subseteq SUBSET S /\ IsFiniteSet(S)
      OBVIOUS
    <3>. HIDE DEF Bad, S
    <3>. QED BY <3>1, SmallestSet
  <2>2. s # {} /\ s \in SUBSET S
    <3>1. a[{}] = 0 /\ b[{}] = 0
      BY <1>1, <1>2 DEF Adds
    <3>. QED BY <3>1
  <2>. DEFINE x == Chosen(s)
              r == s \ {x}
  <2>3. x \in s /\ a[s] = f[x] + a[r] /\ b[s] = g[x] + b[r]
    BY <1>1, <1>2, <2>2 DEF Adds
  <2>4. r \in SUBSET S /\ x \in S
    BY <2>2, <2>3
  <2>5. a[r] =< b[r] /\ a[r] \in Int /\ b[r] \in Int
    BY <1>1, <1>2, <2>1, <2>3, <2>4
  <2>6. f[x] =< g[x] /\ f[x] \in Int /\ g[x] \in Int
    BY <2>4
  <2>7. a[s] =< b[s]
    <3>. HIDE DEF x, r
    <3>. QED BY <2>3, <2>5, <2>6
  <2>. QED BY <2>1, <2>7
<1>. QED BY <1>1, <1>2, <1>3
=============================================================================
