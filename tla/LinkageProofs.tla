----------------------------- MODULE LinkageProofs -----------------------------
(***************************************************************************)
(* The stock is accounted for, through commands, edits and confirmations,  *)
(* for any number of batches, products, commands, groups, recipes, rules   *)
(* and runs.                                                               *)
(*                                                                         *)
(* The sums and the loop of allocateFEFO are folds over finite sets.  What *)
(* a fold computes is proved by induction over the subsets of a finite     *)
(* set, written with sets and functions instead of a predicate: OverSubsets. *)
(***************************************************************************)
EXTENDS Linkage, TLAPS, FiniteSetTheorems, WellFoundedInduction

-----------------------------------------------------------------------------
(* Folds *)

\* Every set of naturals has a smallest element.
LEMMA SmallestOf ==
    ASSUME NEW S \in SUBSET Nat, S # {}
    PROVE  \E n \in S : \A m \in S : n <= m
<1>1. PICK n \in S : \A m \in S : ~(<<m, n>> \in OpToRel(<, Nat))
  BY NatLessThanWellFounded, WFMin
<1>2. \A m \in S : ~(m < n)
  BY <1>1 DEF OpToRel
<1> QED
  BY <1>2

\* A smallest set of a collection of subsets of a finite set.
LEMMA SmallestSet ==
    ASSUME NEW D, IsFiniteSet(D), NEW C \in SUBSET SUBSET D, C # {}
    PROVE  \E T \in C : \A U \in C : U \subseteq T => U = T
<1> DEFINE Sizes == {Cardinality(T) : T \in C}
<1>1. \A T \in C : IsFiniteSet(T) /\ Cardinality(T) \in Nat
  BY FS_Subset, FS_CardinalityType
<1>2. PICK n \in Sizes : \A m \in Sizes : n <= m
  <2>1. Sizes \in SUBSET Nat /\ Sizes # {}
    BY <1>1
  <2> QED
    BY <2>1, SmallestOf
<1>3. PICK T \in C : n = Cardinality(T)
  BY <1>2
<1>4. ASSUME NEW U \in C, U \subseteq T
      PROVE  U = T
  <2>1. Cardinality(U) <= Cardinality(T) /\ (Cardinality(T) = Cardinality(U) => T = U)
    BY <1>1, <1>4, FS_Subset
  <2>2. Cardinality(T) <= Cardinality(U)
    BY <1>2, <1>3
  <2>3. Cardinality(T) \in Nat /\ Cardinality(U) \in Nat
    BY <1>1
  <2> QED
    BY <2>1, <2>2, <2>3
<1> QED
  BY <1>4

\* Induction over the subsets of a finite set.
LEMMA OverSubsets ==
    ASSUME NEW D, IsFiniteSet(D), NEW Good,
           \A T \in SUBSET D : (\A U \in SUBSET T : U # T => U \in Good) => T \in Good
    PROVE  SUBSET D \subseteq Good
<1> DEFINE Bad == {T \in SUBSET D : T \notin Good}
<1>1. SUFFICES ASSUME Bad # {} PROVE FALSE
  OBVIOUS
<1>2. Bad \in SUBSET SUBSET D
  OBVIOUS
<1>3. PICK T \in Bad : \A U \in Bad : U \subseteq T => U = T
  <2> HIDE DEF Bad
  <2> QED
    BY <1>1, <1>2, SmallestSet
<1>4. \A U \in SUBSET T : U # T => U \in Good
  BY <1>3
<1> QED
  BY <1>3, <1>4

\* What a fold over a finite set computes on the subset S: the steps take the
\* elements one at a time, in the order that pick chooses.
Folds(it, S, V, base, pick, step) ==
    /\ it \in [SUBSET S -> V]
    /\ \A T \in SUBSET S :
          it[T] = IF T = {} THEN base ELSE step[<<pick[T], it[T \ {pick[T]}]>>]

\* Two folds with the same steps agree on the subsets they both have.
LEMMA FoldsAgree ==
    ASSUME NEW D, IsFiniteSet(D), NEW V, NEW base, NEW pick, NEW step,
           \A T \in SUBSET D : T # {} => pick[T] \in T,
           NEW S \in SUBSET D, NEW R \in SUBSET D, NEW it, NEW jt,
           Folds(it, S, V, base, pick, step), Folds(jt, R, V, base, pick, step)
    PROVE  \A T \in SUBSET (S \cap R) : it[T] = jt[T]
<1> DEFINE Good == {T \in SUBSET D : T \subseteq S /\ T \subseteq R => it[T] = jt[T]}
<1>1. ASSUME NEW T \in SUBSET D, \A U \in SUBSET T : U # T => U \in Good,
             T \subseteq S, T \subseteq R
      PROVE  it[T] = jt[T]
  <2>1. CASE T = {}
    BY <1>1, <2>1 DEF Folds
  <2>2. CASE T # {}
    <3>1. pick[T] \in T
      BY <2>2
    <3>2. it[T \ {pick[T]}] = jt[T \ {pick[T]}]
      BY <1>1, <3>1
    <3>3. T \in SUBSET S /\ T \in SUBSET R
      BY <1>1
    <3>4. it[T] = step[<<pick[T], it[T \ {pick[T]}]>>]
      BY <2>2, <3>3 DEF Folds
    <3>5. jt[T] = step[<<pick[T], jt[T \ {pick[T]}]>>]
      BY <2>2, <3>3 DEF Folds
    <3> QED
      BY <3>2, <3>4, <3>5
  <2> QED
    BY <2>1, <2>2
<1>2. SUBSET D \subseteq Good
  <2> HIDE DEF Good
  <2>1. \A T \in SUBSET D : (\A U \in SUBSET T : U # T => U \in Good) => T \in Good
    BY <1>1 DEF Good
  <2> QED
    BY <2>1, OverSubsets
<1> QED
  BY <1>2

\* The fold of a step function over a finite set exists.
LEMMA FoldExists ==
    ASSUME NEW D, IsFiniteSet(D), NEW V, NEW base \in V, NEW pick,
           NEW step \in [D \X V -> V],
           \A T \in SUBSET D : T # {} => pick[T] \in T
    PROVE  \E it : Folds(it, D, V, base, pick, step)
<1> DEFINE Good == {S \in SUBSET D : \E it : Folds(it, S, V, base, pick, step)}
           fold[S \in SUBSET D] == CHOOSE it : Folds(it, S, V, base, pick, step)
<1>1. ASSUME NEW S \in SUBSET D, \A U \in SUBSET S : U # S => U \in Good
      PROVE  S \in Good
  <2>1. \A U \in SUBSET S : U # S => Folds(fold[U], U, V, base, pick, step)
    BY <1>1
  <2> HIDE DEF fold
  <2>2. \A U \in SUBSET S : U # {} => U \ {pick[U]} \in SUBSET S /\ U \ {pick[U]} # S
                                       /\ pick[U] \in D
    OBVIOUS
  <2> DEFINE it == [U \in SUBSET S |-> IF U = {} THEN base
                       ELSE step[<<pick[U], fold[U \ {pick[U]}][U \ {pick[U]}]>>]]
  <2>3. \A U \in SUBSET S : U # {} => fold[U \ {pick[U]}][U \ {pick[U]}] \in V
    <3>1. \A R \in SUBSET S : R # S => fold[R][R] \in V
      <4> TAKE R \in SUBSET S
      <4> HAVE R # S
      <4>1. Folds(fold[R], R, V, base, pick, step)
        BY <2>1
      <4> QED
        BY <4>1 DEF Folds
    <3> QED
      BY <2>2, <3>1
  <2>4. it \in [SUBSET S -> V]
    <3>1. ASSUME NEW U \in SUBSET S, U # {}
          PROVE  step[<<pick[U], fold[U \ {pick[U]}][U \ {pick[U]}]>>] \in V
      <4> DEFINE v == fold[U \ {pick[U]}][U \ {pick[U]}]
      <4>1. pick[U] \in D /\ v \in V
        BY <2>2, <2>3, <3>1
      <4> HIDE DEF v
      <4>2. step[<<pick[U], v>>] \in V
        BY <4>1
      <4> QED
        BY <4>2 DEF v
    <3> QED
      BY <3>1
  <2>5. ASSUME NEW U \in SUBSET S, U # S
        PROVE  fold[U][U] = it[U]
    <3>1. Folds(fold[U], U, V, base, pick, step)
      BY <2>1, <2>5
    <3>2. CASE U = {}
      BY <3>1, <3>2 DEF Folds
    <3>3. CASE U # {}
      <4> DEFINE R == U \ {pick[U]}
      <4>1. pick[U] \in U /\ R \in SUBSET U /\ R # S /\ R \in SUBSET D
        BY <3>3, <2>5
      <4>2. Folds(fold[R], R, V, base, pick, step)
        BY <4>1, <2>1
      <4>3. \A T \in SUBSET (U \cap R) : fold[U][T] = fold[R][T]
        <5> U \in SUBSET D
          OBVIOUS
        <5> HIDE DEF R
        <5> QED
          BY <3>1, <4>1, <4>2, FoldsAgree
      <4>4. fold[U][R] = fold[R][R]
        BY <4>1, <4>3
      <4>5. fold[U][U] = step[<<pick[U], fold[U][R]>>]
        BY <3>1, <3>3 DEF Folds
      <4> QED
        BY <3>3, <4>4, <4>5
    <3> QED
      BY <3>2, <3>3
  <2>6. Folds(it, S, V, base, pick, step)
    <3>1. ASSUME NEW U \in SUBSET S, U # {}
          PROVE  it[U] = step[<<pick[U], it[U \ {pick[U]}]>>]
      <4>1. U \ {pick[U]} \in SUBSET S /\ U \ {pick[U]} # S
        BY <2>2, <3>1
      <4>2. fold[U \ {pick[U]}][U \ {pick[U]}] = it[U \ {pick[U]}]
        BY <4>1, <2>5
      <4> QED
        BY <3>1, <4>2
    <3>2. it[{}] = base
      OBVIOUS
    <3> QED
      BY <3>1, <3>2, <2>4 DEF Folds
  <2> QED
    BY <2>6
<1>2. SUBSET D \subseteq Good
  <2> HIDE DEF Good, fold
  <2> QED
    BY <1>1, OverSubsets
<1> QED
  BY <1>2

-----------------------------------------------------------------------------
(* Sums *)

\* The element that SumFunction takes next.
Choice(T) == CHOOSE x \in T : TRUE

\* sums[T] is the sum of f over the subset T.
SumsOf(sums, f, D) ==
    /\ f \in [D -> Int]
    /\ sums \in [SUBSET D -> Int]
    /\ \A T \in SUBSET D :
          sums[T] = IF T = {} THEN 0 ELSE f[Choice(T)] + sums[T \ {Choice(T)}]

\* The sums over all the subsets of a finite set.
LEMMA SumsExist ==
    ASSUME NEW D, IsFiniteSet(D), NEW f \in [D -> Int]
    PROVE  \E sums : SumsOf(sums, f, D)
<1> DEFINE pick == [T \in SUBSET D |-> Choice(T)]
           step == [x \in D \X Int |-> f[x[1]] + x[2]]
<1>1. \A T \in SUBSET D : T # {} => pick[T] \in T /\ Choice(T) \in T /\ pick[T] = Choice(T)
  BY DEF Choice
<1>2. step \in [D \X Int -> Int]
  OBVIOUS
<1>3. \A x \in D, n \in Int : step[<<x, n>>] = f[x] + n
  OBVIOUS
<1> HIDE DEF pick, step
<1>4. PICK sums : Folds(sums, D, Int, 0, pick, step)
  BY <1>1, <1>2, FoldExists
<1>5. ASSUME NEW T \in SUBSET D, T # {}
      PROVE  sums[T] = f[Choice(T)] + sums[T \ {Choice(T)}]
  <2>1. pick[T] = Choice(T) /\ Choice(T) \in D
    BY <1>1, <1>5
  <2>2. sums[T \ {Choice(T)}] \in Int
    BY <1>4 DEF Folds
  <2>3. sums[T] = step[<<Choice(T), sums[T \ {Choice(T)}]>>]
    BY <1>4, <1>5, <2>1 DEF Folds
  <2> QED
    BY <2>1, <2>2, <2>3, <1>3
<1>6. sums \in [SUBSET D -> Int] /\ sums[{}] = 0
  BY <1>4 DEF Folds
<1> QED
  BY <1>5, <1>6 DEF SumsOf

\* What SumFunction returns is one of them.
LEMMA SumIsOne ==
    ASSUME NEW D, IsFiniteSet(D), NEW f, NEW sums, SumsOf(sums, f, D), NEW S \in SUBSET D
    PROVE  SumFunction([x \in S |-> f[x]]) = sums[S]
<1> DEFINE g == [x \in S |-> f[x]]
           Eq(jt) == jt = [T \in SUBSET S |->
                             IF T = {} THEN 0 ELSE g[Choice(T)] + jt[T \ {Choice(T)}]]
           it == [T \in SUBSET S |-> sums[T]]
<1>1. DOMAIN g = S
  OBVIOUS
<1>2. SumFunction(g) = (CHOOSE jt : Eq(jt))[S]
  <2> HIDE DEF g
  <2> QED
    BY <1>1, SMT DEF SumFunction, SumFunctionOnSet, FoldFunctionOnSet, MapThenFoldSet, Choice
<1>3. \A T \in SUBSET S : T # {} => Choice(T) \in T /\ g[Choice(T)] = f[Choice(T)]
  BY DEF Choice
<1> HIDE DEF g
<1>4. \A T \in SUBSET S : it[T] = IF T = {} THEN 0 ELSE g[Choice(T)] + it[T \ {Choice(T)}]
  BY <1>3 DEF SumsOf
<1>5. Eq(it)
  <2> HIDE DEF it
  <2>1. it = [T \in SUBSET S |-> it[T]]
    BY DEF it
  <2> QED
    BY <1>4, <2>1
<1> DEFINE jt == CHOOSE k : Eq(k)
<1>6. Eq(jt)
  <2> HIDE DEF Eq
  <2> QED
    BY <1>5
<1> HIDE DEF jt
<1> DEFINE Good == {T \in SUBSET D : T \subseteq S => jt[T] = sums[T]}
<1>7. ASSUME NEW T \in SUBSET D, \A U \in SUBSET T : U # T => U \in Good, T \subseteq S
      PROVE  jt[T] = sums[T]
  <2>1. CASE T = {}
    BY <1>6, <2>1 DEF SumsOf
  <2>2. CASE T # {}
    <3>1. Choice(T) \in T
      BY <1>3, <1>7, <2>2
    <3>2. jt[T \ {Choice(T)}] = sums[T \ {Choice(T)}]
      BY <1>7, <3>1
    <3>3. jt[T] = g[Choice(T)] + jt[T \ {Choice(T)}]
      BY <1>6, <1>7, <2>2
    <3> QED
      BY <1>3, <1>7, <2>2, <3>2, <3>3 DEF SumsOf
  <2> QED
    BY <2>1, <2>2
<1>8. SUBSET D \subseteq Good
  <2>1. \A T \in SUBSET D : (\A U \in SUBSET T : U # T => U \in Good) => T \in Good
    BY <1>7
  <2> HIDE DEF Good
  <2> QED
    BY <2>1, OverSubsets
<1>9. jt[S] = sums[S]
  BY <1>8
<1> QED
  BY <1>2, <1>9 DEF jt, g

\* The order does not matter.
LEMMA SumsRemove ==
    ASSUME NEW D, IsFiniteSet(D), NEW f, NEW sums, SumsOf(sums, f, D)
    PROVE  \A T \in SUBSET D : \A x \in T : sums[T] = f[x] + sums[T \ {x}]
<1> DEFINE Good == {T \in SUBSET D : \A x \in T : sums[T] = f[x] + sums[T \ {x}]}
<1>1. ASSUME NEW T \in SUBSET D, \A U \in SUBSET T : U # T => U \in Good, NEW x \in T
      PROVE  sums[T] = f[x] + sums[T \ {x}]
  <2> DEFINE c == Choice(T)
  <2>1. c \in T
    BY DEF Choice
  <2>2. sums[T] = f[c] + sums[T \ {c}]
    BY DEF SumsOf
  <2> HIDE DEF c
  <2>3. CASE x = c
    BY <2>2, <2>3
  <2>4. CASE x # c
    <3>1. T \ {c} \in Good /\ T \ {x} \in Good
      <4>1. T \ {c} \in SUBSET T /\ T \ {c} # T /\ T \ {x} \in SUBSET T /\ T \ {x} # T
        BY <2>1
      <4> HIDE DEF Good
      <4> QED
        BY <4>1, <1>1
    <3>2. x \in T \ {c} /\ c \in T \ {x}
      BY <2>1, <2>4
    <3>3. sums[T \ {c}] = f[x] + sums[(T \ {c}) \ {x}]
      BY <3>1, <3>2
    <3>4. sums[T \ {x}] = f[c] + sums[(T \ {x}) \ {c}]
      BY <3>1, <3>2
    <3>5. (T \ {c}) \ {x} = (T \ {x}) \ {c}
      OBVIOUS
    <3>6. f[x] \in Int /\ f[c] \in Int /\ sums[(T \ {c}) \ {x}] \in Int
      <4>1. (T \ {c}) \ {x} \in SUBSET D /\ c \in D /\ x \in D
        BY <2>1
      <4> QED
        BY <4>1 DEF SumsOf
    <3>7. \A k, m, n \in Int : k + (m + n) = m + (k + n)
      OBVIOUS
    <3>8. sums[T] = f[c] + (f[x] + sums[(T \ {c}) \ {x}])
      BY <2>2, <3>3
    <3>9. f[x] + sums[T \ {x}] = f[x] + (f[c] + sums[(T \ {c}) \ {x}])
      BY <3>4, <3>5
    <3> QED
      BY <3>6, <3>7, <3>8, <3>9
  <2> QED
    BY <2>3, <2>4
<1>2. SUBSET D \subseteq Good
  <2>1. \A T \in SUBSET D : (\A U \in SUBSET T : U # T => U \in Good) => T \in Good
    BY <1>1
  <2> HIDE DEF Good
  <2> QED
    BY <2>1, OverSubsets
<1> QED
  BY <1>2

\* The sum of f over the part S of its domain.
SumOver(f, S) == SumFunction([x \in S |-> f[x]])

\* A sum is an integer, is zero over the empty set, and is that of the rest and any
\* one of its terms.
LEMMA SumFacts ==
    ASSUME NEW D, IsFiniteSet(D), NEW f \in [D -> Int]
    PROVE  /\ SumFunction(f) = SumOver(f, D)
           /\ SumOver(f, {}) = 0
           /\ \A S \in SUBSET D : SumOver(f, S) \in Int
           /\ \A S \in SUBSET D : \A x \in S : SumOver(f, S) = f[x] + SumOver(f, S \ {x})
<1>1. PICK sums : SumsOf(sums, f, D)
  BY SumsExist
<1>2. f = [x \in D |-> f[x]]
  OBVIOUS
<1>3. \A S \in SUBSET D : SumOver(f, S) = sums[S]
  BY <1>1, SumIsOne DEF SumOver
<1>4. SumFunction(f) = SumOver(f, D)
  BY <1>2 DEF SumOver
<1>5. \A S \in SUBSET D : \A x \in S : sums[S] = f[x] + sums[S \ {x}]
  <2> TAKE S \in SUBSET D
  <2> TAKE x \in S
  <2> QED
    BY <1>1, SumsRemove
<1>6. sums \in [SUBSET D -> Int] /\ sums[{}] = 0
  BY <1>1 DEF SumsOf
<1>7. \A S \in SUBSET D : \A x \in S : S \ {x} \in SUBSET D
  OBVIOUS
<1> HIDE DEF SumOver
<1> QED
  BY <1>3, <1>4, <1>5, <1>6, <1>7

\* One term taken out of a sum.
LEMMA SumRemove ==
    ASSUME NEW D, IsFiniteSet(D), NEW f \in [D -> Int], NEW S \in SUBSET D, NEW x \in S
    PROVE  SumOver(f, S) = f[x] + SumOver(f, S \ {x})
BY SumFacts

\* The sum of the differences is the difference of the sums.
LEMMA SumOfDifference ==
    ASSUME NEW D, IsFiniteSet(D), NEW f \in [D -> Int], NEW g \in [D -> Int]
    PROVE  SumFunction([x \in D |-> f[x] - g[x]]) = SumFunction(f) - SumFunction(g)
<1> DEFINE h == [x \in D |-> f[x] - g[x]]
           Good == {S \in SUBSET D : SumOver(h, S) = SumOver(f, S) - SumOver(g, S)}
<1>1. h \in [D -> Int] /\ \A x \in D : h[x] = f[x] - g[x] /\ f[x] \in Int /\ g[x] \in Int
  OBVIOUS
<1> HIDE DEF h
<1>2. \A S \in SUBSET D : SumOver(f, S) \in Int /\ SumOver(g, S) \in Int
  BY SumFacts
<1>3. ASSUME NEW S \in SUBSET D, \A U \in SUBSET S : U # S => U \in Good
      PROVE  S \in Good
  <2>1. CASE S = {}
    <3>1. SumOver(h, {}) = 0 /\ SumOver(f, {}) = 0 /\ SumOver(g, {}) = 0
      BY <1>1, SumFacts
    <3> QED
      BY <2>1, <3>1
  <2>2. CASE S # {}
    <3>1. PICK x \in S : TRUE
      BY <2>2
    <3>2. /\ SumOver(h, S) = h[x] + SumOver(h, S \ {x})
          /\ SumOver(f, S) = f[x] + SumOver(f, S \ {x})
          /\ SumOver(g, S) = g[x] + SumOver(g, S \ {x})
      BY <1>1, SumRemove
    <3>3. SumOver(h, S \ {x}) = SumOver(f, S \ {x}) - SumOver(g, S \ {x})
      BY <1>3
    <3>4. S \ {x} \in SUBSET D /\ x \in D
      OBVIOUS
    <3>5. SumOver(f, S \ {x}) \in Int /\ SumOver(g, S \ {x}) \in Int
      BY <1>2, <3>4
    <3>6. h[x] = f[x] - g[x] /\ f[x] \in Int /\ g[x] \in Int
      BY <1>1, <3>4
    <3>7. SumOver(h, S) = (f[x] + SumOver(f, S \ {x})) - (g[x] + SumOver(g, S \ {x}))
      BY <3>2, <3>3, <3>5, <3>6
    <3> QED
      BY <3>2, <3>7
  <2> QED
    BY <2>1, <2>2
<1>4. SUBSET D \subseteq Good
  <2> HIDE DEF Good
  <2> QED
    BY <1>3, OverSubsets
<1>5. SumOver(h, D) = SumOver(f, D) - SumOver(g, D)
  BY <1>4
<1>6. SumFunction(h) = SumOver(h, D) /\ SumFunction(f) = SumOver(f, D)
      /\ SumFunction(g) = SumOver(g, D)
  BY <1>1, SumFacts
<1> QED
  BY <1>5, <1>6 DEF h

\* Zeros add nothing.
LEMMA SumWithoutZeros ==
    ASSUME NEW D, IsFiniteSet(D), NEW f \in [D -> Int], NEW S \in SUBSET D,
           \A x \in D \ S : f[x] = 0
    PROVE  SumFunction(f) = SumFunction([x \in S |-> f[x]])
<1> DEFINE Good == {T \in SUBSET D : SumOver(f, T) = SumOver(f, T \cap S)}
<1>1. ASSUME NEW T \in SUBSET D, \A U \in SUBSET T : U # T => U \in Good
      PROVE  T \in Good
  <2>1. CASE T \subseteq S
    <3>1. T \cap S = T
      BY <2>1
    <3> QED
      BY <3>1
  <2>2. CASE ~(T \subseteq S)
    <3>1. PICK x \in T : x \notin S
      BY <2>2
    <3>2. SumOver(f, T) = f[x] + SumOver(f, T \ {x})
      BY SumRemove
    <3>3. SumOver(f, T \ {x}) = SumOver(f, (T \ {x}) \cap S)
      BY <1>1
    <3>4. (T \ {x}) \cap S = T \cap S /\ f[x] = 0 /\ T \cap S \in SUBSET D
      BY <3>1
    <3>5. SumOver(f, T \cap S) \in Int
      BY <3>4, SumFacts
    <3> QED
      BY <3>2, <3>3, <3>4, <3>5
  <2> QED
    BY <2>1, <2>2
<1>2. SUBSET D \subseteq Good
  <2> HIDE DEF Good
  <2> QED
    BY <1>1, OverSubsets
<1>3. SumOver(f, D) = SumOver(f, S)
  <2>1. D \cap S = S
    OBVIOUS
  <2> QED
    BY <1>2, <2>1
<1> QED
  BY <1>3, SumFacts DEF SumOver

\* Zeros alone add up to zero.
LEMMA SumOfZeros ==
    ASSUME NEW D, IsFiniteSet(D), NEW f \in [D -> Int], \A x \in D : f[x] = 0
    PROVE  SumFunction(f) = 0
<1> DEFINE g == [x \in {} |-> f[x]]
<1>1. {} \in SUBSET D /\ \A x \in D \ {} : f[x] = 0
  OBVIOUS
<1>2. SumFunction(f) = SumFunction(g)
  BY <1>1, SumWithoutZeros
<1>3. SumFunction(g) = SumOver(f, {})
  BY DEF SumOver
<1>4. SumOver(f, {}) = 0
  BY SumFacts
<1> QED
  BY <1>2, <1>3, <1>4

\* h gives every element of R another name, in D.
Renames(h, D, R) ==
    /\ h \in [D -> R]
    /\ \A x, y \in D : h[x] = h[y] => x = y
    /\ \A r \in R : \E x \in D : h[x] = r

\* A sum does not depend on what its terms are called.
LEMMA SumRenamed ==
    ASSUME NEW D, IsFiniteSet(D), NEW R, NEW f \in [R -> Int], NEW h, Renames(h, D, R)
    PROVE  SumFunction(f) = SumFunction([x \in D |-> f[h[x]]])
<1> DEFINE g == [x \in D |-> f[h[x]]]
           Image(S) == {h[x] : x \in S}
           Good == {S \in SUBSET D : SumOver(g, S) = SumOver(f, Image(S))}
<1> h \in [D -> R]
  BY DEF Renames
<1>1. g \in [D -> Int] /\ \A x \in D : g[x] = f[h[x]]
  OBVIOUS
<1> HIDE DEF g
<1>2. IsFiniteSet(R)
  <2>1. h \in Surjection(D, R)
    BY DEF Surjection, Renames
  <2> QED
    BY <2>1, FS_Surjection
<1>3. ASSUME NEW S \in SUBSET D, \A U \in SUBSET S : U # S => U \in Good
      PROVE  S \in Good
  <2>1. CASE S = {}
    <3>1. SumOver(g, {}) = 0 /\ SumOver(f, {}) = 0 /\ Image({}) = {}
      BY <1>1, <1>2, SumFacts
    <3> QED
      BY <2>1, <3>1
  <2>2. CASE S # {}
    <3>1. PICK x \in S : TRUE
      BY <2>2
    <3>2. h[x] \in Image(S) /\ Image(S) \in SUBSET R /\ Image(S) \ {h[x]} = Image(S \ {x})
      BY DEF Renames
    <3>5. SumOver(g, S \ {x}) = SumOver(f, Image(S \ {x}))
      BY <1>3
    <3>6. g[x] = f[h[x]]
      BY <1>1
    <3> HIDE DEF Image, Good
    <3>3. SumOver(g, S) = g[x] + SumOver(g, S \ {x})
      BY <1>1, SumRemove
    <3>4. SumOver(f, Image(S)) = f[h[x]] + SumOver(f, Image(S) \ {h[x]})
      BY <1>2, <3>2, SumRemove
    <3> USE DEF Good
    <3> QED
      BY <3>2, <3>3, <3>4, <3>5, <3>6
  <2> QED
    BY <2>1, <2>2
<1>4. SUBSET D \subseteq Good
  <2> HIDE DEF Good
  <2> QED
    BY <1>3, OverSubsets
<1>5. Image(D) = R
  BY DEF Renames
<1>6. SumOver(g, D) = SumOver(f, R)
  BY <1>4, <1>5
<1>7. SumFunction(g) = SumOver(g, D) /\ SumFunction(f) = SumOver(f, R)
  BY <1>1, <1>2, SumFacts
<1> QED
  BY <1>6, <1>7 DEF g

-----------------------------------------------------------------------------
(* Allocation *)

\* Rows as far as allocation reads them.
Rows(rows) == \A i \in Batches : /\ rows[i].quantity \in Nat
                                 /\ rows[i].expiry \in 0 .. MaxDay \cup {NoExpiry}

\* The order in which batches are used is strict and total.
LEMMA BeforeIsAnOrder ==
    ASSUME NEW rows, Rows(rows), NEW i \in Batches, NEW j \in Batches
    PROVE  /\ ~Before(rows, i, i)
           /\ i # j => (Before(rows, i, j) <=> ~Before(rows, j, i))
           /\ \A k \in Batches : Before(rows, i, j) /\ Before(rows, j, k) => Before(rows, i, k)
<1>1. \A k \in Batches : k \in Int
  BY StockAssumption
<1>2. \A k \in Batches : rows[k].expiry \in Int \/ rows[k].expiry = NoExpiry
  BY StockAssumption DEF Rows
<1> QED
  BY <1>1, <1>2, StockAssumption DEF Before

\* Of every set of batches one has its turn last.
LEMMA LastExists ==
    ASSUME NEW rows, Rows(rows)
    PROVE  \A T \in SUBSET Batches : T # {} =>
             Last(rows, T) \in T /\ \A j \in T : j # Last(rows, T) => Before(rows, j, Last(rows, T))
<1> DEFINE Ends(T, i) == i \in T /\ \A j \in T \ {i} : Before(rows, j, i)
           Good == {T \in SUBSET Batches : T # {} => \E i : Ends(T, i)}
<1>1. ASSUME NEW T \in SUBSET Batches, \A U \in SUBSET T : U # T => U \in Good, T # {}
      PROVE  \E i : Ends(T, i)
  <2>1. PICK x \in T : TRUE
    BY <1>1
  <2>2. CASE T = {x}
    <3>1. Ends(T, x)
      BY <2>2
    <3> QED
      BY <3>1
  <2>3. CASE T # {x}
    <3>1. T \ {x} # {} /\ T \ {x} \in Good
      BY <1>1, <2>3
    <3>2. PICK i : Ends(T \ {x}, i)
      BY <3>1
    <3>3. i \in Batches /\ x \in Batches /\ i # x /\ i \in T
      BY <3>2
    <3>4. CASE Before(rows, x, i)
      <4>1. Ends(T, i)
        BY <3>2, <3>3, <3>4
      <4> QED
        BY <4>1
    <3>5. CASE Before(rows, i, x)
      <4>1. ASSUME NEW j \in T \ {x} PROVE Before(rows, j, x)
        <5>1. CASE j = i
          BY <3>5, <5>1
        <5>2. CASE j # i
          <6>1. Before(rows, j, i) /\ j \in Batches
            BY <3>2, <5>2
          <6> QED
            BY <6>1, <3>3, <3>5, BeforeIsAnOrder
        <5> QED
          BY <5>1, <5>2
      <4>2. Ends(T, x)
        BY <4>1
      <4> QED
        BY <4>2
    <3> QED
      BY <3>3, <3>4, <3>5, BeforeIsAnOrder
  <2> QED
    BY <2>2, <2>3
<1>2. SUBSET Batches \subseteq Good
  <2>1. \A T \in SUBSET Batches : (\A U \in SUBSET T : U # T => U \in Good) => T \in Good
    BY <1>1
  <2> HIDE DEF Good
  <2> QED
    BY <2>1, OverSubsets, StockAssumption
<1>3. ASSUME NEW T \in SUBSET Batches, T # {}
      PROVE  Ends(T, Last(rows, T))
  <2>1. \E i \in T : \A j \in T \ {i} : Before(rows, j, i)
    BY <1>2, <1>3
  <2> QED
    BY <2>1 DEF Last
<1> QED
  BY <1>3

\* What is left of a need.
Left == [remaining : Nat, take : [Batches -> Nat]]

\* One turn of the loop: the batch i gives what it has, or what is still needed.
Visit(rows, i, left) ==
    [remaining |-> left.remaining - Smaller(rows[i].quantity, left.remaining),
     take |-> [left.take EXCEPT ![i] = Smaller(rows[i].quantity, left.remaining)]]

\* What one turn does to the need and to the amounts.
LEMMA VisitType ==
    ASSUME NEW rows, Rows(rows), NEW i \in Batches, NEW left \in Left
    PROVE  /\ Visit(rows, i, left) \in Left
           /\ Visit(rows, i, left).remaining = left.remaining - Visit(rows, i, left).take[i]
           /\ Visit(rows, i, left).take[i] = Smaller(rows[i].quantity, left.remaining)
           /\ \A j \in Batches : j # i => Visit(rows, i, left).take[j] = left.take[j]
<1> DEFINE amount == Smaller(rows[i].quantity, left.remaining)
<1>1. left.remaining \in Nat /\ left.take \in [Batches -> Nat] /\ rows[i].quantity \in Nat
  BY DEF Left, Rows
<1>2. amount \in Nat /\ left.remaining - amount \in Nat
  BY <1>1 DEF Smaller
<1> HIDE DEF amount
<1>3. Visit(rows, i, left) = [remaining |-> left.remaining - amount,
                              take |-> [left.take EXCEPT ![i] = amount]]
  BY DEF Visit, amount
<1>4. [left.take EXCEPT ![i] = amount] \in [Batches -> Nat]
  BY <1>1, <1>2
<1>5. Visit(rows, i, left) \in Left
  BY <1>2, <1>3, <1>4 DEF Left
<1> QED
  BY <1>1, <1>3, <1>5 DEF amount

\* The loop of Allocate, with what is left after the batches of each subset.
Visits(left, rows, S, need) ==
    /\ left \in [SUBSET S -> Left]
    /\ left[{}] = [remaining |-> need, take |-> [i \in Batches |-> 0]]
    /\ \A T \in SUBSET S :
          T # {} => left[T] = Visit(rows, Last(rows, T), left[T \ {Last(rows, T)}])

\* The states of the loop exist, for every set of batches and every need.
LEMMA VisitsExist ==
    ASSUME NEW rows, Rows(rows), NEW S \in SUBSET Batches, NEW need \in Nat
    PROVE  \E left : Visits(left, rows, S, need)
<1> DEFINE pick == [T \in SUBSET S |-> Last(rows, T)]
           step == [x \in S \X Left |-> Visit(rows, x[1], x[2])]
           base == [remaining |-> need, take |-> [i \in Batches |-> 0]]
<1>1. \A T \in SUBSET S : T # {} => pick[T] \in T /\ Last(rows, T) \in T /\ pick[T] = Last(rows, T)
  BY LastExists
<1>2. step \in [S \X Left -> Left]
  BY VisitType
<1>3. \A i \in S, l \in Left : step[<<i, l>>] = Visit(rows, i, l)
  OBVIOUS
<1>4. base \in Left
  BY DEF Left
<1>5. IsFiniteSet(S)
  BY StockAssumption, FS_Subset
<1> HIDE DEF pick, step, base
<1>6. PICK left : Folds(left, S, Left, base, pick, step)
  BY <1>1, <1>2, <1>4, <1>5, FoldExists
<1>7. ASSUME NEW T \in SUBSET S, T # {}
      PROVE  left[T] = Visit(rows, Last(rows, T), left[T \ {Last(rows, T)}])
  <2>1. pick[T] = Last(rows, T) /\ Last(rows, T) \in S
    BY <1>1, <1>7
  <2>2. left[T \ {Last(rows, T)}] \in Left
    BY <1>6 DEF Folds
  <2>3. left[T] = step[<<Last(rows, T), left[T \ {Last(rows, T)}]>>]
    BY <1>6, <1>7, <2>1 DEF Folds
  <2> QED
    BY <1>3, <2>1, <2>2, <2>3
<1>8. left \in [SUBSET S -> Left] /\ left[{}] = base
  BY <1>6 DEF Folds
<1> QED
  BY <1>7, <1>8 DEF Visits, base

\* Allocate returns the last of them.
LEMMA AllocateVisits ==
    ASSUME NEW rows, Rows(rows), NEW S \in SUBSET Batches, NEW need \in Nat,
           NEW left, Visits(left, rows, S, need)
    PROVE  Allocate(rows, S, need) = left[S].take
<1> DEFINE base == [remaining |-> need, take |-> [i \in Batches |-> 0]]
           Eq(it) == it = [T \in SUBSET S |->
              IF T = {} THEN base ELSE Visit(rows, Last(rows, T), it[T \ {Last(rows, T)}])]
<1>1. Allocate(rows, S, need) = (CHOOSE it : Eq(it))[S].take
  BY SMT DEF Allocate, MapThenFoldSet, Visit
<1>2. left = [T \in SUBSET S |-> left[T]]
  BY DEF Visits
<1>3. Eq(left)
  <2>1. \A T \in SUBSET S :
          left[T] = IF T = {} THEN base ELSE Visit(rows, Last(rows, T), left[T \ {Last(rows, T)}])
    BY DEF Visits
  <2> HIDE DEF base
  <2> QED
    BY <1>2, <2>1
<1> DEFINE it == CHOOSE k : Eq(k)
<1>4. Eq(it)
  <2> HIDE DEF Eq
  <2> QED
    BY <1>3
<1> HIDE DEF it
<1> DEFINE Good == {T \in SUBSET S : it[T] = left[T]}
<1>5. ASSUME NEW T \in SUBSET S, \A U \in SUBSET T : U # T => U \in Good
      PROVE  it[T] = left[T]
  <2>1. CASE T = {}
    BY <1>4, <2>1 DEF Visits
  <2>2. CASE T # {}
    <3>1. Last(rows, T) \in T
      BY <2>2, LastExists
    <3>2. it[T \ {Last(rows, T)}] = left[T \ {Last(rows, T)}]
      BY <1>5, <3>1
    <3>3. it[T] = Visit(rows, Last(rows, T), it[T \ {Last(rows, T)}])
      BY <1>4, <2>2
    <3> QED
      BY <2>2, <3>2, <3>3 DEF Visits
  <2> QED
    BY <2>1, <2>2
<1>6. SUBSET S \subseteq Good
  <2>1. \A T \in SUBSET S : (\A U \in SUBSET T : U # T => U \in Good) => T \in Good
    BY <1>5
  <2>2. IsFiniteSet(S)
    BY StockAssumption, FS_Subset
  <2> HIDE DEF Good
  <2> QED
    BY <2>1, <2>2, OverSubsets
<1>7. it[S] = left[S]
  BY <1>6
<1> QED
  BY <1>1, <1>7 DEF it

\* What holds when the batches of T have been visited.
LoopInv(left, rows, T, need) ==
    /\ left.remaining + SumFunction(left.take) = need
    /\ \A i \in T : left.take[i] <= rows[i].quantity
    /\ \A i \in Batches \ T : left.take[i] = 0
    /\ left.remaining > 0 => \A i \in T : left.take[i] = rows[i].quantity
    /\ \A i, j \in T : Before(rows, i, j) /\ left.take[j] > 0 => left.take[i] = rows[i].quantity

\* A sum follows the change of one of its terms.
LEMMA SumOfChanged ==
    ASSUME NEW D, IsFiniteSet(D), NEW f \in [D -> Int], NEW g \in [D -> Int], NEW x \in D,
           \A y \in D : y # x => g[y] = f[y]
    PROVE  SumFunction(g) = SumFunction(f) + (g[x] - f[x])
<1>1. SumFunction(f) = SumOver(f, D) /\ SumFunction(g) = SumOver(g, D)
  BY SumFacts
<1>2. SumOver(f, D) = f[x] + SumOver(f, D \ {x}) /\ SumOver(g, D) = g[x] + SumOver(g, D \ {x})
  BY SumRemove
<1>3. SumOver(f, D \ {x}) = SumOver(g, D \ {x})
  <2>1. [y \in D \ {x} |-> f[y]] = [y \in D \ {x} |-> g[y]]
    OBVIOUS
  <2> QED
    BY <2>1 DEF SumOver
<1>4. SumOver(f, D \ {x}) \in Int /\ f[x] \in Int /\ g[x] \in Int
  BY SumFacts
<1> QED
  BY <1>1, <1>2, <1>3, <1>4

\* One turn of the loop keeps its invariant.
LEMMA VisitKeeps ==
    ASSUME NEW rows, Rows(rows), NEW need \in Nat, NEW T \in SUBSET Batches, T # {},
           NEW left \in Left, LoopInv(left, rows, T \ {Last(rows, T)}, need)
    PROVE  LoopInv(Visit(rows, Last(rows, T), left), rows, T, need)
<1> DEFINE x == Last(rows, T)
           next == Visit(rows, x, left)
<1>1. x \in T /\ x \in Batches /\ \A j \in T : j # x => Before(rows, j, x)
  BY LastExists
<1>2. /\ next \in Left /\ next.remaining = left.remaining - next.take[x]
      /\ next.take[x] = Smaller(rows[x].quantity, left.remaining)
      /\ \A j \in Batches : j # x => next.take[j] = left.take[j]
  <2> HIDE DEF x
  <2> QED
    BY <1>1, VisitType
<1>3. /\ left.remaining \in Nat /\ left.take \in [Batches -> Nat]
      /\ next.remaining \in Nat /\ next.take \in [Batches -> Nat]
      /\ rows[x].quantity \in Nat
  <2>1. next \in Left /\ left \in Left
    BY <1>2
  <2> HIDE DEF next, x
  <2> QED
    BY <2>1, <1>1 DEF Left, Rows
<1>4. LoopInv(left, rows, T \ {x}, need)
  OBVIOUS
<1> HIDE DEF x, next
<1>5. /\ next.take[x] <= rows[x].quantity
      /\ next.remaining > 0 => next.take[x] = rows[x].quantity /\ left.remaining > 0
      /\ next.take[x] > 0 => left.remaining > 0
  BY <1>2, <1>3 DEF Smaller
<1>6. left.take[x] = 0
  BY <1>1, <1>4 DEF LoopInv
<1>7. next.remaining + SumFunction(next.take) = need
  <2>1. left.take \in [Batches -> Int] /\ next.take \in [Batches -> Int] /\ IsFiniteSet(Batches)
    BY <1>3, StockAssumption
  <2>2. SumFunction(next.take) = SumFunction(left.take) + (next.take[x] - left.take[x])
    BY <1>1, <1>2, <2>1, SumOfChanged
  <2>3. SumFunction(left.take) \in Int /\ next.take[x] \in Int
    <3>1. SumOver(left.take, Batches) \in Int /\ SumFunction(left.take) = SumOver(left.take, Batches)
      BY <2>1, SumFacts
    <3> QED
      BY <1>1, <1>3, <3>1
  <2>4. left.remaining + SumFunction(left.take) = need
    BY <1>4 DEF LoopInv
  <2> QED
    BY <1>2, <1>3, <1>6, <2>2, <2>3, <2>4
<1>8. \A i \in T : next.take[i] <= rows[i].quantity
  BY <1>2, <1>4, <1>5 DEF LoopInv
<1>9. \A i \in Batches \ T : next.take[i] = 0
  BY <1>1, <1>2, <1>4 DEF LoopInv
<1>10. next.remaining > 0 => \A i \in T : next.take[i] = rows[i].quantity
  BY <1>2, <1>4, <1>5 DEF LoopInv
<1>11. ASSUME NEW i \in T, NEW j \in T, Before(rows, i, j), next.take[j] > 0
       PROVE  next.take[i] = rows[i].quantity
  <2>1. CASE j = x
    <3>1. left.remaining > 0
      BY <1>5, <1>11, <2>1
    <3>2. i # x
      <4>1. ~Before(rows, x, x)
        BY <1>1, BeforeIsAnOrder
      <4> QED
        BY <4>1, <1>11, <2>1
    <3> QED
      BY <3>1, <3>2, <1>2, <1>4 DEF LoopInv
  <2>2. CASE j # x /\ i = x
    BY <1>1, <1>11, <2>2, BeforeIsAnOrder
  <2>3. CASE j # x /\ i # x
    <3>1. next.take[j] = left.take[j] /\ next.take[i] = left.take[i]
      BY <1>2, <2>3
    <3> QED
      BY <3>1, <1>4, <1>11, <2>3 DEF LoopInv
  <2> QED
    BY <2>1, <2>2, <2>3
<1> QED
  BY <1>7, <1>8, <1>9, <1>10, <1>11 DEF LoopInv, next, x

\* The loop takes the need, no more than there is, and first what comes first.
LEMMA Allocation ==
    ASSUME NEW rows, Rows(rows), NEW S \in SUBSET Batches, NEW need \in Nat,
           need <= QuantityOf(rows, S), NEW take, take = Allocate(rows, S, need)
    PROVE  /\ take \in [Batches -> Nat]
           /\ \A i \in S : take[i] <= rows[i].quantity
           /\ \A i \in Batches \ S : take[i] = 0
           /\ SumFunction(take) = need
           /\ \A i, j \in S : Before(rows, i, j) /\ take[j] > 0 => take[i] = rows[i].quantity
<1>1. PICK left : Visits(left, rows, S, need)
  BY VisitsExist
<1>2. take = left[S].take
  BY <1>1, AllocateVisits
<1>3. IsFiniteSet(S) /\ IsFiniteSet(Batches)
  BY StockAssumption, FS_Subset
<1> DEFINE Good == {T \in SUBSET S : LoopInv(left[T], rows, T, need)}
<1>4. ASSUME NEW T \in SUBSET S, \A U \in SUBSET T : U # T => U \in Good
      PROVE  LoopInv(left[T], rows, T, need)
  <2>1. CASE T = {}
    <3> DEFINE zero == [i \in Batches |-> 0]
    <3>1. left[T] = [remaining |-> need, take |-> zero]
      BY <1>1, <2>1 DEF Visits
    <3>2. SumFunction(zero) = 0
      <4>1. zero \in [Batches -> Int] /\ \A i \in Batches \ {} : zero[i] = 0
        OBVIOUS
      <4> HIDE DEF zero
      <4>2. SumFunction(zero) = SumOver(zero, {}) /\ SumOver(zero, {}) = 0
        <5>1. SumFunction(zero) = SumFunction([i \in {} |-> zero[i]])
          BY <1>3, <4>1, SumWithoutZeros
        <5> QED
          BY <5>1, <1>3, <4>1, SumFacts DEF SumOver
      <4> QED
        BY <4>2
    <3>3. left[T].remaining = need /\ left[T].take = zero
      BY <3>1
    <3>4. \A i \in Batches : zero[i] = 0
      OBVIOUS
    <3> HIDE DEF zero
    <3> QED
      BY <2>1, <3>2, <3>3, <3>4 DEF LoopInv
  <2>2. CASE T # {}
    <3>1. Last(rows, T) \in T
      BY <2>2, LastExists
    <3>2. T \ {Last(rows, T)} \in Good
      BY <1>4, <3>1
    <3>3. left[T \ {Last(rows, T)}] \in Left
      BY <1>1 DEF Visits
    <3>4. left[T] = Visit(rows, Last(rows, T), left[T \ {Last(rows, T)}])
      BY <1>1, <2>2 DEF Visits
    <3>5. LoopInv(left[T \ {Last(rows, T)}], rows, T \ {Last(rows, T)}, need)
      BY <3>2
    <3> QED
      BY <2>2, <3>3, <3>4, <3>5, VisitKeeps
  <2> QED
    BY <2>1, <2>2
<1>5. SUBSET S \subseteq Good
  <2>1. \A T \in SUBSET S : (\A U \in SUBSET T : U # T => U \in Good) => T \in Good
    BY <1>4
  <2> HIDE DEF Good
  <2> QED
    BY <1>3, <2>1, OverSubsets
<1>6. LoopInv(left[S], rows, S, need) /\ left[S] \in Left
  BY <1>1, <1>5 DEF Visits
<1>7. take \in [Batches -> Nat] /\ left[S].remaining \in Nat
  BY <1>2, <1>6 DEF Left
<1>8. left[S].remaining = 0
  <2>1. SUFFICES ASSUME left[S].remaining > 0 PROVE FALSE
    BY <1>7
  <2>2. \A i \in S : take[i] = rows[i].quantity
    BY <1>2, <1>6, <2>1 DEF LoopInv
  <2>3. SumFunction(take) = SumFunction([i \in S |-> take[i]])
    <3>1. take \in [Batches -> Int] /\ \A i \in Batches \ S : take[i] = 0
      BY <1>2, <1>6, <1>7 DEF LoopInv
    <3> QED
      BY <1>3, <3>1, SumWithoutZeros
  <2>4. [i \in S |-> take[i]] = [i \in S |-> rows[i].quantity]
    BY <2>2
  <2>5. SumFunction(take) = QuantityOf(rows, S)
    BY <2>3, <2>4 DEF QuantityOf
  <2>6. QuantityOf(rows, S) \in Int
    <3>1. take \in [Batches -> Int]
      BY <1>7
    <3> QED
      BY <1>3, <2>5, <3>1, SumFacts
  <2>7. left[S].remaining + SumFunction(take) = need
    BY <1>2, <1>6 DEF LoopInv
  <2> QED
    BY <1>7, <2>1, <2>5, <2>6, <2>7
<1>9. SumFunction(take) = need
  <2>1. SumFunction(take) \in Int
    <3>1. take \in [Batches -> Int]
      BY <1>7
    <3> QED
      BY <1>3, <3>1, SumFacts
  <2>2. left[S].remaining + SumFunction(take) = need
    BY <1>2, <1>6 DEF LoopInv
  <2> QED
    BY <1>8, <2>1, <2>2
<1> QED
  BY <1>2, <1>6, <1>7, <1>9 DEF LoopInv

-----------------------------------------------------------------------------
(* The stock history *)

\* A finite stock history.
Changes(S) == IsFiniteSet(S) /\ \A r \in S : r.change \in Int

\* The changes of a batch have a sum.
LEMMA ChangeIsInt ==
    ASSUME NEW S, Changes(S), NEW i
    PROVE  ChangeOf(i, S) \in Int
<1> DEFINE D == {s \in S : s.batch = i}
           f == [r \in D |-> r.change]
<1>1. IsFiniteSet(D) /\ f \in [D -> Int]
  BY FS_Subset DEF Changes
<1> HIDE DEF D, f
<1>2. SumFunction(f) = SumOver(f, D) /\ SumOver(f, D) \in Int
  BY <1>1, SumFacts
<1> QED
  BY <1>2 DEF ChangeOf, f, D

\* A new record of a batch adds its change.
LEMMA ChangeOfOne ==
    ASSUME NEW S, Changes(S), NEW N, NEW i, NEW x \in N, x.batch = i,
           \A r \in N : r.batch = i => r = x, x \notin S, x.change \in Int
    PROVE  ChangeOf(i, S \cup N) = ChangeOf(i, S) + x.change
<1> DEFINE E == {s \in S : s.batch = i}
           D == {s \in S \cup N : s.batch = i}
           f == [r \in D |-> r.change]
<1>1. D = E \cup {x} /\ x \notin E /\ D \ {x} = E /\ x \in D
  OBVIOUS
<1>2. IsFiniteSet(D)
  <2>1. IsFiniteSet(E)
    BY FS_Subset DEF Changes
  <2> HIDE DEF E, D
  <2> QED
    BY <1>1, <2>1, FS_AddElement
<1>3. f \in [D -> Int]
  BY <1>1 DEF Changes
<1>4. f[x] = x.change /\ [r \in E |-> f[r]] = [r \in E |-> r.change]
  BY <1>1
<1> HIDE DEF f, D, E
<1>5. SumFunction(f) = SumOver(f, D) /\ SumOver(f, E) \in Int
  BY <1>1, <1>2, <1>3, SumFacts
<1>6. SumOver(f, D) = f[x] + SumOver(f, D \ {x})
  BY <1>1, <1>2, <1>3, SumRemove
<1>7. SumOver(f, E) = ChangeOf(i, S)
  BY <1>4 DEF SumOver, ChangeOf, E
<1>8. SumFunction(f) = ChangeOf(i, S \cup N)
  BY DEF f, D, ChangeOf
<1>9. ChangeOf(i, S \cup N) = x.change + ChangeOf(i, S)
  BY <1>1, <1>4, <1>5, <1>6, <1>7, <1>8
<1> QED
  BY <1>5, <1>7, <1>9

\* Records of other batches change nothing for a batch.
LEMMA ChangeOfNone ==
    ASSUME NEW S, NEW N, NEW i, \A r \in N : r.batch # i
    PROVE  ChangeOf(i, S \cup N) = ChangeOf(i, S)
<1>1. {s \in S \cup N : s.batch = i} = {s \in S : s.batch = i}
  OBVIOUS
<1> QED
  BY <1>1 DEF ChangeOf

\* The record an operation leaves of its change to one batch.
RecordOf(op, i, change) == [operation |-> op, batch |-> i, change |-> change[i]]

\* The records of one operation, of all the batches it touches.
NewRecords(op, touched, change) == {RecordOf(op, i, change) : i \in touched}

\* No record is of this operation yet.
Fresh(op, S) == \A r \in S : r.operation # op

\* One transaction writes one record for each batch it touches.
Added(S, op, touched, change) ==
    LET N == NewRecords(op, touched, change)
    IN /\ Changes(S \cup N)
       /\ \A i \in touched : ChangeOf(i, S \cup N) = ChangeOf(i, S) + change[i]
       /\ \A i \in Batches \ touched : ChangeOf(i, S \cup N) = ChangeOf(i, S)
       /\ SumFunction([r \in N |-> r.change]) = SumFunction(change)
       /\ \A other : other # op => {r \in S \cup N : r.operation = other}
                                    = {r \in S : r.operation = other}
       /\ {r \in S \cup N : r.operation = op} = N

\* That is what the records of one fresh operation add.
LEMMA RecordsAdded ==
    ASSUME NEW S, Changes(S), NEW op, Fresh(op, S),
           NEW touched \in SUBSET Batches, NEW change \in [touched -> Int]
    PROVE  Added(S, op, touched, change)
<1> DEFINE N == NewRecords(op, touched, change)
<1> DEFINE h == [i \in touched |-> RecordOf(op, i, change)]
<1>1. \A i \in touched : /\ h[i].operation = op /\ h[i].batch = i /\ h[i].change = change[i]
                          /\ h[i] = RecordOf(op, i, change) /\ h[i] \notin S
  BY DEF RecordOf, Fresh
<1>2. N = {h[i] : i \in touched} /\ h \in [touched -> N]
  BY DEF NewRecords
<1>3. IsFiniteSet(touched)
  BY StockAssumption, FS_Subset
<1> HIDE DEF h, N
<1>4. IsFiniteSet(N)
  <2>1. h \in Surjection(touched, N)
    BY <1>2 DEF Surjection
  <2> QED
    BY <1>3, <2>1, FS_Surjection
<1>5. \A r \in N : r.operation = op /\ r.change \in Int /\ r.batch \in touched /\ r = h[r.batch]
  BY <1>1, <1>2
<1>6. Changes(S \cup N)
  BY <1>4, <1>5, FS_Union DEF Changes
<1>7. ASSUME NEW i \in touched
      PROVE  ChangeOf(i, S \cup N) = ChangeOf(i, S) + change[i]
  <2>1. h[i] \in N /\ h[i].batch = i /\ \A r \in N : r.batch = i => r = h[i]
    BY <1>1, <1>2, <1>5
  <2>2. h[i] \notin S /\ h[i].change \in Int /\ h[i].change = change[i]
    BY <1>1
  <2>3. ChangeOf(i, S \cup N) = ChangeOf(i, S) + h[i].change
    BY ONLY <2>1, <2>2, Changes(S), ChangeOfOne
  <2> QED
    BY <2>2, <2>3
<1>8. ASSUME NEW i \in Batches \ touched
      PROVE  ChangeOf(i, S \cup N) = ChangeOf(i, S)
  <2>1. \A r \in N : r.batch # i
    BY <1>5
  <2> QED
    BY <2>1, ChangeOfNone
<1>9. {r \in S \cup N : r.operation = op} = N
  BY <1>5 DEF Fresh
<1>10. SumFunction([r \in N |-> r.change]) = SumFunction(change)
  <2> DEFINE f == [r \in N |-> r.change]
  <2>1. f \in [N -> Int]
    BY <1>5
  <2>2. \A i, j \in touched : h[i] = h[j] => i = j
    BY <1>1
  <2>3. Renames(h, touched, N)
    BY <1>2, <2>2 DEF Renames
  <2>4. [i \in touched |-> f[h[i]]] = change
    <3>1. \A i \in touched : f[h[i]] = change[i]
      BY <1>1, <1>2
    <3> HIDE DEF f
    <3> QED
      BY <3>1
  <2>5. SumFunction(f) = SumFunction([i \in touched |-> f[h[i]]])
    <3> HIDE DEF f
    <3> QED
      BY <1>3, <2>1, <2>3, SumRenamed
  <2> QED
    BY <2>4, <2>5
<1>11. \A other : other # op => {r \in S \cup N : r.operation = other}
                                = {r \in S : r.operation = other}
  BY <1>5
<1> QED
  BY <1>6, <1>7, <1>8, <1>9, <1>10, <1>11 DEF Added, N

\* What was ever put in grows by the increases among them.
Increased(S, op, touched, change) ==
    \A i \in Batches :
       ChangeOf(i, {r \in S \cup NewRecords(op, touched, change) : r.change > 0}) =
         ChangeOf(i, {r \in S : r.change > 0})
           + (IF i \in touched /\ change[i] > 0 THEN change[i] ELSE 0)

\* And of it, what was put in.
LEMMA IncreasesAdded ==
    ASSUME NEW S, Changes(S), NEW op, Fresh(op, S),
           NEW touched \in SUBSET Batches, NEW change \in [touched -> Int]
    PROVE  Increased(S, op, touched, change)
<1> SUFFICES ASSUME NEW b \in Batches
             PROVE  ChangeOf(b, {r \in S \cup NewRecords(op, touched, change) : r.change > 0}) =
                      ChangeOf(b, {r \in S : r.change > 0})
                        + (IF b \in touched /\ change[b] > 0 THEN change[b] ELSE 0)
  BY DEF Increased
<1> DEFINE N == NewRecords(op, touched, change)
           P == {r \in S : r.change > 0}
           more == {i \in touched : change[i] > 0}
           rise == [i \in more |-> change[i]]
           M == NewRecords(op, more, rise)
<1>1. Changes(P) /\ Fresh(op, P)
  BY FS_Subset DEF Changes, Fresh
<1>2. more \in SUBSET Batches /\ rise \in [more -> Int] /\ \A i \in more : rise[i] = change[i]
  OBVIOUS
<1>3. {r \in S \cup N : r.change > 0} = P \cup M
  <2>1. ASSUME NEW r \in N, r.change > 0 PROVE r \in M
    <3>1. PICK i \in touched : r = RecordOf(op, i, change)
      BY DEF NewRecords
    <3>2. i \in more /\ r = RecordOf(op, i, rise)
      BY <2>1, <3>1 DEF RecordOf
    <3> QED
      BY <3>2 DEF NewRecords
  <2>2. ASSUME NEW r \in M PROVE r \in N /\ r.change > 0
    <3>1. PICK i \in more : r = RecordOf(op, i, rise)
      BY DEF NewRecords
    <3>2. i \in touched /\ r = RecordOf(op, i, change) /\ r.change > 0
      BY <3>1 DEF RecordOf
    <3> QED
      BY <3>2 DEF NewRecords
  <2> HIDE DEF M
  <2> QED
    BY <2>1, <2>2
<1>4. b \in more <=> b \in touched /\ change[b] > 0
  OBVIOUS
<1> HIDE DEF P, more, rise
<1>5. Added(P, op, more, rise)
  BY <1>1, <1>2, RecordsAdded
<1>6. ChangeOf(b, P) \in Int
  BY <1>1, ChangeIsInt
<1>7. CASE b \in more
  <2>1. ChangeOf(b, P \cup M) = ChangeOf(b, P) + rise[b]
    BY <1>5, <1>7 DEF Added
  <2> QED
    BY <1>2, <1>3, <1>4, <1>7, <2>1 DEF P
<1>8. CASE b \notin more
  <2>1. ChangeOf(b, P \cup M) = ChangeOf(b, P)
    BY <1>5, <1>8 DEF Added
  <2>2. ~(b \in touched /\ change[b] > 0)
    BY <1>4, <1>8
  <2>3. ChangeOf(b, P \cup M) = ChangeOf(b, P) + (IF b \in touched /\ change[b] > 0 THEN change[b] ELSE 0)
    BY <1>6, <2>1, <2>2
  <2> QED
    BY <1>3, <2>3 DEF P
<1> QED
  BY <1>7, <1>8

-----------------------------------------------------------------------------
(* The inductive invariant *)

\* What was ever put in is no less than what is there, and there is nothing in a
\* row that does not exist yet: such a row is written from scratch.
RowsFit ==
    \A i \in Batches : /\ stock[i].initial >= stock[i].quantity
                       /\ stock[i].live => stock[i].exists
                       /\ ~stock[i].exists => stock[i].quantity = 0 /\ stock[i].initial = 0

\* The stock, its history and the log agree.
Books ==
    /\ InventoryTypeOK
    /\ StockMatchesRecords
    /\ LogCarriesStock
    /\ NoHiddenStock
    /\ RowsFit
    /\ Changes(records)

\* There is a suggestion only for a run that has completed.
RunsFit == \A k \in Rules \X RunIds : suggestion[k].status # "none" => run[k] = "completed"

\* The inductive invariant.
AccountInv == Books /\ LinkageTypeOK /\ TakenAsAsked /\ DeductionsTellTheStory /\ RunsFit

\* The columns of a row, with their types.
LEMMA RowFields ==
    ASSUME InventoryTypeOK, NEW i \in Batches
    PROVE  /\ stock[i].exists \in BOOLEAN /\ stock[i].live \in BOOLEAN
           /\ stock[i].product \in Products /\ stock[i].expiry \in 0 .. MaxDay \cup {NoExpiry}
           /\ stock[i].quantity \in 0 .. MaxQuantity /\ stock[i].initial \in 0 .. MaxQuantity
           /\ stock[i].version \in Nat /\ stock[i].status \in Statuses
           /\ stock[i] \in Batch
BY DEF InventoryTypeOK, Batch

\* The stock is such rows.
LEMMA StockRows ==
    ASSUME InventoryTypeOK
    PROVE  Rows(stock)
BY RowFields, StockAssumption DEF Rows

\* One transaction changes the quantities of the batches it touches, records each
\* change and publishes each row.
Moves(op, touched, change, rows) ==
    /\ Fresh(op, records)
    /\ touched \in SUBSET Batches
    /\ change \in [touched -> Int]
    /\ rows \in [Batches -> Batch]
    /\ \A i \in touched :
          /\ stock[i].live
          /\ rows[i].live = stock[i].live /\ rows[i].exists = stock[i].exists
          /\ rows[i].quantity = stock[i].quantity + change[i]
          /\ rows[i].initial = stock[i].initial + (IF change[i] > 0 THEN change[i] ELSE 0)
          /\ rows[i].quantity > 0 => rows[i].status = "active"
    /\ \A i \in Batches \ touched : rows[i] = stock[i]

\* A movement of stock keeps the books, whatever made it.
LEMMA MovesKeep ==
    ASSUME Books, NEW op, NEW touched, NEW change, NEW rows, Moves(op, touched, change, rows),
           stock' = rows, records' = records \cup NewRecords(op, touched, change),
           Publish(rows, touched), today' = today, products' = products,
           outcome' \in [Commands -> {"none", "accepted", "rejected"}]
    PROVE  Books'
<1> USE DEF Books
<1>1. Added(records, op, touched, change)
  BY RecordsAdded DEF Moves
<1>2. Changes(records')
  BY <1>1 DEF Added
<1>3. \A i \in Batches : rows[i].quantity \in 0 .. MaxQuantity /\ rows[i].version \in Nat
  BY DEF Moves, Batch
<1>4. InventoryTypeOK'
  <2>1. today' \in 0 .. MaxDay /\ products' \subseteq Products /\ stock' \in [Batches -> Batch]
    BY DEF InventoryTypeOK, Moves
  <2>2. ASSUME NEW r \in records'
        PROVE  r.batch \in Batches /\ r.change \in -MaxQuantity .. MaxQuantity
    <3>1. CASE r \in records
      BY <3>1 DEF InventoryTypeOK
    <3>2. CASE r \in NewRecords(op, touched, change)
      <4>1. PICK i \in touched : r = RecordOf(op, i, change)
        BY <3>2 DEF NewRecords
      <4>2. i \in Batches /\ r.batch = i /\ r.change = change[i] /\ change[i] \in Int
        BY <4>1 DEF RecordOf, Moves
      <4>3. rows[i].quantity = stock[i].quantity + change[i]
        BY <4>1 DEF Moves
      <4>4. rows[i].quantity \in 0 .. MaxQuantity /\ stock[i].quantity \in 0 .. MaxQuantity
        BY <1>3, <4>2, RowFields
      <4>5. change[i] \in -MaxQuantity .. MaxQuantity
        BY <4>2, <4>3, <4>4, StockAssumption
      <4> QED
        BY <4>2, <4>5
    <3> QED
      BY <3>1, <3>2
  <2>3. published' \in [Batches -> [quantity : 0 .. MaxQuantity, version : Nat]]
    BY <1>3 DEF InventoryTypeOK, Publish
  <2> QED
    BY <2>1, <2>2, <2>3 DEF InventoryTypeOK
<1>5. StockMatchesRecords'
  <2>1. SUFFICES ASSUME NEW i \in Batches
                 PROVE  /\ rows[i].quantity = ChangeOf(i, records')
                        /\ rows[i].initial = ChangeOf(i, {r \in records' : r.change > 0})
    BY DEF StockMatchesRecords
  <2>2. /\ stock[i].quantity = ChangeOf(i, records)
        /\ stock[i].initial = ChangeOf(i, {r \in records : r.change > 0})
    BY DEF StockMatchesRecords
  <2>3. ChangeOf(i, {r \in records' : r.change > 0})
          = stock[i].initial + (IF i \in touched /\ change[i] > 0 THEN change[i] ELSE 0)
    <3>1. Fresh(op, records) /\ touched \in SUBSET Batches /\ change \in [touched -> Int]
      BY DEF Moves
    <3>2. Changes(records)
      OBVIOUS
    <3>3. Increased(records, op, touched, change)
      BY <3>1, <3>2, IncreasesAdded
    <3> QED
      BY <2>2, <3>3 DEF Increased
  <2>4. CASE i \in touched
    <3>1. ChangeOf(i, records') = ChangeOf(i, records) + change[i]
      BY <1>1, <2>4 DEF Added
    <3> QED
      BY <2>2, <2>3, <2>4, <3>1 DEF Moves
  <2>5. CASE i \notin touched
    <3>1. ChangeOf(i, records') = ChangeOf(i, records)
      BY <1>1, <2>5 DEF Added
    <3>2. rows[i] = stock[i] /\ stock[i].initial \in 0 .. MaxQuantity
      BY <2>5, RowFields DEF Moves
    <3> QED
      BY <2>2, <2>3, <2>5, <3>1, <3>2
  <2> QED
    BY <2>4, <2>5
<1>6. LogCarriesStock'
  BY DEF LogCarriesStock, Publish, Moves
<1>7. NoHiddenStock'
  BY DEF NoHiddenStock, Moves
<1>8. RowsFit'
  <2>1. SUFFICES ASSUME NEW i \in Batches
                 PROVE  /\ rows[i].initial >= rows[i].quantity
                        /\ rows[i].live => rows[i].exists
                        /\ ~rows[i].exists => rows[i].quantity = 0 /\ rows[i].initial = 0
    BY DEF RowsFit
  <2>2. /\ stock[i].initial >= stock[i].quantity
        /\ stock[i].live => stock[i].exists
        /\ ~stock[i].exists => stock[i].quantity = 0 /\ stock[i].initial = 0
    BY DEF RowsFit
  <2>3. stock[i].quantity \in 0 .. MaxQuantity /\ stock[i].initial \in 0 .. MaxQuantity
    BY RowFields
  <2>4. CASE i \in touched
    <3>1. change[i] \in Int
      BY <2>4 DEF Moves
    <3> QED
      BY <2>2, <2>3, <2>4, <3>1 DEF Moves
  <2>5. CASE i \notin touched
    BY <2>2, <2>5 DEF Moves
  <2> QED
    BY <2>4, <2>5
<1> QED
  BY <1>2, <1>4, <1>5, <1>6, <1>7, <1>8

\* An edit of a row leaves its stock alone.
LEMMA EditsKeep ==
    ASSUME Books, NEW i \in Batches, stock' \in [Batches -> Batch],
           \A j \in Batches : j # i => stock'[j] = stock[j],
           stock'[i].exists, stock'[i].quantity = stock[i].quantity,
           stock'[i].initial = stock[i].initial,
           stock'[i].quantity > 0 => stock'[i].status = stock[i].status,
           Publish(stock', {i}), UNCHANGED <<today, products, records, outcome>>
    PROVE  Books'
<1> USE DEF Books
<1>1. /\ InventoryTypeOK /\ StockMatchesRecords /\ LogCarriesStock /\ NoHiddenStock
      /\ RowsFit /\ Changes(records)
  OBVIOUS
<1>2. \A j \in Batches : /\ stock'[j].quantity = stock[j].quantity
                         /\ stock'[j].initial = stock[j].initial
                         /\ stock'[j].quantity \in 0 .. MaxQuantity /\ stock'[j].version \in Nat
  BY DEF Batch
<1>3. published' \in [Batches -> [quantity : 0 .. MaxQuantity, version : Nat]]
  BY <1>1, <1>2 DEF InventoryTypeOK, Publish
<1>4. InventoryTypeOK'
  BY <1>1, <1>3 DEF InventoryTypeOK
<1>5. StockMatchesRecords'
  BY <1>1, <1>2 DEF StockMatchesRecords, ChangeOf
<1>6. LogCarriesStock'
  BY <1>1 DEF LogCarriesStock, Publish
<1>7. NoHiddenStock'
  BY <1>1 DEF NoHiddenStock
<1>8. RowsFit'
  BY <1>1, <1>2 DEF RowsFit
<1>9. Changes(records')
  BY <1>1
<1> QED
  BY <1>4, <1>5, <1>6, <1>7, <1>8, <1>9

\* The row that is not there yet is an empty one.
LEMMA NoBatchType == NoBatch \in Batch /\ NoBatch.quantity = 0 /\ NoBatch.initial = 0
<1>1. (CHOOSE p \in Products : TRUE) \in Products
  BY StockAssumption
<1> QED
  BY <1>1, StockAssumption DEF NoBatch, Batch, Statuses

\* A new row is empty.
LEMMA InsertBatchKeeps ==
    ASSUME Books, NEW i \in Batches, NEW p \in Products, NEW e \in 0 .. MaxDay \cup {NoExpiry},
           InsertBatch(i, p, e)
    PROVE  Books'
<1> DEFINE row == [NoBatch EXCEPT !.exists = TRUE, !.live = TRUE,
                                  !.product = p, !.expiry = e, !.version = 1]
<1>1. row \in Batch /\ row.exists /\ row.quantity = 0 /\ row.initial = 0
  BY NoBatchType DEF Batch
<1>2. stock' = [stock EXCEPT ![i] = row]
  BY DEF InsertBatch
<1>3. stock \in [Batches -> Batch] /\ stock[i].quantity = 0 /\ stock[i].initial = 0
  BY DEF InsertBatch, Books, RowsFit, InventoryTypeOK
<1> HIDE DEF row
<1>4. /\ stock' \in [Batches -> Batch] /\ stock'[i] = row
      /\ \A j \in Batches : j # i => stock'[j] = stock[j]
  BY <1>1, <1>2, <1>3
<1>5. Publish(stock', {i}) /\ UNCHANGED <<today, products, records, outcome>>
  BY DEF InsertBatch
<1> QED
  BY <1>1, <1>3, <1>4, <1>5, EditsKeep

\* The row after EditBatch.
Edited(b, p, e) == [b EXCEPT !.product = p, !.expiry = e, !.live = TRUE, !.version = @ + 1]

\* The row after DeleteBatch.
Deleted(b) == [b EXCEPT !.live = FALSE, !.version = @ + 1]

\* Rows with the same stock.
SameStock(b, row) ==
    /\ row \in Batch /\ row.exists = b.exists /\ row.quantity = b.quantity
    /\ row.initial = b.initial /\ row.status = b.status

\* Neither edit changes the stock.
LEMMA EditedRow ==
    ASSUME NEW b \in Batch, NEW p \in Products, NEW e \in 0 .. MaxDay \cup {NoExpiry}
    PROVE  SameStock(b, Edited(b, p, e)) /\ SameStock(b, Deleted(b))
<1>1. b.version + 1 \in Nat
  BY DEF Batch
<1>2. SameStock(b, Edited(b, p, e))
  <2> DEFINE v == b.version + 1
             row == [b EXCEPT !.product = p, !.expiry = e, !.live = TRUE, !.version = v]
  <2> HIDE DEF v
  <2>1. v \in Nat
    BY <1>1 DEF v
  <2>2. SameStock(b, row)
    BY <2>1 DEF Batch, SameStock
  <2> QED
    BY <2>2 DEF v, Edited
<1>3. SameStock(b, Deleted(b))
  <2> DEFINE v == b.version + 1
             row == [b EXCEPT !.live = FALSE, !.version = v]
  <2> HIDE DEF v
  <2>1. v \in Nat
    BY <1>1 DEF v
  <2>2. SameStock(b, row)
    BY <2>1 DEF Batch, SameStock
  <2> QED
    BY <2>2 DEF v, Deleted
<1> QED
  BY <1>2, <1>3

\* An edit keeps the books.
LEMMA EditBatchKeeps ==
    ASSUME Books, NEW i \in Batches, NEW p \in Products, NEW e \in 0 .. MaxDay \cup {NoExpiry},
           EditBatch(i, p, e)
    PROVE  Books'
<1>1. stock \in [Batches -> Batch] /\ stock[i] \in Batch
  BY DEF Books, InventoryTypeOK
<1> DEFINE row == Edited(stock[i], p, e)
<1>2. stock' = [stock EXCEPT ![i] = row]
  BY <1>1 DEF EditBatch, Edited
<1>3. row \in Batch /\ row.exists = stock[i].exists /\ row.quantity = stock[i].quantity
      /\ row.initial = stock[i].initial /\ row.status = stock[i].status
  BY <1>1, EditedRow DEF SameStock
<1> HIDE DEF row
<1>4. /\ stock' \in [Batches -> Batch] /\ stock'[i] = row
      /\ \A j \in Batches : j # i => stock'[j] = stock[j]
  BY <1>1, <1>2, <1>3
<1>5. Publish(stock', {i}) /\ UNCHANGED <<today, products, records, outcome>> /\ stock[i].exists
  BY DEF EditBatch
<1> QED
  BY <1>3, <1>4, <1>5, EditsKeep

\* A deletion keeps the books: the row and its stock stay.
LEMMA DeleteBatchKeeps ==
    ASSUME Books, NEW i \in Batches, DeleteBatch(i)
    PROVE  Books'
<1>1. stock \in [Batches -> Batch] /\ stock[i] \in Batch
  BY DEF Books, InventoryTypeOK
<1> DEFINE row == Deleted(stock[i])
<1>2. stock' = [stock EXCEPT ![i] = row]
  BY <1>1 DEF DeleteBatch, Deleted
<1>3. row \in Batch /\ row.exists = stock[i].exists /\ row.quantity = stock[i].quantity
      /\ row.initial = stock[i].initial /\ row.status = stock[i].status
  <2>1. (CHOOSE p \in Products : TRUE) \in Products /\ NoExpiry \in 0 .. MaxDay \cup {NoExpiry}
    BY StockAssumption
  <2> QED
    BY <1>1, <2>1, EditedRow DEF SameStock
<1> HIDE DEF row
<1>4. /\ stock' \in [Batches -> Batch] /\ stock'[i] = row
      /\ \A j \in Batches : j # i => stock'[j] = stock[j]
  BY <1>1, <1>2, <1>3
<1>5. Publish(stock', {i}) /\ UNCHANGED <<today, products, records, outcome>> /\ stock[i].exists
  BY DEF DeleteBatch
<1> QED
  BY <1>3, <1>4, <1>5, EditsKeep

\* Steps that write no batch.
LEMMA OthersKeep ==
    ASSUME Books, UNCHANGED <<stock, records, published>>, today' \in 0 .. MaxDay,
           products' \subseteq Products,
           outcome' \in [Commands -> {"none", "accepted", "rejected"}]
    PROVE  Books'
<1>1. InventoryTypeOK'
  BY DEF Books, InventoryTypeOK
<1>2. StockMatchesRecords' /\ LogCarriesStock' /\ NoHiddenStock' /\ RowsFit' /\ Changes(records')
  BY DEF Books, StockMatchesRecords, ChangeOf, LogCarriesStock, NoHiddenStock, RowsFit
<1> QED
  BY <1>1, <1>2 DEF Books

-----------------------------------------------------------------------------
(* Commands *)

\* What a command asks for.
Asked(c) == IF c.kind = "consume_fefo" THEN c.quantity ELSE SumFunction(c.take)

\* The fields of a command, with their types.
LEMMA CommandFields ==
    ASSUME NEW c \in Commands
    PROVE  /\ c.kind \in Kinds /\ c.quantity \in Int
           /\ DOMAIN c.take \in SUBSET Batches /\ c.take \in [DOMAIN c.take -> Int]
           /\ c.kind \in {"restock", "discard"} => DOMAIN c.take = {Target(c)}
           /\ c.kind = "consume_allocated" => DOMAIN c.take # {}
<1>1. ASSUME c.kind \in {"restock", "discard"}
      PROVE  DOMAIN c.take = {Target(c)}
  <2>1. Cardinality(DOMAIN c.take) = 1 /\ IsFiniteSet(DOMAIN c.take)
    BY <1>1, CommandsAssumption, StockAssumption, FS_Subset
  <2>2. PICK i : DOMAIN c.take = {i}
    BY <2>1, FS_Singleton
  <2> QED
    BY <2>2 DEF Target
<1> QED
  BY <1>1, CommandsAssumption

\* What the plan of a command that can be carried out takes or brings.
Planned(c, amounts) ==
    /\ amounts \in [Batches -> Nat]
    /\ SumFunction(amounts) = Asked(c)
    /\ Touched(c, amounts) # {}
    /\ \A i \in Touched(c, amounts) :
          /\ stock[i].live
          /\ c.kind # "restock" => amounts[i] <= stock[i].quantity
          /\ c.kind = "discard" => amounts[i] = stock[i].quantity
          /\ c.kind \in {"consume_fefo", "consume_allocated"} => ~Expired(stock[i], today)

\* What allocateFEFO plans takes exactly what the command asks for.
LEMMA PlanOfFefo ==
    ASSUME Books, NEW c \in Commands, c.kind = "consume_fefo", EnoughFor(c)
    PROVE  Planned(c, Amounts(c))
<1> DEFINE S == Candidates(stock, c.product, today)
           amounts == Amounts(c)
<1>1. amounts = Allocate(stock, S, c.quantity) /\ S \in SUBSET Batches
  BY DEF Amounts, Candidates
<1>2. c.quantity \in Nat /\ c.quantity > 0 /\ c.quantity <= QuantityOf(stock, S)
  BY CommandFields DEF EnoughFor
<1>3. Rows(stock)
  BY StockRows DEF Books
<1>4. \A i \in S : stock[i].live /\ ~Expired(stock[i], today)
  BY DEF Candidates
<1> HIDE DEF S, amounts
<1>5. /\ amounts \in [Batches -> Nat] /\ \A i \in S : amounts[i] <= stock[i].quantity
      /\ \A i \in Batches \ S : amounts[i] = 0
      /\ SumFunction(amounts) = c.quantity
  BY <1>1, <1>2, <1>3, Allocation
<1>6. Touched(c, amounts) = {i \in Batches : amounts[i] > 0}
  BY DEF Touched
<1>7. Touched(c, amounts) # {}
  <2>1. SUFFICES ASSUME \A i \in Batches \ {} : amounts[i] = 0 PROVE FALSE
    BY <1>5, <1>6
  <2>2. amounts \in [Batches -> Int] /\ IsFiniteSet(Batches)
    BY <1>5, StockAssumption
  <2>3. SumFunction(amounts) = SumFunction([i \in {} |-> amounts[i]])
    BY <2>1, <2>2, SumWithoutZeros
  <2>4. SumFunction([i \in {} |-> amounts[i]]) = 0
    BY <2>2, SumFacts DEF SumOver
  <2> QED
    BY <1>2, <1>5, <2>3, <2>4
<1>8. \A i \in Touched(c, amounts) : i \in S
  BY <1>5, <1>6
<1> QED
  BY <1>4, <1>5, <1>7, <1>8 DEF Planned, Asked, amounts

\* So does a plan that takes the batches the command names.
LEMMA PlanByName ==
    ASSUME Books, NEW c \in Commands, c.kind # "consume_fefo", DependenciesLive(c), Plannable(c)
    PROVE  Planned(c, Amounts(c))
<1> DEFINE amounts == Amounts(c)
<1>1. amounts = [i \in Batches |-> IF i \in DOMAIN c.take THEN c.take[i] ELSE 0]
  BY DEF Amounts
<1> HIDE DEF amounts
<1>2. amounts \in [Batches -> Nat]
  <2>1. ASSUME NEW i \in DOMAIN c.take
        PROVE  c.take[i] \in Nat
    <3>1. c.take[i] \in Int /\ i \in Batches
      BY CommandFields
    <3>2. CASE c.kind = "consume_allocated"
      BY <3>1, <3>2 DEF Plannable, Allocatable
    <3>3. CASE c.kind = "restock"
      <4>1. i = Target(c)
        BY <3>3, CommandFields
      <4> QED
        BY <3>1, <3>3, <4>1 DEF Plannable, Restockable
    <3>4. CASE c.kind = "discard"
      <4>1. i = Target(c)
        BY <3>4, CommandFields
      <4>2. c.take[i] = stock[i].quantity
        BY <3>4, <4>1 DEF Plannable, Discardable
      <4> QED
        BY <3>1, <4>2, RowFields, StockAssumption DEF Books
    <3> QED
      BY <3>2, <3>3, <3>4, CommandFields DEF Kinds
  <2> QED
    BY <1>1, <2>1
<1>3. SumFunction(amounts) = SumFunction(c.take)
  <2>1. amounts \in [Batches -> Int] /\ IsFiniteSet(Batches) /\ DOMAIN c.take \in SUBSET Batches
        /\ \A i \in Batches \ DOMAIN c.take : amounts[i] = 0
    BY <1>1, <1>2, CommandFields, StockAssumption
  <2>2. SumFunction(amounts) = SumFunction([i \in DOMAIN c.take |-> amounts[i]])
    BY <2>1, SumWithoutZeros
  <2>3. [i \in DOMAIN c.take |-> amounts[i]] = c.take
    BY <1>1, CommandFields
  <2> QED
    BY <2>2, <2>3
<1>4. \A i \in DOMAIN c.take : stock[i].live
  BY DEF DependenciesLive
<1>5. CASE c.kind = "consume_allocated"
  <2>1. Allocatable(c)
    BY <1>5 DEF Plannable
  <2>2. Touched(c, amounts) = DOMAIN c.take
    BY <1>1, <1>5, <2>1, CommandFields DEF Touched, Allocatable
  <2>3. \A i \in DOMAIN c.take : amounts[i] = c.take[i]
    BY <1>1, CommandFields
  <2>4. \A i \in DOMAIN c.take : /\ c.take[i] <= stock[i].quantity
                                 /\ ~Expired(stock[i], today)
    <3>1. \A i \in DOMAIN c.take : i \in Batches /\ c.take[i] \in Int
                                   /\ stock[i].quantity \in 0 .. MaxQuantity
      BY CommandFields, RowFields DEF Books
    <3> QED
      BY <2>1, <3>1 DEF Allocatable
  <2>5. DOMAIN c.take # {}
    BY <1>5, CommandFields
  <2> QED
    BY <1>2, <1>3, <1>4, <1>5, <2>2, <2>3, <2>4, <2>5 DEF Planned, Asked, amounts
<1>6. CASE c.kind \in {"restock", "discard"}
  <2> DEFINE t == Target(c)
  <2>1. DOMAIN c.take = {t} /\ t \in Batches
    BY <1>6, CommandFields
  <2>2. amounts[t] = c.take[t] /\ \A i \in Batches : i # t => amounts[i] = 0
    BY <1>1, <2>1
  <2>3. c.kind = "restock" => c.take[t] > 0
    BY <1>6 DEF Plannable, Restockable
  <2>4. c.kind = "discard" => c.take[t] = stock[t].quantity
    BY <1>6 DEF Plannable, Discardable
  <2>5. stock[t].live
    BY <1>4, <2>1
  <2>6. Touched(c, amounts) = {t}
    BY <1>6, <2>1, <2>2, <2>3 DEF Touched
  <2>7. stock[t].quantity \in Nat
    BY <2>1, RowFields DEF Books
  <2>8. c.kind = "discard" => amounts[t] <= stock[t].quantity
    BY <2>2, <2>4, <2>7
  <2> HIDE DEF t
  <2> QED
    BY <1>2, <1>3, <1>6, <2>2, <2>4, <2>5, <2>6, <2>8 DEF Planned, Asked, amounts
<1> QED
  BY <1>5, <1>6, CommandFields DEF Kinds

\* A command that can be carried out has a plan for all it asks.
LEMMA PlanIsSound ==
    ASSUME Books, NEW c \in Commands, Executable(c)
    PROVE  Planned(c, Amounts(c))
<1>1. CASE c.kind = "consume_fefo"
  BY <1>1, PlanOfFefo DEF Executable, Plannable
<1>2. CASE c.kind # "consume_fefo"
  BY <1>2, PlanByName DEF Executable
<1> QED
  BY <1>1, <1>2

\* The row that applyBatchChangeSQL leaves.
RowChanged(b, delta, discard, row) ==
    /\ row \in Batch
    /\ row.exists = b.exists /\ row.live = b.live
    /\ row.quantity = b.quantity + delta
    /\ row.initial = b.initial + (IF delta > 0 THEN delta ELSE 0)
    /\ row.status = IF discard THEN "discarded"
                    ELSE IF b.quantity + delta = 0 THEN "used_up" ELSE "active"

\* AfterChange leaves that row, if the amounts fit its columns.
LEMMA ChangedRow ==
    ASSUME NEW b \in Batch, NEW delta \in Int, NEW discard \in BOOLEAN,
           b.initial >= b.quantity, b.quantity + delta >= 0,
           AfterChange(b, delta, discard).quantity <= MaxQuantity,
           AfterChange(b, delta, discard).initial <= MaxQuantity
    PROVE  RowChanged(b, delta, discard, AfterChange(b, delta, discard))
<1> DEFINE q == b.quantity + delta
           n == b.initial + (IF delta > 0 THEN delta ELSE 0)
           s == IF discard THEN "discarded" ELSE IF q = 0 THEN "used_up" ELSE "active"
           v == b.version + 1
           row == [b EXCEPT !.quantity = q, !.initial = n, !.status = s, !.version = v]
<1>1. b.quantity \in Nat /\ b.initial \in Nat /\ b.version \in Nat
  BY StockAssumption DEF Batch
<1>2. q \in Nat /\ n \in Nat /\ v \in Nat /\ s \in Statuses
  BY <1>1 DEF Statuses
<1>3. AfterChange(b, delta, discard) = row
  <2>1. ~(b.initial < b.quantity)
    BY <1>1
  <2> QED
    BY <2>1 DEF AfterChange, Batch
<1>4. b.status \in Statuses /\ b = [exists |-> b.exists, live |-> b.live, product |-> b.product,
           expiry |-> b.expiry, quantity |-> b.quantity, initial |-> b.initial,
           version |-> b.version, status |-> b.status]
  BY DEF Batch
<1> HIDE DEF q, n, s, v
<1>5. /\ row.quantity = q /\ row.initial = n /\ row.status = s
      /\ row.exists = b.exists /\ row.live = b.live
  BY <1>4
<1>6. q \in 0 .. MaxQuantity /\ n \in 0 .. MaxQuantity
  BY <1>2, <1>3, <1>5, StockAssumption
<1>7. row \in Batch
  BY <1>2, <1>6 DEF Batch
<1> QED
  BY <1>3, <1>5, <1>7 DEF q, n, s, RowChanged

\* Carrying out a command is a movement of stock.
LEMMA ExecuteMoves ==
    ASSUME Books, NEW c \in Commands, Executable(c), Fresh(c.operation, records),
           NEW amounts, amounts = Amounts(c)
    PROVE  LET change == [i \in Touched(c, amounts) |-> Delta(c, amounts[i])]
           IN /\ Moves(c.operation, Touched(c, amounts), change, AfterCommand(c, amounts))
              /\ RecordsOf(c, amounts) = NewRecords(c.operation, Touched(c, amounts), change)
<1> DEFINE touched == Touched(c, amounts)
           change == [i \in touched |-> Delta(c, amounts[i])]
           rows == AfterCommand(c, amounts)
<1>1. Planned(c, amounts)
  BY PlanIsSound
<1>2. touched \in SUBSET Batches
  BY DEF Touched
<1>3. \A i \in touched : amounts[i] \in Nat /\ Delta(c, amounts[i]) \in Int
  BY <1>1, <1>2 DEF Planned, Delta
<1>4. \A i \in Batches : rows[i].quantity <= MaxQuantity /\ rows[i].initial <= MaxQuantity
  BY DEF Executable, InRange
<1>5. ASSUME NEW i \in touched
      PROVE  /\ rows[i] \in Batch /\ stock[i].live
             /\ rows[i].live = stock[i].live /\ rows[i].exists = stock[i].exists
             /\ rows[i].quantity = stock[i].quantity + Delta(c, amounts[i])
             /\ rows[i].initial = stock[i].initial
                  + (IF Delta(c, amounts[i]) > 0 THEN Delta(c, amounts[i]) ELSE 0)
             /\ rows[i].quantity > 0 => rows[i].status = "active"
  <2> DEFINE b == stock[i]
             delta == Delta(c, amounts[i])
             discard == c.kind = "discard"
  <2>1. rows[i] = AfterChange(b, delta, discard)
    BY <1>2 DEF AfterCommand
  <2>2. /\ b \in Batch /\ b.initial >= b.quantity /\ b.quantity \in Nat /\ b.live
    <3>1. i \in Batches
      BY <1>2
    <3>2. b.live
      BY <1>1 DEF Planned
    <3>3. stock[i].initial >= stock[i].quantity
      BY <3>1 DEF Books, RowsFit
    <3>4. stock[i] \in Batch /\ stock[i].quantity \in Nat
      BY <3>1, RowFields DEF Books
    <3> QED
      BY <3>2, <3>3, <3>4
  <2>3. delta \in Int /\ b.quantity + delta >= 0 /\ (discard => b.quantity + delta = 0)
    BY <1>1, <1>3, <2>2 DEF Planned, Delta
  <2>4. discard \in BOOLEAN
    OBVIOUS
  <2>5. rows[i].quantity <= MaxQuantity /\ rows[i].initial <= MaxQuantity
    BY <1>2, <1>4
  <2> HIDE DEF b, delta, discard, rows
  <2>6. RowChanged(b, delta, discard, rows[i])
    BY <2>1, <2>2, <2>3, <2>4, <2>5, ChangedRow
  <2>7. rows[i].quantity > 0 => rows[i].status = "active"
    BY <2>2, <2>3, <2>6 DEF RowChanged
  <2> QED
    BY <2>2, <2>6, <2>7 DEF b, delta, RowChanged
<1>6. \A i \in Batches \ touched : rows[i] = stock[i]
  BY DEF AfterCommand
<1>7. rows \in [Batches -> Batch]
  <2>1. \A i \in Batches : rows[i] \in Batch
    BY <1>5, <1>6, RowFields DEF Books
  <2>2. rows = [i \in Batches |-> rows[i]]
    BY DEF AfterCommand
  <2> HIDE DEF rows
  <2> QED
    BY <2>1, <2>2
<1>8. change \in [touched -> Int] /\ \A i \in touched : change[i] = Delta(c, amounts[i])
  BY <1>3
<1>9. RecordsOf(c, amounts) = NewRecords(c.operation, touched, change)
  BY <1>8 DEF RecordsOf, NewRecords, RecordOf
<1> HIDE DEF touched, change, rows
<1>10. Moves(c.operation, touched, change, rows)
  BY <1>2, <1>5, <1>6, <1>7, <1>8 DEF Moves
<1> QED
  BY <1>9, <1>10 DEF touched, change, rows

\* The sign of a command applies to the sum as to its terms.
LEMMA SumOfDelta ==
    ASSUME NEW c, NEW T, IsFiniteSet(T), NEW a \in [T -> Nat]
    PROVE  SumFunction([i \in T |-> Delta(c, a[i])]) = Delta(c, SumFunction(a))
<1> DEFINE zero == [i \in T |-> 0]
           f == [i \in T |-> Delta(c, a[i])]
<1>1. a \in [T -> Int] /\ zero \in [T -> Int] /\ a = [i \in T |-> a[i]]
  OBVIOUS
<1>2. CASE c.kind = "restock"
  <2>1. f = [i \in T |-> a[i]]
    BY <1>2 DEF Delta
  <2>2. f = a
    BY <1>1, <2>1
  <2> QED
    BY <1>2, <2>2 DEF Delta
<1>3. CASE c.kind # "restock"
  <2>1. f = [i \in T |-> zero[i] - a[i]]
    BY <1>3 DEF Delta
  <2>2. SumFunction(zero) = 0
    <3>1. \A i \in T : zero[i] = 0
      OBVIOUS
    <3> HIDE DEF zero
    <3> QED
      BY <1>1, <3>1, SumOfZeros
  <2> HIDE DEF zero, f
  <2>3. SumFunction([i \in T |-> zero[i] - a[i]]) = SumFunction(zero) - SumFunction(a)
    BY <1>1, SumOfDifference
  <2>4. SumFunction(a) \in Int
    BY <1>1, SumFacts
  <2>5. SumFunction(f) = -SumFunction(a)
    BY <2>1, <2>2, <2>3, <2>4
  <2> QED
    BY <1>3, <2>5 DEF Delta, f
<1> QED
  BY <1>2, <1>3

\* The records of a transaction add up to what was planned.
LEMMA PlanAddsUp ==
    ASSUME NEW c \in Commands, NEW amounts, Planned(c, amounts)
    PROVE  SumFunction([i \in Touched(c, amounts) |-> Delta(c, amounts[i])]) = Delta(c, Asked(c))
<1> DEFINE T == Touched(c, amounts)
           a == [i \in T |-> amounts[i]]
<1>1. amounts \in [Batches -> Nat] /\ SumFunction(amounts) = Asked(c)
  BY DEF Planned
<1>2. T \in SUBSET Batches /\ IsFiniteSet(Batches) /\ IsFiniteSet(T)
  BY StockAssumption, FS_Subset DEF Touched
<1>3. \A i \in Batches \ T : amounts[i] = 0
  BY <1>1 DEF Touched
<1>4. a \in [T -> Nat] /\ [i \in T |-> Delta(c, a[i])] = [i \in T |-> Delta(c, amounts[i])]
  BY <1>1, <1>2
<1> HIDE DEF T
<1>5. SumFunction(amounts) = SumFunction(a)
  BY <1>1, <1>2, <1>3, SumWithoutZeros
<1> HIDE DEF a
<1>6. SumFunction([i \in T |-> Delta(c, a[i])]) = Delta(c, SumFunction(a))
  BY <1>2, <1>4, SumOfDelta
<1> QED
  BY <1>1, <1>4, <1>5, <1>6 DEF T

\* What TakenAsAsked says of one command.
TakenFrom(c, S, decision) ==
    LET own == {r \in S : r.operation = c.operation}
    IN IF decision = "accepted"
       THEN SumFunction([r \in own |-> r.change]) = Delta(c, Asked(c)) /\ own # {}
       ELSE own = {}

\* TakenAsAsked is the conjunction of that over the commands, in both states.
LEMMA TakenByEach ==
    /\ TakenAsAsked <=> \A c \in Commands : TakenFrom(c, records, outcome[c])
    /\ TakenAsAsked' <=> \A c \in Commands : TakenFrom(c, records', outcome'[c])
BY DEF TakenAsAsked, TakenFrom, Asked

\* A transaction under another operation id leaves the records of a command alone.
LEMMA OthersTake ==
    ASSUME NEW c, NEW S, NEW op, op # c.operation, NEW touched, NEW change,
           Added(S, op, touched, change), NEW d
    PROVE  TakenFrom(c, S \cup NewRecords(op, touched, change), d) <=> TakenFrom(c, S, d)
<1>1. {r \in S \cup NewRecords(op, touched, change) : r.operation = c.operation}
        = {r \in S : r.operation = c.operation}
  BY DEF Added
<1> QED
  BY <1>1 DEF TakenFrom

\* A command that has not been accepted has left no record.
LEMMA Untouched ==
    ASSUME AccountInv, NEW c \in Commands, outcome[c] # "accepted"
    PROVE  Fresh(c.operation, records)
BY DEF AccountInv, TakenAsAsked, Fresh

\* A command carried out keeps the books, takes what it asks for and writes no
\* record of a deduction.
LEMMA ExecuteKeeps ==
    ASSUME AccountInv, NEW c \in Commands, Execute(c)
    PROVE  /\ Books' /\ TakenAsAsked'
           /\ \A k \in Rules \X RunIds : {r \in records' : r.operation = k}
                                         = {r \in records : r.operation = k}
<1> DEFINE amounts == Amounts(c)
           touched == Touched(c, amounts)
           change == [i \in touched |-> Delta(c, amounts[i])]
           rows == AfterCommand(c, amounts)
<1>1. /\ outcome[c] = "none" /\ Executable(c) /\ stock' = rows
      /\ records' = records \cup RecordsOf(c, amounts) /\ Publish(rows, touched)
      /\ outcome' = [outcome EXCEPT ![c] = "accepted"] /\ UNCHANGED <<today, products>>
  BY DEF Execute
<1>2. Books /\ Fresh(c.operation, records) /\ outcome \in [Commands -> {"none", "accepted", "rejected"}]
  <2>1. Fresh(c.operation, records)
    BY <1>1, Untouched
  <2> QED
    BY <2>1 DEF AccountInv, Books, InventoryTypeOK
<1>3. Planned(c, amounts)
  BY <1>1, <1>2, PlanIsSound
<1>4. /\ Moves(c.operation, touched, change, rows)
      /\ RecordsOf(c, amounts) = NewRecords(c.operation, touched, change)
  <2> HIDE DEF amounts
  <2>1. amounts = Amounts(c)
    BY DEF amounts
  <2> QED
    BY <1>1, <1>2, <2>1, ExecuteMoves
<1>5. SumFunction(change) = Delta(c, Asked(c)) /\ touched # {}
  <2> HIDE DEF amounts
  <2> QED
    BY <1>3, PlanAddsUp DEF Planned
<1>6. outcome' \in [Commands -> {"none", "accepted", "rejected"}]
  BY <1>1, <1>2
<1> HIDE DEF amounts, touched, change, rows
<1>7. Books'
  BY <1>1, <1>2, <1>4, <1>6, MovesKeep
<1>8. Added(records, c.operation, touched, change)
  <2>1. touched \in SUBSET Batches /\ change \in [touched -> Int] /\ Changes(records)
    BY <1>2, <1>4 DEF Moves, Books
  <2> QED
    BY <1>2, <2>1, RecordsAdded
<1>9. ASSUME NEW d \in Commands
      PROVE  TakenFrom(d, records', outcome'[d])
  <2>1. TakenFrom(d, records, outcome[d])
    BY TakenByEach DEF AccountInv
  <2>2. CASE d = c
    <3>1. {r \in records' : r.operation = c.operation} = NewRecords(c.operation, touched, change)
      BY <1>1, <1>4, <1>8 DEF Added
    <3>2. SumFunction([r \in NewRecords(c.operation, touched, change) |-> r.change])
            = Delta(c, Asked(c))
      BY <1>5, <1>8 DEF Added
    <3>3. NewRecords(c.operation, touched, change) # {}
      BY <1>5 DEF NewRecords
    <3>4. outcome'[c] = "accepted"
      BY <1>1, <1>2
    <3> QED
      BY <2>2, <3>1, <3>2, <3>3, <3>4 DEF TakenFrom
  <2>3. CASE d # c
    <3>1. d.operation # c.operation /\ outcome'[d] = outcome[d]
      BY <1>1, <1>2, <2>3, CommandsAssumption
    <3> QED
      BY <1>1, <1>4, <1>8, <2>1, <3>1, OthersTake
  <2> QED
    BY <2>2, <2>3
<1>10. ASSUME NEW k \in Rules \X RunIds
       PROVE  {r \in records' : r.operation = k} = {r \in records : r.operation = k}
  <2>1. k # c.operation
    BY LinkageAssumption
  <2> QED
    BY <1>1, <1>4, <1>8, <2>1 DEF Added
<1> QED
  BY <1>7, <1>9, <1>10, TakenByEach

\* A refusal changes nothing but the decision.
LEMMA RejectKeeps ==
    ASSUME AccountInv, NEW c \in Commands, Reject(c)
    PROVE  Books' /\ TakenAsAsked'
<1>1. outcome \in [Commands -> {"none", "accepted", "rejected"}]
  BY DEF AccountInv, Books, InventoryTypeOK
<1>2. outcome' \in [Commands -> {"none", "accepted", "rejected"}]
  BY <1>1 DEF Reject
<1>3. Books'
  <2>1. /\ today' \in 0 .. MaxDay /\ products' \subseteq Products
        /\ UNCHANGED <<stock, records, published>>
    BY DEF Reject, AccountInv, Books, InventoryTypeOK
  <2> QED
    BY <1>2, <2>1, OthersKeep DEF AccountInv
<1>4. \A d \in Commands : TakenFrom(d, records, outcome[d])
  BY TakenByEach DEF AccountInv
<1>5. ASSUME NEW d \in Commands
      PROVE  TakenFrom(d, records', outcome'[d])
  BY <1>1, <1>4 DEF Reject, TakenFrom
<1> QED
  BY <1>3, <1>5, TakenByEach

\* Nothing that leaves the deductions and their records alone changes the story.
LEMMA StoryStays ==
    ASSUME DeductionsTellTheStory, deductions' = deductions,
           \A k \in Rules \X RunIds :
             /\ suggestion'[k].status = "deducted" <=> suggestion[k].status = "deducted"
             /\ {r \in records' : r.operation = k} = {r \in records : r.operation = k}
    PROVE  DeductionsTellTheStory'
BY DEF DeductionsTellTheStory

\* Every step of the inventory keeps the invariant.
LEMMA InventoryStep ==
    ASSUME AccountInv, InventoryNext, UNCHANGED linkageVars
    PROVE  AccountInv'
<1>1. LinkageTypeOK'
  BY DEF AccountInv, LinkageTypeOK, linkageVars
<1>2. deductions' = deductions /\ suggestion' = suggestion /\ RunsFit'
  BY DEF linkageVars, AccountInv, RunsFit
<1>3. ASSUME UNCHANGED records
      PROVE  DeductionsTellTheStory'
  BY <1>2, <1>3, StoryStays DEF AccountInv
<1>4. ASSUME UNCHANGED <<records, outcome>>
      PROVE  TakenAsAsked'
  BY <1>4 DEF AccountInv, TakenAsAsked
<1>5. Books
  BY DEF AccountInv
<1>6. ASSUME NEW i \in Batches, NEW p \in Products, NEW e \in 0 .. MaxDay \cup {NoExpiry},
             InsertBatch(i, p, e)
      PROVE  AccountInv'
  <2>1. Books'
    BY <1>5, <1>6, InsertBatchKeeps
  <2> QED
    BY <1>1, <1>2, <1>3, <1>4, <1>6, <2>1 DEF InsertBatch, AccountInv
<1>7. ASSUME NEW i \in Batches, NEW p \in Products, NEW e \in 0 .. MaxDay \cup {NoExpiry},
             EditBatch(i, p, e)
      PROVE  AccountInv'
  <2>1. Books'
    BY <1>5, <1>7, EditBatchKeeps
  <2> QED
    BY <1>1, <1>2, <1>3, <1>4, <1>7, <2>1 DEF EditBatch, AccountInv
<1>8. ASSUME NEW i \in Batches, DeleteBatch(i)
      PROVE  AccountInv'
  <2>1. Books'
    BY <1>5, <1>8, DeleteBatchKeeps
  <2> QED
    BY <1>1, <1>2, <1>3, <1>4, <1>8, <2>1 DEF DeleteBatch, AccountInv
<1>9. ASSUME NEW p \in Products, DeleteProduct(p) \/ SaveProduct(p)
      PROVE  AccountInv'
  <2>1. Books'
    BY <1>5, <1>9, OthersKeep DEF DeleteProduct, SaveProduct, Books, InventoryTypeOK
  <2> QED
    BY <1>1, <1>2, <1>3, <1>4, <1>9, <2>1 DEF DeleteProduct, SaveProduct, AccountInv
<1>10. ASSUME NextDay
       PROVE  AccountInv'
  <2>1. today' \in 0 .. MaxDay
    BY <1>5, <1>10, StockAssumption DEF NextDay, Books, InventoryTypeOK
  <2>2. Books'
    BY <1>5, <1>10, <2>1, OthersKeep DEF NextDay, Books, InventoryTypeOK
  <2> QED
    BY <1>1, <1>2, <1>3, <1>4, <1>10, <2>2 DEF NextDay, AccountInv
<1>11. ASSUME NEW c \in Commands, Execute(c)
       PROVE  AccountInv'
  <2>1. DeductionsTellTheStory'
    BY <1>2, <1>11, ExecuteKeeps, StoryStays DEF AccountInv
  <2> QED
    BY <1>1, <1>2, <1>11, <2>1, ExecuteKeeps DEF AccountInv
<1>12. ASSUME NEW c \in Commands, Reject(c)
       PROVE  AccountInv'
  BY <1>1, <1>2, <1>3, <1>12, RejectKeeps DEF Reject, AccountInv
<1> QED
  BY <1>6, <1>7, <1>8, <1>9, <1>10, <1>11, <1>12 DEF InventoryNext

-----------------------------------------------------------------------------
(* Appliances *)

\* A sum of naturals is one.
LEMMA SumIsNat ==
    ASSUME NEW D, IsFiniteSet(D), NEW f \in [D -> Nat]
    PROVE  SumFunction(f) \in Nat
<1> DEFINE Good == {S \in SUBSET D : SumOver(f, S) \in Nat}
<1>1. f \in [D -> Int]
  OBVIOUS
<1>2. ASSUME NEW S \in SUBSET D, \A U \in SUBSET S : U # S => U \in Good
      PROVE  S \in Good
  <2>1. CASE S = {}
    <3>1. SumOver(f, {}) = 0
      BY <1>1, SumFacts
    <3> QED
      BY <2>1, <3>1
  <2>2. CASE S # {}
    <3>1. PICK x \in S : TRUE
      BY <2>2
    <3>2. SumOver(f, S) = f[x] + SumOver(f, S \ {x})
      BY <1>1, SumRemove
    <3>3. SumOver(f, S \ {x}) \in Nat /\ f[x] \in Nat
      BY <1>2
    <3> QED
      BY <3>2, <3>3
  <2> QED
    BY <2>1, <2>2
<1>3. SUBSET D \subseteq Good
  <2> HIDE DEF Good
  <2> QED
    BY <1>2, OverSubsets
<1>4. SumOver(f, D) \in Nat
  BY <1>3
<1> QED
  BY <1>1, <1>4, SumFacts

\* The columns of a suggestion, with their types.
LEMMA SuggestionFields ==
    ASSUME LinkageTypeOK, NEW k \in Rules \X RunIds
    PROVE  /\ suggestion[k] \in Suggestion /\ suggestion[k].recipe \in Recipes
           /\ suggestion[k].status \in {"none", "pending", "insufficient_stock", "deducted", "ignored"}
           /\ suggestion[k].purchases \in [Products -> Nat]
BY DEF LinkageTypeOK, Suggestion

\* A recipe needs a natural amount of every product.
LEMMA RequiredIsNat ==
    ASSUME LinkageTypeOK, NEW c \in Recipes, NEW p \in Products
    PROVE  Required(c, p) \in Nat
<1>1. \A g \in Groups : recipe[c][g] \in Nat
  BY LinkageAssumption DEF LinkageTypeOK
<1>2. \A g \in Groups : group[g][p] \in Nat
  <2>1. \A g \in Groups : group[g] \in [Products -> Nat]
    BY LinkageAssumption DEF LinkageTypeOK, Nothing
  <2> QED
    BY <2>1
<1> DEFINE f == [g \in Groups |-> recipe[c][g] * group[g][p]]
<1>3. f \in [Groups -> Nat]
  <2>1. \A g \in Groups : recipe[c][g] * group[g][p] \in Nat
    <3>1. \A m, n \in Nat : m * n \in Nat
      OBVIOUS
    <3> QED
      BY <1>1, <1>2, <3>1
  <2> QED
    BY <2>1
<1> HIDE DEF f
<1>4. SumFunction(f) \in Nat
  BY <1>3, LinkageAssumption, SumIsNat
<1> QED
  BY <1>4 DEF Required, f

\* There is a natural amount of every product, the sum over its usable batches.
LEMMA AvailableIsNat ==
    ASSUME InventoryTypeOK, NEW p
    PROVE  Available(p) \in Nat /\ Available(p) = SumFunction([i \in Usable(p) |-> stock[i].quantity])
<1> DEFINE f == [i \in Usable(p) |-> stock[i].quantity]
<1>1. Usable(p) \in SUBSET Batches
  BY DEF Usable
<1>2. IsFiniteSet(Usable(p))
  BY <1>1, StockAssumption, FS_Subset
<1>3. f \in [Usable(p) -> Nat]
  <2>1. \A i \in Batches : stock[i].quantity \in Nat
    BY RowFields, StockAssumption
  <2> QED
    BY <1>1, <2>1
<1> HIDE DEF f
<1>4. SumFunction(f) \in Nat
  BY <1>2, <1>3, SumIsNat
<1> QED
  BY <1>4 DEF Available, QuantityOf, f

\* What is missing is a natural amount of every product.
LEMMA PurchasesType ==
    ASSUME InventoryTypeOK, LinkageTypeOK, NEW c \in Recipes
    PROVE  PurchasesFor(c) \in [Products -> Nat]
<1>1. \A p \in Products : Available(p) \in Nat /\ Required(c, p) \in Nat
  BY AvailableIsNat, RequiredIsNat
<1> QED
  BY <1>1 DEF PurchasesFor

\* What a confirmation takes.
Drawn(c, take) ==
    /\ take \in [Batches -> Nat]
    /\ \A i \in Batches : take[i] <= stock[i].quantity
    /\ \A i \in Batches : take[i] > 0 => i \in Usable(stock[i].product)
    /\ \A p \in Products : SumFunction([i \in Usable(p) |-> take[i]]) = Required(c, p)

\* TakenFor takes that, when all locks find enough.
LEMMA DrawnIsRequired ==
    ASSUME InventoryTypeOK, LinkageTypeOK, NEW c \in Recipes, Lockable(c),
           NEW take, take = TakenFor(c)
    PROVE  Drawn(c, take)
<1> DEFINE share(p) == Allocate(stock, Usable(p), Required(c, p))
<1>1. take = [i \in Batches |-> share(stock[i].product)[i]]
  BY DEF TakenFor
<1>2. Rows(stock)
  BY StockRows
<1>3. ASSUME NEW p \in Products
      PROVE  /\ share(p) \in [Batches -> Nat]
             /\ \A i \in Usable(p) : share(p)[i] <= stock[i].quantity
             /\ \A i \in Batches \ Usable(p) : share(p)[i] = 0
             /\ SumFunction(share(p)) = Required(c, p)
  <2>1. Usable(p) \in SUBSET Batches
    BY DEF Usable
  <2>2. Required(c, p) \in Nat
    BY RequiredIsNat
  <2>3. Required(c, p) <= QuantityOf(stock, Usable(p))
    <3>1. Available(p) \in Nat /\ Available(p) >= Required(c, p)
      BY AvailableIsNat DEF Lockable
    <3> QED
      BY <2>2, <3>1 DEF Available
  <2> QED
    BY ONLY <1>2, <2>1, <2>2, <2>3, Allocation
<1> HIDE DEF share
<1>4. \A i \in Batches : stock[i].product \in Products /\ stock[i].quantity \in Nat
  BY RowFields, StockAssumption
<1>5. take \in [Batches -> Nat]
  BY <1>1, <1>3, <1>4
<1>6. ASSUME NEW i \in Batches
      PROVE  take[i] <= stock[i].quantity /\ (take[i] > 0 => i \in Usable(stock[i].product))
  BY <1>1, <1>3, <1>4
<1>7. ASSUME NEW p \in Products
      PROVE  SumFunction([i \in Usable(p) |-> take[i]]) = Required(c, p)
  <2>1. \A i \in Usable(p) : i \in Batches /\ stock[i].product = p
    BY DEF Usable
  <2>2. [i \in Usable(p) |-> take[i]] = [i \in Usable(p) |-> share(p)[i]]
    BY <1>1, <2>1
  <2>3. SumFunction(share(p)) = SumFunction([i \in Usable(p) |-> share(p)[i]])
    <3>1. share(p) \in [Batches -> Int] /\ Usable(p) \in SUBSET Batches /\ IsFiniteSet(Batches)
      BY <1>3, <2>1, StockAssumption
    <3> QED
      BY <1>3, <3>1, SumWithoutZeros
  <2> QED
    BY <1>3, <2>2, <2>3
<1> QED
  BY <1>5, <1>6, <1>7 DEF Drawn

\* The row a deduction leaves.
LEMMA DeductedRow ==
    ASSUME NEW b \in Batch, NEW n \in Nat, n <= b.quantity
    PROVE  /\ Deducted(b, n) \in Batch
           /\ Deducted(b, n).exists = b.exists /\ Deducted(b, n).live = b.live
           /\ Deducted(b, n).product = b.product /\ Deducted(b, n).expiry = b.expiry
           /\ Deducted(b, n).quantity = b.quantity - n
           /\ Deducted(b, n).initial = b.initial
           /\ Deducted(b, n).status = IF b.quantity = n THEN "used_up" ELSE "active"
<1> DEFINE q == b.quantity - n
           v == b.version + 1
           s == IF b.quantity = n THEN "used_up" ELSE "active"
           row == [b EXCEPT !.quantity = q, !.version = v, !.status = s]
<1>1. Deducted(b, n) = row
  BY DEF Deducted, Batch
<1>2. q \in 0 .. MaxQuantity /\ v \in Nat /\ s \in Statuses
  BY StockAssumption DEF Batch, Statuses
<1>3. b = [exists |-> b.exists, live |-> b.live, product |-> b.product,
           expiry |-> b.expiry, quantity |-> b.quantity, initial |-> b.initial,
           version |-> b.version, status |-> b.status]
  BY DEF Batch
<1> HIDE DEF q, v, s
<1>4. /\ row.quantity = q /\ row.initial = b.initial /\ row.status = s
      /\ row.exists = b.exists /\ row.live = b.live
      /\ row.product = b.product /\ row.expiry = b.expiry
  BY <1>3
<1>5. row \in Batch
  BY <1>2 DEF Batch
<1> QED
  BY <1>1, <1>4, <1>5 DEF q, s

\* Confirmations are movements of stock, as commands are.
DeductRows(take) ==
    [i \in Batches |-> IF take[i] > 0 THEN Deducted(stock[i], take[i]) ELSE stock[i]]

\* The changes of a confirmation.
Drain(take) == [i \in {j \in Batches : take[j] > 0} |-> -take[i]]

\* Taking what was drawn is a movement of stock.
LEMMA DeductMoves ==
    ASSUME Books, NEW c \in Recipes, NEW take, Drawn(c, take), NEW k, Fresh(k, records)
    PROVE  /\ Moves(k, {i \in Batches : take[i] > 0}, Drain(take), DeductRows(take))
           /\ NewRecords(k, {i \in Batches : take[i] > 0}, Drain(take))
                = {[operation |-> k, batch |-> i, change |-> -take[i]]
                     : i \in {j \in Batches : take[j] > 0}}
<1> DEFINE touched == {i \in Batches : take[i] > 0}
           change == Drain(take)
           rows == DeductRows(take)
<1>1. touched \in SUBSET Batches /\ \A i \in touched : take[i] \in Nat /\ take[i] > 0
  BY DEF Drawn
<1>2. change \in [touched -> Int] /\ \A i \in touched : change[i] = -take[i]
  BY <1>1 DEF Drain
<1>3. ASSUME NEW i \in touched
      PROVE  /\ rows[i] \in Batch /\ stock[i].live
             /\ rows[i].live = stock[i].live /\ rows[i].exists = stock[i].exists
             /\ rows[i].quantity = stock[i].quantity + change[i]
             /\ rows[i].initial = stock[i].initial + (IF change[i] > 0 THEN change[i] ELSE 0)
             /\ rows[i].quantity > 0 => rows[i].status = "active"
  <2> DEFINE b == stock[i]
             n == take[i]
  <2>1. i \in Batches /\ n \in Nat /\ n > 0 /\ n <= b.quantity
    BY <1>1 DEF Drawn
  <2>2. b \in Batch /\ b.quantity \in Nat /\ b.initial \in Nat
    BY <2>1, RowFields, StockAssumption DEF Books
  <2>3. b.live
    BY <2>1 DEF Drawn, Usable
  <2>4. rows[i] = Deducted(b, n)
    BY <2>1 DEF DeductRows
  <2>5. change[i] = -n
    BY <1>2
  <2> HIDE DEF b, n, rows, change, touched
  <2>6. /\ rows[i] \in Batch
        /\ rows[i].exists = b.exists /\ rows[i].live = b.live
        /\ rows[i].quantity = b.quantity - n
        /\ rows[i].initial = b.initial
        /\ rows[i].status = IF b.quantity = n THEN "used_up" ELSE "active"
    BY <2>1, <2>2, <2>4, DeductedRow
  <2>7. /\ rows[i].quantity = b.quantity + change[i]
        /\ rows[i].initial = b.initial + (IF change[i] > 0 THEN change[i] ELSE 0)
        /\ rows[i].quantity > 0 => rows[i].status = "active"
    BY <2>1, <2>2, <2>5, <2>6
  <2> QED
    BY <2>3, <2>6, <2>7 DEF b
<1>4. \A i \in Batches \ touched : rows[i] = stock[i]
  BY DEF DeductRows
<1>5. rows \in [Batches -> Batch]
  <2>1. \A i \in Batches : rows[i] \in Batch
    BY <1>3, <1>4, RowFields DEF Books
  <2>2. rows = [i \in Batches |-> rows[i]]
    BY DEF DeductRows
  <2> HIDE DEF rows
  <2> QED
    BY <2>1, <2>2
<1>6. NewRecords(k, touched, change) = {[operation |-> k, batch |-> i, change |-> -take[i]] : i \in touched}
  BY <1>2 DEF NewRecords, RecordOf
<1> HIDE DEF touched, change, rows
<1>7. Moves(k, touched, change, rows)
  BY <1>1, <1>2, <1>3, <1>4, <1>5 DEF Moves
<1> QED
  BY <1>6, <1>7 DEF touched, change, rows

\* What Deduct does, in the terms above.
LEMMA DeductFacts ==
    ASSUME AccountInv, NEW k \in Rules \X RunIds, Deduct(k),
           NEW take, take = TakenFor(suggestion[k].recipe),
           NEW touched, touched = {i \in Batches : take[i] > 0}
    PROVE  /\ Drawn(suggestion[k].recipe, take) /\ Fresh(k, records)
           /\ Moves(k, touched, Drain(take), DeductRows(take))
           /\ Added(records, k, touched, Drain(take))
           /\ touched # {}
           /\ stock' = DeductRows(take) /\ Publish(DeductRows(take), touched)
           /\ records' = records \cup NewRecords(k, touched, Drain(take))
           /\ deductions' = deductions \cup
                {[of |-> k, batch |-> i, quantity |-> take[i]] : i \in touched}
           /\ {d \in deductions : d.of = k} = {}
<1> DEFINE c == suggestion[k].recipe
<1>1. c \in Recipes /\ Lockable(c) /\ Open(k)
  BY SuggestionFields DEF Deduct, AccountInv
<1>2. Drawn(c, take)
  <2> HIDE DEF c
  <2>1. take = TakenFor(c)
    BY DEF c
  <2> QED
    BY <1>1, <2>1, DrawnIsRequired DEF AccountInv, Books
<1>3. {d \in deductions : d.of = k} = {} /\ Fresh(k, records)
  <2>1. suggestion[k].status # "deducted"
    BY <1>1 DEF Open
  <2>2. {d \in deductions : d.of = k} = {}
    BY <2>1 DEF AccountInv, DeductionsTellTheStory
  <2>3. {r \in records : r.operation = k}
           = {[operation |-> k, batch |-> d.batch, change |-> -d.quantity]
                : d \in {e \in deductions : e.of = k}}
    BY DEF AccountInv, DeductionsTellTheStory
  <2>4. {r \in records : r.operation = k} = {}
    BY <2>2, <2>3
  <2> QED
    BY <2>2, <2>4 DEF Fresh
<1>4. /\ Moves(k, touched, Drain(take), DeductRows(take))
      /\ NewRecords(k, touched, Drain(take))
           = {[operation |-> k, batch |-> i, change |-> -take[i]] : i \in touched}
  <2> HIDE DEF c
  <2> QED
    BY <1>1, <1>2, <1>3, DeductMoves DEF AccountInv
<1>5. Added(records, k, touched, Drain(take))
  <2>1. touched \in SUBSET Batches /\ Drain(take) \in [touched -> Int] /\ Changes(records)
    BY <1>4 DEF Moves, AccountInv, Books
  <2> QED
    BY <1>3, <2>1, RecordsAdded
<1>6. /\ touched # {}
      /\ deductions' = deductions \cup {[of |-> k, batch |-> i, quantity |-> take[i]] : i \in touched}
  BY DEF Deduct
<1>7. stock' = DeductRows(take) /\ Publish(DeductRows(take), touched)
  BY DEF Deduct, DeductRows
<1>8. records' = records \cup NewRecords(k, touched, Drain(take))
  BY <1>4 DEF Deduct, RecordDeduction
<1> QED
  BY <1>2, <1>3, <1>4, <1>5, <1>6, <1>7, <1>8

\* A confirmation writes its deductions and its records alike.
LEMMA DeductTells ==
    ASSUME AccountInv, NEW k \in Rules \X RunIds, Deduct(k)
    PROVE  DeductionsTellTheStory'
<1> DEFINE take == TakenFor(suggestion[k].recipe)
           touched == {i \in Batches : take[i] > 0}
           new == {[of |-> k, batch |-> i, quantity |-> take[i]] : i \in touched}
<1>1. /\ Added(records, k, touched, Drain(take)) /\ touched # {}
      /\ records' = records \cup NewRecords(k, touched, Drain(take))
      /\ deductions' = deductions \cup new
      /\ {d \in deductions : d.of = k} = {}
      /\ take \in [Batches -> Nat]
  <2> HIDE DEF take, touched
  <2>1. touched = {i \in Batches : take[i] > 0} /\ take = TakenFor(suggestion[k].recipe)
    BY DEF take, touched
  <2>2. Drawn(suggestion[k].recipe, take)
    BY <2>1, DeductFacts
  <2>3. take \in [Batches -> Nat]
    BY <2>2 DEF Drawn
  <2> QED
    BY <2>1, <2>3, DeductFacts
<1>2. suggestion \in [Rules \X RunIds -> Suggestion]
  BY DEF AccountInv, LinkageTypeOK
<1>3. suggestion'[k].status = "deducted"
      /\ \A j \in Rules \X RunIds : j # k => suggestion'[j] = suggestion[j]
  BY <1>2 DEF Deduct, Suggestion
<1>4. NewRecords(k, touched, Drain(take))
        = {[operation |-> k, batch |-> i, change |-> -take[i]] : i \in touched}
  <2>1. \A i \in touched : Drain(take)[i] = -take[i]
    BY DEF Drain
  <2> HIDE DEF take, touched
  <2> QED
    BY <2>1 DEF NewRecords, RecordOf
<1> HIDE DEF take, touched
<1>5. {d \in deductions' : d.of = k} = new
  BY <1>1
<1>6. new # {}
  BY <1>1
<1>7. {r \in records' : r.operation = k} = NewRecords(k, touched, Drain(take))
  BY <1>1 DEF Added
<1>8. {[operation |-> k, batch |-> d.batch, change |-> -d.quantity] : d \in new}
        = {[operation |-> k, batch |-> i, change |-> -take[i]] : i \in touched}
  <2>1. ASSUME NEW d \in new
        PROVE  \E i \in touched : d.batch = i /\ d.quantity = take[i]
    OBVIOUS
  <2>2. ASSUME NEW i \in touched
        PROVE  \E d \in new : d.batch = i /\ d.quantity = take[i]
    <3>1. [of |-> k, batch |-> i, quantity |-> take[i]] \in new
      OBVIOUS
    <3> QED
      BY <3>1
  <2> HIDE DEF new
  <2>3. ASSUME NEW r \in {[operation |-> k, batch |-> d.batch, change |-> -d.quantity] : d \in new}
        PROVE  r \in {[operation |-> k, batch |-> i, change |-> -take[i]] : i \in touched}
    <3>1. PICK d \in new : r = [operation |-> k, batch |-> d.batch, change |-> -d.quantity]
      OBVIOUS
    <3>2. PICK i \in touched : d.batch = i /\ d.quantity = take[i]
      BY <2>1
    <3> QED
      BY <3>1, <3>2
  <2>4. ASSUME NEW r \in {[operation |-> k, batch |-> i, change |-> -take[i]] : i \in touched}
        PROVE  r \in {[operation |-> k, batch |-> d.batch, change |-> -d.quantity] : d \in new}
    <3>1. PICK i \in touched : r = [operation |-> k, batch |-> i, change |-> -take[i]]
      OBVIOUS
    <3>2. PICK d \in new : d.batch = i /\ d.quantity = take[i]
      BY <2>2
    <3> QED
      BY <3>1, <3>2
  <2> QED
    BY <2>3, <2>4
<1>9. ASSUME NEW j \in Rules \X RunIds, j # k
      PROVE  /\ {d \in deductions' : d.of = j} = {d \in deductions : d.of = j}
             /\ {r \in records' : r.operation = j} = {r \in records : r.operation = j}
             /\ suggestion'[j] = suggestion[j]
  BY <1>1, <1>3, <1>9 DEF Added
<1> HIDE DEF new
<1>10. ASSUME NEW j \in Rules \X RunIds
       PROVE  LET own == {d \in deductions' : d.of = j}
              IN /\ suggestion'[j].status = "deducted" <=> own # {}
                 /\ {[operation |-> j, batch |-> d.batch, change |-> -d.quantity] : d \in own}
                      = {r \in records' : r.operation = j}
  <2>1. CASE j = k
    BY <1>3, <1>4, <1>5, <1>6, <1>7, <1>8, <2>1
  <2>2. CASE j # k
    BY <1>9, <2>2 DEF AccountInv, DeductionsTellTheStory
  <2> QED
    BY <2>1, <2>2
<1> QED
  BY <1>10 DEF DeductionsTellTheStory

\* A confirmation writes rows of the right types.
LEMMA DeductTypes ==
    ASSUME AccountInv, NEW k \in Rules \X RunIds, Deduct(k)
    PROVE  LinkageTypeOK'
<1> DEFINE take == TakenFor(suggestion[k].recipe)
           touched == {i \in Batches : take[i] > 0}
<1>1. /\ deductions' = deductions \cup {[of |-> k, batch |-> i, quantity |-> take[i]] : i \in touched}
      /\ Drawn(suggestion[k].recipe, take)
  <2> HIDE DEF take, touched
  <2>1. touched = {i \in Batches : take[i] > 0} /\ take = TakenFor(suggestion[k].recipe)
    BY DEF take, touched
  <2> QED
    BY <2>1, DeductFacts
<1>2. \A i \in touched : i \in Batches /\ take[i] \in 1 .. MaxQuantity
  <2> HIDE DEF take
  <2>1. \A i \in Batches : stock[i].quantity \in 0 .. MaxQuantity
    BY RowFields DEF AccountInv, Books
  <2> QED
    BY <1>1, <2>1, StockAssumption DEF Drawn
<1> HIDE DEF take, touched
<1>3. \A d \in deductions' : /\ d.of \in Rules \X RunIds /\ d.batch \in Batches
                              /\ d.quantity \in 1 .. MaxQuantity
  BY <1>1, <1>2 DEF AccountInv, LinkageTypeOK
<1>4. suggestion' \in [Rules \X RunIds -> Suggestion]
  <2>1. suggestion' = [suggestion EXCEPT ![k] = [@ EXCEPT !.status = "deducted", !.purchases = Nothing]]
    BY DEF Deduct
  <2>2. suggestion \in [Rules \X RunIds -> Suggestion]
    BY DEF AccountInv, LinkageTypeOK
  <2>3. Nothing \in [Products -> Nat]
    BY DEF Nothing
  <2>4. [suggestion[k] EXCEPT !.status = "deducted", !.purchases = Nothing] \in Suggestion
    BY <2>2, <2>3 DEF Suggestion
  <2> QED
    BY <2>1, <2>2, <2>4
<1>5. UNCHANGED <<group, recipe, rule, run, refusedRules>>
  BY DEF Deduct
<1> QED
  BY <1>3, <1>4, <1>5 DEF AccountInv, LinkageTypeOK

\* A confirmation keeps the invariant.
LEMMA DeductKeeps ==
    ASSUME AccountInv, NEW k \in Rules \X RunIds, Deduct(k)
    PROVE  AccountInv'
<1> DEFINE take == TakenFor(suggestion[k].recipe)
           touched == {i \in Batches : take[i] > 0}
<1>1. /\ Moves(k, touched, Drain(take), DeductRows(take))
      /\ Added(records, k, touched, Drain(take))
      /\ stock' = DeductRows(take) /\ Publish(DeductRows(take), touched)
      /\ records' = records \cup NewRecords(k, touched, Drain(take))
  <2> HIDE DEF take, touched
  <2>1. touched = {i \in Batches : take[i] > 0} /\ take = TakenFor(suggestion[k].recipe)
    BY DEF take, touched
  <2> QED
    BY <2>1, DeductFacts
<1> HIDE DEF take, touched
<1>2. UNCHANGED <<today, products, outcome>>
  BY DEF Deduct
<1>3. Books'
  <2>1. outcome' \in [Commands -> {"none", "accepted", "rejected"}] /\ Books
    BY <1>2 DEF AccountInv, Books, InventoryTypeOK
  <2> QED
    BY <1>1, <1>2, <2>1, MovesKeep
<1>4. ASSUME NEW c \in Commands
      PROVE  TakenFrom(c, records', outcome'[c])
  <2>1. TakenFrom(c, records, outcome[c])
    BY TakenByEach DEF AccountInv
  <2>2. k # c.operation
    BY LinkageAssumption
  <2>3. outcome'[c] = outcome[c]
    BY <1>2
  <2> QED
    BY <1>1, <2>1, <2>2, <2>3, OthersTake
<1>5. RunsFit'
  <2>1. suggestion \in [Rules \X RunIds -> Suggestion]
    BY DEF AccountInv, LinkageTypeOK
  <2>2. \A j \in Rules \X RunIds : j # k => suggestion'[j] = suggestion[j]
    BY <2>1 DEF Deduct
  <2>3. run' = run /\ suggestion[k].status # "none"
    BY DEF Deduct, Open
  <2> QED
    BY <2>2, <2>3 DEF AccountInv, RunsFit
<1> QED
  BY <1>3, <1>4, <1>5, TakenByEach, DeductTells, DeductTypes DEF AccountInv

\* The other steps of the appliances leave the stock and its history alone.
LEMMA LinkageOnly ==
    ASSUME AccountInv, UNCHANGED inventoryVars, deductions' = deductions, LinkageTypeOK', RunsFit',
           \A k \in Rules \X RunIds :
             suggestion'[k].status = "deducted" <=> suggestion[k].status = "deducted"
    PROVE  AccountInv'
<1>1. UNCHANGED <<today, products, stock, records, published, outcome>>
  BY DEF inventoryVars
<1>2. Books'
  <2>1. today' \in 0 .. MaxDay /\ products' \subseteq Products
        /\ outcome' \in [Commands -> {"none", "accepted", "rejected"}] /\ Books
    BY <1>1 DEF AccountInv, Books, InventoryTypeOK
  <2> QED
    BY <1>1, <2>1, OthersKeep
<1>3. TakenAsAsked'
  BY <1>1 DEF AccountInv, TakenAsAsked
<1>4. DeductionsTellTheStory'
  BY <1>1, StoryStays DEF AccountInv
<1> QED
  BY <1>2, <1>3, <1>4 DEF AccountInv

\* Saving groups, recipes and rules keeps the invariant.
LEMMA ConfigureStep ==
    ASSUME AccountInv, Configure
    PROVE  AccountInv'
<1>1. LinkageTypeOK
  BY DEF AccountInv
<1>6. ASSUME UNCHANGED <<run, suggestion>>
      PROVE  RunsFit'
  BY <1>6 DEF AccountInv, RunsFit
<1>2. ASSUME NEW g \in Groups, NEW items \in GroupChoices, SaveConsumableGroup(g, items)
      PROVE  AccountInv'
  <2>1. LinkageTypeOK'
    BY <1>1, <1>2 DEF LinkageTypeOK, SaveConsumableGroup
  <2> QED
    BY <1>2, <2>1, <1>6, LinkageOnly DEF SaveConsumableGroup
<1>3. ASSUME NEW c \in Recipes, NEW groups \in RecipeChoices, SaveConsumableRecipe(c, groups)
      PROVE  AccountInv'
  <2>1. LinkageTypeOK'
    BY <1>1, <1>3 DEF LinkageTypeOK, SaveConsumableRecipe
  <2> QED
    BY <1>3, <2>1, <1>6, LinkageOnly DEF SaveConsumableRecipe
<1>4. ASSUME NEW r \in Rules, NEW e \in Entities, NEW c \in Recipes, NEW s \in States,
             NEW on \in BOOLEAN, SaveLinkageRule(r, e, c, s, on)
      PROVE  AccountInv'
  <2>1. [saved |-> TRUE, enabled |-> on, entity |-> e, recipe |-> c, start |-> s] \in Rule
    BY DEF Rule
  <2>2. LinkageTypeOK'
    BY <1>1, <1>4, <2>1 DEF LinkageTypeOK, SaveLinkageRule
  <2> QED
    BY <1>4, <2>2, <1>6, LinkageOnly DEF SaveLinkageRule
<1>5. ASSUME NEW r \in Rules, NEW c \in Recipes, CreateLinkageRule(r, c)
      PROVE  AccountInv'
  <2>1. LinkageTypeOK'
    BY <1>1, <1>5 DEF LinkageTypeOK, CreateLinkageRule
  <2> QED
    BY <1>5, <2>1, <1>6, LinkageOnly DEF CreateLinkageRule
<1> QED
  BY <1>2, <1>3, <1>4, <1>5 DEF Configure

\* Only the suggestion of one run changes, and it stays or becomes open or ignored.
LEMMA SuggestionSet ==
    ASSUME AccountInv, NEW k \in Rules \X RunIds, NEW row \in Suggestion,
           suggestion' = [suggestion EXCEPT ![k] = row],
           run' \in [Rules \X RunIds -> {"none"} \cup States],
           \A j \in Rules \X RunIds : j # k => run'[j] = run[j],
           suggestion[k].status # "deducted", row.status # "deducted", run'[k] = "completed",
           UNCHANGED <<inventoryVars, group, recipe, rule, deductions, refusedRules>>
    PROVE  AccountInv'
<1>1. suggestion \in [Rules \X RunIds -> Suggestion]
  BY DEF AccountInv, LinkageTypeOK
<1>2. suggestion' \in [Rules \X RunIds -> Suggestion]
  BY <1>1
<1>3. LinkageTypeOK'
  BY <1>2 DEF AccountInv, LinkageTypeOK
<1>4. \A j \in Rules \X RunIds : suggestion'[j] = IF j = k THEN row ELSE suggestion[j]
  BY <1>1
<1>5. RunsFit'
  BY <1>4 DEF AccountInv, RunsFit
<1> QED
  BY <1>3, <1>4, <1>5, LinkageOnly

\* An event keeps the invariant: it suggests, and takes nothing.
LEMMA EventStep ==
    ASSUME AccountInv, ProcessEvent
    PROVE  AccountInv'
<1>1. LinkageTypeOK
  BY DEF AccountInv
<1>2. ASSUME NEW e \in Entities, NEW s \in States, NEW n \in RunIds, StartRun(e, s, n)
      PROVE  AccountInv'
  <2>1. PICK r \in Rules : run[<<r, n>>] = "none" /\ run' = [run EXCEPT ![<<r, n>>] = "running"]
    BY <1>2 DEF StartRun
  <2>2. UNCHANGED <<inventoryVars, group, recipe, rule, suggestion, deductions, refusedRules>>
    BY <1>2 DEF StartRun
  <2>3. run \in [Rules \X RunIds -> {"none"} \cup States]
    BY <1>1 DEF LinkageTypeOK
  <2>4. LinkageTypeOK'
    BY <1>1, <2>1, <2>2 DEF LinkageTypeOK, States
  <2>5. RunsFit'
    <3>1. suggestion[<<r, n>>].status = "none"
      BY <2>1 DEF AccountInv, RunsFit
    <3>2. \A k \in Rules \X RunIds : k # <<r, n>> => run'[k] = run[k]
      BY <2>1, <2>3
    <3> QED
      BY <2>2, <3>1, <3>2 DEF AccountInv, RunsFit
  <2> QED
    BY <2>2, <2>4, <2>5, LinkageOnly
<1>3. ASSUME NEW e \in Entities, NEW s \in States, NEW n \in RunIds, CompleteRun(e, s, n)
      PROVE  AccountInv'
  <2>1. PICK r \in Rules : /\ Completable(r, n) /\ CreateSuggestion(r, n)
                           /\ run' = [run EXCEPT ![<<r, n>>] = "completed"]
    BY <1>3 DEF CompleteRun
  <2>2. UNCHANGED <<inventoryVars, group, recipe, rule, deductions, refusedRules>>
    BY <1>3 DEF CompleteRun
  <2> DEFINE k == <<r, n>>
             purchases == PurchasesFor(rule[r].recipe)
             row == [status |-> IF purchases = Nothing THEN "pending" ELSE "insufficient_stock",
                     recipe |-> rule[r].recipe, purchases |-> purchases]
  <2>3. k \in Rules \X RunIds
    OBVIOUS
  <2>4. rule[r].recipe \in Recipes
    BY <1>1 DEF LinkageTypeOK, Rule
  <2>5. purchases \in [Products -> Nat]
    BY <1>1, <2>4, PurchasesType DEF AccountInv, Books
  <2>6. suggestion' = [suggestion EXCEPT ![k] = row]
    BY <2>1 DEF CreateSuggestion
  <2> HIDE DEF purchases
  <2>7. row \in Suggestion /\ row.status # "deducted"
    BY <2>4, <2>5 DEF Suggestion
  <2>8. suggestion[k].status # "deducted"
    BY <2>1, <2>3 DEF Completable, AccountInv, RunsFit
  <2>9. /\ run' \in [Rules \X RunIds -> {"none"} \cup States]
        /\ run'[k] = "completed" /\ \A j \in Rules \X RunIds : j # k => run'[j] = run[j]
    BY <1>1, <2>1, <2>3 DEF LinkageTypeOK, States
  <2> HIDE DEF k, row
  <2> QED
    BY <2>2, <2>3, <2>6, <2>7, <2>8, <2>9, SuggestionSet
<1> QED
  BY <1>2, <1>3 DEF ProcessEvent

\* A decision keeps the invariant.
LEMMA DecisionStep ==
    ASSUME AccountInv, ResolveLinkageSuggestion
    PROVE  AccountInv'
<1>1. LinkageTypeOK
  BY DEF AccountInv
<1>2. ASSUME NEW k \in Rules \X RunIds, Ignore(k)
      PROVE  AccountInv'
  <2> DEFINE row == [suggestion[k] EXCEPT !.status = "ignored"]
  <2>1. suggestion[k].status \in {"pending", "insufficient_stock"}
        /\ suggestion' = [suggestion EXCEPT ![k] = row]
        /\ UNCHANGED <<inventoryVars, group, recipe, rule, run, deductions, refusedRules>>
    BY <1>2 DEF Ignore, Ignorable
  <2>2. row \in Suggestion /\ row.status # "deducted"
    BY <1>1, SuggestionFields DEF Suggestion
  <2>3. run \in [Rules \X RunIds -> {"none"} \cup States] /\ run[k] = "completed"
    BY <1>1, <2>1 DEF LinkageTypeOK, AccountInv, RunsFit
  <2> HIDE DEF row
  <2> QED
    BY <2>1, <2>2, <2>3, SuggestionSet
<1>3. ASSUME NEW k \in Rules \X RunIds, MarkInsufficient(k)
      PROVE  AccountInv'
  <2> DEFINE purchases == PurchasesFor(suggestion[k].recipe)
             row == [suggestion[k] EXCEPT !.status = "insufficient_stock", !.purchases = purchases]
  <2>1. suggestion[k].status \in {"pending", "insufficient_stock"}
        /\ suggestion' = [suggestion EXCEPT ![k] = row]
        /\ UNCHANGED <<inventoryVars, group, recipe, rule, run, deductions, refusedRules>>
    BY <1>3 DEF MarkInsufficient, Open
  <2>2. purchases \in [Products -> Nat]
    BY <1>1, SuggestionFields, PurchasesType DEF AccountInv, Books
  <2> HIDE DEF purchases
  <2>3. row \in Suggestion /\ row.status # "deducted"
    BY <1>1, <2>2, SuggestionFields DEF Suggestion
  <2>4. run \in [Rules \X RunIds -> {"none"} \cup States] /\ run[k] = "completed"
    BY <1>1, <2>1 DEF LinkageTypeOK, AccountInv, RunsFit
  <2> HIDE DEF row
  <2> QED
    BY <2>1, <2>3, <2>4, SuggestionSet
<1> QED
  BY <1>2, <1>3, DeductKeeps DEF ResolveLinkageSuggestion

-----------------------------------------------------------------------------
(* Invariants *)

\* The empty books agree.
LEMMA InitAccounts == LinkageInit => AccountInv
<1> SUFFICES ASSUME LinkageInit PROVE AccountInv
  OBVIOUS
<1>1. /\ today = 0 /\ products = Products /\ stock = [i \in Batches |-> NoBatch] /\ records = {}
      /\ published = [i \in Batches |-> [quantity |-> 0, version |-> 0]]
      /\ outcome = [c \in Commands |-> "none"]
  BY DEF LinkageInit, InventoryInit
<1>2. NoBatch \in Batch /\ NoBatch.quantity = 0 /\ NoBatch.initial = 0 /\ NoBatch.version = 0
      /\ ~NoBatch.live
  BY NoBatchType DEF NoBatch
<1>3. InventoryTypeOK
  BY <1>1, <1>2, StockAssumption DEF InventoryTypeOK
<1>4. StockMatchesRecords
  <2>1. ASSUME NEW i PROVE ChangeOf(i, {}) = 0
    <3>1. {s \in {} : s.batch = i} = {}
      OBVIOUS
    <3>2. SumOver([r \in {} |-> r.change], {}) = 0
      BY FS_EmptySet, SumFacts
    <3>3. [r \in {} |-> [x \in {} |-> x.change][r]] = [r \in {} |-> r.change]
      OBVIOUS
    <3> QED
      BY <3>1, <3>2, <3>3 DEF ChangeOf, SumOver
  <2>2. {r \in records : r.change > 0} = {}
    BY <1>1
  <2>3. \A i \in Batches : stock[i].quantity = 0 /\ stock[i].initial = 0
    BY <1>1, <1>2
  <2> QED
    BY <1>1, <2>1, <2>2, <2>3 DEF StockMatchesRecords
<1>5. LogCarriesStock
  BY <1>1, <1>2 DEF LogCarriesStock
<1>6. NoHiddenStock /\ RowsFit
  BY <1>1, <1>2 DEF NoHiddenStock, RowsFit
<1>7. Changes(records)
  BY <1>1, FS_EmptySet DEF Changes
<1>8. TakenAsAsked
  BY <1>1 DEF TakenAsAsked
<1>9. LinkageTypeOK
  <2>1. (CHOOSE c \in Recipes : TRUE) \in Recipes /\ (CHOOSE e \in Entities : TRUE) \in Entities
    BY LinkageAssumption
  <2>2. ASSUME NEW saved \in BOOLEAN PROVE NewRule(saved) \in Rule
    BY <2>1 DEF NewRule, Rule, States
  <2>3. rule \in [Rules -> Rule]
    <3>1. PICK installed \in SUBSET Rules : rule = [r \in Rules |-> NewRule(r \in installed)]
      BY DEF LinkageInit, AutomationInit
    <3>2. ASSUME NEW r \in Rules PROVE NewRule(r \in installed) \in Rule
      <4>1. (r \in installed) \in BOOLEAN
        OBVIOUS
      <4> QED
        BY <2>2, <4>1
    <3> QED
      BY <3>1, <3>2
  <2>4. Nothing \in [Products -> Nat]
    BY DEF Nothing
  <2> QED
    BY <2>1, <2>3, <2>4
       DEF LinkageInit, AutomationInit, NoRuns, LinkageTypeOK, Suggestion
<1>10. DeductionsTellTheStory
  BY <1>1 DEF LinkageInit, AutomationInit, NoRuns, DeductionsTellTheStory
<1>11. RunsFit
  BY DEF LinkageInit, AutomationInit, NoRuns, RunsFit
<1> QED
  BY <1>3, <1>4, <1>5, <1>6, <1>7, <1>8, <1>9, <1>10, <1>11 DEF AccountInv, Books

\* Every step keeps the invariant, from every state that satisfies it.
LEMMA StepAccounts == AccountInv /\ [LinkageNext]_vars => AccountInv'
<1> SUFFICES ASSUME AccountInv, [LinkageNext]_vars PROVE AccountInv'
  OBVIOUS
<1>1. CASE InventoryNext /\ UNCHANGED linkageVars
  BY <1>1, InventoryStep
<1>2. CASE Configure
  BY <1>2, ConfigureStep
<1>3. CASE ProcessEvent
  BY <1>3, EventStep
<1>4. CASE ResolveLinkageSuggestion
  BY <1>4, DecisionStep
<1>5. CASE UNCHANGED vars
  <2>1. LinkageTypeOK' /\ RunsFit'
    BY <1>5 DEF AccountInv, LinkageTypeOK, RunsFit, vars, linkageVars
  <2> QED
    BY <1>5, <2>1, LinkageOnly DEF vars, linkageVars
<1> QED
  BY <1>1, <1>2, <1>3, <1>4, <1>5 DEF LinkageNext

\* The invariant holds in every reachable state.
LEMMA AlwaysAccounted == LinkageSpec => []AccountInv
BY InitAccounts, StepAccounts, PTL DEF LinkageSpec

\* For every set of batches, commands, rules and recipes: quantities are the sums
\* of the stock history, the log carries them, and no stock is hidden.
THEOREM StockIsAlwaysAccounted == LinkageSpec => []StockIsAccounted
<1>1. AccountInv => StockIsAccounted
  BY DEF AccountInv, Books, StockIsAccounted
<1> QED
  BY <1>1, AlwaysAccounted, PTL

\* Every accepted command took or brought what it asked for, and is in the history.
THEOREM CommandsTakeWhatTheyAsk == LinkageSpec => []TakenAsAsked
<1>1. AccountInv => TakenAsAsked
  BY DEF AccountInv
<1> QED
  BY <1>1, AlwaysAccounted, PTL

\* The deductions of a suggestion and the stock history are the same story.
THEOREM DeductionsAreRecorded == LinkageSpec => []DeductionsTellTheStory
<1>1. AccountInv => DeductionsTellTheStory
  BY DEF AccountInv
<1> QED
  BY <1>1, AlwaysAccounted, PTL

\* "First expired, first out" in the order of the code is that of the last days.
LEMMA OrderOfLastDays ==
    ASSUME NEW rows, Rows(rows), NEW i \in Batches, NEW j \in Batches
    PROVE  LET lastDay(k) == IF rows[k].expiry = NoExpiry THEN MaxDay + 1 ELSE rows[k].expiry
           IN lastDay(i) < lastDay(j) \/ (lastDay(i) = lastDay(j) /\ i < j) => Before(rows, i, j)
<1>1. i \in Int /\ j \in Int /\ MaxDay \in Int /\ NoExpiry \notin Nat
  BY StockAssumption
<1> QED
  BY StockAssumption DEF Rows, Before

\* The amounts of Allocate are FEFO in every well-typed state.
LEMMA AllocationFollowsFEFO ==
    ASSUME InventoryTypeOK
    PROVE  AllocationIsFEFO
<1>1. Rows(stock)
  BY StockRows
<1> SUFFICES ASSUME NEW p \in Products,
                    NEW S, S = {i \in Batches : /\ stock[i].live /\ stock[i].product = p
                                  /\ stock[i].status # "discarded" /\ stock[i].quantity > 0
                                  /\ stock[i].expiry \in {NoExpiry} \cup today .. MaxDay},
                    NEW need \in 1 .. QuantityOf(stock, S)
             PROVE  /\ Candidates(stock, p, today) = S
                    /\ IsFEFO(stock, S, need, Allocate(stock, Candidates(stock, p, today), need))
  BY DEF AllocationIsFEFO
<1>2. Candidates(stock, p, today) = S
  <2>1. \A i \in Batches : ~Expired(stock[i], today)
                             <=> stock[i].expiry \in {NoExpiry} \cup today .. MaxDay
    <3>1. today \in Nat /\ \A i \in Batches : stock[i].expiry \in 0 .. MaxDay \cup {NoExpiry}
      BY RowFields DEF InventoryTypeOK
    <3> QED
      BY <3>1, StockAssumption DEF Expired
  <2> QED
    BY <2>1 DEF Candidates
<1> DEFINE take == Allocate(stock, S, need)
<1>3. S \in SUBSET Batches
  OBVIOUS
<1>4. need \in Nat /\ need <= QuantityOf(stock, S)
  <2>1. QuantityOf(stock, S) \in Int
    <3> DEFINE f == [i \in S |-> stock[i].quantity]
    <3>1. \A i \in Batches : stock[i].quantity \in Int
      BY RowFields, StockAssumption
    <3>2. f \in [S -> Int] /\ IsFiniteSet(S)
      BY <1>3, <3>1, StockAssumption, FS_Subset
    <3> HIDE DEF f
    <3>3. SumFunction(f) \in Int
      BY <3>2, SumFacts
    <3> QED
      BY <3>3 DEF QuantityOf, f
  <2> QED
    BY <2>1
<1> HIDE DEF take
<1>5. /\ take \in [Batches -> Nat]
      /\ \A i \in S : take[i] <= stock[i].quantity
      /\ \A i \in Batches \ S : take[i] = 0
      /\ SumFunction(take) = need
      /\ \A i, j \in S : Before(stock, i, j) /\ take[j] > 0 => take[i] = stock[i].quantity
  <2>1. take = Allocate(stock, S, need)
    BY DEF take
  <2> QED
    BY ONLY <1>1, <1>3, <1>4, <2>1, Allocation
<1>6. IsFEFO(stock, S, need, take)
  <2>1. \A i \in Batches : take[i] \in 0 .. (IF i \in S THEN stock[i].quantity ELSE 0)
    <3>1. \A i \in Batches : stock[i].quantity \in Nat
      BY RowFields, StockAssumption
    <3> QED
      BY <1>3, <1>5, <3>1
  <2> HIDE DEF IsFEFO
  <2>2. ASSUME NEW i \in S, NEW j \in S, take[j] > 0,
               LET lastDay(k) == IF stock[k].expiry = NoExpiry THEN MaxDay + 1 ELSE stock[k].expiry
               IN lastDay(i) < lastDay(j) \/ (lastDay(i) = lastDay(j) /\ i < j)
        PROVE  take[i] = stock[i].quantity
    <3>1. Before(stock, i, j)
      BY <1>1, <1>3, <2>2, OrderOfLastDays
    <3> QED
      BY <1>5, <2>2, <3>1
  <2> QED
    BY <1>5, <2>1, <2>2 DEF IsFEFO
<1> QED
  BY <1>2, <1>6 DEF take

\* The loop of allocateFEFO is first expired, first out, for every stock that can arise.
THEOREM AllocationIsAlwaysFEFO == LinkageSpec => []AllocationIsFEFO
<1>1. AccountInv => AllocationIsFEFO
  BY AllocationFollowsFEFO DEF AccountInv, Books
<1> QED
  BY <1>1, AlwaysAccounted, PTL

-----------------------------------------------------------------------------
(* What a step may do *)

\* A decision on a suggestion is never taken back.
LEMMA DecisionStays ==
    ASSUME AccountInv, [LinkageNext]_vars, NEW k \in Rules \X RunIds,
           suggestion[k].status \in {"deducted", "ignored"}
    PROVE  suggestion'[k] = suggestion[k]
<1>1. suggestion \in [Rules \X RunIds -> Suggestion]
  BY DEF AccountInv, LinkageTypeOK
<1>2. CASE InventoryNext /\ UNCHANGED linkageVars
  BY <1>2 DEF linkageVars
<1>3. CASE Configure
  BY <1>3 DEF Configure, SaveConsumableGroup, SaveConsumableRecipe, SaveLinkageRule, CreateLinkageRule
<1>4. CASE ProcessEvent
  <2>1. PICK e \in Entities, s \in States, n \in RunIds : StartRun(e, s, n) \/ CompleteRun(e, s, n)
    BY <1>4 DEF ProcessEvent
  <2>2. CASE StartRun(e, s, n)
    BY <2>2 DEF StartRun
  <2>3. CASE CompleteRun(e, s, n)
    <3>1. PICK r \in Rules : Completable(r, n) /\ CreateSuggestion(r, n)
      BY <2>3 DEF CompleteRun
    <3>2. run[<<r, n>>] = "running" /\ <<r, n>> \in Rules \X RunIds
      BY <3>1 DEF Completable
    <3>3. suggestion[<<r, n>>].status = "none"
      BY <3>2 DEF AccountInv, RunsFit
    <3>4. k # <<r, n>>
      BY <3>3
    <3> QED
      BY <1>1, <3>1, <3>4 DEF CreateSuggestion
  <2> QED
    BY <2>1, <2>2, <2>3
<1>5. CASE ResolveLinkageSuggestion
  <2>1. PICK j \in Rules \X RunIds : Ignore(j) \/ MarkInsufficient(j) \/ Deduct(j)
    BY <1>5 DEF ResolveLinkageSuggestion
  <2>2. suggestion[j].status \in {"pending", "insufficient_stock"}
    BY <2>1 DEF Ignore, Ignorable, MarkInsufficient, Deduct, Open
  <2>3. j # k
    BY <2>2
  <2> QED
    BY <1>1, <2>1, <2>3 DEF Ignore, MarkInsufficient, Deduct
<1>6. CASE UNCHANGED vars
  BY <1>6 DEF vars, linkageVars
<1> QED
  BY <1>2, <1>3, <1>4, <1>5, <1>6 DEF LinkageNext

\* Duplicate events, repeated confirmations and edits never reopen a decision.
THEOREM DecisionsAreFinal == LinkageSpec => DecidedIsFinal
<1> DEFINE Stays == \A k \in Rules \X RunIds :
                       suggestion[k].status \in {"deducted", "ignored"}
                       => suggestion'[k] = suggestion[k]
<1>1. AccountInv /\ [LinkageNext]_vars => [Stays]_vars
  BY DecisionStays
<1>2. LinkageSpec => [][Stays]_vars
  BY <1>1, AlwaysAccounted, PTL DEF LinkageSpec
<1> QED
  BY <1>2 DEF DecidedIsFinal

\* The only step that takes from an expired batch discards all of it.
LEMMA ExpiredIsLeftAlone ==
    ASSUME AccountInv, [LinkageNext]_vars, NEW i \in Batches,
           stock[i].expiry # NoExpiry, stock[i].expiry < today,
           stock'[i].quantity < stock[i].quantity
    PROVE  stock'[i].quantity = 0 /\ stock'[i].status = "discarded"
<1>1. Expired(stock[i], today)
  BY DEF Expired
<1>2. Books /\ stock \in [Batches -> Batch] /\ stock[i].quantity \in Nat
  BY RowFields, StockAssumption DEF AccountInv, Books, InventoryTypeOK
<1>3. CASE \E j \in Batches, p \in Products, e \in 0 .. MaxDay \cup {NoExpiry} :
              InsertBatch(j, p, e) \/ EditBatch(j, p, e)
  <2>1. PICK j \in Batches, p \in Products, e \in 0 .. MaxDay \cup {NoExpiry} :
             InsertBatch(j, p, e) \/ EditBatch(j, p, e)
    BY <1>3
  <2>2. CASE InsertBatch(j, p, e)
    <3>1. stock'[i] = stock[i] \/ (i = j /\ stock[i].quantity = 0 /\ stock'[i].quantity = 0)
      BY <1>2, <2>2, NoBatchType DEF InsertBatch, Books, RowsFit, Batch
    <3> QED
      BY <1>2, <3>1
  <2>3. CASE EditBatch(j, p, e)
    <3>1. stock'[i].quantity = stock[i].quantity
      BY <1>2, <2>3 DEF EditBatch, Batch
    <3> QED
      BY <1>2, <3>1
  <2> QED
    BY <2>1, <2>2, <2>3
<1>4. CASE \E j \in Batches : DeleteBatch(j)
  <2>1. stock'[i].quantity = stock[i].quantity
    BY <1>2, <1>4 DEF DeleteBatch, Batch
  <2> QED
    BY <1>2, <2>1
<1>5. CASE UNCHANGED stock
  BY <1>2, <1>5
<1>6. ASSUME NEW c \in Commands, Execute(c)
      PROVE  stock'[i].quantity = 0 /\ stock'[i].status = "discarded"
  <2> DEFINE amounts == Amounts(c)
             touched == Touched(c, amounts)
             change == [j \in touched |-> Delta(c, amounts[j])]
  <2>1. Executable(c) /\ stock' = AfterCommand(c, amounts) /\ Fresh(c.operation, records)
    BY <1>6, Untouched DEF Execute
  <2>2. Planned(c, amounts)
    BY <1>2, <2>1, PlanIsSound
  <2>3. Moves(c.operation, touched, change, stock')
    <3> HIDE DEF amounts
    <3>1. amounts = Amounts(c)
      BY DEF amounts
    <3>2. Moves(c.operation, touched, change, AfterCommand(c, amounts))
      BY <1>2, <2>1, <3>1, ExecuteMoves
    <3> QED
      BY <2>1, <3>2
  <2>4. \A j \in touched : change[j] = Delta(c, amounts[j])
    OBVIOUS
  <2>5. stock' = [j \in Batches |-> IF j \in touched
                   THEN AfterChange(stock[j], Delta(c, amounts[j]), c.kind = "discard")
                   ELSE stock[j]]
    BY <2>1 DEF AfterCommand
  <2> HIDE DEF amounts, touched, change
  <2>6. i \in touched
    BY <1>2, <2>3 DEF Moves
  <2>7. stock'[i].quantity = stock[i].quantity + Delta(c, amounts[i])
    BY <2>3, <2>4, <2>6 DEF Moves
  <2>8. amounts[i] \in Nat /\ c.kind \in Kinds
    BY <2>2, CommandFields DEF Planned
  <2>9. c.kind \notin {"consume_fefo", "consume_allocated"}
    BY <1>1, <2>2, <2>6 DEF Planned, touched
  <2>10. c.kind # "restock"
    BY <1>2, <2>7, <2>8 DEF Delta
  <2>11. c.kind = "discard"
    BY <2>8, <2>9, <2>10 DEF Kinds
  <2>12. amounts[i] = stock[i].quantity
    BY <2>2, <2>6, <2>11 DEF Planned, touched
  <2>13. stock'[i].status = "discarded"
    <3>1. stock'[i] = AfterChange(stock[i], Delta(c, amounts[i]), TRUE)
      BY <2>5, <2>6, <2>11
    <3> QED
      BY <1>2, <3>1 DEF AfterChange, Batch
  <2> QED
    BY <1>2, <2>7, <2>8, <2>11, <2>12, <2>13 DEF Delta
<1>7. ASSUME NEW k \in Rules \X RunIds, Deduct(k)
      PROVE  FALSE
  <2> DEFINE take == TakenFor(suggestion[k].recipe)
             touched == {j \in Batches : take[j] > 0}
  <2>1. Drawn(suggestion[k].recipe, take) /\ stock' = DeductRows(take)
    <3> HIDE DEF take, touched
    <3>1. touched = {j \in Batches : take[j] > 0} /\ take = TakenFor(suggestion[k].recipe)
      BY DEF take, touched
    <3> QED
      BY <1>7, <3>1, DeductFacts
  <2> HIDE DEF take
  <2>2. CASE take[i] > 0
    <3>1. i \in Usable(stock[i].product)
      BY <2>1, <2>2 DEF Drawn
    <3> QED
      BY <1>1, <3>1 DEF Usable
  <2>3. CASE ~(take[i] > 0)
    BY <1>2, <2>1, <2>3 DEF DeductRows
  <2> QED
    BY <2>2, <2>3
<1>8. ASSUME InventoryNext
      PROVE  \/ \E j \in Batches, p \in Products, e \in 0 .. MaxDay \cup {NoExpiry} :
                   InsertBatch(j, p, e) \/ EditBatch(j, p, e)
             \/ \E j \in Batches : DeleteBatch(j)
             \/ UNCHANGED stock
             \/ \E c \in Commands : Execute(c)
  <2>1. CASE \E p \in Products : DeleteProduct(p) \/ SaveProduct(p)
    BY <2>1 DEF DeleteProduct, SaveProduct
  <2>2. CASE NextDay
    BY <2>2 DEF NextDay
  <2>3. ASSUME NEW c \in Commands, Execute(c) \/ Reject(c)
        PROVE  UNCHANGED stock \/ Execute(c)
    BY <2>3 DEF Reject
  <2> QED
    BY ONLY <1>8, <2>1, <2>2, <2>3, Zenon DEF InventoryNext
<1>9. Configure \/ ProcessEvent => UNCHANGED stock
  BY DEF Configure, SaveConsumableGroup, SaveConsumableRecipe, SaveLinkageRule, CreateLinkageRule,
         ProcessEvent, StartRun, CompleteRun, inventoryVars
<1>10. ResolveLinkageSuggestion => UNCHANGED stock \/ \E k \in Rules \X RunIds : Deduct(k)
  BY DEF ResolveLinkageSuggestion, Ignore, MarkInsufficient, inventoryVars
<1>11. UNCHANGED vars => UNCHANGED stock
  BY DEF vars, inventoryVars
<1> QED
  BY <1>3, <1>4, <1>5, <1>6, <1>7, <1>8, <1>9, <1>10, <1>11 DEF LinkageNext

\* What has expired can only be discarded, as a whole.
THEOREM ExpiredIsOnlyDiscarded == LinkageSpec => ExpiredOnlyDiscarded
<1> DEFINE Leaves == \A i \in Batches :
              /\ stock[i].expiry # NoExpiry /\ stock[i].expiry < today
              /\ stock'[i].quantity < stock[i].quantity
              => stock'[i].quantity = 0 /\ stock'[i].status = "discarded"
<1>1. AccountInv /\ [LinkageNext]_vars => [Leaves]_inventoryVars
  BY ExpiredIsLeftAlone
<1>2. LinkageSpec => [][Leaves]_inventoryVars
  BY <1>1, AlwaysAccounted, PTL DEF LinkageSpec
<1> QED
  BY <1>2 DEF ExpiredOnlyDiscarded

\* What is left of the usable stock of a product after a confirmation.
LEMMA DeductLeaves ==
    ASSUME AccountInv, NEW k \in Rules \X RunIds, Deduct(k), NEW p \in Products,
           NEW take, take = TakenFor(suggestion[k].recipe)
    PROVE  /\ Usable(p)' \subseteq Usable(p)
           /\ \A i \in Usable(p) : stock'[i].quantity = stock[i].quantity - take[i]
           /\ \A i \in Usable(p) \ Usable(p)' : stock'[i].quantity = 0
<1>1. Drawn(suggestion[k].recipe, take) /\ stock' = DeductRows(take)
  <2> DEFINE touched == {j \in Batches : take[j] > 0}
  <2>1. touched = {j \in Batches : take[j] > 0}
    OBVIOUS
  <2> HIDE DEF touched
  <2> QED
    BY <2>1, DeductFacts
<1>2. today' = today
  BY DEF Deduct
<1>3. ASSUME NEW i \in Batches
      PROVE  /\ stock'[i].quantity = stock[i].quantity - take[i]
             /\ stock'[i].live = stock[i].live /\ stock'[i].product = stock[i].product
             /\ stock'[i].expiry = stock[i].expiry
             /\ take[i] > 0 \/ stock'[i] = stock[i]
             /\ take[i] > 0 /\ stock'[i].quantity > 0 => stock'[i].status = "active"
             /\ stock'[i].quantity \in Nat
             /\ take[i] > 0 => i \in Usable(stock[i].product)
  <2>1. /\ stock[i] \in Batch /\ stock[i].quantity \in Nat /\ take[i] \in Nat
        /\ take[i] <= stock[i].quantity /\ (take[i] > 0 => i \in Usable(stock[i].product))
    BY <1>1, RowFields, StockAssumption DEF AccountInv, Books, Drawn
  <2>2. CASE take[i] > 0
    <3>1. stock'[i] = Deducted(stock[i], take[i])
      BY <1>1, <2>2 DEF DeductRows
    <3> QED
      BY <2>1, <2>2, <3>1, DeductedRow
  <2>3. CASE ~(take[i] > 0)
    <3>1. stock'[i] = stock[i] /\ take[i] = 0
      BY <1>1, <2>1, <2>3 DEF DeductRows
    <3> QED
      BY <2>1, <2>3, <3>1
  <2> QED
    BY <2>2, <2>3
<1>4. \A i \in Batches : i \in Usable(p)' =>
         i \in Usable(p)
  BY <1>2, <1>3 DEF Usable, Expired
<1>5. \A i \in Batches : i \in Usable(p) /\ i \notin Usable(p)' => stock'[i].quantity = 0
  BY <1>2, <1>3 DEF Usable, Expired
<1>6. Usable(p) \in SUBSET Batches /\ Usable(p)' \in SUBSET Batches
  BY DEF Usable
<1> QED
  BY <1>3, <1>4, <1>5, <1>6

\* What a confirmation takes from the usable stock of a product is what is required.
LEMMA DeductTakes ==
    ASSUME AccountInv, NEW k \in Rules \X RunIds, Deduct(k), NEW p \in Products
    PROVE  Available(p) - Available(p)' = Required(suggestion[k].recipe, p)
<1> DEFINE take == TakenFor(suggestion[k].recipe)
           touched == {j \in Batches : take[j] > 0}
           U == Usable(p)
           V == Usable(p)'
           f == [i \in U |-> stock[i].quantity]
           g == [i \in U |-> take[i]]
           h == [i \in U |-> stock'[i].quantity]
<1>1. V \subseteq U /\ (\A i \in U : stock'[i].quantity = stock[i].quantity - take[i])
      /\ \A i \in U \ V : stock'[i].quantity = 0
  <2> HIDE DEF take
  <2>1. take = TakenFor(suggestion[k].recipe)
    BY DEF take
  <2> QED
    BY <2>1, DeductLeaves
<1>2. Drawn(suggestion[k].recipe, take)
  <2> HIDE DEF take, touched
  <2>1. touched = {j \in Batches : take[j] > 0} /\ take = TakenFor(suggestion[k].recipe)
    BY DEF take, touched
  <2> QED
    BY <2>1, DeductFacts
<1> HIDE DEF take, touched
<1>3. U \in SUBSET Batches /\ IsFiniteSet(U)
  <2>1. U \in SUBSET Batches
    BY DEF Usable
  <2> QED
    BY <2>1, StockAssumption, FS_Subset
<1>4. \A i \in U : stock[i].quantity \in Int /\ take[i] \in Int
  <2>1. \A i \in Batches : stock[i].quantity \in Int
    BY RowFields, StockAssumption DEF AccountInv, Books
  <2> HIDE DEF U
  <2> QED
    BY <1>2, <1>3, <2>1 DEF Drawn
<1>5. f \in [U -> Int] /\ g \in [U -> Int] /\ h \in [U -> Int]
  <2> HIDE DEF U, V
  <2> QED
    BY <1>1, <1>4
<1>6. SumFunction(f) = Available(p)
  BY DEF Available, QuantityOf
<1>7. SumFunction(g) = Required(suggestion[k].recipe, p)
  BY <1>2 DEF Drawn
<1>8. Available(p)' = SumFunction([i \in V |-> stock'[i].quantity])
  BY DEF Available, QuantityOf
<1> HIDE DEF U, V
<1>9. SumFunction(h) = SumFunction([i \in V |-> stock'[i].quantity])
  <2>1. [i \in V |-> h[i]] = [i \in V |-> stock'[i].quantity]
    BY <1>1
  <2>2. V \in SUBSET U /\ \A i \in U \ V : h[i] = 0
    BY <1>1
  <2> HIDE DEF h
  <2>3. SumFunction(h) = SumFunction([i \in V |-> h[i]])
    BY <1>3, <1>5, <2>2, SumWithoutZeros
  <2> QED
    BY <2>1, <2>3
<1>10. h = [i \in U |-> f[i] - g[i]]
  BY <1>1
<1> HIDE DEF f, g, h
<1>11. SumFunction(h) = SumFunction(f) - SumFunction(g)
  BY <1>3, <1>5, <1>10, SumOfDifference
<1>12. SumFunction(f) \in Int /\ SumFunction(g) \in Int
  BY <1>3, <1>5, SumFacts
<1> QED
  BY <1>6, <1>7, <1>8, <1>9, <1>11, <1>12

\* No step but its confirmation makes a suggestion a deducted one.
LEMMA OnlyDeduct ==
    ASSUME AccountInv, [LinkageNext]_vars, NEW k \in Rules \X RunIds,
           suggestion[k].status # "deducted", suggestion'[k].status = "deducted"
    PROVE  Deduct(k)
<1>1. suggestion \in [Rules \X RunIds -> Suggestion]
  BY DEF AccountInv, LinkageTypeOK
<1>2. suggestion' # suggestion
  OBVIOUS
<1>3. CASE InventoryNext /\ UNCHANGED linkageVars
  BY <1>2, <1>3 DEF linkageVars
<1>4. CASE Configure
  BY <1>2, <1>4 DEF Configure, SaveConsumableGroup, SaveConsumableRecipe, SaveLinkageRule,
                    CreateLinkageRule
<1>5. CASE ProcessEvent
  <2>1. PICK e \in Entities, s \in States, n \in RunIds : StartRun(e, s, n) \/ CompleteRun(e, s, n)
    BY <1>5 DEF ProcessEvent
  <2>2. ~StartRun(e, s, n)
    BY <1>2 DEF StartRun
  <2>3. PICK r \in Rules : CreateSuggestion(r, n)
    BY <2>1, <2>2 DEF CompleteRun
  <2>4. suggestion'[<<r, n>>].status \in {"pending", "insufficient_stock"}
        /\ \A j \in Rules \X RunIds : j # <<r, n>> => suggestion'[j] = suggestion[j]
    BY <1>1, <2>3 DEF CreateSuggestion
  <2> QED
    BY <2>4
<1>6. CASE ResolveLinkageSuggestion
  <2>1. PICK j \in Rules \X RunIds : Ignore(j) \/ MarkInsufficient(j) \/ Deduct(j)
    BY <1>6 DEF ResolveLinkageSuggestion
  <2>2. CASE j # k
    BY <1>1, <2>1, <2>2 DEF Ignore, MarkInsufficient, Deduct
  <2>3. CASE j = k
    <3>1. ~Ignore(k) /\ ~MarkInsufficient(k)
      BY <1>1 DEF Ignore, MarkInsufficient, Suggestion
    <3> QED
      BY <2>1, <2>3, <3>1
  <2> QED
    BY <2>2, <2>3
<1>7. CASE UNCHANGED vars
  BY <1>2, <1>7 DEF vars, linkageVars
<1> QED
  BY <1>3, <1>4, <1>5, <1>6, <1>7 DEF LinkageNext

\* A confirmation takes of each product what the recipe needs, and nothing else.
THEOREM DeductionsTakeWhatIsRequired == LinkageSpec => DeductedAsRequired
<1>1. ASSUME AccountInv, LinkageNext, NEW k \in Rules \X RunIds,
             suggestion[k].status # "deducted", suggestion'[k].status = "deducted",
             NEW p \in Products
      PROVE  Available(p) - Available(p)' =
                  SumFunction([g \in Groups |-> recipe[suggestion[k].recipe][g] * group[g][p]])
  <2>1. Deduct(k)
    BY <1>1, OnlyDeduct
  <2>2. Available(p) - Available(p)' = Required(suggestion[k].recipe, p)
    BY <1>1, <2>1, DeductTakes
  <2> QED
    BY <2>2 DEF Required
<1>2. AccountInv /\ [LinkageNext]_vars =>
        [\A k \in Rules \X RunIds :
          suggestion[k].status # "deducted" /\ suggestion'[k].status = "deducted" =>
             \A p \in Products :
                Available(p) - Available(p)' =
                  SumFunction([g \in Groups |-> recipe[suggestion[k].recipe][g] * group[g][p]])]_vars
  BY <1>1
<1> QED
  BY <1>2, AlwaysAccounted, PTL DEF LinkageSpec, DeductedAsRequired
================================================================================
