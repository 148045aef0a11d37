------------------------------ MODULE SumLemmas ------------------------------
(***************************************************************************)
(* Sums over finite sets and folds over sequences, for the theorems about  *)
(* pools and rewards: what MapThenSumSet adds up does not depend on the    *)
(* order it picks in, and FoldLeft takes the elements one by one.  The     *)
(* inductions are arguments by a least counterexample.                     *)
(***************************************************************************)
EXTENDS Integers, FiniteSetsExt, FiniteSetTheorems, NaturalsInduction, WellFoundedInduction,
        TLAPS

(* A set of naturals that is not empty has the least element Min chooses. *)
LEMMA LeastElement ==
  ASSUME NEW T \in SUBSET Nat, T # {}
  PROVE  /\ Min(T) \in T
         /\ \A y \in T : Min(T) <= y
  <1> DEFINE Less == {ss \in Nat \X Nat : ss[1] < ss[2]}
  <1>1. IsWellFoundedOn(Less, Nat)
    BY NatLessThanWellFounded DEF OpToRel
  <1>2. PICK x \in T : \A y \in T : ~(<<y, x>> \in Less)
    BY <1>1, WFMin, Zenon
  <1>3. \A y \in T : x <= y
    <2> TAKE y \in T
    <2>1. <<y, x>> \in Nat \X Nat /\ ~(<<y, x>> \in Less)
      BY <1>2
    <2>2. ~(y < x)
      BY <2>1
    <2> QED
      BY <2>2
  <1> QED
    BY <1>3 DEF Min

(* A bounded set of naturals that is not empty has the one Max chooses. *)
LEMMA GreatestElement ==
  ASSUME NEW n \in Nat, NEW T \in SUBSET (1 .. n), T # {}
  PROVE  Max(T) \in T
  <1> DEFINE R == {x \in Nat : n - x \in T}
  <1>1. R # {}
    <2>1. PICK y \in T : TRUE
      OBVIOUS
    <2>2. n - y \in R
      BY <2>1
    <2> QED
      BY <2>2
  <1>2. Min(R) \in R /\ \A x \in R : Min(R) <= x
    BY <1>1, LeastElement
  <1>3. n - Min(R) \in T
    BY <1>2
  <1>4. \A y \in T : n - Min(R) >= y
    <2> TAKE y \in T
    <2>1. n - y \in R
      OBVIOUS
    <2> QED
      BY <1>2, <2>1
  <1> QED
    BY <1>3, <1>4 DEF Max

(* Induction over the subsets of a finite set, the property being a set:    *)
(* when a subset has it because all smaller ones do, the whole set has it.  *)
LEMMA SubsetInduction ==
  ASSUME NEW S, IsFiniteSet(S), NEW Good,
         \A T \in SUBSET S : (\A U \in SUBSET T : U # T => U \in Good) => T \in Good
  PROVE  S \in Good
  <1> DEFINE Bad == {m \in Nat : \E T \in SUBSET S : Cardinality(T) = m /\ T \notin Good}
  <1>1. ASSUME Bad # {} PROVE FALSE
    <2> DEFINE m == Min(Bad)
    <2>1. m \in Bad /\ \A y \in Bad : m <= y
      BY <1>1, LeastElement
    <2> HIDE DEF m
    <2>2. PICK T \in SUBSET S : Cardinality(T) = m /\ T \notin Good
      BY <2>1
    <2>3. PICK U \in SUBSET T : U # T /\ U \notin Good
      BY <2>2
    <2>4. IsFiniteSet(T) /\ Cardinality(T) \in Nat
      BY FS_Subset, FS_CardinalityType
    <2>5. /\ IsFiniteSet(U) /\ Cardinality(U) \in Nat
          /\ Cardinality(U) <= Cardinality(T) /\ Cardinality(U) # Cardinality(T)
      BY <2>3, <2>4, FS_Subset, FS_CardinalityType
    <2>6. Cardinality(U) \in Bad
      BY <2>3, <2>5
    <2> QED
      BY <2>1, <2>2, <2>5, <2>6
  <1> QED
    BY <1>1, FS_CardinalityType
-----------------------------------------------------------------------------
Sum(f, S) == MapThenSumSet(LAMBDA x : f[x], S)

Picked(s) == CHOOSE x \in s : TRUE

SmallSubsets(S, n) == {s \in SUBSET S : Cardinality(s) <= n}

(* g is the partial sums of f over the subsets of S of at most n elements. *)
IsSum(g, f, S, n) ==
  g = [s \in SmallSubsets(S, n) |->
         IF s = {} THEN 0 ELSE f[Picked(s)] + g[s \ {Picked(s)}]]

(* The partial sums exist. *)
LEMMA SumExists ==
  ASSUME NEW S, IsFiniteSet(S), NEW f, NEW n \in Nat
  PROVE  \E g : IsSum(g, f, S, n)
  <1> DEFINE Bad == {m \in Nat : ~\E g : IsSum(g, f, S, m)}
  <1>1. ASSUME Bad # {} PROVE FALSE
    <2> DEFINE m == Min(Bad)
    <2>1. m \in Bad /\ \A y \in Bad : m <= y
      BY <1>1, LeastElement
    <2> HIDE DEF m
    <2>2. m # 0
      <3> SUFFICES ASSUME m = 0 PROVE \E g : IsSum(g, f, S, m)
        BY <2>1
      <3> DEFINE g == [s \in SmallSubsets(S, 0) |-> 0]
      <3>1. \A s \in SmallSubsets(S, 0) : s = {}
        <4> SUFFICES ASSUME NEW s \in SmallSubsets(S, 0) PROVE s = {}
          OBVIOUS
        <4>1. s \in SUBSET S /\ Cardinality(s) <= 0
          BY DEF SmallSubsets
        <4>2. IsFiniteSet(s) /\ Cardinality(s) \in Nat
          BY <4>1, FS_Subset, FS_CardinalityType
        <4> QED
          BY <4>1, <4>2, FS_EmptySet
      <3>2. IsSum(g, f, S, 0)
        BY <3>1 DEF IsSum
      <3> QED
        BY <3>2
    <2>3. PICK g : IsSum(g, f, S, m - 1)
      <3>1. m - 1 \in Nat /\ m - 1 \notin Bad
        BY <2>1, <2>2
      <3> QED
        BY <3>1
    <2> DEFINE h == [s \in SmallSubsets(S, m) |->
                       IF s = {} THEN 0 ELSE f[Picked(s)] + g[s \ {Picked(s)}]]
    <2>4. \A t \in SmallSubsets(S, m - 1) : t \in SmallSubsets(S, m) /\ h[t] = g[t]
      <3> TAKE t \in SmallSubsets(S, m - 1)
      <3>1. t \in SmallSubsets(S, m)
        <4>1. t \in SUBSET S /\ Cardinality(t) <= m - 1
          BY DEF SmallSubsets
        <4>2. Cardinality(t) \in Nat
          BY <4>1, FS_Subset, FS_CardinalityType
        <4> QED
          BY <2>1, <4>1, <4>2 DEF SmallSubsets
      <3>2. g[t] = IF t = {} THEN 0 ELSE f[Picked(t)] + g[t \ {Picked(t)}]
        BY <2>3, Zenon DEF IsSum
      <3> QED
        BY <3>1, <3>2, Zenon
    <2>5. \A s \in SmallSubsets(S, m) : s # {} => s \ {Picked(s)} \in SmallSubsets(S, m - 1)
      <3> TAKE s \in SmallSubsets(S, m)
      <3> HAVE s # {}
      <3>1. s \in SUBSET S /\ Cardinality(s) <= m
        BY DEF SmallSubsets
      <3>2. Picked(s) \in s
        BY DEF Picked
      <3>3. IsFiniteSet(s) /\ Cardinality(s) \in Nat
        BY <3>1, FS_Subset, FS_CardinalityType
      <3>4. Cardinality(s \ {Picked(s)}) = Cardinality(s) - 1
        BY <3>2, <3>3, FS_RemoveElement
      <3>5. Cardinality(s \ {Picked(s)}) <= m - 1
        BY <2>1, <3>1, <3>3, <3>4
      <3> QED
        BY <3>1, <3>5 DEF SmallSubsets
    <2>6. \A s \in SmallSubsets(S, m) :
             h[s] = IF s = {} THEN 0 ELSE f[Picked(s)] + h[s \ {Picked(s)}]
      BY <2>4, <2>5, Zenon
    <2> HIDE DEF h
    <2>7. h = [s \in SmallSubsets(S, m) |-> h[s]]
      BY Zenon DEF h
    <2>8. IsSum(h, f, S, m)
      BY <2>6, <2>7, Zenon DEF IsSum
    <2> QED
      BY <2>1, <2>8
  <1> QED
    BY <1>1

(* ... and are determined by what f is on the elements. *)
LEMMA SumAgree ==
  ASSUME NEW S, NEW T, IsFiniteSet(S), NEW f, NEW e, NEW n \in Nat, NEW k \in Nat,
         NEW g, IsSum(g, f, S, n), NEW h, IsSum(h, e, T, k),
         NEW s \in SmallSubsets(S, n), s \in SmallSubsets(T, k), \A x \in s : f[x] = e[x]
  PROVE  g[s] = h[s]
  <1> DEFINE Common == {t \in SmallSubsets(S, n) : t \in SmallSubsets(T, k)}
             Agree(t) == \A x \in t : f[x] = e[x]
             Bad == {m \in Nat : \E t \in Common : Cardinality(t) = m /\ Agree(t) /\ g[t] # h[t]}
  <1>1. ASSUME NEW t \in Common
        PROVE  /\ IsFiniteSet(t) /\ Cardinality(t) \in Nat
               /\ g[t] = IF t = {} THEN 0 ELSE f[Picked(t)] + g[t \ {Picked(t)}]
               /\ h[t] = IF t = {} THEN 0 ELSE e[Picked(t)] + h[t \ {Picked(t)}]
               /\ t # {} => /\ Picked(t) \in t /\ t \ {Picked(t)} \in Common
                            /\ Cardinality(t \ {Picked(t)}) = Cardinality(t) - 1
    <2>1. t \in SUBSET S /\ Cardinality(t) <= n /\ t \in SUBSET T /\ Cardinality(t) <= k
      BY DEF SmallSubsets
    <2>2. IsFiniteSet(t) /\ Cardinality(t) \in Nat
      BY <2>1, FS_Subset, FS_CardinalityType
    <2>3. t # {} => Picked(t) \in t
      BY DEF Picked
    <2>4. t # {} => Cardinality(t \ {Picked(t)}) = Cardinality(t) - 1
      BY <2>2, <2>3, FS_RemoveElement
    <2>5. t # {} => t \ {Picked(t)} \in Common
      <3> SUFFICES ASSUME t # {} PROVE t \ {Picked(t)} \in Common
        OBVIOUS
      <3>1. Cardinality(t \ {Picked(t)}) <= n /\ Cardinality(t \ {Picked(t)}) <= k
        BY <2>1, <2>2, <2>4
      <3> QED
        BY <2>1, <3>1 DEF SmallSubsets
    <2>6. g[t] = IF t = {} THEN 0 ELSE f[Picked(t)] + g[t \ {Picked(t)}]
      BY Zenon DEF IsSum
    <2>7. h[t] = IF t = {} THEN 0 ELSE e[Picked(t)] + h[t \ {Picked(t)}]
      BY Zenon DEF IsSum
    <2> QED
      BY <2>2, <2>3, <2>4, <2>5, <2>6, <2>7
  <1>2. ASSUME Bad # {} PROVE FALSE
    <2> DEFINE m == Min(Bad)
    <2>1. m \in Bad /\ \A y \in Bad : m <= y
      BY <1>2, LeastElement
    <2> HIDE DEF m
    <2>2. PICK t \in Common : Cardinality(t) = m /\ Agree(t) /\ g[t] # h[t]
      BY <2>1
    <2>3. t # {}
      BY <1>1, <2>2
    <2>4. /\ Picked(t) \in t /\ t \ {Picked(t)} \in Common
          /\ Cardinality(t \ {Picked(t)}) = m - 1 /\ m - 1 \in Nat
      <3>1. Cardinality(t \ {Picked(t)}) \in Nat
        BY <1>1, <2>2, <2>3
      <3> QED
        BY <1>1, <2>1, <2>2, <2>3, <3>1
    <2>5. Agree(t \ {Picked(t)})
      BY <2>2
    <2>6. m - 1 \notin Bad
      BY <2>1, <2>4
    <2>7. g[t \ {Picked(t)}] = h[t \ {Picked(t)}]
      BY <2>4, <2>5, <2>6
    <2> QED
      BY <1>1, <2>2, <2>3, <2>4, <2>7
  <1> QED
    <2>1. s \in Common /\ Cardinality(s) \in Nat /\ Agree(s)
      BY <1>1
    <2> QED
      BY <1>2, <2>1

(* What MapThenSumSet chooses: all the partial sums of f over S. *)
PartialSums(g, f, S) ==
  g = [s \in SUBSET S |-> IF s = {} THEN 0 ELSE f[Picked(s)] + g[s \ {Picked(s)}]]

LEMMA PartialSumsExist ==
  ASSUME NEW S, IsFiniteSet(S), NEW f
  PROVE  \E g : PartialSums(g, f, S)
  <1>1. SmallSubsets(S, Cardinality(S)) = SUBSET S /\ Cardinality(S) \in Nat
    BY FS_Subset, FS_CardinalityType DEF SmallSubsets
  <1>2. PICK g : IsSum(g, f, S, Cardinality(S))
    BY <1>1, SumExists
  <1> QED
    BY <1>1, <1>2 DEF IsSum, PartialSums

(* The sum is the last of the partial sums. *)
LEMMA SumIsPartial ==
  ASSUME NEW S, IsFiniteSet(S), NEW f
  PROVE  \E g : IsSum(g, f, S, Cardinality(S)) /\ Sum(f, S) = g[S]
  <1>1. SmallSubsets(S, Cardinality(S)) = SUBSET S /\ Cardinality(S) \in Nat
    BY FS_Subset, FS_CardinalityType DEF SmallSubsets
  <1>2. Sum(f, S) = (CHOOSE g : PartialSums(g, f, S))[S]
    BY DEF Sum, MapThenSumSet, MapThenFoldSet, Picked, PartialSums
  <1>3. PartialSums(CHOOSE g : PartialSums(g, f, S), f, S)
    BY PartialSumsExist, Zenon
  <1>4. IsSum(CHOOSE g : PartialSums(g, f, S), f, S, Cardinality(S))
    BY <1>1, <1>3, Zenon DEF IsSum, PartialSums
  <1> QED
    BY <1>2, <1>4, Zenon

(* So a MapThenSumSet that chooses partial sums of f is the sum of f. *)
LEMMA SumOfPartial ==
  ASSUME NEW S, IsFiniteSet(S), NEW f, NEW g, PartialSums(g, f, S)
  PROVE  g[S] = Sum(f, S)
  <1>1. SmallSubsets(S, Cardinality(S)) = SUBSET S /\ Cardinality(S) \in Nat
    BY FS_Subset, FS_CardinalityType DEF SmallSubsets
  <1>2. IsSum(g, f, S, Cardinality(S)) /\ S \in SmallSubsets(S, Cardinality(S))
    BY <1>1, Zenon DEF IsSum, PartialSums
  <1>3. PICK h : IsSum(h, f, S, Cardinality(S)) /\ Sum(f, S) = h[S]
    BY SumIsPartial
  <1> QED
    BY <1>1, <1>2, <1>3, SumAgree
-----------------------------------------------------------------------------
(* Nothing adds up to zero. *)
LEMMA SumEmpty == ASSUME NEW f PROVE Sum(f, {}) = 0
  <1>1. IsFiniteSet({}) /\ Cardinality({}) = 0
    BY FS_EmptySet
  <1>2. PICK g : IsSum(g, f, {}, 0) /\ Sum(f, {}) = g[{}]
    BY <1>1, SumIsPartial
  <1>3. {} \in SmallSubsets({}, 0)
    BY <1>1 DEF SmallSubsets
  <1> QED
    BY <1>2, <1>3, Zenon DEF IsSum

(* The sum depends on f only through the elements of S. *)
LEMMA SumOfSame ==
  ASSUME NEW S, IsFiniteSet(S), NEW f, NEW e, \A x \in S : f[x] = e[x]
  PROVE  Sum(f, S) = Sum(e, S)
  <1>1. PICK g : IsSum(g, f, S, Cardinality(S)) /\ Sum(f, S) = g[S]
    BY SumIsPartial
  <1>2. PICK h : IsSum(h, e, S, Cardinality(S)) /\ Sum(e, S) = h[S]
    BY SumIsPartial
  <1>3. Cardinality(S) \in Nat /\ S \in SmallSubsets(S, Cardinality(S))
    BY FS_CardinalityType DEF SmallSubsets
  <1> QED
    BY <1>1, <1>2, <1>3, SumAgree

(* The element picked first is added to the sum of the others. *)
LEMMA SumPicked ==
  ASSUME NEW S, IsFiniteSet(S), S # {}, NEW f
  PROVE  Sum(f, S) = f[Picked(S)] + Sum(f, S \ {Picked(S)})
  <1> DEFINE R == S \ {Picked(S)}
  <1>1. PICK g : IsSum(g, f, S, Cardinality(S)) /\ Sum(f, S) = g[S]
    BY SumIsPartial
  <1>2. R \in SUBSET S /\ IsFiniteSet(R) /\ Cardinality(R) \in Nat /\ Cardinality(S) \in Nat
        /\ Cardinality(R) <= Cardinality(S)
    BY FS_Subset, FS_CardinalityType
  <1>3. S \in SmallSubsets(S, Cardinality(S)) /\ R \in SmallSubsets(S, Cardinality(S))
        /\ R \in SmallSubsets(R, Cardinality(R))
    BY <1>2 DEF SmallSubsets
  <1>4. PICK h : IsSum(h, f, R, Cardinality(R)) /\ Sum(f, R) = h[R]
    BY <1>2, SumIsPartial
  <1> HIDE DEF R
  <1>5. g[R] = h[R]
    BY <1>1, <1>2, <1>3, <1>4, SumAgree
  <1>6. g[S] = f[Picked(S)] + g[R]
    BY <1>1, <1>3, Zenon DEF IsSum, R
  <1> QED
    BY <1>1, <1>4, <1>5, <1>6 DEF R

(* Integers add up to an integer, naturals to a natural. *)
LEMMA SumInt ==
  ASSUME NEW S, IsFiniteSet(S), NEW f, \A x \in S : f[x] \in Int
  PROVE  Sum(f, S) \in Int
  <1> DEFINE Good == {T \in SUBSET S : Sum(f, T) \in Int}
  <1>1. ASSUME NEW T \in SUBSET S, \A U \in SUBSET T : U # T => U \in Good
        PROVE  T \in Good
    <2>1. IsFiniteSet(T)
      BY FS_Subset
    <2>2. CASE T = {}
      BY <2>2, SumEmpty
    <2>3. CASE T # {}
      <3>1. Picked(T) \in T
        BY <2>3 DEF Picked
      <3>2. T \ {Picked(T)} \in Good
        BY <1>1, <3>1
      <3>3. Sum(f, T) = f[Picked(T)] + Sum(f, T \ {Picked(T)})
        BY <2>1, <2>3, SumPicked
      <3> QED
        BY <3>1, <3>2, <3>3
    <2> QED
      BY <2>2, <2>3
  <1> HIDE DEF Good
  <1>2. S \in Good
    BY <1>1, SubsetInduction
  <1> QED
    BY <1>2 DEF Good

LEMMA SumNat ==
  ASSUME NEW S, IsFiniteSet(S), NEW f, \A x \in S : f[x] \in Nat
  PROVE  Sum(f, S) \in Nat
  <1> DEFINE Good == {T \in SUBSET S : Sum(f, T) \in Nat}
  <1>1. ASSUME NEW T \in SUBSET S, \A U \in SUBSET T : U # T => U \in Good
        PROVE  T \in Good
    <2>1. IsFiniteSet(T)
      BY FS_Subset
    <2>2. CASE T = {}
      BY <2>2, SumEmpty
    <2>3. CASE T # {}
      <3>1. Picked(T) \in T
        BY <2>3 DEF Picked
      <3>2. T \ {Picked(T)} \in Good
        BY <1>1, <3>1
      <3>3. Sum(f, T) = f[Picked(T)] + Sum(f, T \ {Picked(T)})
        BY <2>1, <2>3, SumPicked
      <3> QED
        BY <3>1, <3>2, <3>3
    <2> QED
      BY <2>2, <2>3
  <1> HIDE DEF Good
  <1>2. S \in Good
    BY <1>1, SubsetInduction
  <1> QED
    BY <1>2 DEF Good

(* Any element can be taken out of the sum. *)
LEMMA SumRemove ==
  ASSUME NEW S, IsFiniteSet(S), NEW f, \A x \in S : f[x] \in Int, NEW y \in S
  PROVE  Sum(f, S) = f[y] + Sum(f, S \ {y})
  <1> DEFINE Good == {T \in SUBSET S : \A x \in T : Sum(f, T) = f[x] + Sum(f, T \ {x})}
  <1>1. ASSUME NEW T \in SUBSET S, \A U \in SUBSET T : U # T => U \in Good
        PROVE  T \in Good
    <2> SUFFICES ASSUME NEW x \in T PROVE Sum(f, T) = f[x] + Sum(f, T \ {x})
      OBVIOUS
    <2> DEFINE p == Picked(T)
    <2>1. IsFiniteSet(T) /\ p \in T
      BY FS_Subset DEF Picked
    <2>2. Sum(f, T) = f[p] + Sum(f, T \ {p})
      BY <2>1, SumPicked
    <2> HIDE DEF p
    <2>3. CASE x = p
      BY <2>2, <2>3
    <2>4. CASE x # p
      <3>1. T \ {p} \in Good /\ x \in T \ {p}
        BY <1>1, <2>1, <2>4
      <3>2. T \ {x} \in Good /\ p \in T \ {x}
        BY <1>1, <2>1, <2>4
      <3>3. Sum(f, T \ {p}) = f[x] + Sum(f, (T \ {p}) \ {x})
        BY <3>1
      <3>4. Sum(f, T \ {x}) = f[p] + Sum(f, (T \ {x}) \ {p})
        BY <3>2
      <3>5. (T \ {p}) \ {x} = (T \ {x}) \ {p}
        OBVIOUS
      <3>6. Sum(f, (T \ {x}) \ {p}) \in Int /\ f[p] \in Int /\ f[x] \in Int
        <4>1. IsFiniteSet((T \ {x}) \ {p})
          BY <2>1, FS_Subset
        <4> QED
          BY <2>1, <4>1, SumInt
      <3> DEFINE rest == Sum(f, (T \ {x}) \ {p})
      <3>7. Sum(f, T \ {p}) = f[x] + rest /\ Sum(f, T \ {x}) = f[p] + rest
        BY <3>3, <3>4, <3>5
      <3> HIDE DEF rest, Good
      <3> QED
        BY <2>2, <3>6, <3>7 DEF rest
    <2> QED
      BY <2>3, <2>4
  <1> HIDE DEF Good
  <1>2. S \in Good
    BY <1>1, SubsetInduction
  <1> QED
    BY <1>2 DEF Good

-----------------------------------------------------------------------------
(* One element more. *)
LEMMA SumAddElement ==
  ASSUME NEW S, IsFiniteSet(S), NEW y, y \notin S, NEW f, \A x \in S \cup {y} : f[x] \in Int
  PROVE  Sum(f, S \cup {y}) = f[y] + Sum(f, S)
  <1>1. IsFiniteSet(S \cup {y}) /\ (S \cup {y}) \ {y} = S
    BY FS_AddElement
  <1> QED
    BY <1>1, SumRemove

(* A single element is its own sum. *)
LEMMA SumSingle ==
  ASSUME NEW y, NEW f, f[y] \in Int
  PROVE  Sum(f, {y}) = f[y]
  <1>1. IsFiniteSet({y}) /\ {y} \ {y} = {}
    BY FS_Singleton
  <1>2. Sum(f, {y}) = f[y] + Sum(f, {y} \ {y})
    BY <1>1, SumRemove
  <1> QED
    BY <1>1, <1>2, SumEmpty

(* A change of one element changes the sum by as much. *)
LEMMA SumChange ==
  ASSUME NEW S, IsFiniteSet(S), NEW y \in S, NEW f, NEW e,
         \A x \in S : f[x] \in Int /\ e[x] \in Int,
         \A x \in S \ {y} : f[x] = e[x]
  PROVE  Sum(e, S) = Sum(f, S) - f[y] + e[y]
  <1>1. IsFiniteSet(S \ {y})
    BY FS_RemoveElement
  <1>2. Sum(f, S \ {y}) = Sum(e, S \ {y}) /\ Sum(f, S \ {y}) \in Int
    BY <1>1, SumOfSame, SumInt
  <1>3. Sum(f, S) = f[y] + Sum(f, S \ {y}) /\ Sum(e, S) = e[y] + Sum(e, S \ {y})
    BY SumRemove
  <1> QED
    BY <1>2, <1>3

(* Sums are linear. *)
Linear(h, c, f, e, S) ==
  \A x \in S : f[x] \in Int /\ e[x] \in Int /\ h[x] = c * f[x] + e[x]

LEMMA SumLinear ==
  ASSUME NEW S, IsFiniteSet(S), NEW c \in Int, NEW f, NEW e, NEW h, Linear(h, c, f, e, S)
  PROVE  Sum(h, S) = c * Sum(f, S) + Sum(e, S)
  <1>0. \A x \in S : f[x] \in Int /\ e[x] \in Int /\ h[x] = c * f[x] + e[x]
    BY DEF Linear
  <1> DEFINE Good == {T \in SUBSET S : Sum(h, T) = c * Sum(f, T) + Sum(e, T)}
  <1>1. ASSUME NEW T \in SUBSET S, \A U \in SUBSET T : U # T => U \in Good
        PROVE  T \in Good
    <2>1. IsFiniteSet(T)
      BY FS_Subset
    <2>2. CASE T = {}
      <3>1. Sum(f, T) = 0 /\ Sum(e, T) = 0 /\ Sum(h, T) = 0
        BY <2>2, SumEmpty
      <3> QED
        BY <3>1
    <2>3. CASE T # {}
      <3> DEFINE p == Picked(T)
                 R == T \ {p}
      <3>1. p \in T
        BY <2>3 DEF Picked
      <3>2. R \in Good
        BY <1>1, <3>1
      <3>3. /\ Sum(f, T) = f[p] + Sum(f, R) /\ Sum(e, T) = e[p] + Sum(e, R)
            /\ Sum(h, T) = h[p] + Sum(h, R)
        BY <2>1, <2>3, SumPicked
      <3>4. Sum(h, R) = c * Sum(f, R) + Sum(e, R)
        BY <3>2
      <3>5. IsFiniteSet(R) /\ R \in SUBSET S
        BY <2>1, FS_Subset
      <3> HIDE DEF R, p
      <3>6. Sum(f, R) \in Int /\ Sum(e, R) \in Int
        BY <1>0, <3>5, SumInt
      <3>7. /\ f[p] \in Int /\ e[p] \in Int /\ h[p] = c * f[p] + e[p]
        BY <1>0, <3>1
      <3>8. c * (f[p] + Sum(f, R)) = c * f[p] + c * Sum(f, R)
        BY <3>6, <3>7, Z3
      <3>9. c * f[p] \in Int /\ c * Sum(f, R) \in Int
        BY <3>6, <3>7, Z3
      <3>10. Sum(h, T) = c * Sum(f, T) + Sum(e, T)
        BY <3>3, <3>4, <3>6, <3>7, <3>8, <3>9
      <3> QED
        BY <3>10
    <2> QED
      BY <2>2, <2>3
  <1> HIDE DEF Good
  <1>2. S \in Good
    BY <1>1, SubsetInduction
  <1> QED
    BY <1>2 DEF Good

(* What is added to every element is added to the sum. *)
AddsUp(h, f, e, S) == \A x \in S : f[x] \in Int /\ e[x] \in Int /\ h[x] = f[x] + e[x]

LEMMA SumAdded ==
  ASSUME NEW S, IsFiniteSet(S), NEW f, NEW e, NEW h, AddsUp(h, f, e, S)
  PROVE  Sum(h, S) = Sum(f, S) + Sum(e, S) /\ Sum(f, S) \in Int /\ Sum(e, S) \in Int
  <1>1. Linear(h, 1, f, e, S)
    BY DEF AddsUp, Linear
  <1>2. 1 \in Int
    OBVIOUS
  <1>3. Sum(h, S) = 1 * Sum(f, S) + Sum(e, S)
    BY <1>1, <1>2, SumLinear
  <1>4. (\A x \in S : f[x] \in Int) /\ \A x \in S : e[x] \in Int
    BY DEF AddsUp
  <1>5. Sum(f, S) \in Int /\ Sum(e, S) \in Int
    BY <1>4, SumInt
  <1> QED
    BY <1>3, <1>5

(* Larger elements have a larger sum. *)
LEMMA SumMonotone ==
  ASSUME NEW S, IsFiniteSet(S), NEW f, NEW e,
         \A x \in S : f[x] \in Int /\ e[x] \in Int /\ f[x] <= e[x]
  PROVE  Sum(f, S) <= Sum(e, S)
  <1> DEFINE more == [x \in S |-> e[x] - f[x]]
  <1>1. \A x \in S : /\ more[x] \in Nat /\ e[x] = 1 * f[x] + more[x]
    OBVIOUS
  <1> HIDE DEF more
  <1>2. Sum(e, S) = 1 * Sum(f, S) + Sum(more, S)
    <2>1. Linear(e, 1, f, more, S)
      BY <1>1 DEF Linear
    <2>2. 1 \in Int
      OBVIOUS
    <2> QED
      BY <2>1, <2>2, SumLinear
  <1>3. Sum(f, S) \in Int /\ Sum(more, S) \in Nat
    BY <1>1, SumInt, SumNat
  <1> QED
    BY <1>2, <1>3

(* The sum of a constant. *)
LEMMA SumConstant ==
  ASSUME NEW S, IsFiniteSet(S), NEW c \in Int, NEW f, \A x \in S : f[x] = c
  PROVE  Sum(f, S) = c * Cardinality(S)
  <1> DEFINE Good == {T \in SUBSET S : Sum(f, T) = c * Cardinality(T)}
  <1>1. ASSUME NEW T \in SUBSET S, \A U \in SUBSET T : U # T => U \in Good
        PROVE  T \in Good
    <2>1. IsFiniteSet(T) /\ Cardinality(T) \in Nat
      BY FS_Subset, FS_CardinalityType
    <2>2. CASE T = {}
      <3>1. Sum(f, T) = 0 /\ Cardinality(T) = 0
        BY <2>2, SumEmpty, FS_EmptySet
      <3> QED
        BY <3>1
    <2>3. CASE T # {}
      <3> DEFINE p == Picked(T)
                 R == T \ {p}
      <3>1. p \in T
        BY <2>3 DEF Picked
      <3>2. R \in Good
        BY <1>1, <3>1
      <3>3. Sum(f, T) = f[p] + Sum(f, R) /\ Sum(f, R) = c * Cardinality(R)
        BY <2>1, <2>3, <3>2, SumPicked
      <3>4. Cardinality(R) = Cardinality(T) - 1
        BY <2>1, <3>1, FS_RemoveElement
      <3> HIDE DEF R, p
      <3>5. c + c * (Cardinality(T) - 1) = c * Cardinality(T)
        BY <2>1, Z3
      <3>6. Sum(f, T) = c * Cardinality(T)
        BY <3>1, <3>3, <3>4, <3>5
      <3> QED
        BY <3>6, Zenon
    <2> QED
      BY <2>2, <2>3
  <1> HIDE DEF Good
  <1>2. S \in Good
    BY <1>1, SubsetInduction
  <1> QED
    BY <1>2 DEF Good

(* A factor of every element is a factor of the sum. *)
LEMMA SumScaled ==
  ASSUME NEW S, IsFiniteSet(S), NEW c \in Int, NEW f, NEW h,
         \A x \in S : f[x] \in Int /\ h[x] = c * f[x]
  PROVE  Sum(h, S) = c * Sum(f, S)
  <1> DEFINE zero == [x \in S |-> 0]
  <1>1. \A x \in S : f[x] \in Int /\ zero[x] \in Int /\ h[x] = c * f[x] + zero[x]
    <2> TAKE x \in S
    <2>1. c * f[x] \in Int
      BY Z3
    <2> QED
      BY <2>1
  <1>2. 0 \in Int /\ \A x \in S : zero[x] = 0
    OBVIOUS
  <1> HIDE DEF zero
  <1>3. Sum(h, S) = c * Sum(f, S) + Sum(zero, S)
    <2>1. Linear(h, c, f, zero, S)
      BY <1>1 DEF Linear
    <2> QED
      BY <2>1, SumLinear
  <1>4. Sum(zero, S) = 0 * Cardinality(S) /\ Cardinality(S) \in Nat
    BY <1>2, SumConstant, FS_CardinalityType, Zenon
  <1>5. c * Sum(f, S) \in Int
    <2>1. \A x \in S : f[x] \in Int
      OBVIOUS
    <2>2. Sum(f, S) \in Int
      BY <2>1, SumInt, Zenon
    <2> QED
      BY <2>2, Z3
  <1> QED
    BY <1>3, <1>4, <1>5

(* The sum over two sets that share no element. *)
LEMMA SumDisjoint ==
  ASSUME NEW S, IsFiniteSet(S), NEW R, IsFiniteSet(R), S \cap R = {},
         NEW f, \A x \in S \cup R : f[x] \in Int
  PROVE  Sum(f, S \cup R) = Sum(f, S) + Sum(f, R)
  <1> DEFINE Good == {T \in SUBSET R : Sum(f, S \cup T) = Sum(f, S) + Sum(f, T)}
  <1>1. ASSUME NEW T \in SUBSET R, \A U \in SUBSET T : U # T => U \in Good
        PROVE  T \in Good
    <2>1. IsFiniteSet(T) /\ IsFiniteSet(S \cup T)
      BY FS_Subset, FS_Union
    <2>2. CASE T = {}
      <3>1. Sum(f, T) = 0 /\ S \cup T = S /\ Sum(f, S) \in Int
        BY <2>2, SumEmpty, SumInt
      <3>2. Sum(f, S \cup T) = Sum(f, S) + Sum(f, T)
        BY <3>1
      <3> QED
        BY <3>2
    <2>3. CASE T # {}
      <3> DEFINE p == Picked(T)
                 V == T \ {p}
      <3>1. p \in T /\ p \notin S
        BY <2>3 DEF Picked
      <3>2. V \in Good /\ IsFiniteSet(V)
        BY <1>1, <2>1, <3>1, FS_Subset
      <3>3. (S \cup T) \ {p} = S \cup V
        BY <3>1
      <3>4. Sum(f, S \cup T) = f[p] + Sum(f, S \cup V)
        BY <2>1, <3>1, <3>3, SumRemove
      <3>5. Sum(f, T) = f[p] + Sum(f, V) /\ Sum(f, S \cup V) = Sum(f, S) + Sum(f, V)
        BY <2>1, <2>3, <3>2, SumPicked
      <3>6. Sum(f, S) \in Int /\ Sum(f, V) \in Int /\ f[p] \in Int
        BY <3>1, <3>2, SumInt
      <3> HIDE DEF V, p
      <3>7. Sum(f, S \cup T) = Sum(f, S) + Sum(f, T)
        BY <3>4, <3>5, <3>6
      <3> QED
        BY <3>7
    <2> QED
      BY <2>2, <2>3
  <1> HIDE DEF Good
  <1>2. R \in Good
    BY <1>1, SubsetInduction
  <1> QED
    BY <1>2 DEF Good
-----------------------------------------------------------------------------
(* Induction over an initial segment of the naturals, the property being a  *)
(* set.                                                                     *)
LEMMA SegmentInduction ==
  ASSUME NEW n \in Nat, NEW Good, 0 \in Good,
         \A k \in 0 .. n - 1 : k \in Good => k + 1 \in Good
  PROVE  \A k \in 0 .. n : k \in Good
  <1> DEFINE Bad == {k \in 0 .. n : k \notin Good}
  <1>1. ASSUME Bad # {} PROVE FALSE
    <2> DEFINE m == Min(Bad)
    <2>1. m \in Bad /\ \A y \in Bad : m <= y
      BY <1>1, LeastElement
    <2> HIDE DEF m
    <2>2. m # 0 /\ m - 1 \in 0 .. n - 1 /\ m - 1 \notin Bad
      BY <2>1
    <2> QED
      BY <2>1, <2>2
  <1> QED
    BY <1>1

(* The largest element of an initial segment is its bound. *)
LEMMA MaxOfSegment ==
  ASSUME NEW k \in Nat
  PROVE  Max(1 .. k + 1) = k + 1 /\ (1 .. k + 1) \ {k + 1} = 1 .. k
  <1>1. \A x \in 1 .. k + 1 : \A y \in 1 .. k + 1 :
           (\A z \in 1 .. k + 1 : x >= z) /\ (\A z \in 1 .. k + 1 : y >= z) => x = y
    OBVIOUS
  <1>2. k + 1 \in 1 .. k + 1 /\ \A z \in 1 .. k + 1 : k + 1 >= z
    OBVIOUS
  <1>3. \E x \in 1 .. k + 1 : \A y \in 1 .. k + 1 : x >= y
    BY <1>2
  <1>4. Max(1 .. k + 1) \in 1 .. k + 1 /\ \A y \in 1 .. k + 1 : Max(1 .. k + 1) >= y
    BY <1>3, Zenon DEF Max
  <1> QED
    BY <1>1, <1>2, <1>4

(* Folding a step F over the positions 1 .. n, from the largest down, as    *)
(* MapThenFoldSet does for FoldLeft.                                        *)
Folded(g, F, base, n) ==
  g = [s \in SUBSET (1 .. n) |->
         IF s = {} THEN base ELSE F[<<Max(s), g[s \ {Max(s)}]>>]]

(* Such a fold exists, and its values are in the step's type. *)
LEMMA FoldExists ==
  ASSUME NEW n \in Nat, NEW Acc, NEW base \in Acc, NEW F \in [(1 .. n) \X Acc -> Acc]
  PROVE  \E g \in [SUBSET (1 .. n) -> Acc] : Folded(g, F, base, n)
  <1> DEFINE Small(m) == SmallSubsets(1 .. n, m)
             IsFold(g, m) == g = [s \in Small(m) |->
                               IF s = {} THEN base ELSE F[<<Max(s), g[s \ {Max(s)}]>>]]
             Good == {m \in Nat : \E g \in [Small(m) -> Acc] : IsFold(g, m)}
  <1>1. IsFiniteSet(1 .. n) /\ Cardinality(1 .. n) = n
    BY FS_Interval
  <1>2. \A s \in SUBSET (1 .. n) :
          /\ IsFiniteSet(s) /\ Cardinality(s) \in Nat
          /\ s # {} => Max(s) \in s /\ Cardinality(s \ {Max(s)}) = Cardinality(s) - 1
    <2> TAKE s \in SUBSET (1 .. n)
    <2>1. IsFiniteSet(s) /\ Cardinality(s) \in Nat
      BY <1>1, FS_Subset, FS_CardinalityType
    <2>2. s # {} => Max(s) \in s
      BY GreatestElement
    <2> QED
      BY <2>1, <2>2, FS_RemoveElement
  <1>3. 0 \in Good
    <2> DEFINE g == [s \in Small(0) |-> base]
    <2>1. \A s \in Small(0) : s = {}
      <3> SUFFICES ASSUME NEW s \in Small(0) PROVE s = {}
        OBVIOUS
      <3>1. s \in SUBSET (1 .. n) /\ Cardinality(s) <= 0
        BY DEF SmallSubsets
      <3>2. IsFiniteSet(s) /\ Cardinality(s) \in Nat
        BY <1>2, <3>1
      <3> QED
        BY <3>1, <3>2, FS_EmptySet
    <2>2. IsFold(g, 0) /\ g \in [Small(0) -> Acc]
      BY <2>1
    <2> QED
      BY <2>2
  <1>4. ASSUME NEW k \in Nat, k \in Good
        PROVE  k + 1 \in Good
    <2>1. PICK g \in [Small(k) -> Acc] : IsFold(g, k)
      BY <1>4
    <2> DEFINE h == [s \in Small(k + 1) |->
                       IF s = {} THEN base ELSE F[<<Max(s), g[s \ {Max(s)}]>>]]
    <2>2. \A s \in Small(k + 1) : s # {} => /\ Max(s) \in 1 .. n
                                            /\ s \ {Max(s)} \in Small(k)
      <3> TAKE s \in Small(k + 1)
      <3> HAVE s # {}
      <3>1. s \in SUBSET (1 .. n) /\ Cardinality(s) <= k + 1
        BY DEF SmallSubsets
      <3>2. Cardinality(s \ {Max(s)}) <= k
        BY <1>2, <3>1
      <3> QED
        BY <1>2, <3>1, <3>2 DEF SmallSubsets
    <2>3. \A t \in Small(k) : t \in Small(k + 1) /\ h[t] = g[t]
      <3> TAKE t \in Small(k)
      <3>1. t \in Small(k + 1)
        <4>1. t \in SUBSET (1 .. n) /\ Cardinality(t) <= k
          BY DEF SmallSubsets
        <4>2. Cardinality(t) \in Nat
          BY <1>2, <4>1
        <4>3. Cardinality(t) <= k + 1
          BY <4>1, <4>2
        <4> HIDE DEF h
        <4> QED
          BY <4>1, <4>3 DEF SmallSubsets
      <3>2. g[t] = IF t = {} THEN base ELSE F[<<Max(t), g[t \ {Max(t)}]>>]
        BY <2>1, Zenon
      <3> QED
        BY <3>1, <3>2, Zenon
    <2>4. \A s \in Small(k + 1) :
             /\ h[s] = IF s = {} THEN base ELSE F[<<Max(s), h[s \ {Max(s)}]>>]
             /\ h[s] \in Acc
      <3> TAKE s \in Small(k + 1)
      <3>1. CASE s = {}
        BY <3>1
      <3>2. CASE s # {}
        <4>1. Max(s) \in 1 .. n /\ s \ {Max(s)} \in Small(k)
          BY <2>2, <3>2
        <4>2. h[s] = F[<<Max(s), g[s \ {Max(s)}]>>] /\ g[s \ {Max(s)}] \in Acc
              /\ h[s \ {Max(s)}] = g[s \ {Max(s)}]
          BY <2>1, <2>3, <3>2, <4>1
        <4> HIDE DEF h
        <4> QED
          BY <3>2, <4>1, <4>2
      <3> QED
        BY <3>1, <3>2
    <2>5. h = [s \in Small(k + 1) |-> h[s]]
      OBVIOUS
    <2> HIDE DEF h
    <2>6. IsFold(h, k + 1) /\ h \in [Small(k + 1) -> Acc]
      BY <2>4, <2>5, Zenon
    <2>7. k + 1 \in Nat
      OBVIOUS
    <2> QED
      BY <2>6, <2>7, Zenon
  <1>5. n \in Good
    <2> HIDE DEF Good
    <2>1. \A k \in 0 .. n - 1 : k \in Good => k + 1 \in Good
      BY <1>4
    <2> QED
      BY <1>3, <2>1, SegmentInduction
  <1>6. Small(n) = SUBSET (1 .. n)
    <2>1. \A s \in SUBSET (1 .. n) : Cardinality(s) <= n
      <3> TAKE s \in SUBSET (1 .. n)
      <3>1. Cardinality(s) <= Cardinality(1 .. n)
        BY <1>1, FS_Subset
      <3> QED
        BY <1>1, <3>1
    <2> QED
      BY <2>1 DEF SmallSubsets
  <1>7. PICK g \in [Small(n) -> Acc] : IsFold(g, n)
    BY <1>5
  <1> QED
    BY <1>6, <1>7 DEF Folded

(* What g computes is the fold of F, as far as its values are in Acc. *)
FoldsIn(g, F, base, n, Acc) ==
  /\ g[{}] = base
  /\ \A s \in SUBSET (1 .. n) : s # {} /\ g[s \ {Max(s)}] \in Acc =>
       g[s] = F[<<Max(s), g[s \ {Max(s)}]>>]

(* The steps of a fold, one after the other, ending in `result`. *)
IsRun(run, F, base, n, Acc, result) ==
  /\ run \in [0 .. n -> Acc]
  /\ run[0] = base /\ run[n] = result
  /\ \A k \in 1 .. n : run[k] = F[<<k, run[k - 1]>>]

(* The values a fold takes on the initial segments of 1 .. n are those of   *)
(* taking one step after the other, and they are in the step's type.        *)
LEMMA FoldSteps ==
  ASSUME NEW n \in Nat, NEW Acc, NEW base \in Acc, NEW F \in [(1 .. n) \X Acc -> Acc],
         NEW g, FoldsIn(g, F, base, n, Acc)
  PROVE  \E run : IsRun(run, F, base, n, Acc, g[1 .. n])
  <1> USE DEF FoldsIn, IsRun
  <1> DEFINE run == [k \in 0 .. n |-> g[1 .. k]]
             Good == {k \in 0 .. n : run[k] \in Acc}
  <1>1. run[0] = base /\ run[n] = g[1 .. n]
    <2>1. 1 .. 0 = {} /\ 0 \in 0 .. n /\ n \in 0 .. n
      OBVIOUS
    <2> QED
      BY <2>1, Zenon
  <1>2. ASSUME NEW k \in 0 .. n - 1, run[k] \in Acc
        PROVE  run[k + 1] = F[<<k + 1, run[k]>>] /\ run[k + 1] \in Acc
    <2>1. /\ k \in Nat /\ k \in 0 .. n /\ k + 1 \in 0 .. n /\ k + 1 \in 1 .. n
          /\ k + 1 \in 1 .. k + 1 /\ 1 .. k + 1 \in SUBSET (1 .. n)
      OBVIOUS
    <2>2. Max(1 .. k + 1) = k + 1 /\ (1 .. k + 1) \ {k + 1} = 1 .. k
      BY <2>1, MaxOfSegment
    <2>3. run[k] = g[1 .. k] /\ run[k + 1] = g[1 .. k + 1]
      BY <2>1, Zenon
    <2>4. 1 .. k + 1 # {}
      BY <2>1, Zenon
    <2> HIDE DEF run
    <2>5. run[k + 1] = F[<<k + 1, run[k]>>]
      BY <1>2, <2>1, <2>2, <2>3, <2>4, Zenon
    <2>6. <<k + 1, run[k]>> \in (1 .. n) \X Acc
      BY <1>2, <2>1
    <2> QED
      BY <2>5, <2>6, Zenon
  <1>3. \A k \in 0 .. n : k \in Good
    <2>1. 0 \in Good
      BY <1>1
    <2>2. ASSUME NEW k \in 0 .. n - 1, k \in Good PROVE k + 1 \in Good
      <3>0. run[k] \in Acc
        BY <2>2, Zenon
      <3>1. run[k + 1] \in Acc /\ k + 1 \in 0 .. n
        <4>1. run[k + 1] \in Acc
          BY <1>2, <3>0, Zenon
        <4>2. k + 1 \in 0 .. n
          OBVIOUS
        <4> QED
          BY <4>1, <4>2, Zenon
      <3> QED
        BY <3>1
    <2> HIDE DEF Good
    <2> QED
      BY <2>1, <2>2, SegmentInduction
  <1>4. run \in [0 .. n -> Acc]
    BY <1>3
  <1>5. ASSUME NEW k \in 1 .. n PROVE run[k] = F[<<k, run[k - 1]>>]
    <2>1. k - 1 \in 0 .. n - 1 /\ (k - 1) + 1 = k /\ k - 1 \in 0 .. n
      OBVIOUS
    <2>2. run[k - 1] \in Acc
      BY <1>3, <2>1
    <2> QED
      BY <1>2, <2>1, <2>2
  <1> QED
    BY <1>1, <1>4, <1>5, Zenon
=============================================================================
