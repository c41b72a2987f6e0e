---------------------------- MODULE StorageProofs ----------------------------
(***************************************************************************)
(* What the daemon keeps stays within its bounds, in memory and on disk:   *)
(* theorems about JobStorage, for any requests, clients, bodies and        *)
(* limits, and about ResultCache, for any jobs, keys, restarts and damage. *)
(***************************************************************************)
EXTENDS JobStorage, ResultCache, FiniteSetTheorems, WellFoundedInduction, TLAPS

-----------------------------------------------------------------------------
(* Sums *)

Total(f, S) == MapThenSumSet(LAMBDA x : f[x], S)

\* What the recursion of the sum asks of g at the set s.
Adds(g, f, s) ==
  g[s] = IF s = {} THEN 0
         ELSE LET x == CHOOSE x \in s : TRUE IN f[x] + g[s \ {x}]

\* g is the function on the subsets of S that the sum is defined by.
Sums(g, f, S) ==
  g = [s \in SUBSET S |-> IF s = {} THEN 0
                          ELSE LET x == CHOOSE x \in s : TRUE IN f[x] + g[s \ {x}]]

\* Induction, without an operator as parameter: a least counterexample.
LEMMA LeastNumber ==
  ASSUME NEW N \in SUBSET Nat, N # {}
  PROVE  \E n \in N : \A m \in N : ~ m < n
<1> DEFINE R == OpToRel(<, Nat)
<1>1. IsWellFoundedOn(R, Nat)
  BY NatLessThanWellFounded
<1>2. \A m, n \in N : m < n => <<m, n>> \in R
  BY DEF OpToRel
<1> HIDE DEF R
<1>3. \E n \in N : \A m \in N : ~ (<<m, n>> \in R)
  BY <1>1, WFMin
<1> QED BY <1>2, <1>3

LEMMA LeastSubset ==
  ASSUME NEW S, IsFiniteSet(S), NEW F \in SUBSET (SUBSET S), F # {}
  PROVE  \E s \in F : \A t \in F : t \subseteq s => t = s
<1> DEFINE R == StrictSubsetOrdering(S)
<1>1. IsWellFoundedOn(R, SUBSET S)
  BY FS_StrictSubsetOrderingWellFounded, FS_FiniteSubsetsOfFinite
<1>2. \A s, t \in F : t \subseteq s /\ t # s => <<t, s>> \in R
  BY DEF StrictSubsetOrdering
<1> HIDE DEF R
<1>3. \E s \in F : \A t \in F : ~ (<<t, s>> \in R)
  BY <1>1, WFMin
<1> QED BY <1>2, <1>3

LEMMA SmallSums ==
  ASSUME NEW f, NEW S, IsFiniteSet(S)
  PROVE  \A n \in Nat : \E g : \A s \in SUBSET S : Cardinality(s) <= n => Adds(g, f, s)
<1> DEFINE N == {n \in Nat : ~ \E g : \A s \in SUBSET S : Cardinality(s) <= n => Adds(g, f, s)}
<1> SUFFICES ASSUME N # {} PROVE FALSE
  OBVIOUS
<1>1. PICK n \in N : \A m \in N : ~ m < n
  BY LeastNumber
<1>2. \A s \in SUBSET S : Cardinality(s) \in Nat /\ (Cardinality(s) = 0 => s = {})
  BY FS_Subset, FS_CardinalityType, FS_EmptySet
<1>3. CASE n = 0
  <2> DEFINE g == [s \in SUBSET S |-> 0]
  <2>1. \A s \in SUBSET S : Cardinality(s) <= 0 => Adds(g, f, s)
    BY <1>2 DEF Adds
  <2> QED BY <1>1, <1>3, <2>1
<1>4. CASE n # 0
  <2>1. n - 1 \in Nat /\ n - 1 \notin N
    BY <1>1, <1>4
  <2>2. PICK g : \A s \in SUBSET S : Cardinality(s) <= n - 1 => Adds(g, f, s)
    BY <2>1
  <2> DEFINE h == [s \in SUBSET S |-> IF s = {} THEN 0
                     ELSE LET x == CHOOSE x \in s : TRUE IN f[x] + g[s \ {x}]]
  <2>3. ASSUME NEW s \in SUBSET S, Cardinality(s) <= n - 1
        PROVE  h[s] = g[s]
    BY <2>2, <2>3 DEF Adds
  <2>4. ASSUME NEW s \in SUBSET S, Cardinality(s) <= n
        PROVE  Adds(h, f, s)
    <3>1. CASE s = {}
      BY <3>1 DEF Adds
    <3>2. CASE s # {}
      <4> DEFINE x == CHOOSE x \in s : TRUE
      <4>1. x \in s
        BY <3>2
      <4>2. s \ {x} \in SUBSET S /\ Cardinality(s \ {x}) <= n - 1
            <5>1. IsFiniteSet(s) /\ Cardinality(s \ {x}) = Cardinality(s) - 1
          BY <4>1, FS_Subset, FS_RemoveElement
        <5> QED BY <1>1, <1>2, <2>4, <5>1
      <4>3. h[s \ {x}] = g[s \ {x}]
        BY <2>3, <4>2
      <4>4. h[s] = f[x] + g[s \ {x}]
        BY <3>2
      <4> HIDE DEF h
      <4> QED BY <3>2, <4>3, <4>4 DEF Adds
    <3> QED BY <3>1, <3>2
  <2> QED BY <1>1, <2>4
<1> QED BY <1>3, <1>4

\* The sum of a finite set is given by a function that satisfies its recursion.
LEMMA SumsExist ==
  ASSUME NEW f, NEW S, IsFiniteSet(S)
  PROVE  \E g : Sums(g, f, S) /\ Total(f, S) = g[S]
<1>1. PICK g : \A s \in SUBSET S : Adds(g, f, s)
  <2>1. \A s \in SUBSET S : Cardinality(s) <= Cardinality(S)
    BY FS_Subset
  <2> QED BY <2>1, SmallSums, FS_CardinalityType
<1>2. \E k : Sums(k, f, S)
  <2> DEFINE k == [s \in SUBSET S |-> g[s]]
  <2>1. ASSUME NEW s \in SUBSET S
        PROVE  k[s] = IF s = {} THEN 0
                      ELSE LET x == CHOOSE x \in s : TRUE IN f[x] + k[s \ {x}]
    <3> DEFINE x == CHOOSE x \in s : TRUE
    <3>1. s \ {x} \in SUBSET S
      OBVIOUS
    <3> QED BY <1>1, <3>1 DEF Adds
  <2>2. k = [s \in SUBSET S |-> k[s]]
    OBVIOUS
  <2> HIDE DEF k
  <2>3. Sums(k, f, S)
    BY <2>1, <2>2 DEF Sums
  <2> QED BY <2>3
<1> DEFINE h == CHOOSE k : Sums(k, f, S)
<1>3. Sums(h, f, S)
  BY <1>2, Zenon
<1>4. Total(f, S) = h[S]
  BY Zenon DEF Total, MapThenSumSet, MapThenFoldSet, Sums
<1> HIDE DEF h
<1> QED BY <1>3, <1>4

LEMMA SumsStep ==
  ASSUME NEW f, NEW S, NEW g, Sums(g, f, S), NEW s \in SUBSET S
  PROVE  /\ s = {} => g[s] = 0
         /\ s # {} => \E x \in s : g[s] = f[x] + g[s \ {x}]
<1>1. g[s] = IF s = {} THEN 0
             ELSE LET x == CHOOSE x \in s : TRUE IN f[x] + g[s \ {x}]
  BY DEF Sums
<1> QED BY <1>1

LEMMA SumsType ==
  ASSUME NEW f, NEW S, IsFiniteSet(S), \A x \in S : f[x] \in Nat, NEW g, Sums(g, f, S)
  PROVE  \A s \in SUBSET S : g[s] \in Nat
<1> DEFINE F == {s \in SUBSET S : g[s] \notin Nat}
<1> SUFFICES ASSUME F # {} PROVE FALSE
  OBVIOUS
<1>1. PICK s \in F : \A t \in F : t \subseteq s => t = s
  <2>1. F \in SUBSET (SUBSET S)
    OBVIOUS
  <2> HIDE DEF F
  <2> QED BY <2>1, LeastSubset
<1>2. s # {}
  BY <1>1, SumsStep
<1>3. PICK x \in s : g[s] = f[x] + g[s \ {x}]
  BY <1>2, SumsStep
<1>4. g[s \ {x}] \in Nat
  BY <1>1
<1> QED BY <1>1, <1>3, <1>4

LEMMA SumsSplit ==
  ASSUME NEW f, NEW S, IsFiniteSet(S), \A x \in S : f[x] \in Nat, NEW g, Sums(g, f, S)
  PROVE  \A s \in SUBSET S : \A x \in s : g[s] = f[x] + g[s \ {x}]
<1> DEFINE F == {s \in SUBSET S : ~ \A x \in s : g[s] = f[x] + g[s \ {x}]}
<1> SUFFICES ASSUME F # {} PROVE FALSE
  OBVIOUS
<1>1. PICK s \in F : \A t \in F : t \subseteq s => t = s
  <2>1. F \in SUBSET (SUBSET S)
    OBVIOUS
  <2> HIDE DEF F
  <2> QED BY <2>1, LeastSubset
<1>2. PICK x \in s : g[s] # f[x] + g[s \ {x}]
  BY <1>1
<1>3. PICK y \in s : g[s] = f[y] + g[s \ {y}]
  BY <1>2, SumsStep
<1>4. x # y
  BY <1>2, <1>3
<1>5. g[s \ {y}] = f[x] + g[(s \ {y}) \ {x}]
  <2>1. s \ {y} \notin F /\ s \ {y} \in SUBSET S /\ x \in s \ {y}
    BY <1>1, <1>4
  <2> QED BY <2>1
<1>6. g[s \ {x}] = f[y] + g[(s \ {y}) \ {x}]
  <2>1. s \ {x} \notin F /\ s \ {x} \in SUBSET S /\ y \in s \ {x}
    BY <1>1, <1>4
  <2>2. (s \ {x}) \ {y} = (s \ {y}) \ {x}
    OBVIOUS
  <2> QED BY <2>1, <2>2
<1>7. f[x] \in Nat /\ f[y] \in Nat /\ g[(s \ {y}) \ {x}] \in Nat
  BY SumsType
<1>8. f[y] + (f[x] + g[(s \ {y}) \ {x}]) = f[x] + (f[y] + g[(s \ {y}) \ {x}])
  <2>1. \A i, j, k \in Nat : i + (j + k) = j + (i + k)
    OBVIOUS
  <2> QED BY <1>7, <2>1, Zenon
<1> QED BY <1>2, <1>3, <1>5, <1>6, <1>8, Zenon

LEMMA SumsBelow ==
  ASSUME NEW f, NEW S, IsFiniteSet(S), \A x \in S : f[x] \in Nat, NEW g, Sums(g, f, S),
         NEW e, NEW T, IsFiniteSet(T), \A x \in T : e[x] \in Nat, NEW h, Sums(h, e, T),
         \A x \in S : f[x] = 0 \/ (x \in T /\ f[x] <= e[x])
  PROVE  \A s \in SUBSET S : g[s] <= h[s \cap T]
<1> DEFINE F == {s \in SUBSET S : ~ g[s] <= h[s \cap T]}
<1> SUFFICES ASSUME F # {} PROVE FALSE
  OBVIOUS
<1>1. PICK s \in F : \A t \in F : t \subseteq s => t = s
  <2>1. F \in SUBSET (SUBSET S)
    OBVIOUS
  <2> HIDE DEF F
  <2> QED BY <2>1, LeastSubset
<1>2. CASE s = {}
  BY <1>1, <1>2, SumsStep
<1>3. ASSUME NEW x \in s PROVE FALSE
  <2>1. g[s] = f[x] + g[s \ {x}] /\ g[s \ {x}] <= h[(s \ {x}) \cap T]
    BY <1>1, SumsSplit
  <2>2. f[x] \in Nat /\ g[s \ {x}] \in Nat
    BY SumsType
  <2>3. h[s \cap T] \in Nat /\ h[(s \ {x}) \cap T] \in Nat
    BY SumsType
  <2>4. CASE x \in T
    <3>1. h[s \cap T] = e[x] + h[(s \cap T) \ {x}]
      BY <2>4, SumsSplit
    <3>2. (s \cap T) \ {x} = (s \ {x}) \cap T
      OBVIOUS
    <3>3. f[x] <= e[x] /\ e[x] \in Nat
      BY <2>4
    <3>4. h[s \cap T] = e[x] + h[(s \ {x}) \cap T]
      BY <3>1, <3>2
    <3>5. \A i, j, k, l \in Nat : i <= j /\ k <= l => i + k <= j + l
      OBVIOUS
    <3>6. f[x] + g[s \ {x}] <= e[x] + h[(s \ {x}) \cap T]
      BY <2>1, <2>2, <2>3, <3>3, <3>5
    <3>7. g[s] <= h[s \cap T]
      BY <2>1, <3>4, <3>6, Zenon
    <3> QED BY <1>1, <3>7
  <2>5. CASE x \notin T
    <3>1. f[x] = 0 /\ (s \ {x}) \cap T = s \cap T
      BY <2>5
    <3>2. g[s] = g[s \ {x}]
      BY <2>1, <2>2, <3>1
    <3>3. g[s] <= h[s \cap T]
      BY <2>1, <3>1, <3>2
    <3> QED BY <1>1, <3>3
  <2> QED BY <2>4, <2>5
<1> QED BY <1>2, <1>3

LEMMA TotalType ==
  ASSUME NEW f, NEW S, IsFiniteSet(S), \A x \in S : f[x] \in Nat
  PROVE  Total(f, S) \in Nat
BY SumsExist, SumsType

LEMMA TotalSame ==
  ASSUME NEW f, NEW e, NEW S, IsFiniteSet(S), \A x \in S : f[x] \in Nat /\ e[x] = f[x]
  PROVE  Total(e, S) = Total(f, S)
<1>1. PICK g : Sums(g, f, S) /\ Total(f, S) = g[S]
  BY SumsExist
<1>2. PICK h : Sums(h, e, S) /\ Total(e, S) = h[S]
  BY SumsExist
<1>3. g[S] <= h[S \cap S] /\ h[S] <= g[S \cap S]
  BY <1>1, <1>2, SumsBelow
<1>4. g[S] \in Nat /\ h[S] \in Nat
  BY <1>1, <1>2, SumsType
<1> QED BY <1>1, <1>2, <1>3, <1>4

LEMMA TotalEmpty == ASSUME NEW f PROVE Total(f, {}) = 0
<1>1. IsFiniteSet({}) /\ {} \in SUBSET {}
  BY FS_EmptySet
<1> QED BY <1>1, SumsExist, SumsStep

\* The sum, split at any of its elements.
LEMMA TotalSplit ==
  ASSUME NEW f, NEW S, IsFiniteSet(S), \A x \in S : f[x] \in Nat, NEW x \in S
  PROVE  Total(f, S) = f[x] + Total(f, S \ {x})
<1>1. PICK g : Sums(g, f, S) /\ Total(f, S) = g[S]
  BY SumsExist
<1>2. IsFiniteSet(S \ {x})
  BY FS_RemoveElement
<1>3. PICK h : Sums(h, f, S \ {x}) /\ Total(f, S \ {x}) = h[S \ {x}]
  BY <1>2, SumsExist
<1>4. g[S] = f[x] + g[S \ {x}]
  BY <1>1, SumsSplit
<1>5. h[S \ {x}] <= g[(S \ {x}) \cap S] /\ (S \ {x}) \cap S = S \ {x}
  BY <1>1, <1>2, <1>3, SumsBelow
<1>6. h[S \ {x}] \in Nat /\ g[S \ {x}] \in Nat
  BY <1>1, <1>2, <1>3, SumsType
<1>7. g[S \ {x}] <= h[S \ {x}]
  <2>1. Sums([s \in SUBSET (S \ {x}) |-> g[s]], f, S \ {x})
    BY <1>1 DEF Sums
  <2> QED BY <1>2, <1>3, <2>1, SumsBelow
<1> QED BY <1>1, <1>3, <1>4, <1>5, <1>6, <1>7

\* A sum grows with its set and with its terms; terms that are zero are free.
LEMMA TotalBelow ==
  ASSUME NEW f, NEW S, IsFiniteSet(S), \A x \in S : f[x] \in Nat,
         NEW e, NEW T, IsFiniteSet(T), \A x \in T : e[x] \in Nat,
         \A x \in S : f[x] = 0 \/ (x \in T /\ f[x] <= e[x])
  PROVE  Total(f, S) <= Total(e, T)
<1>1. PICK g : Sums(g, f, S) /\ Total(f, S) = g[S]
  BY SumsExist
<1>2. PICK h : Sums(h, e, T) /\ Total(e, T) = h[T]
  BY SumsExist
<1>3. g[S] <= h[S \cap T]
  BY <1>1, <1>2, SumsBelow
<1>4. h[S \cap T] <= h[T]
  <2> DEFINE F == {W \in SUBSET T : ~ h[T \ W] <= h[T]}
  <2> SUFFICES F = {}
    <3>1. T \ (T \ S) = S \cap T
      OBVIOUS
    <3> QED BY <3>1
  <2> SUFFICES ASSUME F # {} PROVE FALSE
    OBVIOUS
  <2>1. PICK W \in F : \A V \in F : V \subseteq W => V = W
    <3>1. F \in SUBSET (SUBSET T)
      OBVIOUS
    <3> HIDE DEF F
    <3> QED BY <3>1, LeastSubset
  <2>2. \A s \in SUBSET T : h[s] \in Nat
    BY <1>2, SumsType
  <2>3. CASE W = {}
    BY <2>1, <2>2, <2>3
  <2>4. ASSUME NEW x \in W PROVE FALSE
    <3>1. h[T \ (W \ {x})] <= h[T]
      <4>1. W \ {x} \notin F /\ W \ {x} \in SUBSET T
        BY <2>1
      <4> QED BY <4>1
    <3>2. h[T \ (W \ {x})] = e[x] + h[(T \ (W \ {x})) \ {x}]
      BY <1>2, SumsSplit
    <3>3. (T \ (W \ {x})) \ {x} = T \ W
      OBVIOUS
    <3>4. e[x] + h[T \ W] <= h[T]
      BY <3>1, <3>2, <3>3
    <3>5. h[T \ W] <= h[T]
      <4>1. e[x] \in Nat /\ h[T \ W] \in Nat /\ h[T] \in Nat
        BY <2>2
      <4> QED BY <3>4, <4>1
    <3> QED BY <2>1, <3>5
  <2> QED BY <2>3, <2>4
<1>5. g[S] \in Nat /\ h[S \cap T] \in Nat /\ h[T] \in Nat
  BY <1>1, <1>2, SumsType
<1> QED BY <1>1, <1>2, <1>3, <1>4, <1>5

\* The sum of the sizes of the entries of f.
ByteTotal(f, S) == MapThenSumSet(LAMBDA x : f[x].bytes, S)

ByteSums(g, f, S) ==
  g = [s \in SUBSET S |-> IF s = {} THEN 0
                          ELSE LET x == CHOOSE x \in s : TRUE IN f[x].bytes + g[s \ {x}]]

LEMMA ByteTotalIs ==
  ASSUME NEW f, NEW S, IsFiniteSet(S), \A x \in S : f[x].bytes \in Nat,
         NEW e, \A x \in S : e[x] = f[x].bytes
  PROVE  ByteTotal(f, S) = Total(e, S)
<1>1. ASSUME NEW k PROVE ByteSums(k, f, S) <=> Sums(k, e, S)
  <2>1. ASSUME NEW s \in SUBSET S
        PROVE  (IF s = {} THEN 0
                ELSE LET x == CHOOSE x \in s : TRUE IN f[x].bytes + k[s \ {x}])
             = (IF s = {} THEN 0
                ELSE LET x == CHOOSE x \in s : TRUE IN e[x] + k[s \ {x}])
    <3> DEFINE x == CHOOSE x \in s : TRUE
    <3>1. s # {} => x \in S
      OBVIOUS
    <3> HIDE DEF x
    <3>2. s # {} => f[x].bytes + k[s \ {x}] = e[x] + k[s \ {x}]
      BY <3>1
    <3> QED BY <3>2 DEF x
  <2> QED BY <2>1 DEF ByteSums, Sums
<1>2. PICK g : Sums(g, e, S) /\ Total(e, S) = g[S]
  BY SumsExist
<1> DEFINE h == CHOOSE k : ByteSums(k, f, S)
<1>3. ByteSums(h, f, S)
  BY <1>1, <1>2, Zenon
<1>4. ByteTotal(f, S) = h[S]
  BY Zenon DEF ByteTotal, MapThenSumSet, MapThenFoldSet, ByteSums
<1> HIDE DEF h
<1>5. Sums(h, e, S)
  BY <1>1, <1>3
<1>6. \A x \in S : e[x] \in Nat /\ (e[x] = 0 \/ (x \in S /\ e[x] <= e[x]))
  OBVIOUS
<1>7. g[S] <= h[S] /\ h[S] <= g[S]
  <2>1. g[S] <= h[S \cap S] /\ h[S] <= g[S \cap S] /\ S \cap S = S
    BY <1>2, <1>5, <1>6, SumsBelow
  <2> QED BY <2>1, Zenon
<1>8. g[S] \in Nat /\ h[S] \in Nat
  BY <1>2, <1>5, <1>6, SumsType
<1>9. h[S] = g[S]
  BY <1>7, <1>8
<1> QED BY <1>2, <1>4, <1>9, Zenon

LEMMA ByteTotalBelow ==
  ASSUME NEW f, NEW S, IsFiniteSet(S), \A x \in S : f[x].bytes \in Nat,
         NEW e, NEW T, IsFiniteSet(T), \A x \in T : e[x].bytes \in Nat,
         \A x \in S : x \in T /\ f[x].bytes = e[x].bytes
  PROVE  ByteTotal(f, S) <= ByteTotal(e, T)
<1> DEFINE i == [x \in S |-> f[x].bytes]
           j == [x \in T |-> e[x].bytes]
<1>1. \A x \in S : i[x] = f[x].bytes /\ i[x] \in Nat
  OBVIOUS
<1>2. \A x \in T : j[x] = e[x].bytes /\ j[x] \in Nat
  OBVIOUS
<1> HIDE DEF i, j
<1>3. ByteTotal(f, S) = Total(i, S)
  BY <1>1, ByteTotalIs
<1>4. ByteTotal(e, T) = Total(j, T)
  BY <1>2, ByteTotalIs
<1>5. \A x \in S : x \in T /\ i[x] <= j[x]
  BY <1>1, <1>2
<1>6. Total(i, S) <= Total(j, T)
  BY <1>1, <1>2, <1>5, TotalBelow
<1> QED BY <1>3, <1>4, <1>6

LEMMA ByteTotalOne ==
  ASSUME NEW f, NEW x, f[x].bytes \in Nat
  PROVE  ByteTotal(f, {x}) = f[x].bytes
<1> DEFINE i == [y \in {x} |-> f[y].bytes]
<1>1. IsFiniteSet({x}) /\ \A y \in {x} : i[y] = f[y].bytes /\ i[y] \in Nat
  BY FS_Singleton
<1> HIDE DEF i
<1>2. ByteTotal(f, {x}) = Total(i, {x})
  BY <1>1, ByteTotalIs
<1>3. Total(i, {x}) = i[x] + Total(i, {x} \ {x}) /\ {x} \ {x} = {}
  BY <1>1, TotalSplit
<1>4. Total(i, {}) = 0
  BY TotalEmpty
<1>5. Total(i, {x}) = i[x] + 0
  BY <1>3, <1>4, Zenon
<1> QED BY <1>1, <1>2, <1>5

-----------------------------------------------------------------------------
(* Types of the cache *)

LEMMA TaskBytes ==
    ASSUME NEW task \in Task
    PROVE  Bytes(task) \in Nat
<1>1. task.key \in Keys /\ task.items \in Results
    BY DEF Task
<1>2. DOMAIN task.items \subseteq Items
    BY <1>1 DEF Results
<1>3. Cardinality(DOMAIN task.items) \in Nat
    BY <1>2, KeysAssumption, FS_Subset, FS_CardinalityType DEF KeysAssumption
<1>4. Weight[task.key] \in Nat
    BY <1>1, KeysAssumption DEF KeysAssumption
<1> QED BY <1>3, <1>4 DEF Bytes

LEMMA EmptyResult == Nothing \in Results
<1>1. Nothing \in [{} -> Outcomes]
    BY DEF Nothing
<1>2. {} \in SUBSET Items
    OBVIOUS
<1> QED BY <1>1, <1>2 DEF Results, Nothing

LEMMA CacheTypeInit == CacheInit => CacheTypeOK
<1> SUFFICES ASSUME CacheInit PROVE CacheTypeOK
    OBVIOUS
<1>1. index \in [{} -> {}] /\ DOMAIN index = {}
    BY DEF CacheInit, Nothing
<1>2. queue \in Seq(Task) /\ Len(queue) <= Channel
    BY DEF CacheInit, Channel
<1>3. result \in [Jobs -> Results]
    BY EmptyResult DEF CacheInit
<1>4. faults \in 0..MaxFaults
    BY CacheBoundsAssumption DEF CacheBoundsAssumption, CacheInit
<1> QED BY <1>1, <1>2, <1>3, <1>4 DEF CacheInit, CacheTypeOK
LEMMA FileOn ==
    ASSUME CacheTypeOK, NEW k \in Keys, On(k)
    PROVE  files[k] \in File /\ Metadata(k) \in [bytes : Nat, modified : Nat]
BY DEF CacheTypeOK, On, Metadata, File

LEMMA KnownType ==
    ASSUME CacheTypeOK
    PROVE  /\ DOMAIN Known \subseteq Keys
           /\ \A k \in DOMAIN Known : Known[k] \in [bytes : Nat, modified : Nat]
<1>1. CASE scanned
    BY <1>1 DEF Known, CacheTypeOK
<1>2. CASE ~scanned
    BY <1>2, FileOn DEF Known
<1> QED BY <1>1, <1>2 DEF CacheTypeOK

LEMMA ListedType ==
    ASSUME CacheTypeOK, written # Idle, On(written)
    PROVE  /\ DOMAIN Listed \subseteq Keys
           /\ \A k \in DOMAIN Listed : Listed[k] \in [bytes : Nat, modified : Nat]
<1>1. written \in Keys
    BY DEF CacheTypeOK
<1>2. Metadata(written) \in [bytes : Nat, modified : Nat]
    BY <1>1, FileOn
<1> QED BY <1>1, <1>2, KnownType DEF Listed

LEMMA SendType ==
    ASSUME CacheTypeOK, NEW task \in Task, Send(task)
    PROVE  queue' \in Seq(Task) /\ Len(queue') <= Channel
BY DEF Send, CacheTypeOK, Channel

LEMMA CacheTypeStep == CacheTypeOK /\ [CacheNext]_cacheVars => CacheTypeOK'
<1> SUFFICES ASSUME CacheTypeOK, [CacheNext]_cacheVars PROVE CacheTypeOK'
    OBVIOUS
<1> USE DEF CacheTypeOK
<1>1. CASE Persist
  <2> DEFINE task == Head(queue)
  <2>1. queue # <<>> /\ task \in Task /\ queue' = Tail(queue)
    BY <1>1 DEF Persist
  <2>2. queue' \in Seq(Task) /\ Len(queue') <= Channel
    BY <2>1 DEF Channel
  <2>3. task.key \in Keys /\ task.items \in Results /\ Bytes(task) \in Nat
    BY <2>1, TaskBytes DEF Task
  <2>4. CASE Persistable(task)
    <3> DEFINE file == [kind |-> "result", items |-> task.items,
                        bytes |-> Bytes(task), modified |-> clock + 1]
    <3>1. file \in File
        BY <2>3 DEF File
    <3>2. files' = [files EXCEPT ![task.key] = file] /\ written' = task.key
          /\ clock' = clock + 1
        BY <1>1, <2>4 DEF Persist
    <3> HIDE DEF file, task
    <3>3. files' \in [Keys -> File \cup {NoFile}]
        BY <3>1, <3>2
    <3> QED BY <1>1, <2>2, <2>3, <3>2, <3>3 DEF Persist, request
  <2>5. CASE ~Persistable(task)
    BY <1>1, <2>2, <2>5 DEF Persist, request
  <2> QED BY <2>4, <2>5
<1>2. CASE Prune
  <2>1. CASE On(written)
    <3> DEFINE kept == {k \in DOMAIN Listed : Survives(Listed, k)}
    <3>1. index' = [k \in kept |-> Listed[k]]
          /\ files' = [k \in Keys |-> IF k \in DOMAIN Listed \ kept THEN NoFile
                                      ELSE files[k]]
        BY <1>2, <2>1 DEF Prune
    <3>2. kept \subseteq DOMAIN Listed
        OBVIOUS
    <3> HIDE DEF kept
    <3>3. DOMAIN index' \subseteq Keys
          /\ \A k \in DOMAIN index' : index'[k] \in [bytes : Nat, modified : Nat]
        BY <1>2, <2>1, <3>1, <3>2, ListedType DEF Prune
    <3>4. files' \in [Keys -> File \cup {NoFile}]
        BY <3>1
    <3> QED BY <1>2, <3>3, <3>4 DEF Prune, request
  <2>2. CASE ~On(written)
    BY <1>2, <2>2, KnownType DEF Prune, request
  <2> QED BY <2>1, <2>2
<1>3. CASE Restart
  <2>1. queue' \in Seq(Task) /\ Len(queue') <= Channel
    BY <1>3 DEF Restart, Channel
  <2>2. DOMAIN index' = {} /\ faults' \in 0..MaxFaults
    BY <1>3, CacheBoundsAssumption DEF Restart, Nothing, CacheBoundsAssumption
  <2> QED BY <1>3, <2>1, <2>2 DEF Restart, request
<1>4. ASSUME NEW j \in Jobs, Load(j) PROVE CacheTypeOK'
  <2>1. UNCHANGED <<files, writer, request, faults>>
    BY <1>4 DEF Load
  <2>2. stage' \in [Jobs -> {"new", "bad", "running", "cached", "over"}]
    BY <1>4 DEF Load, Proceed
  <2>3. result' \in [Jobs -> Results]
    <3>1. CASE On(key[j]) /\ Readable(key[j])
      <4>1. key[j] \in Keys
        OBVIOUS
      <4>2. files[key[j]].items \in Results
        BY <3>1, <4>1, FileOn DEF File
      <4> QED BY <1>4, <3>1, <4>2 DEF Load
    <3>2. CASE ~(On(key[j]) /\ Readable(key[j]))
        BY <1>4, <3>2 DEF Load
    <3> QED BY <3>1, <3>2
  <2> QED BY <2>1, <2>2, <2>3 DEF writer, request
<1>5. ASSUME NEW j \in Jobs, Invalidate(j) PROVE CacheTypeOK'
    BY <1>5 DEF Invalidate, Proceed, writer, request
<1>6. ASSUME NEW j \in Jobs, Complete(j) PROVE CacheTypeOK'
  <2>1. PICK items \in [Requested(j) -> Outcomes] :
            Send([key |-> key[j], retry |-> retry[j], items |-> items])
    BY <1>6 DEF Complete
  <2>2. Requested(j) \in SUBSET Items
    BY DEF Requested
  <2>3. items \in Results
    BY <2>1, <2>2 DEF Results
  <2>4. [key |-> key[j], retry |-> retry[j], items |-> items] \in Task
    BY <2>3 DEF Task
  <2>5. queue' \in Seq(Task) /\ Len(queue') <= Channel
    BY <2>1, <2>4, SendType
  <2> QED BY <1>6, <2>5 DEF Complete, Proceed, request
<1>7. ASSUME NEW j \in Jobs, Abandon(j) PROVE CacheTypeOK'
    BY <1>7 DEF Abandon, Proceed, writer, request
<1>8. ASSUME NEW k \in Keys, Damage(k) PROVE CacheTypeOK'
  <2>1. faults' \in 0..MaxFaults
    BY <1>8, CacheBoundsAssumption DEF Damage, CacheBoundsAssumption
  <2>2. files[k] \in File
    BY <1>8, FileOn DEF Damage
  <2>3. [files[k] EXCEPT !.kind = "damaged"] \in File
    BY <2>2 DEF File
  <2>4. files' = [files EXCEPT ![k] = [files[k] EXCEPT !.kind = "damaged"]]
    BY <1>8 DEF Damage
  <2>5. files' \in [Keys -> File \cup {NoFile}]
    BY <2>3, <2>4
  <2> QED BY <1>8, <2>1, <2>5 DEF Damage, writer, request
<1>9. CASE UNCHANGED cacheVars
    BY <1>9 DEF cacheVars
<1> QED BY <1>1, <1>2, <1>3, <1>4, <1>5, <1>6, <1>7, <1>8, <1>9 DEF CacheNext

\* The variables of the model keep their types; the channel its capacity.
THEOREM CacheTypeCorrect == CacheSpec => []CacheTypeOK
BY CacheTypeInit, CacheTypeStep, PTL DEF CacheSpec

-----------------------------------------------------------------------------
(* The index and the directory *)

LEMMA SameFiles ==
    ASSUME IndexCoversFiles, UNCHANGED <<files, index, scanned, written>>
    PROVE  IndexCoversFiles'
BY DEF IndexCoversFiles, On, Metadata

LEMMA PruneCovers ==
    ASSUME CacheTypeOK, CacheTypeOK', IndexCoversFiles, Prune
    PROVE  IndexCoversFiles'
<1>1. ASSUME NEW k \in Keys, k # written, On(k)
      PROVE  k \in DOMAIN Known /\ Known[k] = Metadata(k)
  <2>1. CASE scanned
    BY <1>1, <2>1 DEF Known, IndexCoversFiles
  <2>2. CASE ~scanned
    BY <1>1, <2>2 DEF Known
  <2> QED BY <2>1, <2>2 DEF CacheTypeOK
<1>2. CASE On(written)
  <2> DEFINE kept == {k \in DOMAIN Listed : Survives(Listed, k)}
  <2>1. index' = [k \in kept |-> Listed[k]]
        /\ files' = [k \in Keys |-> IF k \in DOMAIN Listed \ kept THEN NoFile
                                    ELSE files[k]]
    BY <1>2 DEF Prune
  <2>2. \A k \in Keys : On(k) => k \in DOMAIN Listed /\ Listed[k] = Metadata(k)
    BY <1>1 DEF Listed
  <2> HIDE DEF kept
  <2>3. ASSUME NEW k \in Keys, On(k)'
        PROVE  k \in DOMAIN index' /\ index'[k] = Metadata(k)'
    <3>1. files'[k] = files[k] /\ On(k) /\ k \notin DOMAIN Listed \ kept
        BY <2>1, <2>3 DEF On
    <3>2. k \in kept /\ Listed[k] = Metadata(k)
        BY <2>2, <3>1
    <3> QED BY <2>1, <3>1, <3>2 DEF Metadata
  <2> QED BY <2>3 DEF IndexCoversFiles
<1>3. CASE ~On(written)
    BY <1>1, <1>3 DEF Prune, IndexCoversFiles, On, Metadata
<1> QED BY <1>2, <1>3

LEMMA CoversStep == CacheTypeOK /\ IndexCoversFiles /\ [CacheNext]_cacheVars => IndexCoversFiles'
<1> SUFFICES ASSUME CacheTypeOK, IndexCoversFiles, [CacheNext]_cacheVars PROVE IndexCoversFiles'
    OBVIOUS
<1>1. CASE Persist
  <2>1. \A k \in Keys : k # written' => files'[k] = files[k]
    BY <1>1 DEF Persist, CacheTypeOK
  <2>2. \A k \in Keys : k # written
    BY <1>1, IdleAssumption DEF Persist
  <2>3. scanned' = scanned /\ index' = index
    BY <1>1 DEF Persist
  <2> QED BY <2>1, <2>2, <2>3 DEF IndexCoversFiles, On, Metadata
<1>2. CASE Prune
    BY <1>2, PruneCovers, CacheTypeStep
<1>3. CASE Restart
    BY <1>3 DEF Restart, IndexCoversFiles
<1>4. ASSUME NEW j \in Jobs, Load(j) \/ Complete(j) \/ Abandon(j)
      PROVE  IndexCoversFiles'
    BY <1>4, SameFiles DEF Load, Complete, Abandon, writer
<1>5. ASSUME NEW j \in Jobs, Invalidate(j) PROVE IndexCoversFiles'
  <2>1. \A k \in Keys : files'[k] \in {files[k], NoFile}
    BY <1>5 DEF Invalidate, CacheTypeOK
  <2>2. UNCHANGED <<index, scanned, written>>
    BY <1>5 DEF Invalidate, writer
  <2> QED BY <2>1, <2>2 DEF IndexCoversFiles, On, Metadata
<1>6. ASSUME NEW k \in Keys, Damage(k) PROVE IndexCoversFiles'
  <2>1. files[k] \in File /\ On(k)
    BY <1>6, FileOn DEF Damage
  <2>2. files'[k].bytes = files[k].bytes /\ files'[k].modified = files[k].modified
    BY <1>6, <2>1 DEF Damage, File, CacheTypeOK
  <2>3. \A l \in Keys : l # k => files'[l] = files[l]
    BY <1>6 DEF Damage, CacheTypeOK
  <2>4. UNCHANGED <<index, scanned, written>>
    BY <1>6 DEF Damage, writer
  <2> QED BY <2>1, <2>2, <2>3, <2>4 DEF IndexCoversFiles, On, Metadata
<1>7. CASE UNCHANGED cacheVars
    BY <1>7, SameFiles DEF cacheVars
<1> QED BY <1>1, <1>2, <1>3, <1>4, <1>5, <1>6, <1>7 DEF CacheNext

\* The index loses no file, whatever is invalidated, replaced, damaged or
\* forgotten in a restart between a store's rename and its pruning.
THEOREM NoFileForgotten == CacheSpec => []IndexCoversFiles
<1>1. CacheInit => IndexCoversFiles
    BY DEF CacheInit, IndexCoversFiles
<1> QED BY <1>1, CacheTypeInit, CacheTypeStep, CoversStep, PTL DEF CacheSpec

-----------------------------------------------------------------------------
(* The directory's limit *)

OnDisk == {k \in Keys : On(k)}

\* No file and no entry of the index is newer than the clock; while a file
\* waits to be pruned for, it alone is as new, and it fits by itself.
Dated ==
    /\ \A k \in DOMAIN index : index[k].modified <= clock
    /\ \A k \in Keys : On(k) => files[k].modified <= clock
    /\ written # Idle =>
        /\ \A k \in DOMAIN index : index[k].modified < clock
        /\ \A k \in Keys \ {written} : On(k) => files[k].modified < clock
        /\ On(written) => files[written].modified = clock
                            /\ files[written].bytes <= MaxCacheBytes

FiniteFiles == IsFiniteSet(OnDisk) /\ IsFiniteSet(DOMAIN index)

DiskInv == Dated /\ FiniteFiles

LEMMA KnownDated ==
    ASSUME CacheTypeOK, DiskInv
    PROVE  /\ IsFiniteSet(DOMAIN Known)
           /\ \A k \in DOMAIN Known : Known[k].modified <= clock
           /\ written # Idle =>
                \A k \in DOMAIN Known : k # written => Known[k].modified < clock
<1>1. CASE scanned
    BY <1>1 DEF Known, DiskInv, Dated, FiniteFiles
<1>2. CASE ~scanned
  <2>1. Known = [k \in OnDisk |-> Metadata(k)]
    BY <1>2 DEF Known, OnDisk
  <2>2. DOMAIN Known = OnDisk /\ \A k \in OnDisk : Known[k].modified = files[k].modified
    BY <2>1 DEF Metadata
  <2>3. \A k \in OnDisk : k \in Keys /\ On(k)
    BY DEF OnDisk
  <2> QED BY <2>2, <2>3 DEF DiskInv, Dated, FiniteFiles
<1> QED BY <1>1, <1>2 DEF CacheTypeOK

LEMMA ListedDated ==
    ASSUME CacheTypeOK, DiskInv, written # Idle, On(written)
    PROVE  /\ written \in DOMAIN Listed /\ IsFiniteSet(DOMAIN Listed)
           /\ Listed[written] = Metadata(written)
           /\ Listed[written].modified = clock
           /\ Listed[written].bytes <= MaxCacheBytes
           /\ \A k \in DOMAIN Listed : k # written => Listed[k].modified < clock
<1>1. IsFiniteSet(DOMAIN Known \cup {written})
    BY KnownDated, FS_AddElement
<1>2. DOMAIN Listed = DOMAIN Known \cup {written}
    BY DEF Listed
<1>3. Listed[written] = Metadata(written)
    BY DEF Listed
<1>4. \A k \in DOMAIN Listed : k # written => Listed[k] = Known[k] /\ k \in DOMAIN Known
    BY DEF Listed
<1>5. Metadata(written).modified = clock /\ Metadata(written).bytes <= MaxCacheBytes
    BY DEF Metadata, DiskInv, Dated
<1>6. written \in DOMAIN Listed
    BY <1>2
<1>7. IsFiniteSet(DOMAIN Listed)
    BY <1>1, <1>2, Zenon
<1>8. \A k \in DOMAIN Listed : k # written => Listed[k].modified < clock
    BY <1>4, KnownDated
<1> QED BY <1>3, <1>5, <1>6, <1>7, <1>8, Zenon

\* The directory and the index only lose entries.
LEMMA FewerFiles ==
    ASSUME CacheTypeOK, DiskInv, clock' = clock, written' = written \/ written' = Idle,
           \A k \in Keys : On(k)' => On(k) /\ files'[k].modified = files[k].modified
                                           /\ files'[k].bytes = files[k].bytes,
           DOMAIN index' \subseteq DOMAIN index, \A k \in DOMAIN index' : index'[k] = index[k]
    PROVE  DiskInv'
<1>1. OnDisk' \subseteq OnDisk
    BY DEF OnDisk
<1>2. FiniteFiles'
    BY <1>1, FS_Subset DEF DiskInv, FiniteFiles
<1>3. Dated'
  <2>1. \A k \in DOMAIN index' : index'[k].modified <= clock'
    BY DEF DiskInv, Dated
  <2>2. \A k \in Keys : On(k)' => files'[k].modified <= clock'
    BY DEF DiskInv, Dated
  <2>3. ASSUME written' # Idle
        PROVE  /\ \A k \in DOMAIN index' : index'[k].modified < clock'
               /\ \A k \in Keys \ {written'} : On(k)' => files'[k].modified < clock'
               /\ On(written)' => files'[written'].modified = clock'
                                   /\ files'[written'].bytes <= MaxCacheBytes
    <3>1. written' = written /\ written \in Keys
        BY <2>3 DEF CacheTypeOK
    <3> QED BY <2>3, <3>1 DEF DiskInv, Dated, On
  <2> QED BY <2>1, <2>2, <2>3 DEF Dated
<1> QED BY <1>2, <1>3 DEF DiskInv

LEMMA PersistDisk == ASSUME CacheTypeOK, CacheTypeOK', DiskInv, Persist PROVE DiskInv'
<1> DEFINE task == Head(queue)
<1>1. written = Idle /\ UNCHANGED index /\ task \in Task
    BY DEF Persist, CacheTypeOK
<1>2. CASE Persistable(task)
  <2> DEFINE k == task.key
  <2>1. k \in Keys /\ Bytes(task) \in Nat /\ Bytes(task) <= MaxCacheBytes
    BY <1>1, <1>2, TaskBytes DEF Task, Persistable
  <2>2. /\ files' = [files EXCEPT ![k] = [kind |-> "result", items |-> task.items,
                                          bytes |-> Bytes(task), modified |-> clock + 1]]
        /\ written' = k /\ clock' = clock + 1
    BY <1>2 DEF Persist
  <2>3. files'[k].modified = clock' /\ files'[k].bytes <= MaxCacheBytes
    BY <2>1, <2>2 DEF CacheTypeOK
  <2>4. \A l \in Keys \ {k} : files'[l] = files[l]
    BY <2>2 DEF CacheTypeOK
  <2>5. k # Idle /\ clock \in Nat
    BY <2>1, IdleAssumption DEF CacheTypeOK
  <2> HIDE DEF k, task
  <2>6. \A l \in DOMAIN index : index[l].modified \in Nat /\ index[l].modified <= clock
    BY DEF CacheTypeOK, DiskInv, Dated
  <2>7. \A l \in Keys \ {k} : On(l)' => On(l) /\ files'[l].modified \in Nat
                                           /\ files'[l].modified <= clock
    BY <2>4, FileOn DEF On, DiskInv, Dated, File
  <2>8. Dated'
    <3>1. \A l \in DOMAIN index' : index'[l].modified <= clock' /\ index'[l].modified < clock'
        BY <1>1, <2>2, <2>5, <2>6
    <3>2. \A l \in Keys \ {k} : On(l)' => files'[l].modified <= clock'
                                          /\ files'[l].modified < clock'
        BY <2>2, <2>5, <2>7
    <3>3. files'[k].modified <= clock'
        BY <2>2, <2>3, <2>5
    <3> QED BY <2>2, <2>3, <3>1, <3>2, <3>3 DEF Dated
  <2>9. FiniteFiles'
    <3>1. OnDisk' \subseteq OnDisk \cup {k}
        BY <2>7 DEF OnDisk
    <3>2. IsFiniteSet(OnDisk \cup {k})
        BY FS_AddElement DEF DiskInv, FiniteFiles
    <3>3. IsFiniteSet(OnDisk')
        BY <3>1, <3>2, FS_Subset, Zenon
    <3> QED BY <1>1, <3>3 DEF DiskInv, FiniteFiles
  <2> QED BY <2>8, <2>9 DEF DiskInv
<1>3. CASE ~Persistable(task)
  <2>1. UNCHANGED <<files, index, written, clock>>
    BY <1>1, <1>3 DEF Persist
  <2> QED BY <2>1, FewerFiles DEF On
<1> QED BY <1>2, <1>3

LEMMA PruneDisk == ASSUME CacheTypeOK, CacheTypeOK', DiskInv, Prune PROVE DiskInv'
<1>1. clock' = clock /\ written' = Idle /\ written # Idle
    BY DEF Prune
<1>2. CASE On(written)
  <2> DEFINE kept == {k \in DOMAIN Listed : Survives(Listed, k)}
  <2>1. index' = [k \in kept |-> Listed[k]]
        /\ files' = [k \in Keys |-> IF k \in DOMAIN Listed \ kept THEN NoFile
                                    ELSE files[k]]
    BY <1>2 DEF Prune
  <2>2. kept \subseteq DOMAIN Listed
    OBVIOUS
  <2>3. \A k \in DOMAIN Listed : Listed[k].modified <= clock
    <3>1. \A k \in DOMAIN Listed : k # written => Listed[k].modified < clock
        BY <1>1, <1>2, ListedDated
    <3>2. Listed[written].modified = clock
        BY <1>1, <1>2, ListedDated
    <3>3. \A k \in DOMAIN Listed : Listed[k].modified \in Nat
        BY <1>1, <1>2, ListedType
    <3>4. clock \in Nat
        BY DEF CacheTypeOK
    <3> QED BY <3>1, <3>2, <3>3, <3>4
  <2>4. IsFiniteSet(DOMAIN Listed)
    BY <1>1, <1>2, ListedDated
  <2> HIDE DEF kept
  <2>5. DOMAIN index' = kept /\ IsFiniteSet(kept)
    BY <2>1, <2>2, <2>4, FS_Subset
  <2>6. \A k \in DOMAIN index' : index'[k].modified <= clock'
    BY <1>1, <2>1, <2>2, <2>3, <2>5
  <2>7. \A k \in Keys : On(k)' => On(k) /\ files'[k] = files[k]
    BY <2>1 DEF On
  <2>8. FiniteFiles'
    <3>1. OnDisk' \subseteq OnDisk
        BY <2>7 DEF OnDisk
    <3>2. IsFiniteSet(OnDisk')
        BY <3>1, FS_Subset DEF DiskInv, FiniteFiles
    <3> QED BY <2>5, <3>2 DEF FiniteFiles
  <2>9. Dated'
    BY <1>1, <2>6, <2>7 DEF Dated, DiskInv
  <2> QED BY <2>8, <2>9 DEF DiskInv
<1>3. CASE ~On(written)
  <2>1. index' = Known /\ files' = files
    BY <1>3 DEF Prune
  <2>2. Dated'
    BY <1>1, <2>1, KnownDated DEF Dated, DiskInv, On
  <2>3. FiniteFiles'
    BY <2>1, KnownDated DEF FiniteFiles, DiskInv, OnDisk, On
  <2> QED BY <2>2, <2>3 DEF DiskInv
<1> QED BY <1>2, <1>3

LEMMA DiskStep == CacheTypeOK /\ CacheTypeOK' /\ DiskInv /\ [CacheNext]_cacheVars => DiskInv'
<1> SUFFICES ASSUME CacheTypeOK, CacheTypeOK', DiskInv, [CacheNext]_cacheVars PROVE DiskInv'
    OBVIOUS
<1>1. CASE Restart
    BY <1>1, FewerFiles DEF Restart, Nothing, On
<1>2. ASSUME NEW j \in Jobs, Load(j) \/ Complete(j) \/ Abandon(j) PROVE DiskInv'
  <2>1. UNCHANGED <<files, index, written, clock>>
    BY <1>2 DEF Load, Complete, Abandon, writer
  <2> QED BY <2>1, FewerFiles DEF On
<1>3. ASSUME NEW j \in Jobs, Invalidate(j) PROVE DiskInv'
  <2>1. UNCHANGED <<index, written, clock>>
    BY <1>3 DEF Invalidate, writer
  <2>2. \A k \in Keys : On(k)' => On(k) /\ files'[k] = files[k]
    BY <1>3 DEF Invalidate, CacheTypeOK, On
  <2> QED BY <2>1, <2>2, FewerFiles
<1>4. ASSUME NEW k \in Keys, Damage(k) PROVE DiskInv'
  <2>1. UNCHANGED <<index, written, clock>>
    BY <1>4 DEF Damage, writer
  <2>2. files[k] \in File /\ On(k)
    BY <1>4, FileOn DEF Damage
  <2>3. files'[k].bytes = files[k].bytes /\ files'[k].modified = files[k].modified
    BY <1>4, <2>2 DEF Damage, File, CacheTypeOK
  <2>4. \A l \in Keys : l # k => files'[l] = files[l]
    BY <1>4 DEF Damage, CacheTypeOK
  <2>5. \A l \in Keys : On(l)' => On(l) /\ files'[l].modified = files[l].modified
                                      /\ files'[l].bytes = files[l].bytes
    BY <2>2, <2>3, <2>4 DEF On
  <2> QED BY <2>1, <2>5, FewerFiles
<1>5. CASE UNCHANGED cacheVars
    BY <1>5, FewerFiles DEF cacheVars, On
<1> QED BY <1>1, <1>2, <1>3, <1>4, <1>5, PersistDisk, PruneDisk DEF CacheNext

\* A pruning leaves what fits together of the newest files, the protected one
\* among them.
LEMMA PruneBounds ==
    ASSUME CacheTypeOK, CacheTypeOK', IndexCoversFiles', DiskInv, DiskInv', Prune, On(written)
    PROVE  ByteTotal(files', OnDisk') <= MaxCacheBytes /\ files'[written] = files[written]
<1> DEFINE newer(k) == {l \in DOMAIN Listed : Listed[l].modified >= Listed[k].modified}
           kept == {k \in DOMAIN Listed : Survives(Listed, k)}
<1>0. written # Idle /\ written' = Idle /\ written \in Keys /\ scanned'
    BY DEF Prune, CacheTypeOK
<1>1. index' = [k \in kept |-> Listed[k]]
      /\ files' = [k \in Keys |-> IF k \in DOMAIN Listed \ kept THEN NoFile ELSE files[k]]
    BY DEF Prune
<1>2. \A k \in DOMAIN Listed : k \in kept <=> ByteTotal(Listed, newer(k)) <= MaxCacheBytes
    BY Zenon DEF Survives, ByteTotal
<1>3. \A k \in DOMAIN Listed : Listed[k].bytes \in Nat /\ Listed[k].modified \in Nat
    BY <1>0, ListedType
<1>4. IsFiniteSet(DOMAIN Listed)
    BY <1>0, ListedDated
<1>5. kept \subseteq DOMAIN Listed
    OBVIOUS
<1>6. written \in kept
  <2>1. newer(written) = {written}
    BY <1>0, <1>3, ListedDated DEF CacheTypeOK
  <2>2. ByteTotal(Listed, {written}) = Listed[written].bytes
    BY <1>0, <1>3, ListedDated, ByteTotalOne
  <2>3. Listed[written].bytes <= MaxCacheBytes /\ written \in DOMAIN Listed
    BY <1>0, ListedDated
  <2> QED BY <1>2, <2>1, <2>2, <2>3, Zenon
<1>7. ASSUME NEW k \in OnDisk'
      PROVE  k \in kept /\ files'[k].bytes = Listed[k].bytes /\ files'[k].bytes \in Nat
  <2>1. k \in Keys /\ k # written' /\ On(k)'
    BY <1>0, IdleAssumption DEF OnDisk
  <2>2. k \in DOMAIN index' /\ index'[k] = Metadata(k)'
    BY <1>0, <2>1 DEF IndexCoversFiles
  <2>3. index'[k].bytes = files'[k].bytes
    BY <2>2 DEF Metadata
  <2> HIDE DEF kept
  <2>4. k \in kept /\ index'[k] = Listed[k]
    BY <1>1, <2>2
  <2> QED BY <1>3, <1>5, <2>3, <2>4
<1>8. files'[written] = files[written]
    BY <1>0, <1>1, <1>6
<1> HIDE DEF kept
<1> DEFINE ages == {Listed[k].modified : k \in kept}
<1>9. PICK least \in ages : \A m \in ages : ~ m < least
  <2>1. ages \in SUBSET Nat /\ ages # {}
    BY <1>3, <1>5, <1>6
  <2> HIDE DEF ages
  <2> QED BY <2>1, LeastNumber
<1>10. PICK last \in kept : Listed[last].modified = least
    BY <1>9
<1>11. ASSUME NEW k \in kept PROVE k \in newer(last)
  <2>1. /\ k \in DOMAIN Listed /\ Listed[k].modified \in Nat
        /\ last \in DOMAIN Listed /\ Listed[last].modified \in Nat
    BY <1>3, <1>5, <1>10, <1>11
  <2>2. ~ Listed[k].modified < least
    BY <1>9, <1>11
  <2>3. Listed[k].modified >= Listed[last].modified
    BY <1>10, <2>1, <2>2
  <2> QED BY <2>1, <2>3
<1>12. ByteTotal(Listed, newer(last)) <= MaxCacheBytes
    BY <1>2, <1>5, <1>10
<1>13. IsFiniteSet(newer(last)) /\ \A k \in newer(last) : Listed[k].bytes \in Nat
    BY <1>3, <1>4, FS_Subset
<1>14. ByteTotal(Listed, newer(last)) \in Nat
  <2> DEFINE i == [k \in newer(last) |-> Listed[k].bytes]
  <2>1. \A k \in newer(last) : i[k] = Listed[k].bytes /\ i[k] \in Nat
    BY <1>13
  <2> HIDE DEF i, newer
  <2>2. ByteTotal(Listed, newer(last)) = Total(i, newer(last))
    BY <1>13, <2>1, ByteTotalIs
  <2> QED BY <1>13, <2>1, <2>2, TotalType
<1> HIDE DEF newer
<1>15. IsFiniteSet(OnDisk')
    BY DEF DiskInv, FiniteFiles
<1>16. \A k \in OnDisk' : files'[k].bytes \in Nat
    BY <1>7
<1>17. \A k \in OnDisk' : k \in newer(last) /\ files'[k].bytes = Listed[k].bytes
    BY <1>7, <1>11
<1>18. ByteTotal(files', OnDisk') <= ByteTotal(Listed, newer(last))
    BY <1>13, <1>15, <1>16, <1>17, ByteTotalBelow
<1>19. ByteTotal(files', OnDisk') \in Nat
  <2> DEFINE i == [k \in OnDisk' |-> files'[k].bytes]
  <2>1. \A k \in OnDisk' : i[k] = files'[k].bytes /\ i[k] \in Nat
    BY <1>16
  <2> HIDE DEF i
  <2>2. ByteTotal(files', OnDisk') = Total(i, OnDisk')
    BY <1>15, <1>16, <2>1, ByteTotalIs
  <2> QED BY <1>15, <2>1, <2>2, TotalType
<1> QED BY <1>8, <1>12, <1>14, <1>18, <1>19, CacheBoundsAssumption

\* A pruning that runs to its end leaves the directory within the limit and
\* keeps the file it was called for, whatever was damaged, invalidated or left
\* by earlier runs (prune_to_limit).
THEOREM DirectoryBounded == CacheSpec => PruneBoundsDisk
<1>1. CacheInit => DiskInv
  <2> SUFFICES ASSUME CacheInit PROVE DiskInv
    OBVIOUS
  <2>1. OnDisk = {} /\ DOMAIN index = {} /\ written = Idle
    BY DEF CacheInit, OnDisk, On, Nothing
  <2>2. \A k \in Keys : ~On(k)
    BY DEF CacheInit, On
  <2> QED BY <2>1, <2>2, FS_EmptySet DEF DiskInv, Dated, FiniteFiles
<1> DEFINE Bounds == written # Idle /\ written' = Idle /\ scanned' /\ On(written) =>
                        /\ MapThenSumSet(LAMBDA k : files'[k].bytes,
                                         {k \in Keys : files'[k] # NoFile}) <= MaxCacheBytes
                        /\ files'[written] = files[written]
<1>2. ASSUME CacheTypeOK, CacheTypeOK', IndexCoversFiles', DiskInv, DiskInv', [CacheNext]_cacheVars
      PROVE  Bounds
  <2>1. SUFFICES ASSUME written # Idle, written' = Idle, scanned', On(written)
                 PROVE  ByteTotal(files', OnDisk') <= MaxCacheBytes
                            /\ files'[written] = files[written]
    <3>1. OnDisk' = {k \in Keys : files'[k] # NoFile}
        BY DEF OnDisk, On
    <3> QED BY <3>1, Zenon DEF ByteTotal
  <2>2. Prune
    BY <1>2, <2>1 DEF CacheNext, cacheVars, Persist, Restart, Load, Invalidate, Complete, Abandon,
                      Damage, writer
  <2> QED BY <1>2, <2>1, <2>2, PruneBounds
<1>3. CacheSpec => [](CacheTypeOK /\ IndexCoversFiles /\ DiskInv)
    BY <1>1, CacheTypeInit, CacheTypeStep, CoversStep, DiskStep, NoFileForgotten, CacheTypeCorrect,
       PTL DEF CacheSpec
<1> QED BY <1>2, <1>3, PTL DEF CacheSpec, PruneBoundsDisk

-----------------------------------------------------------------------------
(* The jobs and the ledger *)

\* An entry of the ledger is found under the client id of the request that
\* inserted it.
LedgerInv ==
    \A c \in Clients : ledger[c] # None =>
        ClientOf[ledger[c]] = c /\ place[ledger[c]] # "new"

\* The entry a handler waits for or holds is still the ledger's, and was
\* inserted for the same body.
SlotInv ==
    \A r \in Requests : place[r] \in {"waiting", "holding"} =>
        /\ slot[r] = ledger[ClientOf[r]] /\ slot[r] # None
        /\ payload[slot[r]] = payload[r]

\* An entry is held by one handler, and only until its job is created.
HolderInv ==
    \A r \in Requests : place[r] = "holding" =>
        /\ created[slot[r]] = {}
        /\ \A s \in Requests : place[s] = "holding" /\ slot[s] = slot[r] => s = r

\* An entry has at most one job, of its own client and body.
CreatedInv ==
    \A e \in Requests :
        \/ created[e] = {}
        \/ /\ place[e] # "new"
           /\ \E j \in Requests :
                created[e] = {j} /\ ClientOf[j] = ClientOf[e] /\ payload[j] = payload[e]

\* The patches a worker has stored, published and is about to store.
PatchInv ==
    \A r \in Requests :
        /\ worker[r] = "none" => published[r] = 0 /\ blobs[r] = 0
        /\ worker[r] = "running" => blobs[r] <= published[r]
        /\ worker[r] = "storing" => blobs[r] <= published[r] /\ published[r] < MaxPatches
        /\ worker[r] = "publishing" => published[r] < MaxPatches /\ blobs[r] <= published[r] + 1

\* A job that runs and was not cancelled is active, so no eviction touches it.
WorkerInv ==
    \A r \in Requests :
        /\ place[r] # "answered" => worker[r] = "none"
        /\ deleter[r] # "none" => cancel[r]
        /\ worker[r] \notin {"none", "over"} /\ ~cancel[r] => active[r]

\* The type invariant in three parts.
CreationTypes ==
    /\ payload \in [Requests -> Payloads]
    /\ place \in [Requests -> {"new", "waiting", "holding", "answered", "refused", "dropped"}]
    /\ slot \in [Requests -> Requests \cup {None}]
    /\ ledger \in [Clients -> Requests \cup {None}]
    /\ old \subseteq Clients
    /\ created \in [Requests -> SUBSET Requests]
    /\ answer \in [Requests -> Requests \cup {None}]

RecordTypes ==
    /\ stored \subseteq Requests
    /\ order \in [Requests -> Nat] /\ nextOrder \in Nat
    /\ active \in [Requests -> BOOLEAN] /\ terminal \in [Requests -> BOOLEAN]
    /\ cancel \in [Requests -> BOOLEAN]
    /\ source \in [Requests -> Nat]

WorkerTypes ==
    /\ blobs \in [Requests -> 0..MaxPatches] /\ published \in [Requests -> 0..MaxPatches]
    /\ worker \in [Requests -> {"none", "running", "storing", "publishing", "erred",
                                "finish", "over"}]
    /\ deleter \in [Requests -> {"none", "flagged", "ended", "withdrawn", "over"}]

\* The inductive invariant.
IInv ==
    /\ TypeOK
    /\ LedgerInv /\ SlotInv /\ HolderInv /\ CreatedInv /\ AnswersMatch
    /\ PatchInv /\ WorkerInv /\ RunningJobsKept

-----------------------------------------------------------------------------
(* Eviction *)

\* When the addition can fit, a least prefix by age makes it fit, and that is
\* what is evicted.
LEMMA EvictedFits ==
    ASSUME TypeOK, NEW newJobs, NEW added, CanFit(newJobs, added), ~(added > MaxBytes)
    PROVE  /\ Evicted(newJobs, added) \in Oldest
           /\ Fits(Evicted(newJobs, added), newJobs, added)
<1> DEFINE Upto(r) == {s \in Evictable : order[s] <= order[r]}
           Enough(gone) == Fits(gone, newJobs, added)
<1>1. \A gone \in Oldest : gone = {} \/ \E r \in Evictable : gone = Upto(r)
  BY DEF Oldest
<1>2. {} \in Oldest /\ \A r \in Evictable : Upto(r) \in Oldest
  BY DEF Oldest
<1>3. PICK gone \in Oldest : Enough(gone)
  BY DEF CanFit
<1>4. \E least \in Oldest :
          Enough(least) /\ \A other \in Oldest : Enough(other) => least \subseteq other
  <2>1. CASE Enough({})
    <3> HIDE DEF Enough
    <3> QED BY <1>2, <2>1
  <2>2. CASE ~Enough({})
    <3> DEFINE R == {r \in Evictable : Enough(Upto(r))}
               T == {order[r] : r \in R}
    <3> HIDE DEF Enough, Upto
    <3>1. PICK r \in R : TRUE
      BY <1>1, <1>3, <2>2
    <3>2. T \in SUBSET Nat /\ T # {}
      <4>1. \A q \in R : q \in Requests
        BY DEF TypeOK, Evictable
      <4>2. order[r] \in T
        BY <3>1
      <4> HIDE DEF R
      <4> QED BY <4>1, <4>2 DEF TypeOK
    <3>3. PICK n \in T : \A m \in T : n <= m
      <4>1. PICK n \in T : \A m \in T : ~ m < n
        <5> HIDE DEF T
        <5> QED BY <3>2, LeastNumber
      <4> HIDE DEF T
      <4> QED BY <3>2, <4>1
    <3>4. PICK first \in R : order[first] = n
      OBVIOUS
    <3>5. ASSUME NEW other \in Oldest, Enough(other) PROVE Upto(first) \subseteq other
      <4>1. PICK s \in R : other = Upto(s)
        BY <1>1, <2>2, <3>5
      <4>2. order[first] <= order[s] /\ order[s] \in Nat /\ order[first] \in Nat
        BY <3>2, <3>3, <3>4, <4>1
      <4>3. \A q \in Evictable : order[q] \in Nat
        BY DEF TypeOK, Evictable
      <4> QED BY <4>1, <4>2, <4>3 DEF Upto
    <3> QED BY <1>2, <3>4, <3>5
  <2> QED BY <2>1, <2>2
<1> HIDE DEF Enough, Upto
<1>5. Evicted(newJobs, added) =
          CHOOSE least \in Oldest :
              Enough(least) /\ \A other \in Oldest : Enough(other) => least \subseteq other
  BY DEF Evicted, Enough
<1> QED BY <1>4, <1>5 DEF Enough

\* Eviction under pressure takes evictable jobs alone.
LEMMA EvictedEvictable ==
    ASSUME TypeOK, NEW newJobs, NEW added
    PROVE  Evicted(newJobs, added) \subseteq Evictable
<1>1. CASE CanFit(newJobs, added) /\ ~(added > MaxBytes)
  BY <1>1, EvictedFits DEF Oldest
<1>2. CASE ~(CanFit(newJobs, added) /\ ~(added > MaxBytes))
  BY <1>2 DEF Evicted
<1> QED BY <1>1, <1>2

\* It leaves the patches of active jobs and makes no others.
LEMMA EvictedPatches ==
    ASSUME TypeOK, NEW newJobs, NEW added
    PROVE  LET gone == Evicted(newJobs, added)
           IN  /\ gone \subseteq stored
               /\ \A r \in Requests : active[r] => r \notin gone
               /\ Without(gone) \in [Requests -> 0..MaxPatches]
               /\ \A r \in Requests : Without(gone)[r] \in {0, blobs[r]}
               /\ \A r \in Requests : active[r] => Without(gone)[r] = blobs[r]
<1> DEFINE gone == Evicted(newJobs, added)
<1>1. gone \subseteq Evictable
  BY EvictedEvictable
<1>2. gone \subseteq stored /\ \A r \in Requests : active[r] => r \notin gone
  BY <1>1 DEF Evictable
<1> HIDE DEF gone
<1>3. /\ Without(gone) \in [Requests -> 0..MaxPatches]
      /\ \A r \in Requests : Without(gone)[r] \in {0, blobs[r]}
      /\ \A r \in Requests : active[r] => Without(gone)[r] = blobs[r]
  BY <1>2, BoundsAssumption DEF Without, TypeOK
<1> QED BY <1>2, <1>3 DEF gone

-----------------------------------------------------------------------------
(* The steps *)

\* Initially nothing has been asked for.
LEMMA InitIInv == Init => IInv
BY BoundsAssumption
DEF Init, IInv, TypeOK, LedgerInv, SlotInv, HolderInv, CreatedInv, AnswersMatch, PatchInv,
    WorkerInv, RunningJobsKept

USE DEF creation, record, Go, Work

\* What the steps that leave jobs, workers and patches alone preserve.
LEMMA StorageKept ==
    ASSUME IInv, UNCHANGED <<stored, order, nextOrder, record, blobs, published, worker, deleter>>,
           \A r \in Requests : place[r] = "answered" => place'[r] = "answered"
    PROVE  PatchInv' /\ WorkerInv' /\ RunningJobsKept'
BY DEF IInv, PatchInv, WorkerInv, RunningJobsKept

\* What the steps that leave the creation of jobs alone preserve.
LEMMA CreationKept ==
    ASSUME IInv, UNCHANGED creation
    PROVE  LedgerInv' /\ SlotInv' /\ HolderInv' /\ CreatedInv' /\ AnswersMatch'
BY DEF IInv, LedgerInv, SlotInv, HolderInv, CreatedInv, AnswersMatch

\* The ledger only forgets entries nobody waits for or holds.
LEMMA LookupIInv ==
    ASSUME IInv, NEW r \in Requests, Lookup(r)
    PROVE  IInv'
<1> USE DEF IInv
<1>1. /\ place[r] = "new" /\ place'[r] \in {"waiting", "refused"}
      /\ \A s \in Requests \ {r} : place'[s] = place[s] /\ slot'[s] = slot[s]
      /\ UNCHANGED <<payload, created, answer>>
  BY DEF Lookup, TypeOK
<1>2. TypeOK'
  <2>1. ClientOf[r] \in Clients
    BY RequestsAssumption
  <2>2. ledger' \in [Clients -> Requests \cup {None}] /\ old' \subseteq Clients
    <3>1. ledger \in [Clients -> Requests \cup {None}] /\ old \subseteq Clients
      BY DEF TypeOK
    <3>2. CASE ClientOf[r] \in Entries
      BY <3>1, <3>2 DEF Lookup
    <3>3. CASE ClientOf[r] \notin Entries
      <4>1. PICK pruned :
              /\ \E full \in BOOLEAN :
                   LET kept == [d \in Clients |-> IF d \in pruned THEN None ELSE ledger[d]]
                   IN  ledger' = IF full THEN kept ELSE [kept EXCEPT ![ClientOf[r]] = r]
              /\ old' = old \ pruned
        BY <3>3 DEF Lookup
      <4> QED BY <2>1, <3>1, <4>1
    <3> QED BY <3>2, <3>3
  <2>3. place' \in [Requests -> {"new", "waiting", "holding", "answered", "refused", "dropped"}]
        /\ slot' \in [Requests -> Requests \cup {None}]
    BY <2>1 DEF Lookup, TypeOK, Entries
  <2>4. CreationTypes'
    BY <1>1, <2>2, <2>3 DEF TypeOK, CreationTypes
  <2>5. RecordTypes' /\ WorkerTypes'
    BY DEF Lookup, TypeOK, RecordTypes, WorkerTypes
  <2> QED BY <2>4, <2>5
       DEF TypeOK, CreationTypes, RecordTypes, WorkerTypes
<1>3. PatchInv' /\ WorkerInv' /\ RunningJobsKept'
  BY <1>1, StorageKept DEF Lookup
<1>4. \A c \in Clients :
        \/ ledger'[c] = ledger[c]
        \/ ledger[c] # None /\ ledger'[c] = None /\ ~InUse(ledger[c])
        \/ ledger[c] = None /\ c = ClientOf[r] /\ ledger'[c] = r
  <2> DEFINE pruned == IF Cardinality(Entries) < LedgerLimit THEN {}
                       ELSE {d \in Entries : Prunable(d)}
             kept == [d \in Clients |-> IF d \in pruned THEN None ELSE ledger[d]]
  <2>1. \A d \in pruned : ledger[d] # None /\ ~InUse(ledger[d])
    BY DEF Entries, Prunable
  <2>2. \/ UNCHANGED ledger
        \/ ledger' = kept
        \/ ledger[ClientOf[r]] = None /\ ledger' = [kept EXCEPT ![ClientOf[r]] = r]
    BY RequestsAssumption DEF Lookup, Entries
  <2>3. ClientOf[r] \notin Entries => ClientOf[r] \notin pruned
    BY DEF Entries
  <2> HIDE DEF pruned
  <2> QED BY <2>1, <2>2, <2>3
<1>5. LedgerInv'
  BY <1>1, <1>4, RequestsAssumption DEF LedgerInv, TypeOK
<1>6. SlotInv'
  BY <1>1, <1>4, RequestsAssumption DEF SlotInv, TypeOK, InUse, Lookup, SamePayload, Entries
<1>7. HolderInv'
  BY <1>1 DEF HolderInv, TypeOK
<1>8. CreatedInv' /\ AnswersMatch'
  BY <1>1 DEF CreatedInv, AnswersMatch, TypeOK
<1> QED BY <1>2, <1>3, <1>5, <1>6, <1>7, <1>8

\* An entry is taken by one handler, or answers with its job.
LEMMA LockIInv ==
    ASSUME IInv, NEW r \in Requests, Lock(r)
    PROVE  IInv'
<1> USE DEF IInv
<1>1. slot[r] \in Requests /\ slot[r] = ledger[ClientOf[r]] /\ ClientOf[r] \in Clients
  BY RequestsAssumption DEF Lock, SlotInv, TypeOK
<1>2. ClientOf[slot[r]] = ClientOf[r] /\ payload[slot[r]] = payload[r]
  BY <1>1, RequestsAssumption DEF Lock, LedgerInv, SlotInv
<1>3. /\ place[r] = "waiting" /\ place'[r] \in {"holding", "answered"}
      /\ \A s \in Requests \ {r} : place'[s] = place[s] /\ answer'[s] = answer[s]
      /\ UNCHANGED <<payload, slot, ledger, created>>
  BY DEF Lock, TypeOK
<1>4. \A j \in created[slot[r]] :
        j \in Requests /\ ClientOf[j] = ClientOf[r] /\ payload[j] = payload[r]
  BY <1>1, <1>2 DEF CreatedInv
<1>5. TypeOK'
  BY <1>1, <1>4 DEF Lock, TypeOK
<1>6. PatchInv' /\ WorkerInv' /\ RunningJobsKept'
  BY <1>3, StorageKept DEF Lock
<1>7. LedgerInv' /\ SlotInv' /\ CreatedInv'
  BY <1>3 DEF LedgerInv, SlotInv, CreatedInv, TypeOK
<1>8. HolderInv'
  BY <1>3 DEF Lock, Free, HolderInv, TypeOK
<1>9. AnswersMatch'
  BY <1>3, <1>4 DEF Lock, AnswersMatch, TypeOK
<1> QED BY <1>5, <1>6, <1>7, <1>8, <1>9

\* A dropped handler only lets go of its entry.
LEMMA DropIInv ==
    ASSUME IInv, NEW r \in Requests, Drop(r)
    PROVE  IInv'
<1> USE DEF IInv
<1>1. PatchInv' /\ WorkerInv' /\ RunningJobsKept'
  BY StorageKept DEF Drop, TypeOK
<1>2. LedgerInv' /\ SlotInv' /\ HolderInv' /\ CreatedInv' /\ AnswersMatch'
  BY DEF Drop, TypeOK, LedgerInv, SlotInv, HolderInv, CreatedInv, AnswersMatch
<1>3. TypeOK'
  BY DEF Drop, TypeOK
<1> QED BY <1>1, <1>2, <1>3

\* A reservation creates the entry's first job, and evicts no active one.
LEMMA ReserveIInv ==
    ASSUME IInv, NEW r \in Requests, Reserve(r)
    PROVE  IInv'
<1> USE DEF IInv
<1> DEFINE gone == Evicted(1, SourceBytes[r])
<1>1. /\ gone \subseteq stored
      /\ \A s \in Requests : active[s] => s \notin gone
      /\ Without(gone) \in [Requests -> 0..MaxPatches]
      /\ \A s \in Requests : Without(gone)[s] \in {0, blobs[s]}
      /\ \A s \in Requests : active[s] => Without(gone)[s] = blobs[s]
  BY EvictedPatches
<1>2. place[r] = "holding" /\ blobs' = Without(gone)
  BY DEF Reserve
<1>3. /\ slot[r] \in Requests /\ created[slot[r]] = {}
      /\ ClientOf[slot[r]] = ClientOf[r] /\ payload[slot[r]] = payload[r]
      /\ place[slot[r]] # "new"
  BY <1>2, RequestsAssumption DEF SlotInv, HolderInv, LedgerInv, TypeOK
<1>4. worker[r] = "none" /\ published[r] = 0 /\ blobs[r] = 0
  BY <1>2 DEF WorkerInv, PatchInv
<1>5. CASE CanFit(1, SourceBytes[r])
  <2>1. /\ stored' = (stored \ gone) \cup {r}
        /\ order' = [order EXCEPT ![r] = nextOrder] /\ nextOrder' = nextOrder + 1
        /\ active' = [active EXCEPT ![r] = TRUE]
        /\ source' = [source EXCEPT ![r] = SourceBytes[r]]
        /\ created' = [created EXCEPT ![slot[r]] = @ \cup {r}]
        /\ answer' = [answer EXCEPT ![r] = r]
        /\ worker' = [worker EXCEPT ![r] = "running"]
        /\ place' = [place EXCEPT ![r] = "answered"]
        /\ UNCHANGED <<payload, slot, ledger, old, terminal, cancel, published, deleter>>
    BY <1>5 DEF Reserve, Tell
  <2> HIDE DEF gone
  <2>2. TypeOK'
    <3>1. CreationTypes'
      BY <1>3, <2>1 DEF TypeOK, CreationTypes
    <3>2. RecordTypes'
      <4>1. stored' \subseteq Requests
        BY <2>1 DEF TypeOK
      <4>2. order' \in [Requests -> Nat] /\ nextOrder' \in Nat
        BY <2>1 DEF TypeOK
      <4>3. source' \in [Requests -> Nat]
        BY <2>1, RequestsAssumption DEF TypeOK
      <4>4. active' \in [Requests -> BOOLEAN]
        BY <2>1, Zenon DEF TypeOK
      <4> QED BY <2>1, <4>1, <4>2, <4>3, <4>4 DEF TypeOK, RecordTypes
    <3>3. WorkerTypes'
      BY <1>1, <1>2, <2>1 DEF TypeOK, WorkerTypes
    <3> QED BY <3>1, <3>2, <3>3
         DEF TypeOK, CreationTypes, RecordTypes, WorkerTypes
  <2>3. LedgerInv' /\ SlotInv'
    BY <1>2, <2>1 DEF LedgerInv, SlotInv, TypeOK
  <2>4. HolderInv'
    BY <1>2, <1>3, <2>1 DEF HolderInv, TypeOK
  <2>5. CreatedInv'
    BY <1>2, <1>3, <2>1 DEF CreatedInv, TypeOK
  <2>6. AnswersMatch'
    BY <1>2, <2>1 DEF AnswersMatch, TypeOK
  <2>7. WorkerInv'
    BY <1>2, <1>4, <2>1 DEF WorkerInv, TypeOK
  <2>8. PatchInv'
    BY <1>1, <1>2, <1>4, <2>1 DEF PatchInv, TypeOK
  <2>9. RunningJobsKept'
    BY <1>1, <1>2, <1>4, <2>1 DEF RunningJobsKept, WorkerInv, TypeOK
  <2> QED BY <2>2, <2>3, <2>4, <2>5, <2>6, <2>7, <2>8, <2>9
<1>6. CASE ~CanFit(1, SourceBytes[r])
  <2>1. /\ stored' = stored \ gone
        /\ place' = [place EXCEPT ![r] = "refused"]
        /\ UNCHANGED <<payload, slot, ledger, old, created, answer, order, nextOrder,
                       record, worker, published, deleter>>
    BY <1>6 DEF Reserve
  <2> HIDE DEF gone
  <2>2. TypeOK'
    BY <1>1, <1>2, <2>1 DEF TypeOK
  <2>3. LedgerInv' /\ SlotInv' /\ HolderInv' /\ CreatedInv' /\ AnswersMatch'
    BY <1>2, <2>1 DEF TypeOK, LedgerInv, SlotInv, HolderInv, CreatedInv, AnswersMatch
  <2>4. WorkerInv'
    BY <1>2, <2>1 DEF WorkerInv, TypeOK
  <2>5. PatchInv'
    BY <1>1, <1>2, <2>1 DEF PatchInv, TypeOK
  <2>6. RunningJobsKept'
    BY <1>1, <1>2, <2>1 DEF RunningJobsKept, WorkerInv, TypeOK
  <2> QED BY <2>2, <2>3, <2>4, <2>5, <2>6
<1> QED BY <1>5, <1>6

\* A patch goes to a job that is stored, and evicts no active one.
LEMMA StorePatchIInv ==
    ASSUME IInv, NEW r \in Requests, StorePatch(r)
    PROVE  IInv'
<1> USE DEF IInv
<1> DEFINE gone == IF OwnerStored(r) THEN Evicted(0, 1) ELSE {}
<1>1. /\ gone \subseteq stored
      /\ \A s \in Requests : active[s] => s \notin gone
      /\ Without(gone) \in [Requests -> 0..MaxPatches]
      /\ \A s \in Requests : Without(gone)[s] \in {0, blobs[s]}
      /\ \A s \in Requests : active[s] => Without(gone)[s] = blobs[s]
  <2>1. CASE OwnerStored(r)
    BY <2>1, EvictedPatches
  <2>2. CASE ~OwnerStored(r)
    BY <2>2 DEF Without, TypeOK
  <2> QED BY <2>1, <2>2
<1>2. /\ worker[r] = "storing"
      /\ stored' = stored \ gone
      /\ \/ /\ blobs' = [Without(gone) EXCEPT ![r] = @ + 1]
            /\ worker' = [worker EXCEPT ![r] = "publishing"]
         \/ /\ blobs' = Without(gone)
            /\ worker' = [worker EXCEPT ![r] = "erred"]
      /\ UNCHANGED <<creation, order, nextOrder, record, published, deleter>>
  BY DEF StorePatch
<1> HIDE DEF gone
<1>3. blobs[r] <= published[r] /\ published[r] < MaxPatches
  BY <1>2 DEF PatchInv
<1>4. Without(gone)[r] <= published[r]
  BY <1>1, <1>3 DEF TypeOK
<1>5. LedgerInv' /\ SlotInv' /\ HolderInv' /\ CreatedInv' /\ AnswersMatch'
  BY <1>2, CreationKept
<1>6. TypeOK'
  BY <1>1, <1>2, <1>3, <1>4, BoundsAssumption DEF TypeOK
<1>7. PatchInv'
  BY <1>1, <1>2, <1>3, <1>4, BoundsAssumption DEF PatchInv, TypeOK
<1>8. WorkerInv'
  BY <1>2 DEF WorkerInv, TypeOK
<1>9. RunningJobsKept'
  BY <1>1, <1>2 DEF RunningJobsKept, WorkerInv, TypeOK
<1> QED BY <1>5, <1>6, <1>7, <1>8, <1>9

\* The other steps of the worker.
LEMMA WorkerIInv ==
    ASSUME IInv, NEW r \in Requests,
           ValidatePatch(r) \/ PublishRegion(r) \/ EndJob(r) \/ FinishJob(r)
    PROVE  IInv'
<1> USE DEF IInv, Withdraw
<1>1. LedgerInv' /\ SlotInv' /\ HolderInv' /\ CreatedInv' /\ AnswersMatch'
  BY CreationKept DEF ValidatePatch, PublishRegion, EndJob, FinishJob
<1>2. TypeOK'
  <2>1. CreationTypes'
    BY DEF ValidatePatch, PublishRegion, EndJob, FinishJob, TypeOK, CreationTypes
  <2>2. RecordTypes'
    <3>1. source' \in [Requests -> Nat]
      BY DEF ValidatePatch, PublishRegion, EndJob, FinishJob, TypeOK
    <3>2. active' \in [Requests -> BOOLEAN]
      BY Zenon DEF ValidatePatch, PublishRegion, EndJob, FinishJob, TypeOK
    <3>3. terminal' \in [Requests -> BOOLEAN]
      BY Zenon DEF ValidatePatch, PublishRegion, EndJob, FinishJob, TypeOK
    <3>4. UNCHANGED <<stored, order, nextOrder, cancel>>
      BY DEF ValidatePatch, PublishRegion, EndJob, FinishJob
    <3> QED BY <3>1, <3>2, <3>3, <3>4 DEF TypeOK, RecordTypes
  <2>3. worker[r] = "publishing" => published[r] + 1 \in 0..MaxPatches
    BY BoundsAssumption DEF PatchInv, TypeOK
  <2>4. WorkerTypes'
    BY <2>3 DEF ValidatePatch, PublishRegion, EndJob, FinishJob, TypeOK, WorkerTypes
  <2> QED BY <2>1, <2>2, <2>4
       DEF TypeOK, CreationTypes, RecordTypes, WorkerTypes
<1>3. PatchInv'
  BY BoundsAssumption DEF ValidatePatch, PublishRegion, EndJob, FinishJob, PatchInv, TypeOK
<1>4. WorkerInv'
  BY DEF ValidatePatch, PublishRegion, EndJob, FinishJob, WorkerInv, TypeOK
<1>5. RunningJobsKept'
  BY BoundsAssumption
  DEF ValidatePatch, PublishRegion, EndJob, FinishJob, RunningJobsKept, TypeOK
<1> QED BY <1>1, <1>2, <1>3, <1>4, <1>5

\* The steps of a DELETE, which comes after the job's cancellation.
LEMMA DeleteIInv ==
    ASSUME IInv, NEW r \in Requests,
           DeleteFlag(r) \/ DeleteEnd(r) \/ DeleteWithdraw(r) \/ DeleteEvict(r)
    PROVE  IInv'
<1> USE DEF IInv, Withdraw, Delete
<1>1. LedgerInv' /\ SlotInv' /\ HolderInv' /\ CreatedInv' /\ AnswersMatch'
  BY CreationKept DEF DeleteFlag, DeleteEnd, DeleteWithdraw, DeleteEvict
<1>2. /\ stored' \subseteq stored
      /\ blobs' \in [Requests -> 0..MaxPatches]
      /\ \A s \in Requests : blobs'[s] \in {0, blobs[s]}
      /\ \A s \in Requests \ {r} : blobs'[s] = blobs[s] /\ (s \in stored => s \in stored')
      /\ ~cancel[r] /\ ~cancel'[r] => FALSE
  BY BoundsAssumption
  DEF DeleteFlag, DeleteEnd, DeleteWithdraw, DeleteEvict, Without, TypeOK, WorkerInv
<1>3. TypeOK'
  <2>1. CreationTypes'
    BY DEF DeleteFlag, DeleteEnd, DeleteWithdraw, DeleteEvict, TypeOK, CreationTypes
  <2>2. RecordTypes'
    <3>1. source' \in [Requests -> Nat]
      BY DEF DeleteFlag, DeleteEnd, DeleteWithdraw, DeleteEvict, TypeOK
    <3>2. active' \in [Requests -> BOOLEAN]
      BY Zenon DEF DeleteFlag, DeleteEnd, DeleteWithdraw, DeleteEvict, TypeOK
    <3>3. terminal' \in [Requests -> BOOLEAN]
      BY Zenon DEF DeleteFlag, DeleteEnd, DeleteWithdraw, DeleteEvict, TypeOK
    <3>4. cancel' \in [Requests -> BOOLEAN]
      BY Zenon DEF DeleteFlag, DeleteEnd, DeleteWithdraw, DeleteEvict, TypeOK
    <3>5. UNCHANGED <<order, nextOrder>>
      BY DEF DeleteFlag, DeleteEnd, DeleteWithdraw, DeleteEvict
    <3> QED BY <1>2, <3>1, <3>2, <3>3, <3>4, <3>5 DEF TypeOK, RecordTypes
  <2>3. WorkerTypes'
    BY <1>2 DEF DeleteFlag, DeleteEnd, DeleteWithdraw, DeleteEvict, TypeOK, WorkerTypes
  <2> QED BY <2>1, <2>2, <2>3
       DEF TypeOK, CreationTypes, RecordTypes, WorkerTypes
<1>4. PatchInv'
  BY <1>2 DEF DeleteFlag, DeleteEnd, DeleteWithdraw, DeleteEvict, PatchInv, TypeOK
<1>5. WorkerInv'
  BY DEF DeleteFlag, DeleteEnd, DeleteWithdraw, DeleteEvict, WorkerInv, TypeOK
<1>6. RunningJobsKept'
  BY <1>2 DEF DeleteFlag, DeleteEnd, DeleteWithdraw, DeleteEvict, RunningJobsKept, WorkerInv,
              TypeOK
<1> QED BY <1>1, <1>3, <1>4, <1>5, <1>6

\* Every step preserves the invariant.
LEMMA StepIInv == IInv /\ [Next]_vars => IInv'
<1> SUFFICES ASSUME IInv, [Next]_vars PROVE IInv'
  OBVIOUS
<1>1. ASSUME NEW c \in Clients, Age(c) PROVE IInv'
  <2>1. TypeOK'
    BY <1>1 DEF Age, IInv, TypeOK, Entries
  <2>2. PatchInv' /\ WorkerInv' /\ RunningJobsKept'
    BY <1>1, StorageKept DEF Age
  <2>3. LedgerInv' /\ SlotInv' /\ HolderInv' /\ CreatedInv' /\ AnswersMatch'
    BY <1>1 DEF Age, IInv, LedgerInv, SlotInv, HolderInv, CreatedInv, AnswersMatch
  <2> QED BY <2>1, <2>2, <2>3 DEF IInv
<1>2. CASE UNCHANGED vars
  <2>1. TypeOK'
    BY <1>2 DEF vars, IInv, TypeOK
  <2>2. PatchInv' /\ WorkerInv' /\ RunningJobsKept'
    BY <1>2, StorageKept DEF vars
  <2>3. LedgerInv' /\ SlotInv' /\ HolderInv' /\ CreatedInv' /\ AnswersMatch'
    BY <1>2, CreationKept DEF vars
  <2> QED BY <2>1, <2>2, <2>3 DEF IInv
<1> QED
  BY <1>1, <1>2, LookupIInv, LockIInv, DropIInv, ReserveIInv, StorePatchIInv, WorkerIInv,
     DeleteIInv DEF Next

-----------------------------------------------------------------------------
(* The limits *)

LEMMA RetainedTotal ==
    Retained({}) = Total(source, stored \ {}) + Total(blobs, Requests \ {})
BY Zenon DEF Retained, Total

LEMMA JobCosts ==
    ASSUME TypeOK, NEW gone
    PROVE  /\ Retained(gone) = Total(source, stored \ gone) + Total(blobs, Requests \ gone)
           /\ Total(source, stored \ gone) \in Nat /\ Total(blobs, Requests \ gone) \in Nat
           /\ IsFiniteSet(stored \ gone) /\ IsFiniteSet(Requests \ gone)
           /\ \A r \in Requests : source[r] \in Nat /\ blobs[r] \in Nat
<1>1. IsFiniteSet(stored \ gone) /\ IsFiniteSet(Requests \ gone)
  BY RequestsAssumption, FS_Subset DEF TypeOK
<1>2. \A r \in Requests : source[r] \in Nat /\ blobs[r] \in Nat
  BY BoundsAssumption DEF TypeOK
<1>3. \A r \in stored \ gone : r \in Requests
  BY DEF TypeOK
<1>4. Total(source, stored \ gone) \in Nat /\ Total(blobs, Requests \ gone) \in Nat
  BY <1>1, <1>2, <1>3, TotalType
<1>5. Retained(gone) = Total(source, stored \ gone) + Total(blobs, Requests \ gone)
  BY Zenon DEF Retained, Total
<1> QED BY <1>1, <1>2, <1>4, <1>5

LEMMA JobCostsNow ==
    ASSUME TypeOK
    PROVE  /\ Retained({}) = Total(source, stored) + Total(blobs, Requests)
           /\ Total(source, stored) \in Nat /\ Total(blobs, Requests) \in Nat
           /\ IsFiniteSet(stored) /\ IsFiniteSet(Requests) /\ stored \subseteq Requests
           /\ \A r \in Requests : source[r] \in Nat /\ blobs[r] \in Nat
<1>1. stored \ {} = stored /\ Requests \ {} = Requests
  OBVIOUS
<1>2. stored \subseteq Requests
  BY DEF TypeOK
<1> QED BY <1>1, <1>2, JobCosts, Zenon

LEMMA JobCostsNext ==
    ASSUME TypeOK'
    PROVE  /\ Retained({})' = Total(source', stored') + Total(blobs', Requests)
           /\ Total(source', stored') \in Nat /\ Total(blobs', Requests) \in Nat
           /\ IsFiniteSet(stored') /\ stored' \subseteq Requests
           /\ \A r \in Requests : source'[r] \in Nat /\ blobs'[r] \in Nat
<1>1. IsFiniteSet(stored') /\ IsFiniteSet(Requests) /\ stored' \subseteq Requests
  BY RequestsAssumption, FS_Subset DEF TypeOK
<1>2. \A r \in Requests : source'[r] \in Nat /\ blobs'[r] \in Nat
  BY BoundsAssumption DEF TypeOK
<1>3. Total(source', stored') \in Nat /\ Total(blobs', Requests) \in Nat
  BY <1>1, <1>2, TotalType
<1>4. (Retained({}) = Total(source, stored \ {}) + Total(blobs, Requests \ {}))'
  BY RetainedTotal, PTL
<1>5. stored' \ {} = stored' /\ Requests \ {} = Requests
  OBVIOUS
<1>6. Retained({})' = Total(source', stored') + Total(blobs', Requests)
  BY <1>4, <1>5, Zenon
<1> QED BY <1>1, <1>2, <1>3, <1>6

LEMMA JobCostsSplit ==
    ASSUME TypeOK'
    PROVE  /\ \A r \in stored' : Total(source', stored') = source'[r] + Total(source', stored' \ {r})
           /\ \A r \in Requests :
                  Total(blobs', Requests) = blobs'[r] + Total(blobs', Requests \ {r})
BY JobCostsNext, RequestsAssumption, TotalSplit

\* A step that adds neither a job nor bytes keeps within the limits.
LEMMA NothingAdded ==
    ASSUME TypeOK, TypeOK', WithinLimits, stored' \subseteq stored,
           \A r \in Requests : source'[r] <= source[r],
           \A r \in Requests : blobs'[r] = 0 \/ blobs'[r] <= blobs[r]
    PROVE  WithinLimits'
<1>1. Cardinality(stored') <= Cardinality(stored)
  BY JobCostsNow, FS_Subset
<1>2. Total(source', stored') <= Total(source, stored)
  <2>1. \A r \in stored : source[r] \in Nat
    BY JobCostsNow
  <2>2. \A r \in stored' : source'[r] \in Nat /\ r \in stored /\ source'[r] <= source[r]
    BY JobCostsNext
  <2> QED BY <2>1, <2>2, JobCostsNow, JobCostsNext, TotalBelow
<1>3. Total(blobs', Requests) <= Total(blobs, Requests)
  BY JobCostsNow, JobCostsNext, TotalBelow
<1>4. Cardinality(stored) \in Nat /\ Cardinality(stored') \in Nat
  BY JobCostsNow, JobCostsNext, FS_CardinalityType
<1>5. Retained({})' <= MaxBytes
  BY <1>2, <1>3, JobCostsNow, JobCostsNext, BoundsAssumption DEF WithinLimits
<1> QED BY <1>1, <1>4, <1>5, BoundsAssumption DEF WithinLimits

\* What eviction leaves of the patches costs what the other jobs' patches do.
LEMMA PatchesLeft ==
    ASSUME TypeOK, NEW gone, gone \subseteq Requests
    PROVE  /\ Total(Without(gone), Requests) \in Nat
           /\ Total(Without(gone), Requests) <= Total(blobs, Requests \ gone)
           /\ \A r \in Requests : Without(gone)[r] \in Nat
<1> DEFINE left == Without(gone)
           rest == Requests \ gone
<1>1. \A r \in Requests :
          left[r] \in Nat /\ (left[r] = 0 \/ (r \in rest /\ left[r] <= blobs[r]))
  BY JobCostsNow DEF Without
<1>2. IsFiniteSet(rest) /\ \A r \in rest : blobs[r] \in Nat
  BY JobCosts
<1> HIDE DEF left, rest
<1>3. Total(left, Requests) \in Nat
  BY <1>1, RequestsAssumption, TotalType
<1>4. Total(left, Requests) <= Total(blobs, rest)
  BY <1>1, <1>2, RequestsAssumption, TotalBelow
<1> QED BY <1>1, <1>3, <1>4 DEF left, rest

\* A job that fits after eviction.
LEMMA JobAdded ==
    ASSUME TypeOK, TypeOK', NEW gone \in SUBSET Requests, NEW r \in Requests, NEW n \in Nat,
           Cardinality(stored \ gone) < MaxJobs, Retained(gone) + n <= MaxBytes,
           stored' = (stored \ gone) \cup {r}, source' = [source EXCEPT ![r] = n],
           blobs' = Without(gone)
    PROVE  WithinLimits'
<1> DEFINE left == stored \ gone
           rest == Requests \ gone
<1>1. /\ Retained(gone) = Total(source, left) + Total(blobs, rest)
      /\ Total(source, left) \in Nat /\ Total(blobs, rest) \in Nat
      /\ IsFiniteSet(left)
  BY JobCosts, Zenon
<1>2. \A s \in left : s \in Requests /\ source[s] \in Nat
  BY JobCostsNow
<1>3. Total(blobs', Requests) <= Total(blobs, rest)
  BY PatchesLeft
<1>4. \A s \in stored' \ {r} : s \in left /\ source'[s] = source[s]
  BY DEF TypeOK
<1>5. r \in stored' /\ source'[r] = n
  BY DEF TypeOK
<1>6. stored' = left \cup {r} /\ Cardinality(left) < MaxJobs
  OBVIOUS
<1> HIDE DEF left, rest
<1>7. Cardinality(stored') <= MaxJobs
  <2>1. Cardinality(left) \in Nat
    BY <1>1, FS_CardinalityType
  <2>2. Cardinality(left \cup {r})
          = IF r \in left THEN Cardinality(left) ELSE Cardinality(left) + 1
    BY <1>1, FS_AddElement, Zenon
  <2>3. Cardinality(stored') = Cardinality(left) \/ Cardinality(stored') = Cardinality(left) + 1
    BY <1>6, <2>2, Zenon
  <2> QED BY <1>6, <2>1, <2>3, BoundsAssumption
<1>8. Total(source', stored') <= n + Total(source, left)
  <2> DEFINE others == stored' \ {r}
  <2>1. IsFiniteSet(others) /\ \A s \in others : s \in stored'
    BY JobCostsNext, FS_RemoveElement
  <2>2. IsFiniteSet(stored') /\ \A s \in stored' : source'[s] \in Nat
    BY JobCostsNext
  <2>3. Total(source', stored') = n + Total(source', others)
    BY <1>5, JobCostsSplit, Zenon
  <2>4. \A s \in others : s \in left /\ source'[s] \in Nat /\ source'[s] <= source[s]
    BY <1>2, <1>4, <2>1, <2>2
  <2> HIDE DEF others
  <2>5. Total(source', others) <= Total(source, left) /\ Total(source', others) \in Nat
    BY <1>1, <1>2, <2>1, <2>4, TotalBelow, TotalType
  <2> QED BY <1>1, <2>3, <2>5
<1>9. Retained({})' <= MaxBytes
  BY <1>1, <1>3, <1>8, JobCostsNext, BoundsAssumption
<1> QED BY <1>7, <1>9 DEF WithinLimits

\* A patch that fits after eviction.
LEMMA PatchAdded ==
    ASSUME TypeOK, TypeOK', WithinLimits, NEW gone \in SUBSET Requests, NEW r \in Requests,
           Retained(gone) + 1 <= MaxBytes,
           stored' = stored \ gone, source' = source,
           blobs' = [Without(gone) EXCEPT ![r] = @ + 1]
    PROVE  WithinLimits'
<1> DEFINE left == Without(gone)
           rest == Requests \ gone
           others == Requests \ {r}
<1>1. /\ Retained(gone) = Total(source, stored') + Total(blobs, rest)
      /\ Total(source, stored') \in Nat /\ Total(blobs, rest) \in Nat
  BY JobCosts, Zenon
<1>2. Total(left, Requests) <= Total(blobs, rest) /\ \A s \in Requests : left[s] \in Nat
  BY PatchesLeft
<1>3. /\ blobs'[r] = left[r] + 1
      /\ \A s \in others : s \in Requests /\ blobs'[s] = left[s] /\ left[s] \in Nat
  BY <1>2 DEF Without
<1>4. IsFiniteSet(others)
  BY RequestsAssumption, FS_RemoveElement
<1>5. Total(left, Requests) = left[r] + Total(left, others)
  BY <1>2, RequestsAssumption, TotalSplit
<1>6. Total(blobs', Requests) = blobs'[r] + Total(blobs', others)
  BY JobCostsSplit, Zenon
<1> HIDE DEF left, rest, others
<1>7. Total(blobs', others) = Total(left, others) /\ Total(left, others) \in Nat
  BY <1>3, <1>4, TotalSame, TotalType
<1>8. Total(blobs', Requests) <= Total(blobs, rest) + 1
  BY <1>1, <1>2, <1>3, <1>5, <1>6, <1>7
<1>9. Retained({})' <= MaxBytes
  BY <1>1, <1>8, JobCostsNext, BoundsAssumption
<1>10. Cardinality(stored') <= MaxJobs
  <2>1. Cardinality(stored') <= Cardinality(stored)
    BY JobCostsNow, FS_Subset
  <2>2. Cardinality(stored') \in Nat /\ Cardinality(stored) \in Nat
    BY JobCostsNow, JobCostsNext, FS_CardinalityType
  <2> QED BY <2>1, <2>2, BoundsAssumption DEF WithinLimits
<1> QED BY <1>9, <1>10 DEF WithinLimits

LEMMA ReserveLimits ==
    ASSUME TypeOK, TypeOK', WithinLimits, NEW r \in Requests, Reserve(r)
    PROVE  WithinLimits'
<1> DEFINE n == SourceBytes[r]
           gone == Evicted(1, n)
<1>1. n \in Nat
  BY RequestsAssumption
<1>2. gone \in SUBSET Requests
  BY EvictedEvictable DEF Evictable, TypeOK
<1>3. CASE CanFit(1, n)
  <2>1. Fits(gone, 1, n)
    BY <1>1, <1>3, BoundsAssumption, EvictedFits DEF CanFit
  <2>2. /\ blobs' = Without(gone)
        /\ stored' = (stored \ gone) \cup {r}
        /\ source' = [source EXCEPT ![r] = n]
    BY <1>3 DEF Reserve
  <2> HIDE DEF gone, n
  <2> QED BY <1>1, <1>2, <2>1, <2>2, JobAdded DEF Fits
<1>4. CASE ~CanFit(1, n)
  <2>1. stored' \subseteq stored /\ source' = source /\ blobs' = Without(gone)
    BY <1>4 DEF Reserve
  <2> HIDE DEF gone
  <2>2. \A s \in Requests : blobs'[s] = 0 \/ blobs'[s] <= blobs[s]
    BY <2>1, JobCostsNow DEF Without
  <2> QED BY <2>1, <2>2, JobCostsNow, NothingAdded
<1> QED BY <1>3, <1>4

LEMMA StorePatchLimits ==
    ASSUME TypeOK, TypeOK', WithinLimits, NEW r \in Requests, StorePatch(r)
    PROVE  WithinLimits'
<1> DEFINE gone == IF OwnerStored(r) THEN Evicted(0, 1) ELSE {}
<1>1. gone \in SUBSET Requests
  BY EvictedEvictable DEF Evictable, TypeOK
<1>2. stored' = stored \ gone /\ source' = source
  BY DEF StorePatch
<1>3. CASE OwnerStored(r) /\ CanFit(0, 1)
  <2>1. Fits(gone, 0, 1)
    BY <1>3, BoundsAssumption, EvictedFits DEF CanFit
  <2>2. blobs' = [Without(gone) EXCEPT ![r] = @ + 1]
    BY <1>3 DEF StorePatch
  <2> HIDE DEF gone
  <2> QED BY <1>1, <1>2, <2>1, <2>2, PatchAdded DEF Fits
<1>4. CASE ~(OwnerStored(r) /\ CanFit(0, 1))
  <2>1. blobs' = Without(gone)
    BY <1>4 DEF StorePatch
  <2> HIDE DEF gone
  <2>2. \A s \in Requests : blobs'[s] = 0 \/ blobs'[s] <= blobs[s]
    BY <2>1, JobCostsNow DEF Without
  <2> QED BY <1>2, <2>2, JobCostsNow, NothingAdded
<1> QED BY <1>3, <1>4

LEMMA StepLimits == TypeOK /\ TypeOK' /\ WithinLimits /\ [Next]_vars => WithinLimits'
<1> SUFFICES ASSUME TypeOK, TypeOK', WithinLimits, [Next]_vars PROVE WithinLimits'
  OBVIOUS
<1>0. \A r \in Requests : source[r] \in Nat /\ blobs[r] \in Nat
  BY JobCostsNow
<1>1. ASSUME UNCHANGED <<stored, source, blobs>> PROVE WithinLimits'
  BY <1>0, <1>1, NothingAdded
<1>2. ASSUME NEW r \in Requests, Lookup(r) \/ Lock(r) \/ Drop(r) PROVE WithinLimits'
  BY <1>1, <1>2 DEF Lookup, Lock, Drop
<1>3. ASSUME NEW r \in Requests, ValidatePatch(r) \/ PublishRegion(r) PROVE WithinLimits'
  BY <1>1, <1>3 DEF ValidatePatch, PublishRegion
<1>4. ASSUME NEW r \in Requests, EndJob(r) \/ FinishJob(r) \/ DeleteWithdraw(r)
      PROVE  WithinLimits'
  <2>1. UNCHANGED <<stored, blobs>> /\ \A s \in Requests : source'[s] <= source[s]
    BY <1>0, <1>4 DEF EndJob, FinishJob, DeleteWithdraw, Delete, Withdraw, TypeOK
  <2> QED BY <1>0, <2>1, NothingAdded
<1>5. ASSUME NEW r \in Requests, DeleteFlag(r) \/ DeleteEnd(r) PROVE WithinLimits'
  BY <1>1, <1>5 DEF DeleteFlag, DeleteEnd
<1>6. ASSUME NEW r \in Requests, DeleteEvict(r) PROVE WithinLimits'
  <2>1. /\ stored' \subseteq stored /\ source' = source
        /\ \A s \in Requests : blobs'[s] = 0 \/ blobs'[s] <= blobs[s]
    BY <1>0, <1>6 DEF DeleteEvict, Without
  <2> QED BY <1>0, <2>1, NothingAdded
<1>7. ASSUME NEW c \in Clients, Age(c) PROVE WithinLimits'
  BY <1>1, <1>7 DEF Age
<1>8. CASE UNCHANGED vars
  BY <1>1, <1>8 DEF vars
<1> QED
  BY <1>2, <1>3, <1>4, <1>5, <1>6, <1>7, <1>8, ReserveLimits, StorePatchLimits DEF Next

LEMMA InitLimits == Init => WithinLimits
<1> SUFFICES ASSUME Init PROVE WithinLimits
  OBVIOUS
<1>1. TypeOK
  BY InitIInv DEF IInv
<1>2. stored = {} /\ \A r \in Requests : blobs[r] = 0
  BY DEF Init
<1>3. Total(source, {}) = 0 /\ Total(blobs, Requests) <= Total(blobs, {})
  BY <1>2, RequestsAssumption, TotalEmpty, TotalBelow, FS_EmptySet
<1>4. Total(blobs, {}) = 0 /\ Total(source, stored) = 0
  BY <1>2, TotalEmpty
<1>5. Retained({}) <= 0
  BY <1>1, <1>3, <1>4, JobCostsNow
<1>6. Retained({}) \in Nat
  BY <1>1, JobCostsNow
<1> QED BY <1>2, <1>5, <1>6, FS_EmptySet, BoundsAssumption DEF WithinLimits

-----------------------------------------------------------------------------
(* The theorems *)

\* The inductive invariant holds of every reachable state.
THEOREM Invariance == Spec => []IInv
<1> QED BY InitIInv, StepIInv, PTL DEF Spec

\* Every component keeps its type, and no job more patches than it may store.
THEOREM TypeCorrect == Spec => []TypeOK
<1>1. IInv => TypeOK
  BY DEF IInv
<1> QED BY <1>1, Invariance, PTL

\* However POSTs repeat, race and are abandoned, an entry of the ledger has at
\* most one job (creation_guard).
THEOREM OneJob == Spec => []OneJobPerEntry
<1>1. IInv => OneJobPerEntry
  <2> SUFFICES ASSUME IInv, NEW e \in Requests PROVE Cardinality(created[e]) <= 1
    BY DEF OneJobPerEntry
  <2>1. created[e] = {} \/ \E j : created[e] = {j}
    BY DEF IInv, CreatedInv
  <2>2. Cardinality(created[e]) = 0 \/ Cardinality(created[e]) = 1
    BY <2>1, FS_EmptySet, FS_Singleton
  <2> QED BY <2>2
<1> QED BY <1>1, Invariance, PTL

\* No two handlers create for one clientRequestId, even when the ledger is
\* full and forgets entries (prune of creation_guard).
THEOREM OneCreation == Spec => []NoConcurrentCreation
<1>1. IInv => NoConcurrentCreation
  BY DEF IInv, SlotInv, HolderInv, NoConcurrentCreation
<1> QED BY <1>1, Invariance, PTL

\* A POST is only answered with a job of its own client and body.
THEOREM RightAnswer == Spec => []AnswersMatch
<1>1. IInv => AnswersMatch
  BY DEF IInv
<1> QED BY <1>1, Invariance, PTL

\* Eviction under pressure never takes a running job that nobody cancelled,
\* nor one of its published patches (is_evictable, make_room_for_blob).
THEOREM RunningKept == Spec => []RunningJobsKept
<1>1. IInv => RunningJobsKept
  BY DEF IInv
<1> QED BY <1>1, Invariance, PTL

\* The jobs, decoded sources and patches kept stay within their bounds
\* together, whatever the sizes of the bodies and the order of the evictions
\* (make_room_for_job, make_room_for_blob).
THEOREM LimitsKept == Spec => []WithinLimits
<1>1. IInv => TypeOK
  BY DEF IInv
<1>2. TypeOK /\ TypeOK' /\ WithinLimits /\ [Next]_vars => WithinLimits'
  BY StepLimits
<1> QED BY <1>1, <1>2, InitLimits, Invariance, PTL DEF Spec

=============================================================================
