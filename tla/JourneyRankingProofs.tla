------------------------- MODULE JourneyRankingProofs -------------------------
(***************************************************************************)
(* Theorems about JourneyRanking, for every value of its constants: nothing *)
(* that routing stores is rejected, and no choice of journeys is better     *)
(* than the one that is ranked.                                             *)
(***************************************************************************)
EXTENDS JourneyRanking, FiniteSetTheorems, FunctionTheorems, SequenceTheorems,
        WellFoundedInduction, TLAPS

(* Keys are compared element by element.                                    *)

\* Keys of n numbers.
Keys(n) == [1 .. n -> Int]

\* A set of natural numbers that is not empty has a least one.
LEMMA LeastNumber ==
  ASSUME NEW S \in SUBSET Nat, S # {}
  PROVE  \E m \in S : \A x \in S : m <= x
  <1>1. PICK m \in S : \A x \in S : ~(<<x, m>> \in OpToRel(<, Nat))
    BY NatLessThanWellFounded, WFMin
  <1>2. \A x \in S : ~(x < m)
    BY <1>1 DEF OpToRel
  <1> QED
    BY <1>2

\* No key comes before itself.
LEMMA LessIsIrreflexive ==
  ASSUME NEW n \in Nat, NEW s \in Keys(n)
  PROVE  ~IsLess(s, s)
  BY DEF IsLess, Keys

\* The order is transitive.
LEMMA LessIsTransitive ==
  ASSUME NEW n \in Nat, NEW s \in Keys(n), NEW t \in Keys(n), NEW u \in Keys(n),
         IsLess(s, t), IsLess(t, u)
  PROVE  IsLess(s, u)
  <1>1. PICK i \in 1 .. n : s[i] < t[i] /\ \A j \in 1 .. i - 1 : s[j] = t[j]
    BY DEF IsLess, Keys
  <1>2. PICK k \in 1 .. n : t[k] < u[k] /\ \A j \in 1 .. k - 1 : t[j] = u[j]
    BY DEF IsLess, Keys
  <1> DEFINE m == IF i <= k THEN i ELSE k
  <1>3. m \in 1 .. n /\ s[m] < u[m]
    BY <1>1, <1>2 DEF Keys
  <1>4. \A j \in 1 .. m - 1 : s[j] = u[j]
    BY <1>1, <1>2
  <1> QED
    BY <1>3, <1>4 DEF IsLess, Keys

\* It is total.
LEMMA LessIsTotal ==
  ASSUME NEW n \in Nat, NEW s \in Keys(n), NEW t \in Keys(n)
  PROVE  IsLess(s, t) \/ IsLess(t, s) \/ s = t
  <1> DEFINE differ == {i \in 1 .. n : s[i] # t[i]}
  <1>1. CASE differ = {}
    BY <1>1 DEF Keys
  <1>2. CASE differ # {}
    <2>0. differ \in SUBSET Nat
      OBVIOUS
    <2>1. PICK m \in differ : \A i \in differ : m <= i
      <3> HIDE DEF differ
      <3> QED
        BY <1>2, <2>0, LeastNumber
    <2>2. m \in 1 .. n /\ s[m] # t[m] /\ s[m] \in Int /\ t[m] \in Int
      BY DEF Keys
    <2>3. \A j \in 1 .. m - 1 : s[j] = t[j]
      BY <2>1, <2>2
    <2> QED
      BY <2>2, <2>3, SMTT(30) DEF IsLess, Keys
  <1> QED
    BY <1>1, <1>2

\* So what does not come before something that does not come before a third,
\* does not come before the third.
LEMMA NotLessIsTransitive ==
  ASSUME NEW n \in Nat, NEW s \in Keys(n), NEW t \in Keys(n), NEW u \in Keys(n),
         ~IsLess(s, t), ~IsLess(t, u)
  PROVE  ~IsLess(s, u)
  <1> SUFFICES ASSUME IsLess(s, u) PROVE FALSE
    OBVIOUS
  <1>1. CASE IsLess(t, s)
    BY <1>1, LessIsTransitive
  <1>2. CASE s = t
    BY <1>2
  <1> QED
    BY <1>1, <1>2, LessIsTotal

-----------------------------------------------------------------------------
(* Elements by their keys.                                                  *)

\* How many elements come before x.
Before(S, key, x) == {y \in S : IsLess(key[y], key[x])}

\* What comes before has fewer before it.
LEMMA RankGrows ==
  ASSUME NEW S, IsFiniteSet(S), NEW n \in Nat, NEW key \in [S -> Keys(n)],
         NEW x \in S, NEW y \in S, IsLess(key[x], key[y])
  PROVE  /\ Cardinality(Before(S, key, x)) \in Nat /\ Cardinality(Before(S, key, y)) \in Nat
         /\ Cardinality(Before(S, key, x)) < Cardinality(Before(S, key, y))
  <1>1. Before(S, key, y) \in SUBSET S
    BY DEF Before
  <1>2. IsFiniteSet(Before(S, key, y)) /\ Cardinality(Before(S, key, y)) \in Nat
    BY <1>1, FS_Subset, FS_CardinalityType
  <1>3. Before(S, key, x) \in SUBSET Before(S, key, y)
    <2>1. ASSUME NEW z \in S, IsLess(key[z], key[x]) PROVE IsLess(key[z], key[y])
      BY <2>1, LessIsTransitive
    <2> QED
      BY <2>1 DEF Before
  <1>4. x \in Before(S, key, y) /\ x \notin Before(S, key, x)
    BY LessIsIrreflexive DEF Before
  <1>5. /\ IsFiniteSet(Before(S, key, x)) /\ Cardinality(Before(S, key, x)) \in Nat
        /\ Cardinality(Before(S, key, x)) <= Cardinality(Before(S, key, y))
        /\ Cardinality(Before(S, key, x)) # Cardinality(Before(S, key, y))
    BY <1>2, <1>3, <1>4, FS_Subset, FS_CardinalityType
  <1> QED
    BY <1>2, <1>5

\* A finite set has an element that none comes before.
LEMMA BestExists ==
  ASSUME NEW S, IsFiniteSet(S), S # {}, NEW n \in Nat, NEW key \in [S -> Keys(n)]
  PROVE  \E x \in S : \A y \in S : ~IsLess(key[y], key[x])
  <1> DEFINE ranks == {Cardinality(Before(S, key, x)) : x \in S}
  <1>1. \A x \in S : Cardinality(Before(S, key, x)) \in Nat
    <2> SUFFICES ASSUME NEW x \in S PROVE Cardinality(Before(S, key, x)) \in Nat
      OBVIOUS
    <2>1. Before(S, key, x) \in SUBSET S
      BY DEF Before
    <2> QED
      BY <2>1, FS_Subset, FS_CardinalityType
  <1>2. ranks \in SUBSET Nat /\ ranks # {}
    BY <1>1
  <1>3. PICK m \in ranks : \A r \in ranks : m <= r
    BY <1>2, LeastNumber
  <1>4. PICK x \in S : m = Cardinality(Before(S, key, x))
    OBVIOUS
  <1>5. ASSUME NEW y \in S, IsLess(key[y], key[x]) PROVE FALSE
    <2>1. Cardinality(Before(S, key, y)) < m /\ m \in Nat /\ Cardinality(Before(S, key, y)) \in Nat
      BY <1>4, <1>5, RankGrows
    <2>2. m <= Cardinality(Before(S, key, y))
      BY <1>3
    <2> QED
      BY <2>1, <2>2
  <1> QED
    BY <1>5

\* Numbers have a least and a greatest one.
LEMMA FiniteNumbers ==
  ASSUME NEW S \in SUBSET Int, IsFiniteSet(S), S # {}
  PROVE  /\ Min(S) \in S /\ \A x \in S : Min(S) <= x
         /\ Max(S) \in S /\ \A x \in S : x <= Max(S)
  <1>1. \E m \in S : \A x \in S : m <= x
    <2> DEFINE key == [x \in S |-> [i \in 1 .. 1 |-> x]]
    <2>1. key \in [S -> Keys(1)]
      BY DEF Keys
    <2>2. PICK m \in S : \A x \in S : ~IsLess(key[x], key[m])
      BY <2>1, BestExists
    <2>3. \A x \in S : x < m => IsLess(key[x], key[m])
      BY DEF IsLess
    <2> QED
      BY <2>2, <2>3
  <1>2. \E m \in S : \A x \in S : x <= m
    <2> DEFINE key == [x \in S |-> [i \in 1 .. 1 |-> -x]]
    <2>1. key \in [S -> Keys(1)]
      BY DEF Keys
    <2>2. PICK m \in S : \A x \in S : ~IsLess(key[x], key[m])
      BY <2>1, BestExists
    <2>3. \A x \in S : m < x => IsLess(key[x], key[m])
      BY DEF IsLess
    <2> QED
      BY <2>2, <2>3
  <1>3. Min(S) \in S /\ \A x \in S : Min(S) <= x
    BY <1>1 DEF Min
  <1>4. Max(S) \in S /\ \A x \in S : Max(S) >= x
    BY <1>2 DEF Max
  <1> QED
    BY <1>3, <1>4

\* The elements of S, each behind as many as come before it.
Placed(S, key) ==
  [i \in 1 .. Cardinality(S) |-> CHOOSE x \in S : Cardinality(Before(S, key, x)) = i - 1]

\* All of S in the order of their keys.
IsSorting(f, S, key) ==
  /\ Cardinality(S) \in Nat
  /\ f \in [1 .. Cardinality(S) -> S]
  /\ \A x \in S : \E i \in 1 .. Cardinality(S) : f[i] = x
  /\ \A i, j \in 1 .. Cardinality(S) : i < j => IsLess(key[f[i]], key[f[j]])

\* Elements with different keys have each a place of their own.
LEMMA SortedByKey ==
  ASSUME NEW S, IsFiniteSet(S), NEW n \in Nat, NEW key \in [S -> Keys(n)],
         \A x, y \in S : key[x] = key[y] => x = y
  PROVE  IsSorting(Placed(S, key), S, key)
  <1> DEFINE size == Cardinality(S)
             f == Placed(S, key)
             rank == [x \in S |-> Cardinality(Before(S, key, x))]
  <1>1. size \in Nat
    BY FS_CardinalityType
  <1>2. rank \in [S -> 0 .. size - 1]
    <2> SUFFICES ASSUME NEW x \in S PROVE Cardinality(Before(S, key, x)) \in 0 .. size - 1
      OBVIOUS
    <2>1. IsFiniteSet(S \ {x}) /\ Cardinality(S \ {x}) = size - 1
      BY FS_RemoveElement
    <2>2. Before(S, key, x) \in SUBSET (S \ {x})
      BY LessIsIrreflexive DEF Before
    <2> QED
      BY <1>1, <2>1, <2>2, FS_Subset, FS_CardinalityType
  <1>3. \A x, y \in S : rank[x] = rank[y] => x = y
    <2> SUFFICES ASSUME NEW x \in S, NEW y \in S, rank[x] = rank[y], x # y PROVE FALSE
      OBVIOUS
    <2>1. IsLess(key[x], key[y]) \/ IsLess(key[y], key[x])
      BY LessIsTotal
    <2> QED
      BY <2>1, RankGrows
  <1>4. rank \in Injection(S, 0 .. size - 1)
    BY <1>2, <1>3 DEF Injection, IsInjective
  <1>5. IsFiniteSet(0 .. size - 1) /\ Cardinality(0 .. size - 1) = size
    BY <1>1, FS_Interval, SMTT(30)
  <1>6. rank \in Surjection(S, 0 .. size - 1)
    BY <1>4, <1>5, FS_Injection
  <1>7. ASSUME NEW i \in 1 .. size PROVE f[i] \in S /\ rank[f[i]] = i - 1
    <2>1. i - 1 \in 0 .. size - 1
      BY <1>1
    <2>2. \E x \in S : rank[x] = i - 1
      BY <1>6, <2>1 DEF Surjection
    <2>3. f[i] = CHOOSE x \in S : rank[x] = i - 1
      BY DEF Placed
    <2> HIDE DEF f, rank
    <2> QED
      BY <2>2, <2>3
  <1>8. f \in [1 .. size -> S]
    BY <1>7 DEF Placed
  <1> HIDE DEF f
  <1>9. ASSUME NEW x \in S PROVE \E i \in 1 .. size : f[i] = x
    <2>1. rank[x] + 1 \in 1 .. size /\ (rank[x] + 1) - 1 = rank[x]
      BY <1>1, <1>2
    <2>2. f[rank[x] + 1] \in S /\ rank[f[rank[x] + 1]] = rank[x]
      BY <1>7, <2>1
    <2> QED
      BY <1>3, <2>1, <2>2
  <1>10. ASSUME NEW i \in 1 .. size, NEW j \in 1 .. size, i < j
         PROVE  IsLess(key[f[i]], key[f[j]])
    <2>1. /\ f[i] \in S /\ f[j] \in S /\ f[i] # f[j]
          /\ rank[f[i]] < rank[f[j]] /\ rank[f[i]] \in Int /\ rank[f[j]] \in Int
      <3> HIDE DEF rank, size
      <3>1. f[i] \in S /\ f[j] \in S /\ rank[f[i]] = i - 1 /\ rank[f[j]] = j - 1
        BY <1>7
      <3>2. i \in Int /\ j \in Int /\ i - 1 < j - 1
        BY <1>1, <1>10
      <3> QED
        BY <3>1, <3>2
    <2>2. ~IsLess(key[f[j]], key[f[i]])
      BY <2>1, RankGrows
    <2>3. key[f[i]] \in Keys(n) /\ key[f[j]] \in Keys(n) /\ key[f[i]] # key[f[j]]
      BY <2>1
    <2> QED
      BY <2>2, <2>3, LessIsTotal
  <1> QED
    BY <1>1, <1>8, <1>9, <1>10 DEF IsSorting, f

-----------------------------------------------------------------------------
(* Sums.                                                                    *)

\* What a fold over the subsets of S adds up.
IsSum(sum, f, S) ==
  sum = [s \in SUBSET S |->
           IF s = {} THEN 0 ELSE f[CHOOSE x \in s : TRUE] + sum[s \ {CHOOSE x \in s : TRUE}]]

\* A finite set has subsets of at most its size, and one element less makes a
\* smaller one.
LEMMA SmallerSubset ==
  ASSUME NEW S, IsFiniteSet(S), NEW s \in SUBSET S
  PROVE  /\ IsFiniteSet(s) /\ Cardinality(s) \in Nat /\ Cardinality(s) <= Cardinality(S)
         /\ Cardinality(s) = 0 <=> s = {}
         /\ s # {} =>
              /\ (CHOOSE x \in s : TRUE) \in s
              /\ s \ {CHOOSE x \in s : TRUE} \in SUBSET S
              /\ Cardinality(s \ {CHOOSE x \in s : TRUE}) = Cardinality(s) - 1
  <1>1. IsFiniteSet(s) /\ Cardinality(s) \in Nat /\ Cardinality(s) <= Cardinality(S)
    BY FS_Subset, FS_CardinalityType
  <1>2. Cardinality(s) = 0 <=> s = {}
    BY <1>1, FS_EmptySet
  <1>3. s # {} => (CHOOSE x \in s : TRUE) \in s
    OBVIOUS
  <1> QED
    BY <1>1, <1>2, <1>3, FS_RemoveElement

\* The subsets with at most n elements.
Small(S, n) == {s \in SUBSET S : Cardinality(s) <= n}

\* A sum over the subsets with at most n elements.
IsPartOfSum(sum, f, S, n) ==
  sum = [s \in Small(S, n) |->
           IF s = {} THEN 0 ELSE f[CHOOSE x \in s : TRUE] + sum[s \ {CHOOSE x \in s : TRUE}]]

\* Where there is a sum over the subsets with fewer elements there is one over
\* those with n.
LEMMA SumGoesOn ==
  ASSUME NEW S, IsFiniteSet(S), NEW f, NEW n \in Nat, n # 0, NEW g, IsPartOfSum(g, f, S, n - 1)
  PROVE  \E h : IsPartOfSum(h, f, S, n)
  <1> DEFINE First(s) == CHOOSE x \in s : TRUE
             h == [s \in Small(S, n) |-> IF s = {} THEN 0 ELSE f[First(s)] + g[s \ {First(s)}]]
  <1>1. ASSUME NEW s \in Small(S, n)
        PROVE  h[s] = IF s = {} THEN 0 ELSE f[First(s)] + h[s \ {First(s)}]
    <2>1. CASE s # {}
      <3>1. s \ {First(s)} \in Small(S, n - 1) /\ s \ {First(s)} \in Small(S, n)
        <4>1. s \in SUBSET S /\ Cardinality(s) <= n
          BY DEF Small
        <4>2. /\ s \ {First(s)} \in SUBSET S /\ Cardinality(s) \in Nat
              /\ Cardinality(s \ {First(s)}) = Cardinality(s) - 1
          BY <2>1, <4>1, SmallerSubset
        <4> QED
          BY <4>1, <4>2 DEF Small
      <3> DEFINE r == s \ {First(s)}
      <3>2. g[r] = IF r = {} THEN 0 ELSE f[First(r)] + g[r \ {First(r)}]
        BY <3>1 DEF IsPartOfSum
      <3>3. h[r] = IF r = {} THEN 0 ELSE f[First(r)] + g[r \ {First(r)}]
        BY <3>1
      <3>4. h[s] = f[First(s)] + g[r]
        BY <2>1
      <3> QED
        BY <2>1, <3>2, <3>3, <3>4
    <2>2. CASE s = {}
      BY <2>2
    <2> QED
      BY <2>1, <2>2
  <1>2. h = [s \in Small(S, n) |-> h[s]]
    OBVIOUS
  <1>3. h = [s \in Small(S, n) |-> IF s = {} THEN 0 ELSE f[First(s)] + h[s \ {First(s)}]]
    <2> HIDE DEF h
    <2> QED
      BY <1>1, <1>2
  <1> QED
    BY <1>3 DEF IsPartOfSum

\* Every finite set of numbers has a sum.
LEMMA SumExists ==
  ASSUME NEW S, IsFiniteSet(S), NEW f
  PROVE  \E sum : IsSum(sum, f, S)
  <1> DEFINE without == {n \in Nat : ~\E g : IsPartOfSum(g, f, S, n)}
  <1>1. ASSUME without # {} PROVE FALSE
    <2>0. without \in SUBSET Nat
      OBVIOUS
    <2>1. PICK n \in without : \A m \in without : n <= m
      <3> HIDE DEF without
      <3> QED
        BY <1>1, <2>0, LeastNumber
    <2>2. n # 0
      <3>1. Small(S, 0) = {{}}
        <4>1. \A s \in SUBSET S : Cardinality(s) \in Nat /\ (Cardinality(s) = 0 <=> s = {})
          BY SmallerSubset
        <4> QED
          BY <4>1 DEF Small
      <3>2. IsPartOfSum([s \in {{}} |-> 0], f, S, 0)
        BY <3>1 DEF IsPartOfSum
      <3> QED
        BY <3>2
    <2>3. n \in Nat /\ n - 1 \in Nat
      BY <2>2
    <2>4. n - 1 \notin without
      <3> HIDE DEF without
      <3> QED
        BY <2>1, <2>3
    <2>5. PICK g : IsPartOfSum(g, f, S, n - 1)
      BY <2>3, <2>4
    <2> QED
      BY <2>2, <2>3, <2>5, SumGoesOn
  <1>2. PICK g : IsPartOfSum(g, f, S, Cardinality(S))
    BY <1>1, FS_CardinalityType
  <1>3. Small(S, Cardinality(S)) = SUBSET S
    <2>1. \A s \in SUBSET S : Cardinality(s) <= Cardinality(S)
      BY SmallerSubset
    <2> QED
      BY <2>1 DEF Small
  <1> QED
    BY <1>2, <1>3 DEF IsSum, IsPartOfSum

\* Sums of greater numbers are greater.
LEMMA SumsGrow ==
  ASSUME NEW S, IsFiniteSet(S), NEW f \in [S -> Int], NEW g \in [S -> Int],
         NEW sum, IsSum(sum, f, S), NEW total, IsSum(total, g, S),
         \A x \in S : f[x] <= g[x]
  PROVE  /\ sum[S] \in Int /\ total[S] \in Int /\ sum[S] <= total[S]
         /\ sum[S] = total[S] => \A x \in S : f[x] = g[x]
  <1> DEFINE Good(s) == /\ sum[s] \in Int /\ total[s] \in Int /\ sum[s] <= total[s]
                        /\ sum[s] = total[s] => \A x \in s : f[x] = g[x]
             bad == {n \in Nat : \E s \in SUBSET S : Cardinality(s) = n /\ ~Good(s)}
  <1>1. ASSUME bad # {} PROVE FALSE
    <2>1. PICK n \in bad : \A m \in bad : n <= m
      <3>1. bad \in SUBSET Nat
        OBVIOUS
      <3> HIDE DEF bad
      <3> QED
        BY <1>1, <3>1, LeastNumber
    <2>2. PICK s \in SUBSET S : Cardinality(s) = n /\ ~Good(s)
      OBVIOUS
    <2>3. s # {}
      <3>1. sum[{}] = 0 /\ total[{}] = 0
        BY DEF IsSum
      <3> QED
        BY <2>2, <3>1
    <2> DEFINE x == CHOOSE y \in s : TRUE
               rest == s \ {x}
    <2>4. x \in S /\ x \in s /\ rest \in SUBSET S /\ Cardinality(rest) = n - 1
      BY <2>2, <2>3, SmallerSubset
    <2>5. sum[s] = f[x] + sum[rest] /\ total[s] = g[x] + total[rest]
      BY <2>3 DEF IsSum
    <2> HIDE DEF x
    <2>6. Good(rest)
      <3>1. n \in Nat /\ n # 0
        BY <2>2, <2>3, SmallerSubset
      <3>2. n - 1 \in Nat /\ n - 1 \notin bad
        BY <2>1, <3>1
      <3> QED
        BY <2>4, <3>2
    <2>7. f[x] \in Int /\ g[x] \in Int /\ f[x] <= g[x]
      BY <2>4
    <2>8. sum[s] \in Int /\ total[s] \in Int /\ sum[s] <= total[s]
      BY <2>5, <2>6, <2>7
    <2>9. ASSUME sum[s] = total[s], NEW y \in s PROVE f[y] = g[y]
      <3>1. f[x] = g[x] /\ sum[rest] = total[rest]
        BY <2>5, <2>6, <2>7, <2>9
      <3> QED
        BY <2>4, <2>6, <3>1
    <2> QED
      BY <2>2, <2>8, <2>9
  <1>2. Cardinality(S) \in Nat
    BY FS_CardinalityType
  <1> QED
    BY <1>1, <1>2

-----------------------------------------------------------------------------
(* The sweep over the journeys by arrival.                                  *)

\* One turn of the outer loop.
SweepStep(timed, last, r) ==
  LET left == Min({l \in last.left .. r + 1 : ~Covers(timed, l, r)})
  IN [left |-> left,
      spreads |-> last.spreads \cup
        {timed[r].arrivalAt - timed[l].arrivalAt : l \in last.left .. left - 1}]

SweepStart == [left |-> 1, spreads |-> {}]

\* The sweep up to the n-th journey.
IsSweep(sweep, timed, n) ==
  sweep = [r \in 0 .. n |-> IF r = 0 THEN SweepStart ELSE SweepStep(timed, sweep[r - 1], r)]

\* A sweep goes on by one turn.
LEMMA SweepGoesOn ==
  ASSUME NEW timed, NEW n \in Nat, n # 0, NEW g, IsSweep(g, timed, n - 1)
  PROVE  \E h : IsSweep(h, timed, n)
  <1> DEFINE h == [r \in 0 .. n |-> IF r = 0 THEN SweepStart ELSE SweepStep(timed, g[r - 1], r)]
  <1>1. ASSUME NEW r \in 0 .. n
        PROVE  h[r] = IF r = 0 THEN SweepStart ELSE SweepStep(timed, h[r - 1], r)
    <2>1. CASE r # 0
      <3>1. r - 1 \in 0 .. n - 1 /\ r - 1 \in 0 .. n
        BY <2>1
      <3>2. g[r - 1] = IF r - 1 = 0 THEN SweepStart ELSE SweepStep(timed, g[r - 1 - 1], r - 1)
        BY <3>1 DEF IsSweep
      <3>3. h[r - 1] = IF r - 1 = 0 THEN SweepStart ELSE SweepStep(timed, g[r - 1 - 1], r - 1)
        BY <3>1
      <3>4. h[r] = SweepStep(timed, g[r - 1], r)
        BY <2>1
      <3> HIDE DEF h
      <3> QED
        BY <2>1, <3>2, <3>3, <3>4
    <2>2. CASE r = 0
      BY <2>2
    <2> QED
      BY <2>1, <2>2
  <1>2. h = [r \in 0 .. n |-> h[r]]
    OBVIOUS
  <1>3. h = [r \in 0 .. n |-> IF r = 0 THEN SweepStart ELSE SweepStep(timed, h[r - 1], r)]
    <2> HIDE DEF h
    <2> QED
      BY <1>1, <1>2
  <1> QED
    BY <1>3 DEF IsSweep

\* So it reaches the last journey.
LEMMA SweepExists ==
  ASSUME NEW timed, NEW n \in Nat
  PROVE  \E sweep : IsSweep(sweep, timed, n)
  <1> DEFINE without == {k \in Nat : ~\E g : IsSweep(g, timed, k)}
  <1>1. ASSUME without # {} PROVE FALSE
    <2>0. without \in SUBSET Nat
      OBVIOUS
    <2>1. PICK k \in without : \A m \in without : k <= m
      <3> HIDE DEF without
      <3> QED
        BY <1>1, <2>0, LeastNumber
    <2>2. k # 0
      <3>1. IsSweep([r \in 0 .. 0 |-> SweepStart], timed, 0)
        BY DEF IsSweep
      <3> QED
        BY <3>1
    <2>3. k \in Nat /\ k - 1 \in Nat
      BY <2>2
    <2>4. k - 1 \notin without
      <3> HIDE DEF without
      <3> QED
        BY <2>1, <2>3
    <2>5. PICK g : IsSweep(g, timed, k - 1)
      BY <2>3, <2>4
    <2> QED
      BY <2>2, <2>3, <2>5, SweepGoesOn
  <1> QED
    BY <1>1

\* What the loops compute, turn by turn.
LEMMA SweepTurns ==
  ASSUME NEW timed, Len(timed) \in Nat
  PROVE  /\ Sweep(timed)[0] = SweepStart
         /\ \A r \in 1 .. Len(timed) :
              Sweep(timed)[r] = SweepStep(timed, Sweep(timed)[r - 1], r)
  <1> DEFINE n == Len(timed)
  <1>1. \E sweep : IsSweep(sweep, timed, n)
    BY SweepExists
  <1>2. Sweep(timed) = CHOOSE sweep : IsSweep(sweep, timed, n)
    BY DEF Sweep, IsSweep, SweepStep, SweepStart
  <1>3. IsSweep(Sweep(timed), timed, n)
    BY <1>1, <1>2
  <1> QED
    BY <1>3 DEF IsSweep

\* Journeys by arrival, with some of every participant.
IsTimed(timed) ==
  /\ Len(timed) \in Nat
  /\ \A i \in 1 .. Len(timed) : timed[i].arrivalAt \in Int /\ timed[i].participantId \in Participants
  /\ \A i, j \in 1 .. Len(timed) : i <= j => timed[i].arrivalAt <= timed[j].arrivalAt
  /\ \A p \in Participants : \E i \in 1 .. Len(timed) : timed[i].participantId = p

Width(timed, l, r) == timed[r].arrivalAt - timed[l].arrivalAt

\* A wider window covers no less.
LEMMA WiderCovers ==
  ASSUME NEW timed, IsTimed(timed), NEW l \in Nat \ {0}, NEW r \in Nat, r <= Len(timed),
         NEW k \in Nat, NEW m \in Nat, l <= k, m <= r, Covers(timed, k, m)
  PROVE  Covers(timed, l, r)
  <1>1. \A i \in l .. r : i \in 1 .. Len(timed)
    BY DEF IsTimed
  <1>2. {timed[i].participantId : i \in l .. r} \subseteq Participants
    BY <1>1 DEF IsTimed
  <1>3. k .. m \subseteq l .. r
    OBVIOUS
  <1> QED
    BY <1>2, <1>3 DEF Covers

\* A window that covers is not empty.
LEMMA CoversIsWindow ==
  ASSUME NEW timed, NEW l \in Nat, NEW r \in Nat, Covers(timed, l, r)
  PROVE  l <= r
  <1>1. Participants # {}
    BY JourneyRankingAssumption
  <1> QED
    BY <1>1 DEF Covers

\* After r turns the left end is the first that does not cover, and of every
\* window seen there is one in the list that is no wider.
SweepHolds(timed, state, r) ==
  /\ state.left \in 1 .. r + 1
  /\ \A l \in 1 .. r + 1 : Covers(timed, l, r) <=> l < state.left
  /\ \A x \in state.spreads :
       \E k, m \in 1 .. Len(timed) : Covers(timed, k, m) /\ x = Width(timed, k, m)
  /\ \A k, m \in 1 .. r : Covers(timed, k, m) => \E x \in state.spreads : x <= Width(timed, k, m)

\* One turn keeps that.
LEMMA SweepStepHolds ==
  ASSUME NEW timed, IsTimed(timed), NEW r \in 1 .. Len(timed), NEW state,
         SweepHolds(timed, state, r - 1)
  PROVE  SweepHolds(timed, SweepStep(timed, state, r), r)
  <1> DEFINE from == state.left
             open == {l \in from .. r + 1 : ~Covers(timed, l, r)}
             left == Min(open)
  <1>1. Len(timed) \in Nat /\ r \in Nat /\ r - 1 \in Nat /\ from \in 1 .. r
    BY DEF IsTimed, SweepHolds
  <1>2. left \in open /\ \A l \in open : left <= l
    <2>1. r + 1 \in open
      BY <1>1, CoversIsWindow
    <2>2. open \in SUBSET Nat
      BY <1>1
    <2>3. \E m \in open : \A l \in open : m <= l
      <3> HIDE DEF open
      <3> QED
        BY <2>1, <2>2, LeastNumber
    <2> QED
      BY <2>3 DEF Min
  <1>3. left \in from .. r + 1 /\ ~Covers(timed, left, r)
    BY <1>2
  <1>4. \A l \in from .. left - 1 : Covers(timed, l, r)
    BY <1>1, <1>2, <1>3
  <1> DEFINE new == {timed[r].arrivalAt - timed[l].arrivalAt : l \in from .. left - 1}
  <1>5. SweepStep(timed, state, r) = [left |-> left, spreads |-> state.spreads \cup new]
    BY DEF SweepStep
  <1> HIDE DEF left, open
  <1>6. ASSUME NEW l \in 1 .. from - 1 PROVE Covers(timed, l, r - 1)
    BY <1>1 DEF SweepHolds
  <1>7. ASSUME NEW l \in 1 .. r + 1 PROVE Covers(timed, l, r) <=> l < left
    <2>1. CASE l < from
      <3>1. Covers(timed, l, r)
        BY <1>1, <1>6, <2>1, WiderCovers
      <3> QED
        BY <1>1, <1>3, <2>1, <3>1
    <2>2. CASE l >= from /\ l < left
      BY <1>1, <1>3, <1>4, <2>2
    <2>3. CASE l >= left
      <3>1. ASSUME Covers(timed, l, r) PROVE FALSE
        BY <1>1, <1>3, <2>3, <3>1, WiderCovers
      <3> QED
        BY <1>1, <1>3, <2>3, <3>1
    <2> QED
      BY <1>1, <1>3, <2>1, <2>2, <2>3
  <1>8. ASSUME NEW x \in state.spreads \cup new
        PROVE  \E k, m \in 1 .. Len(timed) : Covers(timed, k, m) /\ x = Width(timed, k, m)
    <2>1. CASE x \in state.spreads
      BY <2>1 DEF SweepHolds
    <2>2. CASE x \in new
      <3>1. PICK l \in from .. left - 1 : x = Width(timed, l, r)
        BY <2>2 DEF Width
      <3>2. l \in 1 .. Len(timed) /\ Covers(timed, l, r)
        BY <1>1, <1>3, <1>4, <3>1
      <3> QED
        BY <3>1, <3>2
    <2> QED
      BY <2>1, <2>2
  <1>9. ASSUME NEW k \in 1 .. r, NEW m \in 1 .. r, Covers(timed, k, m)
        PROVE  \E x \in state.spreads \cup new : x <= Width(timed, k, m)
    <2>1. CASE m = r /\ k >= from
      <3>1. k < left
        BY <1>7, <1>9, <2>1
      <3>2. Width(timed, k, m) \in new
        BY <1>1, <1>3, <2>1, <3>1 DEF Width
      <3>3. Width(timed, k, m) \in Int
        BY <1>1 DEF Width, IsTimed
      <3>4. PICK w : w = Width(timed, k, m)
        OBVIOUS
      <3>5. w \in state.spreads \cup new /\ w <= w
        BY <3>2, <3>3, <3>4
      <3> QED
        BY <3>4, <3>5
    <2>2. CASE m = r /\ k < from
      <3>1. Covers(timed, k, r - 1)
        BY <1>1, <1>6, <2>2
      <3>2. k \in 1 .. r - 1 /\ r - 1 \in 1 .. r - 1
        BY <1>1, <2>2
      <3>3. PICK x \in state.spreads : x <= Width(timed, k, r - 1)
        BY <3>1, <3>2 DEF SweepHolds
      <3>4. /\ Width(timed, k, r - 1) <= Width(timed, k, r)
            /\ Width(timed, k, r - 1) \in Int /\ Width(timed, k, r) \in Int
        <4>1. /\ r - 1 \in 1 .. Len(timed) /\ r \in 1 .. Len(timed) /\ k \in 1 .. Len(timed)
              /\ r - 1 <= r
          BY <1>1, <3>2
        <4> QED
          BY <4>1 DEF Width, IsTimed
      <3>5. x \in Int
        <4>1. PICK a, b \in 1 .. Len(timed) : x = Width(timed, a, b)
          BY <3>3 DEF SweepHolds
        <4> QED
          BY <4>1 DEF Width, IsTimed
      <3>6. x <= Width(timed, k, m)
        BY <2>2, <3>3, <3>4, <3>5
      <3> QED
        BY <3>6
    <2>3. CASE m # r
      <3>1. m \in 1 .. r - 1 /\ k \in 1 .. r - 1
        BY <1>1, <1>9, <2>3, CoversIsWindow
      <3> QED
        BY <1>9, <3>1 DEF SweepHolds
    <2> QED
      BY <1>1, <2>1, <2>2, <2>3
  <1> QED
    BY <1>1, <1>3, <1>5, <1>7, <1>8, <1>9 DEF SweepHolds

\* So it holds after every turn.
LEMMA SweepIsRight ==
  ASSUME NEW timed, IsTimed(timed)
  PROVE  \A r \in 0 .. Len(timed) : SweepHolds(timed, Sweep(timed)[r], r)
  <1> DEFINE bad == {r \in 0 .. Len(timed) : ~SweepHolds(timed, Sweep(timed)[r], r)}
  <1>1. Len(timed) \in Nat
    BY DEF IsTimed
  <1>2. ASSUME bad # {} PROVE FALSE
    <2>0. bad \in SUBSET Nat
      BY <1>1
    <2>1. PICK r \in bad : \A k \in bad : r <= k
      <3> HIDE DEF bad
      <3> QED
        BY <1>2, <2>0, LeastNumber
    <2>2. r # 0
      <3>1. Sweep(timed)[0] = [left |-> 1, spreads |-> {}]
        BY <1>1, SweepTurns DEF SweepStart
      <3>2. ~Covers(timed, 1, 0)
        BY CoversIsWindow
      <3>3. SweepHolds(timed, Sweep(timed)[0], 0)
        BY <3>1, <3>2 DEF SweepHolds
      <3> QED
        BY <3>3
    <2>3. r \in 1 .. Len(timed) /\ r - 1 \in 0 .. Len(timed)
      BY <1>1, <2>2
    <2>4. r - 1 \notin bad
      <3> HIDE DEF bad
      <3> QED
        BY <1>1, <2>1, <2>3
    <2>5. SweepHolds(timed, Sweep(timed)[r - 1], r - 1)
      BY <2>3, <2>4
    <2>6. Sweep(timed)[r] = SweepStep(timed, Sweep(timed)[r - 1], r)
      BY <1>1, <2>3, SweepTurns
    <2>7. SweepHolds(timed, Sweep(timed)[r], r)
      BY <2>3, <2>5, <2>6, SweepStepHolds
    <2> QED
      BY <2>7
  <1> QED
    BY <1>2

\* The least spread is that of a window that covers, and no window that does is
\* narrower.
LEMMA MinimumSpreadIsRight ==
  ASSUME NEW timed, IsTimed(timed)
  PROVE  /\ \E k, m \in 1 .. Len(timed) :
              Covers(timed, k, m) /\ MinimumSpread(timed) = Width(timed, k, m)
         /\ \A k, m \in 1 .. Len(timed) :
              Covers(timed, k, m) => MinimumSpread(timed) <= Width(timed, k, m)
  <1> DEFINE n == Len(timed)
             spreads == Sweep(timed)[n].spreads
  <1>1. n \in Nat /\ n \in 0 .. n
    BY DEF IsTimed
  <1>2. SweepHolds(timed, Sweep(timed)[n], n)
    BY <1>1, SweepIsRight
  <1>3. \A x \in spreads :
          \E k, m \in 1 .. n : Covers(timed, k, m) /\ x = Width(timed, k, m)
    BY <1>2 DEF SweepHolds
  <1>4. \A k, m \in 1 .. n : Covers(timed, k, m) => \E x \in spreads : x <= Width(timed, k, m)
    BY <1>2 DEF SweepHolds
  <1>5. ASSUME NEW x \in spreads PROVE x \in Nat
    <2>1. PICK k, m \in 1 .. n : Covers(timed, k, m) /\ x = Width(timed, k, m)
      BY <1>3
    <2>2. k <= m
      BY <2>1, CoversIsWindow
    <2> QED
      BY <2>1, <2>2 DEF Width, IsTimed
  <1>6. Participants # {} /\ \A p \in Participants : \E i \in 1 .. n : timed[i].participantId = p
    BY JourneyRankingAssumption DEF IsTimed
  <1>7. Covers(timed, 1, n) /\ 1 \in 1 .. n /\ n \in 1 .. n
    BY <1>1, <1>6 DEF Covers, IsTimed
  <1>8. spreads # {}
    BY <1>4, <1>7
  <1>9. MinimumSpread(timed) \in spreads /\ \A x \in spreads : MinimumSpread(timed) <= x
    <2>1. \E m \in spreads : \A x \in spreads : m <= x
      <3> HIDE DEF spreads
      <3> QED
        BY <1>5, <1>8, LeastNumber
    <2> QED
      BY <2>1 DEF MinimumSpread, Min
  <1>10. ASSUME NEW k \in 1 .. n, NEW m \in 1 .. n, Covers(timed, k, m)
         PROVE  MinimumSpread(timed) <= Width(timed, k, m)
    <2>1. PICK x \in spreads : x <= Width(timed, k, m)
      BY <1>4, <1>10
    <2>2. x \in Nat /\ MinimumSpread(timed) \in Nat /\ MinimumSpread(timed) <= x
      BY <1>5, <1>9
    <2>3. Width(timed, k, m) \in Int
      BY DEF Width, IsTimed
    <2> QED
      BY <2>1, <2>2, <2>3
  <1> QED
    BY <1>3, <1>9, <1>10

-----------------------------------------------------------------------------
(* The numbers of a selection.                                              *)

\* A function on a finite set has a least and a greatest value.
LEMMA ImageNumbers ==
  ASSUME NEW S, IsFiniteSet(S), S # {}, NEW f \in [S -> Int], NEW T, T = {f[x] : x \in S}
  PROVE  /\ Min(T) \in Int /\ Max(T) \in Int /\ Min(T) <= Max(T)
         /\ \A x \in S : Min(T) <= f[x] /\ f[x] <= Max(T)
         /\ Min(T) \in T /\ Max(T) \in T
  <1>1. f \in Surjection(S, T)
    BY DEF Surjection
  <1>2. IsFiniteSet(T)
    BY <1>1, FS_Surjection
  <1>3. T \in SUBSET Int /\ T # {}
    OBVIOUS
  <1>4. /\ Min(T) \in T /\ \A x \in T : Min(T) <= x
        /\ Max(T) \in T /\ \A x \in T : x <= Max(T)
    BY <1>2, <1>3, FiniteNumbers
  <1> QED
    BY <1>3, <1>4

\* Greater values have a greater maximum.
LEMMA MaximaGrow ==
  ASSUME NEW S, IsFiniteSet(S), S # {}, NEW f \in [S -> Int], NEW g \in [S -> Int],
         \A x \in S : f[x] <= g[x],
         NEW F, F = {f[x] : x \in S}, NEW G, G = {g[x] : x \in S}
  PROVE  Max(F) <= Max(G)
  <1>1. Max(F) \in F
    BY ImageNumbers
  <1>2. PICK x \in S : f[x] = Max(F)
    BY <1>1
  <1>3. g[x] <= Max(G) /\ Max(G) \in Int
    BY ImageNumbers
  <1> QED
    BY <1>2, <1>3

\* A journey for every participant.
IsSelection(s) ==
  \A p \in Participants :
    /\ s[p].durationMinutes \in Int /\ s[p].transfers \in Int /\ s[p].arrivalAt \in Int

\* There are participants, finitely many.
LEMMA ParticipantsAreFinite == IsFiniteSet(Participants) /\ Participants # {}
  BY JourneyRankingAssumption

\* Totals are sums.
LEMMA TotalsAreSums ==
  ASSUME NEW s
  PROVE  /\ \E sum : /\ IsSum(sum, [p \in Participants |-> s[p].durationMinutes], Participants)
                     /\ TotalDuration(s) = sum[Participants]
         /\ \E sum : /\ IsSum(sum, [p \in Participants |-> s[p].transfers], Participants)
                     /\ TotalTransfers(s) = sum[Participants]
  <1> DEFINE SumsDuration(sum) ==
               sum = [t \in SUBSET Participants |->
                        IF t = {} THEN 0
                        ELSE s[CHOOSE x \in t : TRUE].durationMinutes
                               + sum[t \ {CHOOSE x \in t : TRUE}]]
             SumsTransfers(sum) ==
               sum = [t \in SUBSET Participants |->
                        IF t = {} THEN 0
                        ELSE s[CHOOSE x \in t : TRUE].transfers
                               + sum[t \ {CHOOSE x \in t : TRUE}]]
             duration  == [p \in Participants |-> s[p].durationMinutes]
             transfers == [p \in Participants |-> s[p].transfers]
  <1>1. TotalDuration(s) = (CHOOSE sum : SumsDuration(sum))[Participants]
    BY DEF TotalDuration, Total, MapThenSumSet, MapThenFoldSet
  <1>2. TotalTransfers(s) = (CHOOSE sum : SumsTransfers(sum))[Participants]
    BY DEF TotalTransfers, Total, MapThenSumSet, MapThenFoldSet
  <1>3. \A t \in SUBSET Participants : t # {} => (CHOOSE x \in t : TRUE) \in Participants
    OBVIOUS
  <1>4. ASSUME NEW sum PROVE SumsDuration(sum) <=> IsSum(sum, duration, Participants)
    BY <1>3 DEF IsSum
  <1>5. ASSUME NEW sum PROVE SumsTransfers(sum) <=> IsSum(sum, transfers, Participants)
    BY <1>3 DEF IsSum
  <1>6. (\E sum : IsSum(sum, duration, Participants)) /\ \E sum : IsSum(sum, transfers, Participants)
    BY SumExists, ParticipantsAreFinite
  <1> HIDE DEF SumsDuration, SumsTransfers, duration, transfers
  <1>7. SumsDuration(CHOOSE sum : SumsDuration(sum)) /\ SumsTransfers(CHOOSE sum : SumsTransfers(sum))
    BY <1>4, <1>5, <1>6
  <1>8. /\ IsSum(CHOOSE sum : SumsDuration(sum), duration, Participants)
        /\ IsSum(CHOOSE sum : SumsTransfers(sum), transfers, Participants)
    BY <1>4, <1>5, <1>7
  <1> QED
    BY <1>1, <1>2, <1>8 DEF duration, transfers

\* The numbers by which selections are compared are numbers.
LEMMA MeasuresAreNumbers ==
  ASSUME NEW s, IsSelection(s)
  PROVE  /\ TotalDuration(s) \in Int /\ TotalTransfers(s) \in Int
         /\ Max(Durations(s)) \in Int /\ Min(Durations(s)) \in Int
         /\ MaxTransfers(s) \in Int
         /\ Max(Arrivals(s)) \in Int /\ Min(Arrivals(s)) \in Int
         /\ Spread(s) \in Nat
         /\ ArrivalPenalty(s) = IF Spread(s) > ArrivalTolerance THEN Spread(s) - ArrivalTolerance
                                ELSE 0
         /\ ArrivalPenalty(s) \in Nat
  <1> USE ParticipantsAreFinite
  <1> DEFINE duration  == [p \in Participants |-> s[p].durationMinutes]
             transfers == [p \in Participants |-> s[p].transfers]
             arrival   == [p \in Participants |-> s[p].arrivalAt]
  <1>1. /\ duration \in [Participants -> Int] /\ transfers \in [Participants -> Int]
        /\ arrival \in [Participants -> Int]
    BY DEF IsSelection
  <1>2. /\ Durations(s) = {duration[p] : p \in Participants}
        /\ {s[p].transfers : p \in Participants} = {transfers[p] : p \in Participants}
        /\ Arrivals(s) = {arrival[p] : p \in Participants}
    BY DEF Durations, Arrivals
  <1>3. TotalDuration(s) \in Int /\ TotalTransfers(s) \in Int
    <2>1. PICK sum : IsSum(sum, duration, Participants) /\ TotalDuration(s) = sum[Participants]
      BY TotalsAreSums
    <2>2. PICK sum2 : IsSum(sum2, transfers, Participants) /\ TotalTransfers(s) = sum2[Participants]
      BY TotalsAreSums
    <2> HIDE DEF duration, transfers
    <2>3. \A p \in Participants : duration[p] <= duration[p] /\ transfers[p] <= transfers[p]
      BY <1>1
    <2>4. sum[Participants] \in Int
      BY <1>1, <2>1, <2>3, SumsGrow
    <2>5. sum2[Participants] \in Int
      BY <1>1, <2>2, <2>3, SumsGrow
    <2> QED
      BY <2>1, <2>2, <2>4, <2>5
  <1> HIDE DEF duration, transfers, arrival
  <1>4. Max(Durations(s)) \in Int /\ Min(Durations(s)) \in Int
    BY <1>1, <1>2, ImageNumbers
  <1>5. MaxTransfers(s) \in Int
    <2>1. MaxTransfers(s) = Max({transfers[p] : p \in Participants})
      BY <1>2 DEF MaxTransfers
    <2>2. Max({transfers[p] : p \in Participants}) \in Int
      BY <1>1, ImageNumbers
    <2> QED
      BY <2>1, <2>2
  <1>6. /\ Max(Arrivals(s)) \in Int /\ Min(Arrivals(s)) \in Int
        /\ Min(Arrivals(s)) <= Max(Arrivals(s))
    BY <1>1, <1>2, ImageNumbers
  <1>7. Spread(s) \in Nat
    BY <1>6 DEF Spread
  <1>8. ArrivalTolerance \in Nat
    BY JourneyRankingAssumption
  <1> DEFINE over == {0, Spread(s) - ArrivalTolerance}
  <1>9. over \in SUBSET Int /\ over # {} /\ IsFiniteSet(over)
    <2>1. over = {0} \cup {Spread(s) - ArrivalTolerance}
      OBVIOUS
    <2>2. IsFiniteSet({0})
      BY FS_Singleton
    <2> QED
      BY <1>7, <1>8, <2>1, <2>2, FS_AddElement
  <1>10. Max(over) \in over /\ \A x \in over : x <= Max(over)
    <2> HIDE DEF over
    <2> QED
      BY <1>9, FiniteNumbers
  <1>11. ArrivalPenalty(s) = Max(over)
    BY DEF ArrivalPenalty
  <1>12. /\ ArrivalPenalty(s) = IF Spread(s) > ArrivalTolerance THEN Spread(s) - ArrivalTolerance
                                ELSE 0
         /\ ArrivalPenalty(s) \in Nat
    BY <1>7, <1>8, <1>10, <1>11
  <1> QED
    BY <1>3, <1>4, <1>5, <1>6, <1>7, <1>12

\* Who takes no longer, one by one, takes no longer all together; if they take
\* as long together, then also one by one.
LEMMA DurationsGrow ==
  ASSUME NEW s, IsSelection(s), NEW t, IsSelection(t),
         \A p \in Participants : s[p].durationMinutes <= t[p].durationMinutes
  PROVE  /\ TotalDuration(s) <= TotalDuration(t) /\ Max(Durations(s)) <= Max(Durations(t))
         /\ TotalDuration(s) = TotalDuration(t) =>
              \A p \in Participants : s[p].durationMinutes = t[p].durationMinutes
  <1> USE ParticipantsAreFinite
  <1> DEFINE f == [p \in Participants |-> s[p].durationMinutes]
             g == [p \in Participants |-> t[p].durationMinutes]
  <1>1. f \in [Participants -> Int] /\ g \in [Participants -> Int]
    BY DEF IsSelection
  <1>2. Durations(s) = {f[p] : p \in Participants} /\ Durations(t) = {g[p] : p \in Participants}
    BY DEF Durations
  <1>3. \A p \in Participants : f[p] <= g[p]
    OBVIOUS
  <1>4. PICK sum : IsSum(sum, f, Participants) /\ TotalDuration(s) = sum[Participants]
    BY TotalsAreSums
  <1>5. PICK total : IsSum(total, g, Participants) /\ TotalDuration(t) = total[Participants]
    BY TotalsAreSums
  <1>6. /\ TotalDuration(s) <= TotalDuration(t)
        /\ TotalDuration(s) = TotalDuration(t) => \A p \in Participants : f[p] = g[p]
    <2> HIDE DEF f, g
    <2> QED
      BY <1>1, <1>3, <1>4, <1>5, SumsGrow
  <1>7. Max(Durations(s)) <= Max(Durations(t))
    <2> DEFINE F == {f[p] : p \in Participants}
               G == {g[p] : p \in Participants}
    <2>1. Max(Durations(s)) = Max(F) /\ Max(Durations(t)) = Max(G)
      BY <1>2
    <2>2. Max(F) <= Max(G)
      <3> HIDE DEF f, g
      <3> QED
        BY <1>1, <1>3, MaximaGrow
    <2> QED
      BY <2>1, <2>2
  <1> QED
    BY <1>6, <1>7

\* The same for transfers.
LEMMA TransfersGrow ==
  ASSUME NEW s, IsSelection(s), NEW t, IsSelection(t),
         \A p \in Participants : s[p].transfers <= t[p].transfers
  PROVE  /\ TotalTransfers(s) <= TotalTransfers(t) /\ MaxTransfers(s) <= MaxTransfers(t)
         /\ TotalTransfers(s) = TotalTransfers(t) =>
              \A p \in Participants : s[p].transfers = t[p].transfers
  <1> USE ParticipantsAreFinite
  <1> DEFINE f == [p \in Participants |-> s[p].transfers]
             g == [p \in Participants |-> t[p].transfers]
  <1>1. f \in [Participants -> Int] /\ g \in [Participants -> Int]
    BY DEF IsSelection
  <1>2. /\ {s[p].transfers : p \in Participants} = {f[p] : p \in Participants}
        /\ {t[p].transfers : p \in Participants} = {g[p] : p \in Participants}
    OBVIOUS
  <1>3. \A p \in Participants : f[p] <= g[p]
    OBVIOUS
  <1>4. PICK sum : IsSum(sum, f, Participants) /\ TotalTransfers(s) = sum[Participants]
    BY TotalsAreSums
  <1>5. PICK total : IsSum(total, g, Participants) /\ TotalTransfers(t) = total[Participants]
    BY TotalsAreSums
  <1>6. /\ TotalTransfers(s) <= TotalTransfers(t)
        /\ TotalTransfers(s) = TotalTransfers(t) => \A p \in Participants : f[p] = g[p]
    <2> HIDE DEF f, g
    <2> QED
      BY <1>1, <1>3, <1>4, <1>5, SumsGrow
  <1>7. MaxTransfers(s) <= MaxTransfers(t)
    <2> DEFINE F == {f[p] : p \in Participants}
               G == {g[p] : p \in Participants}
    <2>1. MaxTransfers(s) = Max(F) /\ MaxTransfers(t) = Max(G)
      BY <1>2 DEF MaxTransfers
    <2>2. Max(F) <= Max(G)
      <3> HIDE DEF f, g
      <3> QED
        BY <1>1, <1>3, MaximaGrow
    <2> QED
      BY <2>1, <2>2
  <1> QED
    BY <1>6, <1>7

-----------------------------------------------------------------------------
(* The journeys of the participants.                                        *)

IsJourney(j, p) ==
  /\ j.participantId = p
  /\ j.durationMinutes \in Int /\ j.transfers \in Int
  /\ j.arrivalAt \in Int /\ j.departureAt \in Int /\ j.journeyId \in Int

\* Finitely many, told apart by their ids.
AreJourneys(J, p) ==
  /\ IsFiniteSet(J)
  /\ \A j \in J : IsJourney(j, p)
  /\ \A j, k \in J : j.journeyId = k.journeyId => j = k

\* Everybody reaches the candidate.
IsReached(c) == \A p \in Participants : AreJourneys(JourneysOf(c, p), p) /\ JourneysOf(c, p) # {}

\* A row of a candidate belongs to the participant it was asked for.
LEMMA SelectionsSelect ==
  ASSUME NEW c, IsReached(c), NEW s, \A p \in Participants : s[p] \in JourneysOf(c, p)
  PROVE  IsSelection(s) /\ \A p \in Participants : IsJourney(s[p], p)
  BY DEF IsReached, AreJourneys, IsJourney, IsSelection

\* The fastest journey of one participant.
LEMMA FastestIsFirst ==
  ASSUME NEW J, NEW p, AreJourneys(J, p), J # {}
  PROVE  /\ Best(J, FastestKey) \in J
         /\ \A j \in J : LET best == Best(J, FastestKey) IN
              /\ best.durationMinutes <= j.durationMinutes
              /\ best.durationMinutes = j.durationMinutes => best.transfers <= j.transfers
  <1> DEFINE key == [j \in J |-> FastestKey(j)]
             best == Best(J, FastestKey)
  <1>1. key \in [J -> Keys(5)]
    BY DEF AreJourneys, IsJourney, FastestKey, Keys
  <1>2. PICK x \in J : \A y \in J : ~IsLess(key[y], key[x])
    <2> HIDE DEF key
    <2> QED
      BY <1>1, BestExists DEF AreJourneys
  <1>3. \E z \in J : \A y \in J : ~IsLess(FastestKey(y), FastestKey(z))
    BY <1>2
  <1>4. best = CHOOSE z \in J : \A y \in J : ~IsLess(FastestKey(y), FastestKey(z))
    BY DEF Best
  <1>5. best \in J /\ \A y \in J : ~IsLess(FastestKey(y), FastestKey(best))
    <2> HIDE DEF best
    <2> QED
      BY <1>3, <1>4
  <1> HIDE DEF best
  <1>6. ASSUME NEW j \in J
        PROVE  /\ best.durationMinutes <= j.durationMinutes
               /\ best.durationMinutes = j.durationMinutes => best.transfers <= j.transfers
    <2>1. /\ j.durationMinutes \in Int /\ best.durationMinutes \in Int
          /\ j.transfers \in Int /\ best.transfers \in Int
      BY <1>5 DEF AreJourneys, IsJourney
    <2>2. ~IsLess(FastestKey(j), FastestKey(best))
      BY <1>5
    <2>3. ~(j.durationMinutes < best.durationMinutes)
      BY <2>2 DEF IsLess, FastestKey
    <2>4. ~(j.durationMinutes = best.durationMinutes /\ j.transfers < best.transfers)
      BY <2>2 DEF IsLess, FastestKey
    <2> QED
      BY <2>1, <2>3, <2>4
  <1> QED
    BY <1>5, <1>6 DEF best

\* The one with the fewest transfers.
LEMMA FewestIsFirst ==
  ASSUME NEW J, NEW p, AreJourneys(J, p), J # {}
  PROVE  /\ Best(J, FewestKey) \in J
         /\ \A j \in J : LET best == Best(J, FewestKey) IN
              /\ best.transfers <= j.transfers
              /\ best.transfers = j.transfers => best.durationMinutes <= j.durationMinutes
  <1> DEFINE key == [j \in J |-> FewestKey(j)]
             best == Best(J, FewestKey)
  <1>1. key \in [J -> Keys(5)]
    BY DEF AreJourneys, IsJourney, FewestKey, Keys
  <1>2. PICK x \in J : \A y \in J : ~IsLess(key[y], key[x])
    <2> HIDE DEF key
    <2> QED
      BY <1>1, BestExists DEF AreJourneys
  <1>3. \E z \in J : \A y \in J : ~IsLess(FewestKey(y), FewestKey(z))
    BY <1>2
  <1>4. best = CHOOSE z \in J : \A y \in J : ~IsLess(FewestKey(y), FewestKey(z))
    BY DEF Best
  <1>5. best \in J /\ \A y \in J : ~IsLess(FewestKey(y), FewestKey(best))
    <2> HIDE DEF best
    <2> QED
      BY <1>3, <1>4
  <1> HIDE DEF best
  <1>6. ASSUME NEW j \in J
        PROVE  /\ best.transfers <= j.transfers
               /\ best.transfers = j.transfers => best.durationMinutes <= j.durationMinutes
    <2>1. /\ j.transfers \in Int /\ best.transfers \in Int
          /\ j.durationMinutes \in Int /\ best.durationMinutes \in Int
      BY <1>5 DEF AreJourneys, IsJourney
    <2>2. ~IsLess(FewestKey(j), FewestKey(best))
      BY <1>5
    <2>3. ~(j.transfers < best.transfers)
      BY <2>2 DEF IsLess, FewestKey
    <2>4. ~(j.transfers = best.transfers /\ j.durationMinutes < best.durationMinutes)
      BY <2>2 DEF IsLess, FewestKey
    <2> QED
      BY <2>1, <2>3, <2>4
  <1> QED
    BY <1>5, <1>6 DEF best

\* The one that is taken from a window.
LEMMA WindowIsFirst ==
  ASSUME NEW J, NEW p, AreJourneys(J, p), J # {}
  PROVE  /\ Best(J, WindowKey) \in J
         /\ \A j \in J : LET best == Best(J, WindowKey) IN
              /\ best.durationMinutes <= j.durationMinutes
              /\ best.durationMinutes = j.durationMinutes => best.transfers <= j.transfers
  <1> DEFINE key == [j \in J |-> WindowKey(j)]
             best == Best(J, WindowKey)
  <1>1. key \in [J -> Keys(3)]
    BY DEF AreJourneys, IsJourney, WindowKey, Keys
  <1>2. PICK x \in J : \A y \in J : ~IsLess(key[y], key[x])
    <2> HIDE DEF key
    <2> QED
      BY <1>1, BestExists DEF AreJourneys
  <1>3. \E z \in J : \A y \in J : ~IsLess(WindowKey(y), WindowKey(z))
    BY <1>2
  <1>4. best = CHOOSE z \in J : \A y \in J : ~IsLess(WindowKey(y), WindowKey(z))
    BY DEF Best
  <1>5. best \in J /\ \A y \in J : ~IsLess(WindowKey(y), WindowKey(best))
    <2> HIDE DEF best
    <2> QED
      BY <1>3, <1>4
  <1> HIDE DEF best
  <1>6. ASSUME NEW j \in J
        PROVE  /\ best.durationMinutes <= j.durationMinutes
               /\ best.durationMinutes = j.durationMinutes => best.transfers <= j.transfers
    <2>1. /\ j.durationMinutes \in Int /\ best.durationMinutes \in Int
          /\ j.transfers \in Int /\ best.transfers \in Int
      BY <1>5 DEF AreJourneys, IsJourney
    <2>2. ~IsLess(WindowKey(j), WindowKey(best))
      BY <1>5
    <2>3. ~(j.durationMinutes < best.durationMinutes)
      BY <2>2 DEF IsLess, WindowKey
    <2>4. ~(j.durationMinutes = best.durationMinutes /\ j.transfers < best.transfers)
      BY <2>2 DEF IsLess, WindowKey
    <2> QED
      BY <2>1, <2>3, <2>4
  <1> QED
    BY <1>5, <1>6 DEF best

\* All journeys to a candidate, sorted.
LEMMA TimedIsTimed ==
  ASSUME NEW c, IsReached(c)
  PROVE  /\ IsTimed(Timed(c))
         /\ \A i \in 1 .. Len(Timed(c)) :
              \E p \in Participants : /\ Timed(c)[i] \in JourneysOf(c, p)
                                      /\ Timed(c)[i].participantId = p
         /\ \A p \in Participants : \A j \in JourneysOf(c, p) :
              \E i \in 1 .. Len(Timed(c)) : Timed(c)[i] = j
         /\ DOMAIN Timed(c) = 1 .. Len(Timed(c))
  <1> DEFINE sets == {JourneysOf(c, p) : p \in Participants}
             all == UNION sets
             key == [j \in all |-> <<j.arrivalAt, j.journeyId, j.participantId>>]
             timed == Placed(all, key)
  <1>1. IsFiniteSet(all)
    <2>1. IsFiniteSet(sets)
      <3> DEFINE f == [p \in Participants |-> JourneysOf(c, p)]
      <3>1. f \in Surjection(Participants, sets)
        BY DEF Surjection
      <3> QED
        BY <3>1, FS_Surjection, ParticipantsAreFinite
    <2>2. \A T \in sets : IsFiniteSet(T)
      BY DEF IsReached, AreJourneys
    <2> QED
      BY <2>1, <2>2, FS_UNION
  <1>2. \A j \in all : \E p \in Participants : j \in JourneysOf(c, p) /\ IsJourney(j, p)
    BY DEF IsReached, AreJourneys
  <1>3. Participants \subseteq Int
    <2>1. Cardinality(Participants) \in Nat /\ Participants = 1 .. Cardinality(Participants)
      BY JourneyRankingAssumption, FS_CardinalityType
    <2> QED
      BY <2>1
  <1>4. \A j \in all : /\ j.arrivalAt \in Int /\ j.journeyId \in Int
                       /\ j.participantId \in Int /\ j.participantId \in Participants
                       /\ j \in JourneysOf(c, j.participantId)
    BY <1>2, <1>3 DEF IsJourney
  <1>5. key \in [all -> Keys(3)]
    BY <1>4 DEF Keys
  <1>6. \A x, y \in all : key[x] = key[y] => x = y
    <2> SUFFICES ASSUME NEW x \in all, NEW y \in all, key[x] = key[y] PROVE x = y
      OBVIOUS
    <2>1. x.journeyId = y.journeyId /\ x.participantId = y.participantId
      OBVIOUS
    <2> QED
      BY <1>4, <2>1 DEF IsReached, AreJourneys
  <1>7. Timed(c) = timed
    <2>1. \A x, y \in all : IsLess(key[y], key[x]) <=>
             IsLess(<<y.arrivalAt, y.journeyId, y.participantId>>,
                    <<x.arrivalAt, x.journeyId, x.participantId>>)
      OBVIOUS
    <2>2. \A x \in all : Before(all, key, x) =
             {y \in all : IsLess(<<y.arrivalAt, y.journeyId, y.participantId>>,
                                 <<x.arrivalAt, x.journeyId, x.participantId>>)}
      BY <2>1 DEF Before
    <2>3. Timed(c) = [n \in 1 .. Cardinality(all) |->
             CHOOSE x \in all : Cardinality({y \in all :
               IsLess(<<y.arrivalAt, y.journeyId, y.participantId>>,
                      <<x.arrivalAt, x.journeyId, x.participantId>>)}) = n - 1]
      BY DEF Timed, Sorted
    <2> HIDE DEF all, key
    <2> QED
      BY <2>2, <2>3 DEF Placed
  <1> HIDE DEF all, key
  <1>8. /\ Cardinality(all) \in Nat
        /\ timed \in [1 .. Cardinality(all) -> all]
        /\ \A x \in all : \E i \in 1 .. Cardinality(all) : timed[i] = x
        /\ \A i, j \in 1 .. Cardinality(all) : i < j => IsLess(key[timed[i]], key[timed[j]])
    <2>1. IsSorting(timed, all, key)
      BY <1>1, <1>5, <1>6, SortedByKey
    <2> HIDE DEF timed
    <2> QED
      BY <2>1 DEF IsSorting
  <1> HIDE DEF timed
  <1>9. timed \in Seq(all) /\ Len(timed) = Cardinality(all) /\ DOMAIN timed = 1 .. Len(timed)
    BY <1>8
  <1>10. \A i \in 1 .. Len(timed) : timed[i] \in all
    BY <1>8, <1>9
  <1>11. ASSUME NEW i \in 1 .. Len(timed), NEW j \in 1 .. Len(timed), i <= j
         PROVE  timed[i].arrivalAt <= timed[j].arrivalAt
    <2>1. /\ timed[i] \in all /\ timed[j] \in all
          /\ timed[i].arrivalAt \in Int /\ timed[j].arrivalAt \in Int
      BY <1>4, <1>10
    <2>2. CASE i = j
      BY <2>1, <2>2
    <2>3. CASE i # j
      <3>1. IsLess(key[timed[i]], key[timed[j]])
        BY <1>8, <1>9, <1>11, <2>3
      <3>2. IsLess(<<timed[i].arrivalAt, timed[i].journeyId, timed[i].participantId>>,
                   <<timed[j].arrivalAt, timed[j].journeyId, timed[j].participantId>>)
        BY <2>1, <3>1 DEF key
      <3> QED
        BY <2>1, <3>2 DEF IsLess
    <2> QED
      BY <2>2, <2>3
  <1>12. \A p \in Participants : \A j \in JourneysOf(c, p) : j \in all
    BY DEF all
  <1>13. \A p \in Participants : \A j \in JourneysOf(c, p) : \E i \in 1 .. Len(timed) : timed[i] = j
    BY <1>8, <1>9, <1>12
  <1>14. \A p \in Participants : \E i \in 1 .. Len(timed) : timed[i].participantId = p
    <2> SUFFICES ASSUME NEW p \in Participants
                 PROVE  \E i \in 1 .. Len(timed) : timed[i].participantId = p
      OBVIOUS
    <2>1. PICK j \in JourneysOf(c, p) : j.participantId = p
      BY DEF IsReached, AreJourneys, IsJourney
    <2> QED
      BY <1>13, <2>1
  <1>15. IsTimed(timed)
    BY <1>4, <1>8, <1>9, <1>10, <1>11, <1>14 DEF IsTimed
  <1>16. \A i \in 1 .. Len(timed) : \E p \in Participants :
           timed[i] \in JourneysOf(c, p) /\ timed[i].participantId = p
    BY <1>4, <1>10
  <1> QED
    BY <1>7, <1>9, <1>13, <1>15, <1>16

-----------------------------------------------------------------------------
(* The choice by arrival.                                                   *)

\* One journey of each participant to the candidate.
IsChoice(s, c) == \A p \in Participants : s[p] \in JourneysOf(c, p)

Allowed(c) == AllowedWindow(MinimumSpread(Timed(c)))

\* The journeys of a participant that arrive in a window.
Within(c, lower, p) == {j \in JourneysOf(c, p) : j.arrivalAt \in lower .. lower + Allowed(c)}

ArrivalsAt(c) == {Timed(c)[i].arrivalAt : i \in DOMAIN Timed(c)}
Lowers(c) == {l \in ArrivalsAt(c) : \A p \in Participants : Within(c, l, p) # {}}
Pick(c, lower) == [p \in Participants |-> Best(Within(c, lower, p), WindowKey)]
Picks(c) == {Pick(c, l) : l \in Lowers(c)}

\* The choice is the best pick of a window.
LEMMA TogetherIsPicked ==
  ASSUME NEW c
  PROVE  SelectTogether(c) = Best(Picks(c), SetKey)
  BY DEF SelectTogether, Picks, Pick, Lowers, ArrivalsAt, Within, Allowed

\* Nobody can arrive in a narrower window than the least one; the window that is
\* allowed is the greater of it and of the tolerance.
LEMMA AllowedIsEnough ==
  ASSUME NEW c, IsReached(c)
  PROVE  /\ Allowed(c) \in Nat /\ MinimumSpread(Timed(c)) \in Nat
         /\ Allowed(c) = ArrivalTolerance \/ Allowed(c) = MinimumSpread(Timed(c))
         /\ ArrivalTolerance <= Allowed(c) /\ MinimumSpread(Timed(c)) <= Allowed(c)
  <1> DEFINE least == MinimumSpread(Timed(c))
             both == {ArrivalTolerance, least}
  <1>1. PICK k, m \in 1 .. Len(Timed(c)) : Covers(Timed(c), k, m) /\ least = Width(Timed(c), k, m)
    BY TimedIsTimed, MinimumSpreadIsRight
  <1>2. k <= m
    BY <1>1, CoversIsWindow
  <1>3. least \in Nat
    <2>1. IsTimed(Timed(c))
      BY TimedIsTimed
    <2>2. Width(Timed(c), k, m) \in Nat
      BY <1>2, <2>1 DEF Width, IsTimed
    <2> QED
      BY <1>1, <2>2
  <1>4. ArrivalTolerance \in Nat
    BY JourneyRankingAssumption
  <1> HIDE DEF least
  <1>5. both \in SUBSET Int /\ both # {} /\ IsFiniteSet(both)
    <2>1. both = {ArrivalTolerance} \cup {least}
      OBVIOUS
    <2>2. IsFiniteSet({ArrivalTolerance})
      BY FS_Singleton
    <2>3. IsFiniteSet({ArrivalTolerance} \cup {least})
      BY <2>2, FS_AddElement
    <2>4. IsFiniteSet(both)
      BY <2>1, <2>3, Zenon
    <2>5. both \in SUBSET Int /\ both # {}
      BY <1>3, <1>4
    <2> QED
      BY <2>4, <2>5
  <1>6. Max(both) \in both /\ \A x \in both : x <= Max(both)
    <2> HIDE DEF both
    <2> QED
      BY <1>5, FiniteNumbers
  <1>7. Allowed(c) = Max(both)
    BY DEF Allowed, AllowedWindow, least
  <1>8. /\ Allowed(c) \in Nat
        /\ Allowed(c) = ArrivalTolerance \/ Allowed(c) = least
        /\ ArrivalTolerance <= Allowed(c) /\ least <= Allowed(c)
    BY <1>3, <1>4, <1>6, <1>7
  <1> QED
    BY <1>3, <1>8 DEF least

\* The arrivals of a choice lie between the first and the last.
LEMMA ArrivalsAreBetween ==
  ASSUME NEW s, IsSelection(s)
  PROVE  /\ \A p \in Participants : Min(Arrivals(s)) <= s[p].arrivalAt /\ s[p].arrivalAt <= Max(Arrivals(s))
         /\ \E p \in Participants : Min(Arrivals(s)) = s[p].arrivalAt
         /\ \E p \in Participants : Max(Arrivals(s)) = s[p].arrivalAt
  <1> DEFINE f == [p \in Participants |-> s[p].arrivalAt]
  <1>1. f \in [Participants -> Int] /\ Arrivals(s) = {f[p] : p \in Participants}
    BY DEF IsSelection, Arrivals
  <1>2. /\ \A p \in Participants : Min(Arrivals(s)) <= f[p] /\ f[p] <= Max(Arrivals(s))
        /\ Min(Arrivals(s)) \in Arrivals(s) /\ Max(Arrivals(s)) \in Arrivals(s)
    <2> HIDE DEF f
    <2> QED
      BY <1>1, ImageNumbers, ParticipantsAreFinite
  <1>3. /\ \E p \in Participants : Min(Arrivals(s)) = s[p].arrivalAt
        /\ \E p \in Participants : Max(Arrivals(s)) = s[p].arrivalAt
    BY <1>2 DEF Arrivals
  <1> QED
    BY <1>2, <1>3

\* No choice has a smaller spread than the least one.
LEMMA LeastSpreadIsLeast ==
  ASSUME NEW c, IsReached(c), NEW s, IsChoice(s, c)
  PROVE  MinimumSpread(Timed(c)) <= Spread(s)
  <1> DEFINE timed == Timed(c)
             places == 1 .. Len(timed)
             idx == [p \in Participants |-> CHOOSE i \in places : timed[i] = s[p]]
  <1>1. IsSelection(s) /\ \A p \in Participants : IsJourney(s[p], p)
    BY SelectionsSelect DEF IsChoice
  <1>2. IsTimed(timed)
    BY TimedIsTimed
  <1>3. \A p \in Participants : \E i \in places : timed[i] = s[p]
    BY TimedIsTimed DEF IsChoice
  <1> HIDE DEF timed
  <1>4. \A p \in Participants : idx[p] \in places /\ timed[idx[p]] = s[p]
    BY <1>3
  <1>5. idx \in [Participants -> Int]
    BY <1>2, <1>4 DEF IsTimed
  <1> DEFINE used == {idx[p] : p \in Participants}
  <1>6. PICK k \in used : \A p \in Participants : k <= idx[p]
    <2>1. Min(used) \in used /\ \A p \in Participants : Min(used) <= idx[p]
      <3> HIDE DEF idx
      <3> QED
        BY <1>5, ImageNumbers, ParticipantsAreFinite
    <2> QED
      BY <2>1
  <1>7. PICK m \in used : \A p \in Participants : idx[p] <= m
    <2>1. Max(used) \in used /\ \A p \in Participants : idx[p] <= Max(used)
      <3> HIDE DEF idx
      <3> QED
        BY <1>5, ImageNumbers, ParticipantsAreFinite
    <2> QED
      BY <2>1
  <1> HIDE DEF idx
  <1>8. PICK a \in Participants : k = idx[a]
    OBVIOUS
  <1>9. PICK b \in Participants : m = idx[b]
    OBVIOUS
  <1>10. k \in places /\ m \in places /\ timed[k] = s[a] /\ timed[m] = s[b]
    BY <1>4, <1>8, <1>9
  <1>11. Covers(timed, k, m)
    <2>1. \A i \in k .. m : timed[i].participantId \in Participants
      BY <1>2, <1>10 DEF IsTimed
    <2>2. \A p \in Participants : idx[p] \in k .. m /\ timed[idx[p]].participantId = p
      BY <1>1, <1>2, <1>4, <1>6, <1>7, <1>10, SMTT(30) DEF IsJourney, IsTimed
    <2> QED
      BY <2>1, <2>2 DEF Covers
  <1>12. MinimumSpread(timed) <= Width(timed, k, m)
    BY <1>2, <1>10, <1>11, MinimumSpreadIsRight
  <1>13. Width(timed, k, m) <= Spread(s)
    <2>1. /\ Min(Arrivals(s)) <= s[a].arrivalAt /\ s[b].arrivalAt <= Max(Arrivals(s))
          /\ Min(Arrivals(s)) \in Int /\ Max(Arrivals(s)) \in Int
          /\ s[a].arrivalAt \in Int /\ s[b].arrivalAt \in Int
      BY <1>1, ArrivalsAreBetween, MeasuresAreNumbers DEF IsSelection
    <2> QED
      BY <1>10, <2>1 DEF Width, Spread
  <1>14. MinimumSpread(timed) \in Int /\ Width(timed, k, m) \in Int /\ Spread(s) \in Int
    <2>1. MinimumSpread(timed) \in Int
      BY AllowedIsEnough DEF timed
    <2>2. Width(timed, k, m) \in Int
      BY <1>2, <1>10 DEF Width, IsTimed
    <2>3. Spread(s) \in Int
      BY <1>1, MeasuresAreNumbers
    <2> QED
      BY <2>1, <2>2, <2>3
  <1> QED
    BY <1>12, <1>13, <1>14 DEF timed

\* What is picked from a window lies in it, and is for each participant the
\* fastest that does.
LEMMA PickIsFastest ==
  ASSUME NEW c, IsReached(c), NEW l \in Lowers(c)
  PROVE  /\ IsChoice(Pick(c, l), c) /\ Spread(Pick(c, l)) <= Allowed(c)
         /\ \A p \in Participants : \A j \in Within(c, l, p) :
              /\ Pick(c, l)[p].durationMinutes <= j.durationMinutes
              /\ Pick(c, l)[p].durationMinutes = j.durationMinutes =>
                   Pick(c, l)[p].transfers <= j.transfers
  <1> DEFINE t == Pick(c, l)
  <1>1. ASSUME NEW p \in Participants
        PROVE  /\ t[p] \in Within(c, l, p)
               /\ \A j \in Within(c, l, p) :
                    /\ t[p].durationMinutes <= j.durationMinutes
                    /\ t[p].durationMinutes = j.durationMinutes => t[p].transfers <= j.transfers
    <2>1. Within(c, l, p) \in SUBSET JourneysOf(c, p)
      BY DEF Within
    <2>2. AreJourneys(JourneysOf(c, p), p)
      BY DEF IsReached
    <2>3. IsFiniteSet(Within(c, l, p))
      BY <2>1, <2>2, FS_Subset DEF AreJourneys
    <2>4. AreJourneys(Within(c, l, p), p) /\ Within(c, l, p) # {}
      BY <2>1, <2>2, <2>3 DEF AreJourneys, Lowers
    <2>5. t[p] = Best(Within(c, l, p), WindowKey)
      BY DEF Pick
    <2> QED
      BY <2>4, <2>5, WindowIsFirst
  <1> HIDE DEF t
  <1>2. IsChoice(t, c)
    BY <1>1 DEF IsChoice, Within
  <1>3. IsSelection(t)
    BY <1>2, SelectionsSelect DEF IsChoice
  <1>4. PICK a \in Participants : Min(Arrivals(t)) = t[a].arrivalAt
    BY <1>3, ArrivalsAreBetween
  <1>5. PICK b \in Participants : Max(Arrivals(t)) = t[b].arrivalAt
    BY <1>3, ArrivalsAreBetween
  <1>6. l \in Int
    BY TimedIsTimed, SMTT(30) DEF Lowers, ArrivalsAt, IsTimed
  <1>7. Allowed(c) \in Nat
    BY AllowedIsEnough
  <1>8. t[a].arrivalAt \in l .. l + Allowed(c) /\ t[b].arrivalAt \in l .. l + Allowed(c)
    BY <1>1 DEF Within
  <1>9. Spread(t) <= Allowed(c)
    BY <1>4, <1>5, <1>6, <1>7, <1>8 DEF Spread
  <1> QED
    BY <1>1, <1>2, <1>9 DEF t

\* Who comes first to a prefix of the keys also comes first.
LEMMA PrefixIsNotLess ==
  ASSUME NEW n \in Nat, NEW s \in Keys(n), NEW t \in Keys(n), ~IsLess(s, t),
         NEW m \in Nat, m <= n, NEW a \in Keys(m), NEW b \in Keys(m),
         \A i \in 1 .. m : a[i] = s[i] /\ b[i] = t[i]
  PROVE  ~IsLess(a, b)
  <1> SUFFICES ASSUME IsLess(a, b) PROVE FALSE
    OBVIOUS
  <1>1. PICK i \in 1 .. m : a[i] < b[i] /\ \A j \in 1 .. i - 1 : a[j] = b[j]
    BY DEF IsLess, Keys
  <1>2. i \in 1 .. n /\ s[i] < t[i] /\ \A j \in 1 .. i - 1 : s[j] = t[j]
    BY <1>1
  <1> QED
    BY <1>2 DEF IsLess, Keys

\* A key that goes on.
LEMMA LongerKey ==
  ASSUME NEW s \in Seq(Int), NEW t \in Seq(Int)
  PROVE  s \o t \in Keys(Len(s) + Len(t)) /\ \A i \in 1 .. Len(s) : (s \o t)[i] = s[i]
  <1>1. /\ s \o t \in Seq(Int)
        /\ Len(s \o t) = Len(s) + Len(t)
        /\ \A i \in 1 .. Len(s) + Len(t) :
             (s \o t)[i] = IF i <= Len(s) THEN s[i] ELSE t[i - Len(s)]
    BY ConcatProperties, Zenon
  <1>2. PICK u : u = s \o t
    OBVIOUS
  <1>3. u \in Seq(Int) /\ Len(u) = Len(s) + Len(t)
    BY <1>1, <1>2, Zenon
  <1>4. \A i \in 1 .. Len(s) + Len(t) : u[i] = IF i <= Len(s) THEN s[i] ELSE t[i - Len(s)]
    BY <1>1, <1>2, Zenon
  <1>5. \A i \in 1 .. Len(s) : u[i] = s[i]
    <2> SUFFICES ASSUME NEW i \in 1 .. Len(s) PROVE u[i] = s[i]
      BY Zenon
    <2>1. Len(s) \in Nat /\ Len(t) \in Nat
      OBVIOUS
    <2>2. i \in 1 .. Len(s) + Len(t) /\ i <= Len(s)
      BY <2>1
    <2> QED
      BY <1>4, <2>2, Zenon
  <1>6. u \in Keys(Len(s) + Len(t))
    BY <1>3 DEF Keys
  <1> QED
    BY <1>2, <1>5, <1>6, Zenon

\* The key of a selection: the criteria and what breaks a tie.
LEMMA SetKeyIsKey ==
  ASSUME NEW s, IsSelection(s), \A p \in Participants : s[p].journeyId \in Int
  PROVE  /\ SetKey(s) \in Keys(6 + Cardinality(Participants))
         /\ Criteria("arrive-together", s) \in Keys(4)
         /\ \A i \in 1 .. 4 : Criteria("arrive-together", s)[i] = SetKey(s)[i]
  <1> DEFINE n == Cardinality(Participants)
             head == <<ArrivalPenalty(s), Max(Durations(s)), TotalDuration(s), TotalTransfers(s),
                       Spread(s), Max(Arrivals(s))>>
             ids == [p \in Participants |-> s[p].journeyId]
  <1>1. n \in Nat /\ Participants = 1 .. n
    BY JourneyRankingAssumption, FS_CardinalityType
  <1>2. ids \in Seq(Int) /\ Len(ids) = n
    BY <1>1
  <1>3. head \in Seq(Int) /\ Len(head) = 6
    BY MeasuresAreNumbers
  <1>4. SetKey(s) = head \o ids
    BY DEF SetKey
  <1>5. Criteria("arrive-together", s) = <<head[1], head[2], head[3], head[4]>>
    <2>1. Criteria("arrive-together", s) =
            <<ArrivalPenalty(s), Max(Durations(s)), TotalDuration(s), TotalTransfers(s)>>
      BY DEF Criteria
    <2> QED
      BY <2>1
  <1>6. head[1] \in Int /\ head[2] \in Int /\ head[3] \in Int /\ head[4] \in Int
    BY MeasuresAreNumbers
  <1> HIDE DEF head, ids
  <1>7. head \o ids \in Keys(Len(head) + Len(ids)) /\ \A i \in 1 .. Len(head) : (head \o ids)[i] = head[i]
    BY <1>2, <1>3, LongerKey, Zenon
  <1>8. head \o ids \in Keys(6 + n) /\ \A i \in 1 .. 6 : (head \o ids)[i] = head[i]
    BY <1>2, <1>3, <1>7, Zenon
  <1>9. PICK key : key = SetKey(s)
    OBVIOUS
  <1>10. key \in Keys(6 + n) /\ \A i \in 1 .. 6 : key[i] = head[i]
    BY <1>4, <1>8, <1>9, Zenon
  <1>11. /\ Criteria("arrive-together", s) \in Keys(4)
         /\ \A i \in 1 .. 4 : Criteria("arrive-together", s)[i] = key[i]
    BY <1>5, <1>6, <1>10 DEF Keys
  <1> QED
    BY <1>9, <1>10, <1>11, Zenon

\* A greater first criterion decides; what is greater or equal everywhere comes
\* not before.
LEMMA FirstIsNotLess ==
  ASSUME NEW a1 \in Int, NEW a2 \in Int, NEW a3 \in Int, NEW a4 \in Int,
         NEW b1 \in Int, NEW b2 \in Int, NEW b3 \in Int, NEW b4 \in Int, b1 < a1
  PROVE  ~IsLess(<<a1, a2, a3, a4>>, <<b1, b2, b3, b4>>)
  BY DEF IsLess

\* The last may be greater only if the third is not the same.
LEMMA FourAreNotLess ==
  ASSUME NEW a1 \in Int, NEW a2 \in Int, NEW a3 \in Int, NEW a4 \in Int,
         NEW b1 \in Int, NEW b2 \in Int, NEW b3 \in Int, NEW b4 \in Int,
         b1 <= a1, b2 <= a2, b3 <= a3, b3 = a3 => b4 <= a4
  PROVE  ~IsLess(<<a1, a2, a3, a4>>, <<b1, b2, b3, b4>>)
  BY DEF IsLess

\* Some choice arrives in the least spread.
LEMMA SomeChoiceIsTogether ==
  ASSUME NEW c, IsReached(c)
  PROVE  \E r : IsChoice(r, c) /\ Spread(r) <= Allowed(c)
  <1> DEFINE timed == Timed(c)
  <1>1. IsTimed(timed)
    BY TimedIsTimed
  <1>2. PICK k, m \in 1 .. Len(timed) : Covers(timed, k, m) /\ MinimumSpread(timed) = Width(timed, k, m)
    BY <1>1, MinimumSpreadIsRight
  <1>3. k <= m
    BY <1>1, <1>2, CoversIsWindow DEF IsTimed
  <1>4. \A i \in k .. m : i \in 1 .. Len(timed)
    BY <1>1 DEF IsTimed
  <1>5. \A i \in 1 .. Len(timed) : timed[i] \in JourneysOf(c, timed[i].participantId)
    BY TimedIsTimed
  <1>6. \A p \in Participants : \E i \in k .. m : timed[i].participantId = p
    BY <1>2 DEF Covers
  <1> HIDE DEF timed
  <1> DEFINE idx == [p \in Participants |-> CHOOSE i \in k .. m : timed[i].participantId = p]
             r == [p \in Participants |-> timed[idx[p]]]
  <1>7. ASSUME NEW p \in Participants
        PROVE  idx[p] \in k .. m /\ idx[p] \in 1 .. Len(timed) /\ r[p] \in JourneysOf(c, p)
    <2>1. idx[p] \in k .. m /\ timed[idx[p]].participantId = p
      BY <1>6
    <2> QED
      BY <1>4, <1>5, <2>1
  <1>8. IsChoice(r, c)
    BY <1>7 DEF IsChoice
  <1>9. IsSelection(r)
    BY <1>8, SelectionsSelect DEF IsChoice
  <1>10. ASSUME NEW p \in Participants
         PROVE  timed[k].arrivalAt <= r[p].arrivalAt /\ r[p].arrivalAt <= timed[m].arrivalAt
    <2>1. k <= idx[p] /\ idx[p] <= m /\ idx[p] \in 1 .. Len(timed)
      BY <1>7
    <2>2. r[p] = timed[idx[p]]
      OBVIOUS
    <2> HIDE DEF r, idx
    <2> QED
      BY <1>1, <2>1, <2>2 DEF IsTimed
  <1> HIDE DEF r, idx
  <1>11. PICK a \in Participants : Min(Arrivals(r)) = r[a].arrivalAt
    BY <1>9, ArrivalsAreBetween
  <1>12. PICK b \in Participants : Max(Arrivals(r)) = r[b].arrivalAt
    BY <1>9, ArrivalsAreBetween
  <1>13. /\ r[a].arrivalAt \in Int /\ r[b].arrivalAt \in Int
         /\ timed[k].arrivalAt \in Int /\ timed[m].arrivalAt \in Int
    BY <1>1, <1>9 DEF IsSelection, IsTimed
  <1>14. Spread(r) <= Width(timed, k, m)
    BY <1>10, <1>11, <1>12, <1>13 DEF Spread, Width
  <1>15. Spread(r) <= Allowed(c)
    <2>1. Spread(r) \in Int
      BY <1>9, MeasuresAreNumbers
    <2>2. Width(timed, k, m) \in Int /\ Width(timed, k, m) <= Allowed(c) /\ Allowed(c) \in Int
      BY <1>2, AllowedIsEnough DEF timed
    <2> QED
      BY <1>14, <2>1, <2>2
  <1> QED
    BY <1>8, <1>15

\* The window at the first arrival of a choice reaches all, if it is wide enough.
LEMMA ChoiceHasWindow ==
  ASSUME NEW c, IsReached(c), NEW s, IsChoice(s, c), Spread(s) <= Allowed(c)
  PROVE  \E l \in Lowers(c) : \A p \in Participants : s[p] \in Within(c, l, p)
  <1> DEFINE l == Min(Arrivals(s))
  <1>1. IsSelection(s)
    BY SelectionsSelect DEF IsChoice
  <1>2. Allowed(c) \in Nat
    BY AllowedIsEnough
  <1>3. /\ l \in Int /\ Max(Arrivals(s)) \in Int /\ Spread(s) = Max(Arrivals(s)) - l
        /\ \A p \in Participants : l <= s[p].arrivalAt /\ s[p].arrivalAt <= Max(Arrivals(s))
    BY <1>1, MeasuresAreNumbers, ArrivalsAreBetween DEF Spread
  <1>4. PICK q \in Participants : l = s[q].arrivalAt
    BY <1>1, ArrivalsAreBetween
  <1> HIDE DEF l
  <1>5. ASSUME NEW p \in Participants PROVE s[p] \in Within(c, l, p)
    <2>1. s[p].arrivalAt \in Int
      BY <1>1 DEF IsSelection
    <2>2. s[p].arrivalAt \in l .. l + Allowed(c)
      BY <1>2, <1>3, <2>1
    <2> QED
      BY <2>2 DEF Within, IsChoice
  <1>6. l \in ArrivalsAt(c)
    <2>1. PICK i \in 1 .. Len(Timed(c)) : Timed(c)[i] = s[q]
      BY TimedIsTimed DEF IsChoice
    <2>2. i \in DOMAIN Timed(c)
      BY TimedIsTimed
    <2> QED
      BY <1>4, <2>1, <2>2 DEF ArrivalsAt
  <1>7. l \in Lowers(c)
    BY <1>5, <1>6 DEF Lowers
  <1> QED
    BY <1>5, <1>7

\* Finitely many windows are looked at.
LEMMA PicksAreFinite ==
  ASSUME NEW c, IsReached(c)
  PROVE  IsFiniteSet(Picks(c))
  <1> DEFINE places == 1 .. Len(Timed(c))
             at == [i \in places |-> Timed(c)[i].arrivalAt]
             pick == [l \in Lowers(c) |-> Pick(c, l)]
  <1>1. IsFiniteSet(places)
    <2>1. Len(Timed(c)) \in Nat
      BY TimedIsTimed DEF IsTimed
    <2> QED
      BY <2>1, FS_Interval
  <1>2. ArrivalsAt(c) = {at[i] : i \in places}
    BY TimedIsTimed DEF ArrivalsAt
  <1>3. at \in Surjection(places, ArrivalsAt(c))
    BY <1>2 DEF Surjection
  <1>4. IsFiniteSet(ArrivalsAt(c))
    BY <1>1, <1>3, FS_Surjection
  <1>5. Lowers(c) \in SUBSET ArrivalsAt(c)
    BY DEF Lowers
  <1>6. IsFiniteSet(Lowers(c))
    BY <1>4, <1>5, FS_Subset
  <1>7. pick \in Surjection(Lowers(c), Picks(c))
    BY DEF Surjection, Picks
  <1> QED
    BY <1>6, <1>7, FS_Surjection

\* For every choice there is a pick that is no worse.
LEMMA PickIsNoWorse ==
  ASSUME NEW c, IsReached(c), NEW s, IsChoice(s, c)
  PROVE  \E t \in Picks(c) :
            ~IsLess(Criteria("arrive-together", s), Criteria("arrive-together", t))
  <1> USE AllowedIsEnough
  <1>1. IsSelection(s) /\ Spread(s) \in Nat
    BY SelectionsSelect, MeasuresAreNumbers DEF IsChoice
  <1>2. ArrivalTolerance \in Nat
    BY JourneyRankingAssumption
  <1>3. ASSUME NEW l \in Lowers(c)
        PROVE  /\ IsSelection(Pick(c, l)) /\ Spread(Pick(c, l)) \in Nat
               /\ Spread(Pick(c, l)) <= Allowed(c)
    BY PickIsFastest, SelectionsSelect, MeasuresAreNumbers DEF IsChoice
  <1>4. CASE Spread(s) <= Allowed(c)
    <2>1. PICK l \in Lowers(c) : \A p \in Participants : s[p] \in Within(c, l, p)
      BY <1>4, ChoiceHasWindow
    <2>2. PICK t : t = Pick(c, l)
      OBVIOUS
    <2>3. IsSelection(t) /\ Spread(t) \in Nat /\ Spread(t) <= Allowed(c)
      BY <1>3, <2>2
    <2>4. ArrivalPenalty(t) <= ArrivalPenalty(s)
      <3>1. Spread(t) <= ArrivalTolerance \/ Spread(t) <= Spread(s)
        <4>1. MinimumSpread(Timed(c)) <= Spread(s)
          BY LeastSpreadIsLeast
        <4> QED
          BY <1>1, <2>3, <4>1
      <3>2. /\ ArrivalPenalty(t) = IF Spread(t) > ArrivalTolerance
                                   THEN Spread(t) - ArrivalTolerance ELSE 0
            /\ ArrivalPenalty(s) = IF Spread(s) > ArrivalTolerance
                                   THEN Spread(s) - ArrivalTolerance ELSE 0
        BY <1>1, <2>3, MeasuresAreNumbers
      <3> QED
        BY <1>1, <1>2, <2>3, <3>1, <3>2
    <2>5. \A p \in Participants :
            /\ t[p].durationMinutes <= s[p].durationMinutes
            /\ t[p].durationMinutes = s[p].durationMinutes => t[p].transfers <= s[p].transfers
      BY <2>1, <2>2, PickIsFastest
    <2>6. /\ TotalDuration(t) <= TotalDuration(s) /\ Max(Durations(t)) <= Max(Durations(s))
          /\ TotalDuration(t) = TotalDuration(s) =>
               \A p \in Participants : t[p].durationMinutes = s[p].durationMinutes
      BY <1>1, <2>3, <2>5, DurationsGrow
    <2>7. TotalDuration(t) = TotalDuration(s) => TotalTransfers(t) <= TotalTransfers(s)
      BY <1>1, <2>3, <2>5, <2>6, TransfersGrow
    <2>8. ~IsLess(Criteria("arrive-together", s), Criteria("arrive-together", t))
      <3>1. /\ Criteria("arrive-together", s) =
                 <<ArrivalPenalty(s), Max(Durations(s)), TotalDuration(s), TotalTransfers(s)>>
            /\ Criteria("arrive-together", t) =
                 <<ArrivalPenalty(t), Max(Durations(t)), TotalDuration(t), TotalTransfers(t)>>
        BY DEF Criteria
      <3>2. /\ ArrivalPenalty(s) \in Int /\ Max(Durations(s)) \in Int
            /\ TotalDuration(s) \in Int /\ TotalTransfers(s) \in Int
            /\ ArrivalPenalty(t) \in Int /\ Max(Durations(t)) \in Int
            /\ TotalDuration(t) \in Int /\ TotalTransfers(t) \in Int
        BY <1>1, <2>3, MeasuresAreNumbers
      <3> QED
        <4>1. PICK a : a = <<ArrivalPenalty(s), Max(Durations(s)), TotalDuration(s), TotalTransfers(s)>>
          OBVIOUS
        <4>2. PICK b : b = <<ArrivalPenalty(t), Max(Durations(t)), TotalDuration(t), TotalTransfers(t)>>
          OBVIOUS
        <4>3. ~IsLess(a, b)
          BY <2>4, <2>6, <2>7, <3>2, <4>1, <4>2, FourAreNotLess
        <4>4. Criteria("arrive-together", s) = a /\ Criteria("arrive-together", t) = b
          BY <3>1, <4>1, <4>2
        <4> QED
          BY <4>3, <4>4, Zenon
    <2> QED
      BY <2>2, <2>8 DEF Picks
  <1>5. CASE Spread(s) > Allowed(c)
    <2>1. PICK l \in Lowers(c) : TRUE
      <3>1. PICK r : IsChoice(r, c) /\ Spread(r) <= Allowed(c)
        BY SomeChoiceIsTogether
      <3> QED
        BY <3>1, ChoiceHasWindow
    <2>2. PICK t : t = Pick(c, l)
      OBVIOUS
    <2>3. IsSelection(t) /\ Spread(t) \in Nat /\ Spread(t) <= Allowed(c)
      BY <1>3, <2>2
    <2>4. ArrivalPenalty(t) < ArrivalPenalty(s)
      <3>1. /\ ArrivalPenalty(t) = IF Spread(t) > ArrivalTolerance
                                   THEN Spread(t) - ArrivalTolerance ELSE 0
            /\ ArrivalPenalty(s) = IF Spread(s) > ArrivalTolerance
                                   THEN Spread(s) - ArrivalTolerance ELSE 0
        BY <1>1, <2>3, MeasuresAreNumbers
      <3> QED
        BY <1>1, <1>2, <1>5, <2>3, <3>1
    <2>5. ~IsLess(Criteria("arrive-together", s), Criteria("arrive-together", t))
      <3>1. /\ Criteria("arrive-together", s) =
                 <<ArrivalPenalty(s), Max(Durations(s)), TotalDuration(s), TotalTransfers(s)>>
            /\ Criteria("arrive-together", t) =
                 <<ArrivalPenalty(t), Max(Durations(t)), TotalDuration(t), TotalTransfers(t)>>
        BY DEF Criteria
      <3>2. /\ ArrivalPenalty(s) \in Int /\ Max(Durations(s)) \in Int
            /\ TotalDuration(s) \in Int /\ TotalTransfers(s) \in Int
            /\ ArrivalPenalty(t) \in Int /\ Max(Durations(t)) \in Int
            /\ TotalDuration(t) \in Int /\ TotalTransfers(t) \in Int
        BY <1>1, <2>3, MeasuresAreNumbers
      <3> QED
        <4>1. PICK a : a = <<ArrivalPenalty(s), Max(Durations(s)), TotalDuration(s), TotalTransfers(s)>>
          OBVIOUS
        <4>2. PICK b : b = <<ArrivalPenalty(t), Max(Durations(t)), TotalDuration(t), TotalTransfers(t)>>
          OBVIOUS
        <4>3. ~IsLess(a, b)
          BY <2>4, <3>2, <4>1, <4>2, FirstIsNotLess
        <4>4. Criteria("arrive-together", s) = a /\ Criteria("arrive-together", t) = b
          BY <3>1, <4>1, <4>2
        <4> QED
          BY <4>3, <4>4, Zenon
    <2> QED
      BY <2>2, <2>5 DEF Picks
  <1> QED
    BY <1>1, <1>4, <1>5

\* The choice by arrival is a choice, and none is better.
LEMMA TogetherIsFirst ==
  ASSUME NEW c, IsReached(c)
  PROVE  /\ IsChoice(SelectTogether(c), c)
         /\ \A s : IsChoice(s, c) => ~IsLess(Criteria("arrive-together", s),
                                             Criteria("arrive-together", SelectTogether(c)))
  <1> DEFINE picks == Picks(c)
             n == 6 + Cardinality(Participants)
             key == [t \in picks |-> SetKey(t)]
  <1>1. n \in Nat /\ 4 <= n
    BY JourneyRankingAssumption, FS_CardinalityType
  <1>2. \A t \in picks : IsChoice(t, c)
    BY PickIsFastest DEF Picks
  <1>3. ASSUME NEW s, IsChoice(s, c)
        PROVE  /\ SetKey(s) \in Keys(n) /\ Criteria("arrive-together", s) \in Keys(4)
               /\ \A i \in 1 .. 4 : Criteria("arrive-together", s)[i] = SetKey(s)[i]
    <2>1. IsSelection(s) /\ \A p \in Participants : s[p].journeyId \in Int
      BY <1>3, SelectionsSelect DEF IsChoice, IsJourney
    <2> QED
      BY <2>1, SetKeyIsKey
  <1>4. key \in [picks -> Keys(n)]
    BY <1>2, <1>3
  <1>5. IsFiniteSet(picks)
    BY PicksAreFinite
  <1>6. picks # {}
    <2>1. PICK r : IsChoice(r, c) /\ Spread(r) <= Allowed(c)
      BY SomeChoiceIsTogether
    <2> QED
      BY <2>1, ChoiceHasWindow DEF Picks
  <1>7. PICK x \in picks : \A y \in picks : ~IsLess(key[y], key[x])
    <2> HIDE DEF picks, key, n
    <2> QED
      BY <1>1, <1>4, <1>5, <1>6, BestExists
  <1>8. \E z \in picks : \A y \in picks : ~IsLess(SetKey(y), SetKey(z))
    BY <1>7
  <1>9. SelectTogether(c) = CHOOSE z \in picks : \A y \in picks : ~IsLess(SetKey(y), SetKey(z))
    BY TogetherIsPicked DEF Best
  <1>10. PICK best : best = SelectTogether(c)
    OBVIOUS
  <1> HIDE DEF picks, key, n
  <1>11. best \in picks /\ \A y \in picks : ~IsLess(SetKey(y), SetKey(best))
    BY <1>8, <1>9, <1>10
  <1>12. IsChoice(best, c)
    BY <1>2, <1>11
  <1>13. ASSUME NEW s, IsChoice(s, c)
         PROVE  ~IsLess(Criteria("arrive-together", s), Criteria("arrive-together", best))
    <2>1. PICK t \in picks :
            ~IsLess(Criteria("arrive-together", s), Criteria("arrive-together", t))
      BY <1>13, PickIsNoWorse DEF picks
    <2>2. IsChoice(t, c) /\ ~IsLess(SetKey(t), SetKey(best))
      BY <1>2, <1>11
    <2>3. ~IsLess(Criteria("arrive-together", t), Criteria("arrive-together", best))
      <3>1. /\ SetKey(t) \in Keys(n) /\ SetKey(best) \in Keys(n)
            /\ Criteria("arrive-together", t) \in Keys(4)
            /\ Criteria("arrive-together", best) \in Keys(4)
            /\ \A i \in 1 .. 4 : /\ Criteria("arrive-together", t)[i] = SetKey(t)[i]
                                 /\ Criteria("arrive-together", best)[i] = SetKey(best)[i]
        BY <1>3, <1>12, <2>2
      <3> QED
        BY <1>1, <2>2, <3>1, PrefixIsNotLess
    <2>4. /\ Criteria("arrive-together", s) \in Keys(4)
          /\ Criteria("arrive-together", t) \in Keys(4)
          /\ Criteria("arrive-together", best) \in Keys(4)
      BY <1>3, <1>12, <1>13, <2>2
    <2> QED
      BY <2>1, <2>3, <2>4, NotLessIsTransitive
  <1> QED
    BY <1>10, <1>12, <1>13

-----------------------------------------------------------------------------
(* The choice of each mode.                                                 *)

\* As above, for three criteria.
LEMMA ThreeAreNotLess ==
  ASSUME NEW a1 \in Int, NEW a2 \in Int, NEW a3 \in Int,
         NEW b1 \in Int, NEW b2 \in Int, NEW b3 \in Int,
         b1 <= a1, b2 <= a2, b1 = a1 => b3 <= a3
  PROVE  ~IsLess(<<a1, a2, a3>>, <<b1, b2, b3>>)
  BY DEF IsLess

\* And for one.
LEMMA OneIsNotLess ==
  ASSUME NEW a \in Int, NEW b \in Int, b <= a
  PROVE  ~IsLess(<<a>>, <<b>>)
  BY DEF IsLess

\* How many criteria a mode has.
CriteriaLength(mode) ==
  IF mode = "fairest" THEN 1 ELSE IF mode = "arrive-together" THEN 4 ELSE 3

\* The criteria of a selection are numbers.
LEMMA CriteriaAreKeys ==
  ASSUME NEW mode \in RankingModes, NEW s, IsSelection(s)
  PROVE  Criteria(mode, s) \in Keys(CriteriaLength(mode))
  <1>1. /\ TotalDuration(s) \in Int /\ TotalTransfers(s) \in Int /\ Max(Durations(s)) \in Int
        /\ MaxTransfers(s) \in Int /\ ArrivalPenalty(s) \in Int
    BY MeasuresAreNumbers
  <1>2. CASE mode = "fastest-overall"
    <2>1. Criteria(mode, s) = <<TotalDuration(s), Max(Durations(s)), TotalTransfers(s)>>
      BY <1>2 DEF Criteria
    <2> QED
      BY <1>1, <1>2, <2>1 DEF Keys, CriteriaLength
  <1>3. CASE mode = "fairest"
    <2>1. Criteria(mode, s) = <<Max(Durations(s))>>
      BY <1>3 DEF Criteria
    <2> QED
      BY <1>1, <1>3, <2>1 DEF Keys, CriteriaLength
  <1>4. CASE mode = "fewest-transfers"
    <2>1. Criteria(mode, s) = <<TotalTransfers(s), MaxTransfers(s), TotalDuration(s)>>
      BY <1>4 DEF Criteria
    <2> QED
      BY <1>1, <1>4, <2>1 DEF Keys, CriteriaLength
  <1>5. CASE mode = "arrive-together"
    <2>1. Criteria(mode, s) =
            <<ArrivalPenalty(s), Max(Durations(s)), TotalDuration(s), TotalTransfers(s)>>
      BY <1>5 DEF Criteria
    <2> QED
      BY <1>1, <1>5, <2>1 DEF Keys, CriteriaLength
  <1> QED
    BY <1>2, <1>3, <1>4, <1>5 DEF RankingModes

\* The fastest journeys are the fastest choice.
LEMMA FastestChoiceIsFirst ==
  ASSUME NEW c, IsReached(c)
  PROVE  /\ IsChoice(SelectFastest(c), c)
         /\ \A s : IsChoice(s, c) =>
              /\ ~IsLess(Criteria("fastest-overall", s), Criteria("fastest-overall", SelectFastest(c)))
              /\ ~IsLess(Criteria("fairest", s), Criteria("fairest", SelectFastest(c)))
  <1>1. PICK t : t = SelectFastest(c)
    OBVIOUS
  <1>2. ASSUME NEW p \in Participants
        PROVE  /\ t[p] \in JourneysOf(c, p)
               /\ \A j \in JourneysOf(c, p) :
                    /\ t[p].durationMinutes <= j.durationMinutes
                    /\ t[p].durationMinutes = j.durationMinutes => t[p].transfers <= j.transfers
    <2>1. AreJourneys(JourneysOf(c, p), p) /\ JourneysOf(c, p) # {}
      BY DEF IsReached
    <2>2. t[p] = Best(JourneysOf(c, p), FastestKey)
      BY <1>1 DEF SelectFastest
    <2> QED
      BY <2>1, <2>2, FastestIsFirst
  <1>3. IsChoice(t, c) /\ IsSelection(t)
    BY <1>2, SelectionsSelect DEF IsChoice
  <1>4. ASSUME NEW s, IsChoice(s, c)
        PROVE  /\ ~IsLess(Criteria("fastest-overall", s), Criteria("fastest-overall", t))
               /\ ~IsLess(Criteria("fairest", s), Criteria("fairest", t))
    <2>1. IsSelection(s)
      BY <1>4, SelectionsSelect DEF IsChoice
    <2>2. \A p \in Participants :
            /\ t[p].durationMinutes <= s[p].durationMinutes
            /\ t[p].durationMinutes = s[p].durationMinutes => t[p].transfers <= s[p].transfers
      BY <1>2, <1>4 DEF IsChoice
    <2>3. /\ TotalDuration(t) <= TotalDuration(s) /\ Max(Durations(t)) <= Max(Durations(s))
          /\ TotalDuration(t) = TotalDuration(s) =>
               \A p \in Participants : t[p].durationMinutes = s[p].durationMinutes
      BY <1>3, <2>1, <2>2, DurationsGrow
    <2>4. TotalDuration(t) = TotalDuration(s) => TotalTransfers(t) <= TotalTransfers(s)
      BY <1>3, <2>1, <2>2, <2>3, TransfersGrow
    <2>5. /\ TotalDuration(s) \in Int /\ Max(Durations(s)) \in Int /\ TotalTransfers(s) \in Int
          /\ TotalDuration(t) \in Int /\ Max(Durations(t)) \in Int /\ TotalTransfers(t) \in Int
      BY <1>3, <2>1, MeasuresAreNumbers
    <2>6. ~IsLess(<<TotalDuration(s), Max(Durations(s)), TotalTransfers(s)>>,
                  <<TotalDuration(t), Max(Durations(t)), TotalTransfers(t)>>)
      BY <2>3, <2>4, <2>5, ThreeAreNotLess
    <2>7. ~IsLess(<<Max(Durations(s))>>, <<Max(Durations(t))>>)
      BY <2>3, <2>5, OneIsNotLess
    <2>8. /\ Criteria("fastest-overall", s) =
               <<TotalDuration(s), Max(Durations(s)), TotalTransfers(s)>>
          /\ Criteria("fastest-overall", t) =
               <<TotalDuration(t), Max(Durations(t)), TotalTransfers(t)>>
      BY DEF Criteria
    <2>9. /\ Criteria("fairest", s) = <<Max(Durations(s))>>
          /\ Criteria("fairest", t) = <<Max(Durations(t))>>
      BY DEF Criteria
    <2> QED
      BY <2>6, <2>7, <2>8, <2>9, Zenon
  <1> QED
    BY <1>1, <1>3, <1>4

\* The journeys with the fewest transfers are the choice with the fewest.
LEMMA FewestChoiceIsFirst ==
  ASSUME NEW c, IsReached(c)
  PROVE  /\ IsChoice(SelectFewest(c), c)
         /\ \A s : IsChoice(s, c) =>
              ~IsLess(Criteria("fewest-transfers", s), Criteria("fewest-transfers", SelectFewest(c)))
  <1>1. PICK t : t = SelectFewest(c)
    OBVIOUS
  <1>2. ASSUME NEW p \in Participants
        PROVE  /\ t[p] \in JourneysOf(c, p)
               /\ \A j \in JourneysOf(c, p) :
                    /\ t[p].transfers <= j.transfers
                    /\ t[p].transfers = j.transfers => t[p].durationMinutes <= j.durationMinutes
    <2>1. AreJourneys(JourneysOf(c, p), p) /\ JourneysOf(c, p) # {}
      BY DEF IsReached
    <2>2. t[p] = Best(JourneysOf(c, p), FewestKey)
      BY <1>1 DEF SelectFewest
    <2> QED
      BY <2>1, <2>2, FewestIsFirst
  <1>3. IsChoice(t, c) /\ IsSelection(t)
    BY <1>2, SelectionsSelect DEF IsChoice
  <1>4. ASSUME NEW s, IsChoice(s, c)
        PROVE  ~IsLess(Criteria("fewest-transfers", s), Criteria("fewest-transfers", t))
    <2>1. IsSelection(s)
      BY <1>4, SelectionsSelect DEF IsChoice
    <2>2. \A p \in Participants :
            /\ t[p].transfers <= s[p].transfers
            /\ t[p].transfers = s[p].transfers => t[p].durationMinutes <= s[p].durationMinutes
      BY <1>2, <1>4 DEF IsChoice
    <2>3. /\ TotalTransfers(t) <= TotalTransfers(s) /\ MaxTransfers(t) <= MaxTransfers(s)
          /\ TotalTransfers(t) = TotalTransfers(s) =>
               \A p \in Participants : t[p].transfers = s[p].transfers
      BY <1>3, <2>1, <2>2, TransfersGrow
    <2>4. TotalTransfers(t) = TotalTransfers(s) => TotalDuration(t) <= TotalDuration(s)
      BY <1>3, <2>1, <2>2, <2>3, DurationsGrow
    <2>5. /\ TotalTransfers(s) \in Int /\ MaxTransfers(s) \in Int /\ TotalDuration(s) \in Int
          /\ TotalTransfers(t) \in Int /\ MaxTransfers(t) \in Int /\ TotalDuration(t) \in Int
      BY <1>3, <2>1, MeasuresAreNumbers
    <2>6. ~IsLess(<<TotalTransfers(s), MaxTransfers(s), TotalDuration(s)>>,
                  <<TotalTransfers(t), MaxTransfers(t), TotalDuration(t)>>)
      BY <2>3, <2>4, <2>5, ThreeAreNotLess
    <2>7. /\ Criteria("fewest-transfers", s) =
               <<TotalTransfers(s), MaxTransfers(s), TotalDuration(s)>>
          /\ Criteria("fewest-transfers", t) =
               <<TotalTransfers(t), MaxTransfers(t), TotalDuration(t)>>
      BY DEF Criteria
    <2> QED
      BY <2>6, <2>7, Zenon
  <1> QED
    BY <1>1, <1>3, <1>4

\* The choice of a mode is a choice, and none is better by its criteria.
LEMMA SelectIsFirst ==
  ASSUME NEW mode \in RankingModes, NEW c, IsReached(c)
  PROVE  /\ IsChoice(Select(mode, c), c)
         /\ \A s : IsChoice(s, c) => ~IsLess(Criteria(mode, s), Criteria(mode, Select(mode, c)))
  <1>1. CASE mode = "arrive-together"
    <2>1. Select(mode, c) = SelectTogether(c)
      BY <1>1 DEF Select
    <2> QED
      BY <1>1, <2>1, TogetherIsFirst
  <1>2. CASE mode = "fewest-transfers"
    <2>1. Select(mode, c) = SelectFewest(c)
      BY <1>2 DEF Select
    <2> QED
      BY <1>2, <2>1, FewestChoiceIsFirst
  <1>3. CASE mode \in {"fastest-overall", "fairest"}
    <2>1. Select(mode, c) = SelectFastest(c)
      BY <1>3 DEF Select
    <2> QED
      BY <1>3, <2>1, FastestChoiceIsFirst
  <1> QED
    BY <1>1, <1>2, <1>3 DEF RankingModes

-----------------------------------------------------------------------------
(* The order of the candidates.                                             *)

\* How long the key of a candidate is: criteria, tie-breakers and the candidate.
KeyLength(mode) ==
  IF mode = "fairest" THEN 6 ELSE IF mode = "arrive-together" THEN 7 ELSE 5

\* The key of a candidate begins with the criteria and ends with the candidate.
LEMMA CandidateKeyIsKey ==
  ASSUME NEW mode \in RankingModes, NEW c \in Int, NEW s, IsSelection(s)
  PROVE  LET key == CandidateKey(mode, [candidate |-> c, selection |-> s]) IN
         /\ key \in Keys(KeyLength(mode)) /\ key[KeyLength(mode)] = c
         /\ \A i \in 1 .. CriteriaLength(mode) : Criteria(mode, s)[i] = key[i]
  <1> DEFINE entry == [candidate |-> c, selection |-> s]
             key == CandidateKey(mode, entry)
             range == Max(Durations(s)) - Min(Durations(s))
  <1>1. /\ TotalDuration(s) \in Int /\ TotalTransfers(s) \in Int /\ Max(Durations(s)) \in Int
        /\ Min(Durations(s)) \in Int /\ MaxTransfers(s) \in Int /\ ArrivalPenalty(s) \in Int
        /\ Spread(s) \in Int /\ Max(Arrivals(s)) \in Int /\ range \in Int
    BY MeasuresAreNumbers
  <1>2. CASE mode = "fastest-overall"
    <2>1. key = <<TotalDuration(s), Max(Durations(s)), TotalTransfers(s), Spread(s), c>>
      BY <1>2 DEF CandidateKey
    <2>2. Criteria(mode, s) = <<TotalDuration(s), Max(Durations(s)), TotalTransfers(s)>>
      BY <1>2 DEF Criteria
    <2> HIDE DEF key
    <2>3. /\ key \in Keys(5) /\ key[5] = c
          /\ \A i \in 1 .. 3 : Criteria(mode, s)[i] = key[i]
      BY <1>1, <2>1, <2>2 DEF Keys
    <2> QED
      BY <1>2, <2>3 DEF key, KeyLength, CriteriaLength
  <1>3. CASE mode = "fairest"
    <2>1. key = <<Max(Durations(s)), range, TotalDuration(s), TotalTransfers(s), Spread(s), c>>
      BY <1>3 DEF CandidateKey
    <2>2. Criteria(mode, s) = <<Max(Durations(s))>>
      BY <1>3 DEF Criteria
    <2> HIDE DEF key, range
    <2>3. /\ key \in Keys(6) /\ key[6] = c
          /\ \A i \in 1 .. 1 : Criteria(mode, s)[i] = key[i]
      BY <1>1, <2>1, <2>2 DEF Keys
    <2> QED
      BY <1>3, <2>3 DEF key, KeyLength, CriteriaLength
  <1>4. CASE mode = "fewest-transfers"
    <2>1. key = <<TotalTransfers(s), MaxTransfers(s), TotalDuration(s), Max(Durations(s)), c>>
      BY <1>4 DEF CandidateKey
    <2>2. Criteria(mode, s) = <<TotalTransfers(s), MaxTransfers(s), TotalDuration(s)>>
      BY <1>4 DEF Criteria
    <2> HIDE DEF key
    <2>3. /\ key \in Keys(5) /\ key[5] = c
          /\ \A i \in 1 .. 3 : Criteria(mode, s)[i] = key[i]
      BY <1>1, <2>1, <2>2 DEF Keys
    <2> QED
      BY <1>4, <2>3 DEF key, KeyLength, CriteriaLength
  <1>5. CASE mode = "arrive-together"
    <2>1. key = <<ArrivalPenalty(s), Max(Durations(s)), TotalDuration(s), TotalTransfers(s),
                  Spread(s), Max(Arrivals(s)), c>>
      BY <1>5 DEF CandidateKey
    <2>2. Criteria(mode, s) =
            <<ArrivalPenalty(s), Max(Durations(s)), TotalDuration(s), TotalTransfers(s)>>
      BY <1>5 DEF Criteria
    <2> HIDE DEF key
    <2>3. /\ key \in Keys(7) /\ key[7] = c
          /\ \A i \in 1 .. 4 : Criteria(mode, s)[i] = key[i]
      BY <1>1, <2>1, <2>2 DEF Keys
    <2> QED
      BY <1>5, <2>3 DEF key, KeyLength, CriteriaLength
  <1> QED
    BY <1>2, <1>3, <1>4, <1>5 DEF RankingModes

\* The candidates that are ranked, with the choice for each.
Entries(mode) == {[candidate |-> c, selection |-> Select(mode, c)] : c \in Feasible}

\* An entry is a candidate that everybody reaches.
LEMMA EntriesAreReached ==
  ASSUME NEW mode \in RankingModes, \A c \in Feasible : IsReached(c), NEW entry \in Entries(mode)
  PROVE  /\ entry.candidate \in Feasible /\ entry.candidate \in Int
         /\ entry = [candidate |-> entry.candidate, selection |-> Select(mode, entry.candidate)]
         /\ IsReached(entry.candidate) /\ IsSelection(entry.selection)
  <1>1. PICK c \in Feasible : entry = [candidate |-> c, selection |-> Select(mode, c)]
    BY DEF Entries
  <1>2. c \in Int
    <2>1. Cardinality(Candidates) \in Nat /\ Candidates = 0 .. Cardinality(Candidates) - 1
      BY JourneyRankingAssumption, FS_CardinalityType
    <2> QED
      BY <2>1 DEF Feasible
  <1>3. IsChoice(Select(mode, c), c)
    BY SelectIsFirst
  <1>4. IsSelection(Select(mode, c))
    BY <1>3, SelectionsSelect DEF IsChoice
  <1> QED
    BY <1>1, <1>2, <1>4

\* The ranking of a mode holds the entries in the order of their keys.
LEMMA RankedIsSorted ==
  ASSUME NEW mode \in RankingModes, \A c \in Feasible : IsReached(c)
  PROVE  LET ranked == Ranked(mode) IN
         /\ Len(ranked) \in Nat /\ DOMAIN ranked = 1 .. Len(ranked)
         /\ \A i \in DOMAIN ranked : ranked[i] \in Entries(mode)
         /\ \A i, j \in DOMAIN ranked :
              i < j => IsLess(CandidateKey(mode, ranked[i]), CandidateKey(mode, ranked[j]))
  <1> DEFINE all == Entries(mode)
             n == KeyLength(mode)
             key == [entry \in all |-> CandidateKey(mode, entry)]
             made == [c \in Feasible |-> [candidate |-> c, selection |-> Select(mode, c)]]
             ranked == Placed(all, key)
  <1>1. IsFiniteSet(all)
    <2>1. Feasible \in SUBSET Candidates
      BY DEF Feasible
    <2>2. IsFiniteSet(Feasible)
      BY <2>1, JourneyRankingAssumption, FS_Subset
    <2>3. made \in Surjection(Feasible, all)
      BY DEF Surjection, Entries
    <2> QED
      BY <2>2, <2>3, FS_Surjection
  <1>2. n \in Nat
    BY DEF KeyLength
  <1>3. ASSUME NEW entry \in all
        PROVE  key[entry] \in Keys(n) /\ key[entry][n] = entry.candidate
    <2>1. PICK c, s : c = entry.candidate /\ s = Select(mode, entry.candidate)
      OBVIOUS
    <2>2. c \in Int /\ IsSelection(s) /\ entry = [candidate |-> c, selection |-> s]
      BY <2>1, EntriesAreReached
    <2>3. key[entry] = CandidateKey(mode, [candidate |-> c, selection |-> s])
      BY <2>2
    <2> HIDE DEF key, n, all
    <2> QED
      BY <2>1, <2>2, <2>3, CandidateKeyIsKey DEF n
  <1>4. key \in [all -> Keys(n)]
    BY <1>3
  <1>5. \A x, y \in all : key[x] = key[y] => x = y
    <2> SUFFICES ASSUME NEW x \in all, NEW y \in all, key[x] = key[y] PROVE x = y
      OBVIOUS
    <2>1. x.candidate = y.candidate
      <3> HIDE DEF key, n, all
      <3> QED
        BY <1>3
    <2> QED
      BY <2>1, EntriesAreReached
  <1>6. Ranked(mode) = ranked
    <2>1. Ranked(mode) = [i \in 1 .. Cardinality(all) |->
             CHOOSE x \in all : Cardinality({y \in all :
               IsLess(CandidateKey(mode, y), CandidateKey(mode, x))}) = i - 1]
      BY DEF Ranked, Sorted, Entries
    <2>2. \A x \in all : Before(all, key, x) =
             {y \in all : IsLess(CandidateKey(mode, y), CandidateKey(mode, x))}
      BY DEF Before
    <2> HIDE DEF all, key
    <2> QED
      BY <2>1, <2>2 DEF Placed
  <1> HIDE DEF all, key, n
  <1>7. IsSorting(ranked, all, key)
    BY <1>1, <1>2, <1>4, <1>5, SortedByKey
  <1> HIDE DEF ranked
  <1>8. /\ Cardinality(all) \in Nat
        /\ ranked \in [1 .. Cardinality(all) -> all]
        /\ \A i, j \in 1 .. Cardinality(all) : i < j => IsLess(key[ranked[i]], key[ranked[j]])
    BY <1>7 DEF IsSorting
  <1>9. ranked \in Seq(all) /\ Len(ranked) = Cardinality(all) /\ DOMAIN ranked = 1 .. Len(ranked)
    BY <1>8
  <1>10. \A i \in DOMAIN ranked : ranked[i] \in all
    BY <1>8, <1>9
  <1>11. \A i \in DOMAIN ranked : key[ranked[i]] = CandidateKey(mode, ranked[i])
    BY <1>10 DEF key
  <1>12. \A i, j \in DOMAIN ranked :
           i < j => IsLess(CandidateKey(mode, ranked[i]), CandidateKey(mode, ranked[j]))
    BY <1>8, <1>9, <1>11
  <1> QED
    BY <1>6, <1>8, <1>9, <1>10, <1>12 DEF all

\* No choice for a candidate of the same or a later rank is better.
LEMMA RankedIsBest ==
  ASSUME NEW mode \in RankingModes, \A c \in Feasible : IsReached(c),
         NEW r \in DOMAIN Ranked(mode), NEW later \in r .. Len(Ranked(mode)),
         NEW s, IsChoice(s, Ranked(mode)[later].candidate)
  PROVE  ~IsLess(Criteria(mode, s), Criteria(mode, Ranked(mode)[r].selection))
  <1> DEFINE n == KeyLength(mode)
             m == CriteriaLength(mode)
  <1>1. n \in Nat /\ m \in Nat /\ m <= n
    BY DEF KeyLength, CriteriaLength, RankingModes
  <1>2. /\ later \in DOMAIN Ranked(mode) /\ r \in 1 .. Len(Ranked(mode))
        /\ Len(Ranked(mode)) \in Nat
    BY RankedIsSorted
  <1>3. PICK x, y : x = Ranked(mode)[r] /\ y = Ranked(mode)[later]
    OBVIOUS
  <1>4. x \in Entries(mode) /\ y \in Entries(mode)
    BY <1>2, <1>3, RankedIsSorted
  <1>5. ASSUME NEW entry \in Entries(mode)
        PROVE  /\ CandidateKey(mode, entry) \in Keys(n) /\ Criteria(mode, entry.selection) \in Keys(m)
               /\ \A i \in 1 .. m : Criteria(mode, entry.selection)[i] = CandidateKey(mode, entry)[i]
    <2>1. PICK c, t : c = entry.candidate /\ t = Select(mode, entry.candidate)
      OBVIOUS
    <2>2. c \in Int /\ IsSelection(t) /\ entry = [candidate |-> c, selection |-> t]
      BY <2>1, EntriesAreReached
    <2>3. entry.selection = t
      BY <2>2
    <2>4. CandidateKey(mode, entry) = CandidateKey(mode, [candidate |-> c, selection |-> t])
      BY <2>2
    <2>5. Criteria(mode, t) \in Keys(m)
      BY <2>2, CriteriaAreKeys
    <2> QED
      BY <2>1, <2>2, <2>3, <2>4, <2>5, CandidateKeyIsKey
  <1>6. ~IsLess(CandidateKey(mode, y), CandidateKey(mode, x))
    <2>1. CASE later = r
      BY <1>1, <1>3, <1>4, <1>5, <2>1, LessIsIrreflexive
    <2>2. CASE later # r
      <3>1. r < later
        BY <1>2, <2>2
      <3>2. IsLess(CandidateKey(mode, x), CandidateKey(mode, y))
        BY <1>2, <1>3, <3>1, RankedIsSorted
      <3>3. CandidateKey(mode, x) \in Keys(n) /\ CandidateKey(mode, y) \in Keys(n)
        BY <1>4, <1>5
      <3> HIDE DEF n
      <3> QED
        BY <1>1, <3>2, <3>3, LessIsTransitive, LessIsIrreflexive
    <2> QED
      BY <2>1, <2>2
  <1>7. ~IsLess(Criteria(mode, y.selection), Criteria(mode, x.selection))
    <2> HIDE DEF n, m
    <2> QED
      BY <1>1, <1>4, <1>5, <1>6, PrefixIsNotLess
  <1>8. ~IsLess(Criteria(mode, s), Criteria(mode, y.selection))
    <2>1. IsReached(y.candidate) /\ y.selection = Select(mode, y.candidate)
      BY <1>4, EntriesAreReached
    <2>2. IsChoice(s, y.candidate)
      BY <1>3
    <2> QED
      BY <2>1, <2>2, SelectIsFirst
  <1>9. Criteria(mode, s) \in Keys(m)
    <2>1. IsReached(y.candidate) /\ IsChoice(s, y.candidate)
      BY <1>3, <1>4, EntriesAreReached
    <2>2. IsSelection(s)
      BY <2>1, SelectionsSelect DEF IsChoice
    <2> QED
      BY <2>2, CriteriaAreKeys
  <1>10. ~IsLess(Criteria(mode, s), Criteria(mode, x.selection))
    <2>1. Criteria(mode, x.selection) \in Keys(m) /\ Criteria(mode, y.selection) \in Keys(m)
      BY <1>4, <1>5
    <2> HIDE DEF m
    <2> QED
      BY <1>1, <1>7, <1>8, <1>9, <2>1, NotLessIsTransitive
  <1> QED
    BY <1>3, <1>10

-----------------------------------------------------------------------------
(* What the ranking is given.                                               *)

RowsAreValid == \A work \in DOMAIN routed : \A j \in routed[work] : IsValidOption(j)

RowsAreJourneys == \A work \in DOMAIN routed : AreJourneys(routed[work], work[2])

\* The ranking comes last.
AllIsRouted == rankings # NotRanked => DOMAIN routed = Work

RankingInv ==
  /\ RankingTypeOK
  /\ RowsAreValid
  /\ RowsAreJourneys
  /\ AllIsRouted
  /\ RankingNeverRejects
  /\ NoBetterMeeting

\* What normalisation lets pass, the ranking takes: the two look at an itinerary
\* each in its own way.
LEMMA PersistedJourneysAreValid ==
  ASSUME NEW work, NEW answer \in Answers, NEW j \in JourneyRows(work, answer)
  PROVE  IsValidOption(j)
  <1>1. PICK i \in DOMAIN answer :
          /\ ~IsMalformed(answer[i])
          /\ j.departureAt = answer[i].start /\ j.arrivalAt = answer[i].end
          /\ j.durationMinutes = Minutes(answer[i].seconds)
          /\ j.transfers = answer[i].transfers
    <2> DEFINE normal == Normalize(answer)
    <2>1. DOMAIN normal = {n \in DOMAIN answer : ~IsMalformed(answer[n])}
      BY DEF Normalize
    <2>2. \A n \in DOMAIN normal : normal[n] = NormalizeOne(answer[n])
      BY DEF Normalize
    <2> HIDE DEF normal
    <2>3. PICK i \in DOMAIN normal :
            j = [participantId |-> work[2], journeyId |-> i,
                 departureAt |-> normal[i].departureAt, arrivalAt |-> normal[i].arrivalAt,
                 durationMinutes |-> normal[i].durationMinutes,
                 transfers |-> normal[i].transfers]
      BY DEF JourneyRows, normal
    <2>4. /\ normal[i].departureAt = answer[i].start /\ normal[i].arrivalAt = answer[i].end
          /\ normal[i].durationMinutes = Minutes(answer[i].seconds)
          /\ normal[i].transfers = answer[i].transfers
      BY <2>2, <2>3 DEF NormalizeOne
    <2> QED
      BY <2>1, <2>3, <2>4
  <1>2. IsItinerary(answer[i])
    BY <1>1, JourneyRankingAssumption
  <1>3. Minutes(answer[i].seconds) \in Nat
    BY <1>2 DEF Minutes, IsItinerary
  <1> QED
    BY <1>1, <1>2, <1>3 DEF IsValidOption, IsMalformed, IsItinerary

\* The rows of an answer are told apart by their ids, and belong to the
\* participant whose work was routed.
LEMMA PersistedJourneysAreJourneys ==
  ASSUME NEW work, NEW answer \in Answers
  PROVE  AreJourneys(JourneyRows(work, answer), work[2])
  <1> DEFINE normal == Normalize(answer)
             used == {n \in DOMAIN normal : IsUsable(normal[n])}
             row == [i \in used |->
                       [participantId |-> work[2], journeyId |-> i,
                        departureAt |-> normal[i].departureAt, arrivalAt |-> normal[i].arrivalAt,
                        durationMinutes |-> normal[i].durationMinutes,
                        transfers |-> normal[i].transfers]]
  <1>1. DOMAIN normal \in SUBSET (DOMAIN answer)
    BY DEF Normalize
  <1>2. Len(answer) \in Nat /\ DOMAIN answer = 1 .. Len(answer)
    BY JourneyRankingAssumption
  <1>3. IsFiniteSet(used)
    <2>1. IsFiniteSet(1 .. Len(answer))
      BY <1>2, FS_Interval
    <2>2. used \in SUBSET (1 .. Len(answer))
      BY <1>1, <1>2
    <2> QED
      BY <2>1, <2>2, FS_Subset
  <1>4. JourneyRows(work, answer) = {row[i] : i \in used}
    BY DEF JourneyRows
  <1>5. row \in Surjection(used, JourneyRows(work, answer))
    BY <1>4 DEF Surjection
  <1>6. IsFiniteSet(JourneyRows(work, answer))
    <2> HIDE DEF used, row
    <2> QED
      BY <1>3, <1>5, FS_Surjection
  <1>7. ASSUME NEW i \in used
        PROVE  IsJourney(row[i], work[2]) /\ row[i].journeyId = i
    <2>1. i \in DOMAIN normal /\ i \in DOMAIN answer /\ i \in Int
      BY <1>1, <1>2
    <2>2. normal[i] = NormalizeOne(answer[i])
      BY <2>1 DEF Normalize
    <2>3. /\ normal[i].departureAt = answer[i].start /\ normal[i].arrivalAt = answer[i].end
          /\ normal[i].durationMinutes = Minutes(answer[i].seconds)
          /\ normal[i].transfers = answer[i].transfers
      BY <2>2 DEF NormalizeOne
    <2>4. IsItinerary(answer[i])
      BY <2>1, JourneyRankingAssumption
    <2>5. Minutes(answer[i].seconds) \in Nat
      BY <2>4 DEF Minutes, IsItinerary
    <2>6. /\ row[i].participantId = work[2] /\ row[i].journeyId = i
          /\ row[i].departureAt = normal[i].departureAt /\ row[i].arrivalAt = normal[i].arrivalAt
          /\ row[i].durationMinutes = normal[i].durationMinutes
          /\ row[i].transfers = normal[i].transfers
      <3> HIDE DEF used, normal
      <3> QED
        OBVIOUS
    <2> HIDE DEF row, normal, used
    <2> QED
      BY <2>1, <2>3, <2>4, <2>5, <2>6 DEF IsJourney, IsItinerary
  <1> HIDE DEF row, used
  <1>8. \A j \in JourneyRows(work, answer) : IsJourney(j, work[2])
    BY <1>4, <1>7
  <1>9. \A j, k \in JourneyRows(work, answer) : j.journeyId = k.journeyId => j = k
    BY <1>4, <1>7
  <1> QED
    BY <1>6, <1>8, <1>9 DEF AreJourneys

\* Once all work is routed, everybody reaches a candidate that is feasible.
LEMMA FeasibleIsReached ==
  ASSUME RowsAreJourneys, DOMAIN routed = Work, NEW c \in Feasible
  PROVE  IsReached(c)
  <1> SUFFICES ASSUME NEW p \in Participants
               PROVE  AreJourneys(JourneysOf(c, p), p) /\ JourneysOf(c, p) # {}
    BY DEF IsReached
  <1>1. <<c, p>> \in DOMAIN routed /\ <<c, p>>[2] = p
    BY DEF Feasible, Work
  <1>2. AreJourneys(routed[<<c, p>>], p)
    BY <1>1 DEF RowsAreJourneys
  <1> QED
    BY <1>2 DEF JourneysOf, Feasible

\* An answer that arrives leaves only journeys that can be ranked.
LEMMA AnswersAreRankable ==
  ASSUME RankingInv, NEW work \in Work, NEW answer \in Answers, AnswerArrives(work, answer)
  PROVE  RankingInv'
  <1>1. DOMAIN routed' = DOMAIN routed \cup {work}
    BY DEF AnswerArrives
  <1>2. ASSUME NEW w \in DOMAIN routed', NEW j \in routed'[w]
        PROVE  IsValidOption(j)
    BY <1>1, <1>2, PersistedJourneysAreValid DEF AnswerArrives, RankingInv, RowsAreValid
  <1>3. RowsAreValid'
    BY <1>2 DEF RowsAreValid
  <1>4. RowsAreJourneys'
    <2>1. ASSUME NEW w \in DOMAIN routed' PROVE AreJourneys(routed'[w], w[2])
      BY <1>1, PersistedJourneysAreJourneys DEF AnswerArrives, RankingInv, RowsAreJourneys
    <2> QED
      BY <2>1 DEF RowsAreJourneys
  <1>5. rankings = NotRanked /\ rankings' = NotRanked
    BY DEF AnswerArrives, RankingInv, AllIsRouted
  <1>6. AllIsRouted' /\ NoBetterMeeting'
    BY <1>5 DEF AllIsRouted, NoBetterMeeting, NotRanked
  <1> QED
    BY <1>1, <1>3, <1>4, <1>6
    DEF RankingInv, RankingTypeOK, RankingNeverRejects, AnswerArrives

\* The ranking itself, once all work has ended, finds nothing to reject.
LEMMA RankingSucceeds ==
  ASSUME RankingInv, RankAll
  PROVE  RankingInv'
  <1>1. ASSUME NEW c \in Candidates, NEW p \in Participants, NEW j \in JourneysOf(c, p)
        PROVE  IsValidOption(j)
    BY <1>1 DEF RankAll, Work, JourneysOf, RankingInv, RowsAreValid
  <1>2. IsRankable
    BY <1>1 DEF IsRankable, Feasible
  <1>3. /\ rankings' = [outcome |-> "ranked", modes |-> [mode \in RankingModes |-> Ranked(mode)]]
        /\ routed' = routed
    BY <1>2 DEF RankAll
  <1>4. rankings'.outcome = "ranked" /\ Rejected.outcome = "rejected"
    BY <1>3 DEF Rejected
  <1>5. \A c \in Feasible : IsReached(c)
    BY FeasibleIsReached DEF RankAll, RankingInv
  <1>6. PICK given : given = [mode \in RankingModes |-> Ranked(mode)]
    OBVIOUS
  <1>7. rankings'.modes = given
    BY <1>3, <1>6
  <1>8. ASSUME NEW mode \in RankingModes, NEW r \in DOMAIN given[mode],
               NEW later \in r .. Len(given[mode]),
               NEW s \in Selections(given[mode][later].candidate)
        PROVE  ~IsLess(Criteria(mode, s), Criteria(mode, given[mode][r].selection))
    <2>1. given[mode] = Ranked(mode)
      BY <1>6
    <2>2. IsChoice(s, Ranked(mode)[later].candidate)
      BY <2>1 DEF Selections, IsChoice
    <2> QED
      BY <1>5, <2>1, <2>2, RankedIsBest
  <1>9. \A c : Selections(c)' = Selections(c)
    BY <1>3 DEF Selections, JourneysOf
  <1>10. NoBetterMeeting'
    BY <1>7, <1>8, <1>9 DEF NoBetterMeeting
  <1> QED
    BY <1>3, <1>4, <1>10
    DEF RankingInv, RankingTypeOK, RowsAreValid, RowsAreJourneys, AllIsRouted, RankingNeverRejects,
        RankAll

\* Nothing is rejected while the ranking rests.
LEMMA RankingStart == RankingInit => RankingInv
  <1>1. NotRanked.outcome = "none" /\ Rejected.outcome = "rejected" /\ DOMAIN <<>> = {}
    BY DEF NotRanked, Rejected
  <1> QED
    BY <1>1
    DEF RankingInit, RankingInv, RankingTypeOK, RowsAreValid, RowsAreJourneys, AllIsRouted,
        RankingNeverRejects, NoBetterMeeting

\* Every step of the ranking keeps what it is given fit to rank.
LEMMA RankingStep == RankingInv /\ [RankingNext]_rankingVars => RankingInv'
  <1> SUFFICES ASSUME RankingInv, [RankingNext]_rankingVars PROVE RankingInv'
    OBVIOUS
  <1>1. CASE RankingNext
    BY <1>1, AnswersAreRankable, RankingSucceeds DEF RankingNext
  <1>2. CASE UNCHANGED rankingVars
    <2>1. routed' = routed /\ rankings' = rankings
      BY <1>2 DEF rankingVars
    <2>2. \A c : Selections(c)' = Selections(c)
      BY <2>1 DEF Selections, JourneysOf
    <2>3. NoBetterMeeting'
      BY <2>1, <2>2 DEF RankingInv, NoBetterMeeting
    <2> QED
      BY <2>1, <2>3
      DEF RankingInv, RankingTypeOK, RowsAreValid, RowsAreJourneys, AllIsRouted, RankingNeverRejects
  <1> QED
    BY <1>1, <1>2

\* Whatever the provider answers, the ranking rejects no journey that routing has
\* persisted (motis-normalize.ts:287-307, journey-selection.ts:34-50).
THEOREM RankingTakesWhatIsRouted == RankingSpec => []RankingNeverRejects
  <1>1. RankingInv => RankingNeverRejects
    BY DEF RankingInv
  <1> QED
    BY <1>1, RankingStart, RankingStep, PTL DEF RankingSpec

\* The greedy choices miss no better one: whatever the provider answers, no
\* choice of journeys, to a candidate of the same or a later rank, is better by
\* the criteria of the mode (journey-selection.ts:107-335).
THEOREM RankingIsOptimal == RankingSpec => []NoBetterMeeting
  <1>1. RankingInv => NoBetterMeeting
    BY DEF RankingInv
  <1> QED
    BY <1>1, RankingStart, RankingStep, PTL DEF RankingSpec
=============================================================================
