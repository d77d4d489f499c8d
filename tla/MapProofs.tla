------------------------------- MODULE MapProofs -------------------------------
(***************************************************************************)
(* Proofs about what the map is given, for any stations, journeys, cities   *)
(* and travelers: the stations that matter are among those that are sent,   *)
(* one name is shown at each coordinate, and focusing a traveler moves      *)
(* nothing.  What is said first of sequences, other proofs use too.         *)
(***************************************************************************)
EXTENDS MapStops, MapScene, FiniteSetTheorems, FunctionTheorems, SequenceTheorems,
        WellFoundedInduction, TLAPS

-----------------------------------------------------------------------------
(* Arrangements.                                                            *)

\* A set of natural numbers that is not empty has a least one.
LEMMA LeastNumber ==
  ASSUME NEW S \in SUBSET Nat, S # {}
  PROVE  \E m \in S : \A x \in S : m <= x
  <1>1. PICK m \in S : \A x \in S : ~(<<x, m>> \in OpToRel(<, Nat))
    BY NatLessThanWellFounded, WFMin
  <1>2. \A x \in S : ~(x < m)
    BY <1>1 DEF OpToRel
  <1> QED
    BY <1>2

\* What comes first, as a set of pairs, of all pairs one or the other.
IsOrder(R, S) ==
  /\ \A x \in S : <<x, x>> \notin R
  /\ \A x, y, z \in S : <<x, y>> \in R /\ <<y, z>> \in R => <<x, z>> \in R
  /\ \A x, y \in S : x # y => <<x, y>> \in R \/ <<y, x>> \in R

\* What comes before x.
Earlier(S, R, x) == {y \in S : <<y, x>> \in R}

\* The elements of S, each behind as many as come before it.
Standing(S, R) ==
  [n \in 1 .. Cardinality(S) |-> CHOOSE x \in S : Cardinality(Earlier(S, R, x)) = n - 1]

\* All of S in the order R.
IsArrangement(f, S, R) ==
  /\ Cardinality(S) \in Nat
  /\ f \in [1 .. Cardinality(S) -> S]
  /\ \A x \in S : \E i \in 1 .. Cardinality(S) : f[i] = x
  /\ \A i, j \in 1 .. Cardinality(S) : i < j => <<f[i], f[j]>> \in R

\* What comes before has fewer before it.
LEMMA EarlierGrows ==
  ASSUME NEW S, IsFiniteSet(S), NEW R, IsOrder(R, S),
         NEW x \in S, NEW y \in S, <<x, y>> \in R
  PROVE  /\ Cardinality(Earlier(S, R, x)) \in Nat /\ Cardinality(Earlier(S, R, y)) \in Nat
         /\ Cardinality(Earlier(S, R, x)) < Cardinality(Earlier(S, R, y))
  <1>1. Earlier(S, R, y) \in SUBSET S
    BY DEF Earlier
  <1>2. IsFiniteSet(Earlier(S, R, y)) /\ Cardinality(Earlier(S, R, y)) \in Nat
    BY <1>1, FS_Subset, FS_CardinalityType
  <1>3. Earlier(S, R, x) \in SUBSET Earlier(S, R, y)
    BY DEF Earlier, IsOrder
  <1>4. x \in Earlier(S, R, y) /\ x \notin Earlier(S, R, x)
    BY DEF Earlier, IsOrder
  <1>5. /\ IsFiniteSet(Earlier(S, R, x)) /\ Cardinality(Earlier(S, R, x)) \in Nat
        /\ Cardinality(Earlier(S, R, x)) <= Cardinality(Earlier(S, R, y))
        /\ Cardinality(Earlier(S, R, x)) # Cardinality(Earlier(S, R, y))
    BY <1>2, <1>3, <1>4, FS_Subset, FS_CardinalityType
  <1> QED
    BY <1>2, <1>5

\* Every element has a place of its own, and they stand in order.
LEMMA StandingInOrder ==
  ASSUME NEW S, IsFiniteSet(S), NEW R, IsOrder(R, S)
  PROVE  IsArrangement(Standing(S, R), S, R)
  <1> DEFINE size == Cardinality(S)
             f == Standing(S, R)
             rank == [x \in S |-> Cardinality(Earlier(S, R, x))]
  <1>1. size \in Nat
    BY FS_CardinalityType
  <1>2. rank \in [S -> 0 .. size - 1]
    <2> SUFFICES ASSUME NEW x \in S PROVE Cardinality(Earlier(S, R, x)) \in 0 .. size - 1
      OBVIOUS
    <2>1. IsFiniteSet(S \ {x}) /\ Cardinality(S \ {x}) = size - 1
      BY FS_RemoveElement
    <2>2. Earlier(S, R, x) \in SUBSET (S \ {x})
      BY DEF Earlier, IsOrder
    <2> QED
      BY <1>1, <2>1, <2>2, FS_Subset, FS_CardinalityType
  <1>3. \A x, y \in S : rank[x] = rank[y] => x = y
    <2> SUFFICES ASSUME NEW x \in S, NEW y \in S, rank[x] = rank[y], x # y PROVE FALSE
      OBVIOUS
    <2>1. <<x, y>> \in R \/ <<y, x>> \in R
      BY DEF IsOrder
    <2> QED
      BY <2>1, EarlierGrows
  <1>4. rank \in Injection(S, 0 .. size - 1)
    BY <1>2, <1>3 DEF Injection, IsInjective
  <1>5. IsFiniteSet(0 .. size - 1) /\ Cardinality(0 .. size - 1) = size
    BY <1>1, FS_Interval, SMTT(30)
  <1>6. rank \in Surjection(S, 0 .. size - 1)
    BY <1>4, <1>5, FS_Injection
  <1>7. ASSUME NEW i \in 1 .. size PROVE f[i] \in S /\ rank[f[i]] = i - 1
    <2>1. i - 1 \in 0 .. size - 1
      BY <1>1
    <2>2. \E x \in S : rank[x] = i - 1
      BY <1>6, <2>1 DEF Surjection
    <2>3. f[i] = CHOOSE x \in S : rank[x] = i - 1
      BY DEF Standing
    <2> HIDE DEF f, rank
    <2> QED
      BY <2>2, <2>3
  <1>8. f \in [1 .. size -> S]
    BY <1>7 DEF Standing
  <1> HIDE DEF f
  <1>9. ASSUME NEW x \in S PROVE \E i \in 1 .. size : f[i] = x
    <2>1. rank[x] + 1 \in 1 .. size /\ (rank[x] + 1) - 1 = rank[x]
      BY <1>1, <1>2
    <2>2. f[rank[x] + 1] \in S /\ rank[f[rank[x] + 1]] = rank[x]
      BY <1>7, <2>1
    <2> QED
      BY <1>3, <2>1, <2>2
  <1>10. ASSUME NEW i \in 1 .. size, NEW j \in 1 .. size, i < j
         PROVE  <<f[i], f[j]>> \in R
    <2>1. /\ f[i] \in S /\ f[j] \in S /\ f[i] # f[j]
          /\ rank[f[i]] < rank[f[j]] /\ rank[f[i]] \in Int /\ rank[f[j]] \in Int
      <3> HIDE DEF rank, size
      <3>1. f[i] \in S /\ f[j] \in S /\ rank[f[i]] = i - 1 /\ rank[f[j]] = j - 1
        BY <1>7
      <3>2. i \in Int /\ j \in Int /\ i - 1 < j - 1
        BY <1>1, <1>10
      <3> QED
        BY <3>1, <3>2
    <2>2. <<f[j], f[i]>> \notin R
      BY <2>1, EarlierGrows
    <2> QED
      BY <2>1, <2>2 DEF IsOrder
  <1> QED
    BY <1>1, <1>8, <1>9, <1>10 DEF IsArrangement, f

\* p numbers the places of at in their order.
IsNumbering(p, at) ==
  /\ Cardinality(at) \in Nat
  /\ p \in [1 .. Cardinality(at) -> at]
  /\ \A x \in at : \E i \in 1 .. Cardinality(at) : p[i] = x
  /\ \A i, j \in 1 .. Cardinality(at) : i < j => p[i] < p[j]

\* Places numbers finitely many positions, without gap, repetition or exchange.
LEMMA PlacesAreNumbered ==
  ASSUME NEW n \in Nat, NEW at \in SUBSET (1 .. n)
  PROVE  IsNumbering(Places(at), at)
  <1> DEFINE R == {e \in at \X at : e[1] < e[2]}
  <1>1. IsFiniteSet(at)
    <2>1. IsFiniteSet(1 .. n)
      BY FS_Interval
    <2> QED
      BY <2>1, FS_Subset
  <1>2. \A i, j \in at : <<i, j>> \in R <=> i < j
    OBVIOUS
  <1>3. IsOrder(R, at)
    <2>1. \A i \in at : i \in Int
      OBVIOUS
    <2> HIDE DEF R
    <2> QED
      BY <1>2, <2>1 DEF IsOrder
  <1>4. Places(at) = Standing(at, R)
    <2>1. Places(at) = [i \in 1 .. Cardinality(at) |->
                         CHOOSE x \in at : Cardinality({y \in at : y < x}) = i - 1]
      BY DEF Places, Arranged
    <2>2. \A x \in at : Earlier(at, R, x) = {y \in at : y < x}
      BY <1>2 DEF Earlier
    <2> HIDE DEF R
    <2> QED
      BY <2>1, <2>2 DEF Standing
  <1>5. IsArrangement(Standing(at, R), at, R)
    <2> HIDE DEF R
    <2> QED
      BY <1>1, <1>3, StandingInOrder
  <1> HIDE DEF R
  <1> QED
    BY <1>2, <1>4, <1>5 DEF IsArrangement, IsNumbering

\* What stands at some places of a sequence.
LEMMA AtPlacesIsSequence ==
  ASSUME NEW T, NEW s \in Seq(T), NEW at \in SUBSET (DOMAIN s)
  PROVE  /\ IsNumbering(Places(at), at)
         /\ AtPlaces(s, at) \in Seq(T) /\ Len(AtPlaces(s, at)) = Cardinality(at)
         /\ DOMAIN AtPlaces(s, at) = 1 .. Cardinality(at)
         /\ \A n \in 1 .. Cardinality(at) :
              /\ Places(at)[n] \in at
              /\ AtPlaces(s, at)[n] = s[Places(at)[n]]
  <1>1. Len(s) \in Nat /\ DOMAIN s = 1 .. Len(s)
    OBVIOUS
  <1>2. IsNumbering(Places(at), at)
    BY <1>1, PlacesAreNumbered
  <1>3. Cardinality(at) \in Nat /\ \A n \in 1 .. Cardinality(at) : Places(at)[n] \in at
    BY <1>2 DEF IsNumbering
  <1>4. AtPlaces(s, at) = [n \in 1 .. Cardinality(at) |-> s[Places(at)[n]]]
    BY DEF AtPlaces
  <1>5. \A n \in 1 .. Cardinality(at) : s[Places(at)[n]] \in T
    BY <1>1, <1>3, ElementOfSeq
  <1>6. AtPlaces(s, at) \in [1 .. Cardinality(at) -> T]
    BY <1>4, <1>5
  <1> QED
    BY <1>2, <1>3, <1>4, <1>6

-----------------------------------------------------------------------------
(* Sequences of sequences, put together.                                    *)

Flat(seqs) ==
  LET flat[k \in 0 .. Len(seqs)] == IF k = 0 THEN << >> ELSE flat[k - 1] \o seqs[k]
  IN  flat

\* One turn of the putting together of sequences.
FlatStep(seqs, last, k) == last \o seqs[k]

FlatStart(seqs) == << >>

\* The putting together of sequences up to the n-th turn.
IsFlat(f, seqs, n) ==
  f = [k \in 0 .. n |-> IF k = 0 THEN FlatStart(seqs) ELSE FlatStep(seqs, f[k - 1], k)]

\* It goes on by one turn.
LEMMA FlatGoesOn ==
  ASSUME NEW seqs, NEW n \in Nat, n # 0, NEW g, IsFlat(g, seqs, n - 1)
  PROVE  \E h : IsFlat(h, seqs, n)
  <1> DEFINE h == [k \in 0 .. n |-> IF k = 0 THEN FlatStart(seqs) ELSE FlatStep(seqs, g[k - 1], k)]
  <1>1. ASSUME NEW k \in 0 .. n
        PROVE  h[k] = IF k = 0 THEN FlatStart(seqs) ELSE FlatStep(seqs, h[k - 1], k)
    <2>1. CASE k # 0
      <3>1. k - 1 \in 0 .. n - 1 /\ k - 1 \in 0 .. n
        BY <2>1
      <3>2. g[k - 1] = IF k - 1 = 0 THEN FlatStart(seqs) ELSE FlatStep(seqs, g[k - 1 - 1], k - 1)
        BY <3>1 DEF IsFlat
      <3>3. h[k - 1] = IF k - 1 = 0 THEN FlatStart(seqs) ELSE FlatStep(seqs, g[k - 1 - 1], k - 1)
        BY <3>1
      <3>4. h[k] = FlatStep(seqs, g[k - 1], k)
        BY <2>1
      <3> HIDE DEF h
      <3> QED
        BY <2>1, <3>2, <3>3, <3>4
    <2>2. CASE k = 0
      BY <2>2
    <2> QED
      BY <2>1, <2>2
  <1>2. h = [k \in 0 .. n |-> h[k]]
    OBVIOUS
  <1>3. h = [k \in 0 .. n |-> IF k = 0 THEN FlatStart(seqs) ELSE FlatStep(seqs, h[k - 1], k)]
    <2> HIDE DEF h
    <2> QED
      BY <1>1, <1>2
  <1> QED
    BY <1>3 DEF IsFlat

\* So it reaches the last one.
LEMMA FlatExists ==
  ASSUME NEW seqs, NEW n \in Nat
  PROVE  \E f : IsFlat(f, seqs, n)
  <1> DEFINE without == {k \in Nat : ~\E g : IsFlat(g, seqs, k)}
  <1>1. ASSUME without # {} PROVE FALSE
    <2>0. without \in SUBSET Nat
      OBVIOUS
    <2>1. PICK k \in without : \A m \in without : k <= m
      <3> HIDE DEF without
      <3> QED
        BY <1>1, <2>0, LeastNumber
    <2>2. k # 0
      <3>1. IsFlat([i \in 0 .. 0 |-> FlatStart(seqs)], seqs, 0)
        BY DEF IsFlat
      <3> QED
        BY <3>1
    <2>3. k \in Nat /\ k - 1 \in Nat
      BY <2>2
    <2>4. k - 1 \notin without
      <3> HIDE DEF without
      <3> QED
        BY <2>1, <2>3
    <2>5. PICK g : IsFlat(g, seqs, k - 1)
      BY <2>3, <2>4
    <2> QED
      BY <2>2, <2>3, <2>5, FlatGoesOn
  <1> QED
    BY <1>1

\* What the putting together of sequences computes, turn by turn.
LEMMA FlatTurns ==
  ASSUME NEW seqs, Len(seqs) \in Nat
  PROVE  /\ Flat(seqs)[0] = FlatStart(seqs)
         /\ \A k \in 1 .. Len(seqs) : Flat(seqs)[k] = FlatStep(seqs, Flat(seqs)[k - 1], k)
  <1> DEFINE n == Len(seqs)
  <1>1. \E f : IsFlat(f, seqs, n)
    BY FlatExists
  <1>2. Flat(seqs) = CHOOSE f : IsFlat(f, seqs, n)
    BY DEF Flat, IsFlat, FlatStep, FlatStart
  <1>3. IsFlat(Flat(seqs), seqs, n)
    BY <1>1, <1>2
  <1> QED
    BY <1>3 DEF IsFlat

\* g tells what the first sequences are together.
IsFlattening(g, seqs, T) ==
  /\ g[0] = << >>
  /\ \A k \in 0 .. Len(seqs) : g[k] \in Seq(T)
  /\ \A k \in 1 .. Len(seqs) : g[k] = g[k - 1] \o seqs[k]

\* Put together, they are what the last turn makes of them.
LEMMA FlattenTurns ==
  ASSUME NEW T, NEW seqs \in Seq(Seq(T))
  PROVE  /\ IsFlattening(Flat(seqs), seqs, T)
         /\ FlattenSeq(seqs) = Flat(seqs)[Len(seqs)]
  <1> DEFINE n == Len(seqs)
             g == Flat(seqs)
  <1>1. n \in Nat /\ DOMAIN seqs = 1 .. n /\ \A k \in 1 .. n : seqs[k] \in Seq(T)
    OBVIOUS
  <1>2. g[0] = << >> /\ \A k \in 1 .. n : g[k] = g[k - 1] \o seqs[k]
    BY <1>1, FlatTurns DEF FlatStart, FlatStep
  <1> HIDE DEF g
  <1> DEFINE wrong == {k \in Nat : k <= n /\ g[k] \notin Seq(T)}
  <1>3. ASSUME wrong # {} PROVE FALSE
    <2>1. PICK k \in wrong : \A m \in wrong : k <= m
      <3>1. wrong \in SUBSET Nat
        OBVIOUS
      <3> HIDE DEF wrong
      <3> QED
        BY <1>3, <3>1, LeastNumber
    <2>2. k # 0 /\ k \in 1 .. n /\ k - 1 \in Nat /\ k - 1 <= n /\ ~(k <= k - 1)
      <3>1. << >> \in Seq(T)
        OBVIOUS
      <3>2. k # 0
        BY <1>2, <3>1
      <3> HIDE DEF n
      <3> QED
        BY <1>1, <3>2
    <2>3. g[k - 1] \in Seq(T)
      BY <2>1, <2>2
    <2>4. g[k] \in Seq(T)
      <3>1. g[k] = g[k - 1] \o seqs[k] /\ seqs[k] \in Seq(T)
        BY <1>1, <1>2, <2>2
      <3> QED
        BY <2>3, <3>1, ConcatProperties
    <2> QED
      BY <2>4
  <1>4. \A k \in 0 .. n : g[k] \in Seq(T)
    BY <1>1, <1>3
  <1>5. FlattenSeq(seqs) = g[n]
    <2>1. CASE n = 0
      BY <1>2, <2>1 DEF FlattenSeq
    <2>2. CASE n # 0
      <3> DEFINE Is(f) == f = [i \in 1 .. n |-> IF i = 1 THEN seqs[i] ELSE f[i - 1] \o seqs[i]]
                 h == [i \in 1 .. n |-> g[i]]
      <3>1. FlattenSeq(seqs) = (CHOOSE f : Is(f))[n]
        BY <2>2 DEF FlattenSeq
      <3>2. Is(h)
        <4>1. ASSUME NEW i \in 1 .. n
              PROVE  h[i] = IF i = 1 THEN seqs[i] ELSE h[i - 1] \o seqs[i]
          <5>1. CASE i = 1
            <6>1. seqs[1] \in Seq(T)
              BY <1>1, <5>1
            <6>2. g[1] = g[0] \o seqs[1]
              <7>1. i - 1 = 0
                BY <5>1
              <7>2. g[i] = g[i - 1] \o seqs[i]
                BY <1>2
              <7> QED
                BY <5>1, <7>1, <7>2
            <6>3. g[1] = seqs[1]
              BY <1>2, <6>1, <6>2
            <6> QED
              BY <5>1, <6>3
          <5>2. CASE i # 1
            <6>1. i - 1 \in 1 .. n
              BY <1>1, <5>2
            <6> QED
              BY <1>2, <5>2, <6>1
          <5> QED
            BY <5>1, <5>2
        <4>2. h = [i \in 1 .. n |-> h[i]]
          OBVIOUS
        <4> HIDE DEF h
        <4> QED
          BY <4>1, <4>2
      <3>3. PICK f : f = CHOOSE x : Is(x)
        OBVIOUS
      <3>4. Is(f)
        <4> HIDE DEF Is
        <4> QED
          BY <3>2, <3>3
      <3>5. \A i \in 1 .. n : f[i] = IF i = 1 THEN seqs[i] ELSE f[i - 1] \o seqs[i]
        BY <3>4
      <3>6. \A i \in 1 .. n : h[i] = IF i = 1 THEN seqs[i] ELSE h[i - 1] \o seqs[i]
        BY <3>2
      <3> HIDE DEF Is, h
      <3> DEFINE other == {i \in Nat : i \in 1 .. n /\ f[i] # h[i]}
      <3>7. ASSUME other # {} PROVE FALSE
        <4>1. PICK i \in other : \A m \in other : i <= m
          <5>1. other \in SUBSET Nat
            OBVIOUS
          <5> HIDE DEF other
          <5> QED
            BY <3>7, <5>1, LeastNumber
        <4>2. i # 1
          BY <3>5, <3>6
        <4>3. i - 1 \in 1 .. n /\ i - 1 \in Nat /\ ~(i <= i - 1)
          BY <1>1, <4>2
        <4>4. f[i - 1] = h[i - 1]
          BY <4>1, <4>3
        <4> QED
          BY <3>5, <3>6, <4>2, <4>4
      <3>8. f[n] = h[n] /\ n \in 1 .. n
        BY <1>1, <2>2, <3>7
      <3> QED
        BY <3>1, <3>3, <3>8 DEF h
    <2> QED
      BY <2>1, <2>2
  <1> QED
    BY <1>2, <1>4, <1>5 DEF IsFlattening, g

\* Together they are a sequence of the same set.
LEMMA FlattenIsSequence ==
  ASSUME NEW T, NEW seqs \in Seq(Seq(T))
  PROVE  FlattenSeq(seqs) \in Seq(T)
  <1>1. Len(seqs) \in 0 .. Len(seqs)
    OBVIOUS
  <1>2. IsFlattening(Flat(seqs), seqs, T) /\ FlattenSeq(seqs) = Flat(seqs)[Len(seqs)]
    BY FlattenTurns
  <1> QED
    BY <1>1, <1>2 DEF IsFlattening

\* Two sequences of the same length, whose items are related one by one.
Alike(s, t, R) == Len(s) = Len(t) /\ \A i \in 1 .. Len(s) : <<s[i], t[i]>> \in R

\* Likeness of two pairs is likeness of what they make together.
LEMMA AlikeTogether ==
  ASSUME NEW T, NEW s \in Seq(T), NEW t \in Seq(T), NEW u \in Seq(T), NEW v \in Seq(T), NEW R,
         Alike(s, t, R), Alike(u, v, R)
  PROVE  Alike(s \o u, t \o v, R)
  <1> DEFINE n == Len(s)
             m == Len(u)
             x == s \o u
             y == t \o v
  <1>1. n \in Nat /\ m \in Nat /\ Len(t) = n /\ Len(v) = m
    BY DEF Alike
  <1>2. /\ Len(x) = n + m /\ Len(y) = n + m
        /\ \A i \in 1 .. n + m : /\ x[i] = IF i <= n THEN s[i] ELSE u[i - n]
                                /\ y[i] = IF i <= n THEN t[i] ELSE v[i - n]
    BY <1>1
  <1>3. /\ \A i \in 1 .. n : <<s[i], t[i]>> \in R
        /\ \A i \in 1 .. m : <<u[i], v[i]>> \in R
    BY DEF Alike
  <1> HIDE DEF n, m, x, y
  <1>4. ASSUME NEW i \in 1 .. n + m PROVE <<x[i], y[i]>> \in R
    <2>1. CASE i <= n
      <3>1. i \in 1 .. n /\ x[i] = s[i] /\ y[i] = t[i]
        BY <1>1, <1>2, <2>1
      <3> QED
        BY <1>3, <3>1
    <2>2. CASE ~(i <= n)
      <3>1. i - n \in 1 .. m /\ x[i] = u[i - n] /\ y[i] = v[i - n]
        BY <1>1, <1>2, <2>2
      <3> QED
        BY <1>3, <3>1
    <2> QED
      BY <2>1, <2>2
  <1> QED
    BY <1>2, <1>4 DEF Alike, x, y

\* Sequences that are alike one by one are alike together.
LEMMA FlattenAlike ==
  ASSUME NEW T, NEW a \in Seq(Seq(T)), NEW b \in Seq(Seq(T)), NEW R,
         Len(a) = Len(b), \A i \in 1 .. Len(a) : Alike(a[i], b[i], R)
  PROVE  Alike(FlattenSeq(a), FlattenSeq(b), R)
  <1> DEFINE n == Len(a)
  <1>1. n \in Nat /\ \A i \in 1 .. n : a[i] \in Seq(T) /\ b[i] \in Seq(T)
    OBVIOUS
  <1>2. PICK f, g : f = Flat(a) /\ g = Flat(b)
    OBVIOUS
  <1>3. /\ IsFlattening(f, a, T) /\ FlattenSeq(a) = f[n]
        /\ IsFlattening(g, b, T) /\ FlattenSeq(b) = g[n]
    BY <1>2, FlattenTurns
  <1>4. /\ f[0] = << >> /\ g[0] = << >>
        /\ \A k \in 0 .. n : f[k] \in Seq(T) /\ g[k] \in Seq(T)
        /\ \A k \in 1 .. n : f[k] = f[k - 1] \o a[k] /\ g[k] = g[k - 1] \o b[k]
    BY <1>3 DEF IsFlattening
  <1> DEFINE wrong == {k \in Nat : k <= n /\ ~Alike(f[k], g[k], R)}
  <1> HIDE DEF n
  <1>5. ASSUME wrong # {} PROVE FALSE
    <2>1. PICK k \in wrong : \A m \in wrong : k <= m
      <3>1. wrong \in SUBSET Nat
        OBVIOUS
      <3> HIDE DEF wrong
      <3> QED
        BY <1>5, <3>1, LeastNumber
    <2>2. k # 0
      BY <1>4 DEF Alike
    <2>3. k \in 1 .. n /\ k - 1 \in 0 .. n /\ k - 1 \in Nat /\ k - 1 <= n /\ ~(k <= k - 1)
      BY <1>1, <2>2
    <2>4. Alike(f[k - 1], g[k - 1], R)
      BY <2>1, <2>3
    <2>5. PICK s, t : s = f[k - 1] /\ t = g[k - 1]
      OBVIOUS
    <2>6. PICK u, v : u = a[k] /\ v = b[k]
      OBVIOUS
    <2>7. s \in Seq(T) /\ t \in Seq(T) /\ u \in Seq(T) /\ v \in Seq(T)
      BY <1>1, <1>4, <2>3, <2>5, <2>6
    <2>8. Alike(s \o u, t \o v, R)
      <3>1. Alike(u, v, R)
        BY <2>3, <2>6 DEF n
      <3> QED
        BY <2>4, <2>5, <2>7, <3>1, AlikeTogether
    <2>9. f[k] = s \o u /\ g[k] = t \o v
      BY <1>4, <2>3, <2>5, <2>6
    <2> QED
      BY <2>8, <2>9
  <1>6. Alike(f[n], g[n], R)
    BY <1>1, <1>5
  <1> QED
    BY <1>3, <1>6

-----------------------------------------------------------------------------
(* The stations of a viewport.                                              *)

PlaceType == [stop : Int, score : Int, kind : Nat]

\* The place that stands for its stop.
TopPlaces(places) == {places[i] : i \in {n \in DOMAIN places : IsTheStop(places, n)}}

\* In the order in which stations are sent.
StationBefore(x, y) ==
  \/ Importance(x) < Importance(y)
  \/ Importance(x) = Importance(y) /\ x.kind < y.kind
  \/ Importance(x) = Importance(y) /\ x.kind = y.kind /\ x.stop < y.stop

\* What the order of the stations compares are numbers.
LEMMA ImportanceIsNumber ==
  ASSUME NEW x, x \in PlaceType
  PROVE  /\ Importance(x) \in 0 .. 2
         /\ x.stop \in Int /\ x.score \in Int /\ x.kind \in Int
  <1>1. x.stop \in Int /\ x.score \in Int /\ x.kind \in Int
    BY DEF PlaceType
  <1>2. x.score >= 2 \/ x.score = 1 \/ x.score < 1
    BY <1>1
  <1> QED
    BY <1>1, <1>2 DEF Importance

\* A higher score makes no less important.
LEMMA ScoreIsImportance ==
  ASSUME NEW x, x \in PlaceType, NEW y, y \in PlaceType, x.score <= y.score
  PROVE  Importance(y) <= Importance(x)
  <1>1. x.score \in Int /\ y.score \in Int
    BY DEF PlaceType
  <1>2. /\ x.score >= 2 \/ x.score = 1 \/ x.score < 1
        /\ y.score >= 2 \/ y.score = 1 \/ y.score < 1
    BY <1>1
  <1> QED
    BY <1>1, <1>2 DEF Importance

\* Every stop has a place that stands for it, of the highest score, and only one.
LEMMA StopsAreChosen ==
  ASSUME NEW places, places \in Seq(PlaceType)
  PROVE  /\ TopPlaces(places) \in SUBSET PlaceType /\ IsFiniteSet(TopPlaces(places))
         /\ \A x, y \in TopPlaces(places) : x.stop = y.stop => x = y
         /\ \A i \in DOMAIN places : \E x \in TopPlaces(places) :
              x.stop = places[i].stop /\ places[i].score <= x.score
  <1>1. Len(places) \in Nat /\ DOMAIN places = 1 .. Len(places)
    OBVIOUS
  <1>2. \A i \in DOMAIN places : places[i] \in PlaceType
    OBVIOUS
  <1>3. \A i \in DOMAIN places : places[i].stop \in Int /\ places[i].score \in Int
    BY <1>2, ImportanceIsNumber
  <1> DEFINE n == Len(places)
             tops == {i \in DOMAIN places : IsTheStop(places, i)}
             top == [i \in tops |-> places[i]]
  <1>4. IsFiniteSet(tops)
    <2>1. IsFiniteSet(1 .. n)
      BY <1>1, FS_Interval
    <2> QED
      BY <1>1, <2>1, FS_Subset
  <1>5. IsFiniteSet(TopPlaces(places))
    <2>1. top \in Surjection(tops, TopPlaces(places))
      BY DEF Surjection, TopPlaces
    <2> HIDE DEF top, tops
    <2> QED
      BY <1>4, <2>1, FS_Surjection
  <1>6. TopPlaces(places) \in SUBSET PlaceType
    BY <1>2 DEF TopPlaces
  <1>7. ASSUME NEW x \in TopPlaces(places), NEW y \in TopPlaces(places), x.stop = y.stop PROVE x = y
    <2>1. PICK i \in DOMAIN places : x = places[i] /\ IsTheStop(places, i)
      BY DEF TopPlaces
    <2>2. PICK j \in DOMAIN places : y = places[j] /\ IsTheStop(places, j)
      BY DEF TopPlaces
    <2>3. /\ places[j].score < places[i].score \/ (places[j].score = places[i].score /\ i <= j)
          /\ places[i].score < places[j].score \/ (places[i].score = places[j].score /\ j <= i)
      BY <1>7, <2>1, <2>2 DEF IsTheStop
    <2>4. i = j
      BY <1>1, <1>3, <2>3
    <2> QED
      BY <2>1, <2>2, <2>4
  <1>8. ASSUME NEW i \in DOMAIN places
        PROVE  \E x \in TopPlaces(places) : x.stop = places[i].stop /\ places[i].score <= x.score
    <2> DEFINE same == {j \in DOMAIN places : places[j].stop = places[i].stop}
               R == {e \in same \X same : \/ places[e[1]].score > places[e[2]].score
                                          \/ places[e[1]].score = places[e[2]].score /\ e[1] < e[2]}
    <2>1. IsFiniteSet(same) /\ i \in same
      <3>1. IsFiniteSet(1 .. n)
        BY <1>1, FS_Interval
      <3> QED
        BY <1>1, <3>1, FS_Subset
    <2>2. \A j, k \in same : <<j, k>> \in R <=> \/ places[j].score > places[k].score
                                                \/ places[j].score = places[k].score /\ j < k
      OBVIOUS
    <2>3. \A j \in same : j \in Int /\ places[j].score \in Int
      BY <1>1, <1>3
    <2> HIDE DEF R
    <2>4. IsOrder(R, same)
      <3> HIDE DEF same
      <3>1. \A j \in same : <<j, j>> \notin R
        BY <2>2, <2>3
      <3>2. \A j, k \in same : j # k => <<j, k>> \in R \/ <<k, j>> \in R
        BY <2>2, <2>3
      <3>3. ASSUME NEW j \in same, NEW k \in same, NEW l \in same, <<j, k>> \in R, <<k, l>> \in R
            PROVE  <<j, l>> \in R
        <4>1. PICK a, b, c : a = places[j].score /\ b = places[k].score /\ c = places[l].score
          OBVIOUS
        <4>2. j \in Int /\ k \in Int /\ l \in Int /\ a \in Int /\ b \in Int /\ c \in Int
          BY <2>3, <4>1
        <4>3. (a > b \/ (a = b /\ j < k)) /\ (b > c \/ (b = c /\ k < l))
          BY <2>2, <3>3, <4>1
        <4>4. a > c \/ (a = c /\ j < l)
          BY <4>2, <4>3
        <4> QED
          BY <2>2, <4>1, <4>4
      <3> QED
        BY <3>1, <3>2, <3>3 DEF IsOrder
    <2>5. PICK first \in same : \A k \in same : k # first => <<first, k>> \in R
      <3> DEFINE f == Standing(same, R)
                 m == Cardinality(same)
      <3>1. IsArrangement(f, same, R)
        <4> HIDE DEF same
        <4> QED
          BY <2>1, <2>4, StandingInOrder
      <3>2. m \in Nat /\ m # 0
        BY <2>1, FS_CardinalityType, FS_EmptySet
      <3> HIDE DEF f, same, m
      <3>3. 1 \in 1 .. m /\ f[1] \in same
        BY <3>1, <3>2 DEF IsArrangement, m
      <3>4. ASSUME NEW k \in same, k # f[1] PROVE <<f[1], k>> \in R
        <4>1. PICK l \in 1 .. m : f[l] = k
          BY <3>1 DEF IsArrangement, m
        <4>2. 1 < l
          BY <3>2, <3>4, <4>1
        <4> QED
          BY <3>1, <3>3, <4>1, <4>2 DEF IsArrangement, m
      <3> QED
        BY <3>3, <3>4
    <2>6. IsTheStop(places, first)
      <3>1. ASSUME NEW j \in DOMAIN places, places[j].stop = places[first].stop
            PROVE  \/ places[j].score < places[first].score
                   \/ places[j].score = places[first].score /\ first <= j
        <4>1. j \in same
          BY <3>1
        <4>2. j = first \/ (\/ places[first].score > places[j].score
                            \/ places[first].score = places[j].score /\ first < j)
          <5> HIDE DEF same
          <5> QED
            BY <2>2, <2>5, <4>1
        <4>3. first \in Int /\ j \in Int /\ places[first].score \in Int /\ places[j].score \in Int
          <5> HIDE DEF same
          <5> QED
            BY <2>3, <4>1
        <4> QED
          BY <4>2, <4>3
      <3> QED
        BY <3>1 DEF IsTheStop
    <2>7. places[first] \in TopPlaces(places) /\ places[first].stop = places[i].stop
      BY <2>6 DEF TopPlaces
    <2>8. places[i].score <= places[first].score
      <3>1. i \in DOMAIN places /\ places[i].stop = places[first].stop
        BY <2>7
      <3>2. places[i].score < places[first].score \/ places[i].score = places[first].score
        BY <2>6, <3>1 DEF IsTheStop
      <3>3. places[i].score \in Int /\ places[first].score \in Int
        BY <1>3
      <3> QED
        BY <3>2, <3>3
    <2> QED
      BY <2>7, <2>8
  <1> QED
    BY <1>5, <1>6, <1>7, <1>8

\* The stations that are found: of each stop the one place that stands for it, the
\* more important ones first.
LEMMA StationsAreArranged ==
  ASSUME NEW places, places \in Seq(PlaceType)
  PROVE  LET f == StationsOf(places)
             m == Cardinality(TopPlaces(places)) IN
         /\ m \in Nat /\ f \in [1 .. m -> TopPlaces(places)]
         /\ \A x \in TopPlaces(places) : \E i \in 1 .. m : f[i] = x
         /\ \A i, j \in 1 .. m : i < j => StationBefore(f[i], f[j])
  <1> DEFINE all == TopPlaces(places)
             R == {e \in all \X all : StationBefore(e[1], e[2])}
  <1>1. /\ all \in SUBSET PlaceType /\ IsFiniteSet(all)
        /\ \A x, y \in all : x.stop = y.stop => x = y
    BY StopsAreChosen
  <1>2. \A x, y \in all : <<x, y>> \in R <=> StationBefore(x, y)
    OBVIOUS
  <1>3. \A x \in all : /\ Importance(x) \in Int
                       /\ x.stop \in Int /\ x.kind \in Int
    <2> SUFFICES ASSUME NEW x \in all PROVE Importance(x) \in Int /\ x.stop \in Int /\ x.kind \in Int
      OBVIOUS
    <2>1. x \in PlaceType
      BY <1>1
    <2>2. Importance(x) \in 0 .. 2 /\ x.stop \in Int /\ x.kind \in Int
      BY <2>1, ImportanceIsNumber
    <2> QED
      BY <2>2
  <1> HIDE DEF R, all
  <1>4. IsOrder(R, all)
    <2>1. \A x \in all : <<x, x>> \notin R
      BY <1>2, <1>3 DEF StationBefore
    <2>2. \A x, y \in all : x # y => <<x, y>> \in R \/ <<y, x>> \in R
      <3> SUFFICES ASSUME NEW x \in all, NEW y \in all, x.stop # y.stop
                   PROVE  StationBefore(x, y) \/ StationBefore(y, x)
        BY <1>1, <1>2
      <3> QED
        BY <1>3 DEF StationBefore
    <2>3. ASSUME NEW x \in all, NEW y \in all, NEW z \in all, <<x, y>> \in R, <<y, z>> \in R
          PROVE  <<x, z>> \in R
      <3>1. StationBefore(x, y) /\ StationBefore(y, z)
        BY <1>2, <2>3
      <3>2. PICK a, b, c : a = Importance(x) /\ b = Importance(y) /\ c = Importance(z)
        OBVIOUS
      <3>3. PICK k, l, m : k = x.kind /\ l = y.kind /\ m = z.kind
        OBVIOUS
      <3>4. PICK s, t, u : s = x.stop /\ t = y.stop /\ u = z.stop
        OBVIOUS
      <3>5. /\ a \in Int /\ b \in Int /\ c \in Int /\ k \in Int /\ l \in Int /\ m \in Int
            /\ s \in Int /\ t \in Int /\ u \in Int
        BY <1>3, <3>2, <3>3, <3>4
      <3>6. /\ a < b \/ (a = b /\ k < l) \/ (a = b /\ k = l /\ s < t)
            /\ b < c \/ (b = c /\ l < m) \/ (b = c /\ l = m /\ t < u)
        BY <3>1, <3>2, <3>3, <3>4 DEF StationBefore
      <3>7. a < c \/ (a = c /\ k < m) \/ (a = c /\ k = m /\ s < u)
        BY <3>5, <3>6
      <3>8. StationBefore(x, z)
        BY <3>2, <3>3, <3>4, <3>7 DEF StationBefore
      <3> QED
        BY <1>2, <3>8
    <2> QED
      BY <2>1, <2>2, <2>3 DEF IsOrder
  <1>5. StationsOf(places) = Standing(all, R)
    <2>1. StationsOf(places) = [i \in 1 .. Cardinality(all) |->
             CHOOSE x \in all : Cardinality({y \in all : StationBefore(y, x)}) = i - 1]
      BY DEF StationsOf, Arranged, StationBefore, TopPlaces, all
    <2>2. \A x \in all : Earlier(all, R, x) = {y \in all : StationBefore(y, x)}
      BY <1>2 DEF Earlier
    <2> QED
      BY <2>1, <2>2 DEF Standing
  <1>6. IsArrangement(Standing(all, R), all, R)
    BY <1>1, <1>4, StandingInOrder
  <1> QED
    BY <1>2, <1>5, <1>6 DEF IsArrangement, all

\* t holds what f has at the places q, and nothing that is left out is more
\* important.
IsCut(t, f, m, k, q) ==
  /\ k \in Nat /\ q \in [1 .. k -> 1 .. m] /\ Len(t) = k /\ DOMAIN t = 1 .. k
  /\ \A n \in 1 .. k : t[n] = f[q[n]]
  /\ \A i, j \in 1 .. k : i < j => q[i] < q[j]
  /\ \A p \in 1 .. m : (\A n \in 1 .. k : q[n] # p) =>
       \A n \in 1 .. k : Importance(f[q[n]]) <= Importance(f[p])

\* What is cut off of stations in the order of their importance.
LEMMA TruncatedIsCut ==
  ASSUME NEW m \in Nat, NEW all \in SUBSET PlaceType, NEW f \in [1 .. m -> all],
         \A i, j \in 1 .. m : i < j => Importance(f[i]) <= Importance(f[j])
  PROVE  \E k, q : IsCut(Truncated(f), f, m, k, q)
  <1>1. f \in Seq(all) /\ Len(f) = m /\ DOMAIN f = 1 .. m
    OBVIOUS
  <1>2. SoftLimit \in Nat /\ SoftLimit > 0
    BY MapStopsAssumption
  <1>3. \A i \in 1 .. m : Importance(f[i]) \in Int
    <2> SUFFICES ASSUME NEW i \in 1 .. m PROVE Importance(f[i]) \in Int
      OBVIOUS
    <2>1. Importance(f[i]) \in 0 .. 2
      BY ImportanceIsNumber
    <2> QED
      BY <2>1
  <1> DEFINE at == {i \in DOMAIN f : Importance(f[i]) < 2}
             preferred == AtPlaces(f, at)
             source == IF preferred = << >> THEN f ELSE preferred
  <1>4. Truncated(f) = IF m <= SoftLimit THEN f
                       ELSE SubSeq(source, 1, IF Len(source) < SoftLimit THEN Len(source) ELSE SoftLimit)
    BY <1>1 DEF Truncated, Where
  <1>5. CASE m <= SoftLimit
    <2> DEFINE q == [n \in 1 .. m |-> n]
    <2>1. Truncated(f) = f
      BY <1>4, <1>5
    <2>2. q \in [1 .. m -> 1 .. m] /\ \A n \in 1 .. m : q[n] = n
      OBVIOUS
    <2> HIDE DEF q
    <2>3. IsCut(f, f, m, m, q)
      BY <1>1, <2>2 DEF IsCut
    <2> QED
      BY <2>1, <2>3
  <1>6. CASE ~(m <= SoftLimit) /\ preferred = << >>
    <2> DEFINE k == SoftLimit
               q == [n \in 1 .. k |-> n]
               t == SubSeq(f, 1, k)
    <2>1. source = f /\ ~(Len(f) < SoftLimit)
      BY <1>1, <1>2, <1>6
    <2>2. Truncated(f) = t
      BY <1>1, <1>2, <1>4, <1>6, <2>1
    <2>3. k \in 1 .. m
      BY <1>2, <1>6
    <2>4. t \in Seq(all) /\ Len(t) = k /\ \A n \in 1 .. k : t[n] = f[n]
      BY <1>1, <2>3
    <2>5. q \in [1 .. k -> 1 .. m] /\ \A n \in 1 .. k : q[n] = n
      BY <2>3
    <2> HIDE DEF q, t
    <2>6. ASSUME NEW p \in 1 .. m, \A n \in 1 .. k : q[n] # p, NEW n \in 1 .. k
          PROVE  Importance(f[q[n]]) <= Importance(f[p])
      <3>1. p \notin 1 .. k
        BY <2>5, <2>6
      <3>2. n \in 1 .. m /\ n < p
        BY <2>3, <3>1
      <3> QED
        BY <2>5, <3>2
    <2>7. IsCut(t, f, m, k, q)
      BY <2>3, <2>4, <2>5, <2>6 DEF IsCut
    <2> QED
      BY <2>2, <2>7
  <1>7. CASE ~(m <= SoftLimit) /\ preferred # << >>
    <2> DEFINE c == Cardinality(at)
               pl == Places(at)
               k == IF c < SoftLimit THEN c ELSE SoftLimit
               q == [n \in 1 .. k |-> pl[n]]
               t == SubSeq(preferred, 1, k)
    <2>1. /\ IsNumbering(pl, at) /\ preferred \in Seq(all) /\ Len(preferred) = c
          /\ \A n \in 1 .. c : pl[n] \in at /\ preferred[n] = f[pl[n]]
      <3>1. at \in SUBSET (DOMAIN f)
        OBVIOUS
      <3> HIDE DEF at
      <3> QED
        BY <1>1, <3>1, AtPlacesIsSequence
    <2>2. Truncated(f) = t
      <3> HIDE DEF preferred
      <3> QED
        BY <1>4, <1>7, <2>1
    <2>3. c \in Nat /\ at \in SUBSET (1 .. m) /\ \A i \in at : Importance(f[i]) < 2
      BY <1>1, <2>1 DEF IsNumbering
    <2> HIDE DEF at, preferred, c, pl
    <2>4. k \in Nat /\ k <= c
      BY <1>2, <2>3
    <2>5. t \in Seq(all) /\ Len(t) = k /\ \A n \in 1 .. k : t[n] = preferred[n]
      BY <2>1, <2>3, <2>4
    <2> HIDE DEF k, t
    <2>6. \A n \in 1 .. k : n \in 1 .. c
      BY <2>3, <2>4
    <2>7. q \in [1 .. k -> 1 .. m] /\ \A n \in 1 .. k : q[n] = pl[n]
      BY <2>1, <2>3, <2>6
    <2> HIDE DEF q
    <2>8. \A i, j \in 1 .. k : i < j => q[i] < q[j]
      BY <2>1, <2>6, <2>7 DEF IsNumbering, c
    <2>9. \A n \in 1 .. k : t[n] = f[q[n]]
      BY <2>1, <2>5, <2>6, <2>7
    <2>10. ASSUME NEW p \in 1 .. m, \A n \in 1 .. k : q[n] # p, NEW n \in 1 .. k
           PROVE  Importance(f[q[n]]) <= Importance(f[p])
      <3>1. q[n] \in at /\ q[n] \in 1 .. m
        BY <2>1, <2>6, <2>7
      <3>2. CASE p \in at
        <4>1. PICK i \in 1 .. c : pl[i] = p
          BY <2>1, <3>2 DEF IsNumbering, c
        <4>2. i \notin 1 .. k
          BY <2>7, <2>10, <4>1
        <4>3. n < i /\ n \in 1 .. c
          BY <2>3, <2>4, <2>6, <4>2
        <4>4. q[n] < p
          BY <2>1, <2>7, <4>1, <4>3 DEF IsNumbering, c
        <4> QED
          BY <3>1, <4>4
      <3>3. CASE p \notin at
        <4>1. ~(Importance(f[p]) < 2)
          BY <1>1, <3>3 DEF at
        <4>2. Importance(f[q[n]]) < 2
          BY <2>3, <3>1
        <4>3. Importance(f[p]) \in Int /\ Importance(f[q[n]]) \in Int
          BY <1>3, <3>1
        <4> QED
          BY <4>1, <4>2, <4>3
      <3> QED
        BY <3>2, <3>3
    <2>11. DOMAIN t = 1 .. k
      BY <2>5
    <2>12. IsCut(t, f, m, k, q)
      BY <2>4, <2>5, <2>7, <2>8, <2>9, <2>10, <2>11 DEF IsCut
    <2> QED
      BY <2>2, <2>12
  <1> QED
    BY <1>5, <1>6, <1>7

\* What the service makes of an answer: no stop twice, and none left out that is
\* more important than one that is sent.
HoldsImportant(sent, places) ==
  LET stops == {sent[i].stop : i \in DOMAIN sent} IN
  /\ Cardinality(stops) = Len(sent)
  /\ \A i \in DOMAIN places : places[i].stop \notin stops =>
       \A n \in DOMAIN sent : Importance(sent[n]) <= Importance(places[i])

\* No station is sent twice, and none is left out that is more important than one
\* that is sent, for any answer of the provider (motis-map-stops.ts,
\* map-stops-service.ts).
THEOREM ImportantAreKept ==
  ASSUME NEW places, places \in Seq(PlaceType)
  PROVE  HoldsImportant(Truncated(StationsOf(places)), places)
  <1> DEFINE all == TopPlaces(places)
             m == Cardinality(all)
  <1>1. PICK f : f = StationsOf(places)
    OBVIOUS
  <1>2. /\ m \in Nat /\ f \in [1 .. m -> all]
        /\ \A x \in all : \E i \in 1 .. m : f[i] = x
        /\ \A i, j \in 1 .. m : i < j => StationBefore(f[i], f[j])
    BY <1>1, StationsAreArranged
  <1>3. /\ all \in SUBSET PlaceType
        /\ \A x, y \in all : x.stop = y.stop => x = y
        /\ \A i \in DOMAIN places : \E x \in all :
             x.stop = places[i].stop /\ places[i].score <= x.score
    BY StopsAreChosen
  <1>4. \A i \in DOMAIN places : places[i] \in PlaceType
    OBVIOUS
  <1> HIDE DEF all, m
  <1>5. \A x \in PlaceType : Importance(x) \in Int /\ x.stop \in Int
    <2> SUFFICES ASSUME NEW x \in PlaceType PROVE Importance(x) \in Int /\ x.stop \in Int
      OBVIOUS
    <2>1. Importance(x) \in 0 .. 2 /\ x.stop \in Int
      BY ImportanceIsNumber
    <2> QED
      BY <2>1
  <1>6. \A i, j \in 1 .. m : i < j => Importance(f[i]) <= Importance(f[j])
    <2> SUFFICES ASSUME NEW i \in 1 .. m, NEW j \in 1 .. m, i < j
                 PROVE  Importance(f[i]) <= Importance(f[j])
      OBVIOUS
    <2>1. StationBefore(f[i], f[j]) /\ f[i] \in PlaceType /\ f[j] \in PlaceType
      BY <1>2, <1>3
    <2>2. Importance(f[i]) < Importance(f[j]) \/ Importance(f[i]) = Importance(f[j])
      BY <2>1 DEF StationBefore
    <2> QED
      BY <1>5, <2>1, <2>2
  <1>7. PICK k, q : IsCut(Truncated(f), f, m, k, q)
    BY <1>2, <1>3, <1>6, TruncatedIsCut
  <1>8. PICK sent : sent = Truncated(f)
    OBVIOUS
  <1>9. IsCut(sent, f, m, k, q)
    BY <1>7, <1>8, Zenon
  <1>10. \A n \in 1 .. k : q[n] \in 1 .. m /\ sent[n] = f[q[n]] /\ sent[n] \in all
    BY <1>2, <1>9 DEF IsCut
  <1>11. k \in Nat /\ Len(sent) = k /\ DOMAIN sent = 1 .. k
    BY <1>9 DEF IsCut
  <1> DEFINE stops == {sent[i].stop : i \in DOMAIN sent}
             stop == [i \in 1 .. k |-> sent[i].stop]
  <1>12. Cardinality(stops) = k
    <2>1. \A i, j \in 1 .. m : f[i] = f[j] => i = j
      <3> SUFFICES ASSUME NEW i \in 1 .. m, NEW j \in 1 .. m, i < j PROVE f[i] # f[j]
        BY <1>2
      <3>1. StationBefore(f[i], f[j]) /\ f[i] \in PlaceType
        BY <1>2, <1>3
      <3>2. Importance(f[i]) \in Int /\ f[i].stop \in Int /\ f[i].kind \in Int
        BY <1>5, <3>1 DEF PlaceType
      <3> QED
        BY <3>1, <3>2 DEF StationBefore
    <2>2. ASSUME NEW i \in 1 .. k, NEW j \in 1 .. k, sent[i].stop = sent[j].stop PROVE i = j
      <3>1. sent[i] = sent[j]
        BY <1>3, <1>10, <2>2
      <3>2. q[i] = q[j]
        BY <1>10, <2>1, <3>1
      <3>3. q[i] \in Int /\ (i < j => q[i] < q[j]) /\ (j < i => q[j] < q[i])
        BY <1>2, <1>9 DEF IsCut
      <3> QED
        BY <1>11, <3>2, <3>3
    <2>3. stop \in Surjection(1 .. k, stops) /\ stop \in Injection(1 .. k, stops)
      <3>1. stop \in [1 .. k -> stops] /\ \A t \in stops : \E i \in 1 .. k : stop[i] = t
        BY <1>11
      <3>2. \A i, j \in 1 .. k : stop[i] = stop[j] => i = j
        BY <2>2
      <3> HIDE DEF stop, stops
      <3> QED
        BY <3>1, <3>2 DEF Injection, Surjection, IsInjective
    <2> HIDE DEF stop, stops
    <2>4. IsFiniteSet(1 .. k) /\ Cardinality(1 .. k) = k
      BY <1>11, FS_Interval
    <2> QED
      BY <2>3, <2>4, FS_Surjection
  <1>13. ASSUME NEW i \in DOMAIN places, places[i].stop \notin stops, NEW n \in DOMAIN sent
         PROVE  Importance(sent[n]) <= Importance(places[i])
    <2>1. PICK x \in all : x.stop = places[i].stop /\ places[i].score <= x.score
      BY <1>3
    <2>2. PICK p \in 1 .. m : f[p] = x
      BY <1>2
    <2>3. \A j \in 1 .. k : q[j] # p
      BY <1>10, <1>11, <1>13, <2>1, <2>2
    <2>4. Importance(f[q[n]]) <= Importance(f[p])
      BY <1>9, <1>11, <2>3 DEF IsCut
    <2>5. Importance(x) <= Importance(places[i])
      BY <1>3, <1>4, <2>1, ScoreIsImportance
    <2>6. /\ Importance(sent[n]) \in Int /\ Importance(x) \in Int /\ Importance(places[i]) \in Int
          /\ sent[n] = f[q[n]]
      BY <1>3, <1>4, <1>5, <1>10, <1>11
    <2> QED
      BY <2>2, <2>4, <2>5, <2>6
  <1>14. HoldsImportant(sent, places)
    BY <1>11, <1>12, <1>13 DEF HoldsImportant
  <1> QED
    BY <1>1, <1>8, <1>14, Zenon

-----------------------------------------------------------------------------
(* Labels.                                                                  *)

\* One turn of the pass over the markers.
WeighedStep(markers, last, k) == Weigh(last, k)

WeighedStart(markers) == [markers |-> markers, winner |-> << >>]

\* The pass over the markers up to the n-th turn.
IsWeighed(f, markers, n) ==
  f = [k \in 0 .. n |-> IF k = 0 THEN WeighedStart(markers) ELSE WeighedStep(markers, f[k - 1], k)]

\* It goes on by one turn.
LEMMA WeighedGoesOn ==
  ASSUME NEW markers, NEW n \in Nat, n # 0, NEW g, IsWeighed(g, markers, n - 1)
  PROVE  \E h : IsWeighed(h, markers, n)
  <1> DEFINE h == [k \in 0 .. n |-> IF k = 0 THEN WeighedStart(markers) ELSE WeighedStep(markers, g[k - 1], k)]
  <1>1. ASSUME NEW k \in 0 .. n
        PROVE  h[k] = IF k = 0 THEN WeighedStart(markers) ELSE WeighedStep(markers, h[k - 1], k)
    <2>1. CASE k # 0
      <3>1. k - 1 \in 0 .. n - 1 /\ k - 1 \in 0 .. n
        BY <2>1
      <3>2. g[k - 1] = IF k - 1 = 0 THEN WeighedStart(markers) ELSE WeighedStep(markers, g[k - 1 - 1], k - 1)
        BY <3>1 DEF IsWeighed
      <3>3. h[k - 1] = IF k - 1 = 0 THEN WeighedStart(markers) ELSE WeighedStep(markers, g[k - 1 - 1], k - 1)
        BY <3>1
      <3>4. h[k] = WeighedStep(markers, g[k - 1], k)
        BY <2>1
      <3> HIDE DEF h
      <3> QED
        BY <2>1, <3>2, <3>3, <3>4
    <2>2. CASE k = 0
      BY <2>2
    <2> QED
      BY <2>1, <2>2
  <1>2. h = [k \in 0 .. n |-> h[k]]
    OBVIOUS
  <1>3. h = [k \in 0 .. n |-> IF k = 0 THEN WeighedStart(markers) ELSE WeighedStep(markers, h[k - 1], k)]
    <2> HIDE DEF h
    <2> QED
      BY <1>1, <1>2
  <1> QED
    BY <1>3 DEF IsWeighed

\* So it reaches the last one.
LEMMA WeighedExists ==
  ASSUME NEW markers, NEW n \in Nat
  PROVE  \E f : IsWeighed(f, markers, n)
  <1> DEFINE without == {k \in Nat : ~\E g : IsWeighed(g, markers, k)}
  <1>1. ASSUME without # {} PROVE FALSE
    <2>0. without \in SUBSET Nat
      OBVIOUS
    <2>1. PICK k \in without : \A m \in without : k <= m
      <3> HIDE DEF without
      <3> QED
        BY <1>1, <2>0, LeastNumber
    <2>2. k # 0
      <3>1. IsWeighed([i \in 0 .. 0 |-> WeighedStart(markers)], markers, 0)
        BY DEF IsWeighed
      <3> QED
        BY <3>1
    <2>3. k \in Nat /\ k - 1 \in Nat
      BY <2>2
    <2>4. k - 1 \notin without
      <3> HIDE DEF without
      <3> QED
        BY <2>1, <2>3
    <2>5. PICK g : IsWeighed(g, markers, k - 1)
      BY <2>3, <2>4
    <2> QED
      BY <2>2, <2>3, <2>5, WeighedGoesOn
  <1> QED
    BY <1>1

\* What the pass over the markers computes, turn by turn.
LEMMA WeighedTurns ==
  ASSUME NEW markers, Len(markers) \in Nat
  PROVE  /\ Weighed(markers)[0] = WeighedStart(markers)
         /\ \A k \in 1 .. Len(markers) : Weighed(markers)[k] = WeighedStep(markers, Weighed(markers)[k - 1], k)
  <1> DEFINE n == Len(markers)
  <1>1. \E f : IsWeighed(f, markers, n)
    BY WeighedExists
  <1>2. Weighed(markers) = CHOOSE f : IsWeighed(f, markers, n)
    BY DEF Weighed, IsWeighed, WeighedStep, WeighedStart
  <1>3. IsWeighed(Weighed(markers), markers, n)
    BY <1>1, <1>2
  <1> QED
    BY <1>3 DEF IsWeighed

\* A marker whose name is shown or not.
IsStop(m) ==
  /\ m = [kind |-> "stop", id |-> m.id, at |-> m.at, role |-> m.role, paint |-> m.paint,
          label |-> m.label, priority |-> m.priority]
  /\ m.label \in BOOLEAN /\ m.priority \in Int

Labelled(m, shown) == [m EXCEPT !.label = shown]

\* A name is shown or hidden, and the rest of the marker stays.
LEMMA LabellingLabels ==
  ASSUME NEW m, IsStop(m), NEW t \in BOOLEAN
  PROVE  /\ IsStop(Labelled(m, t)) /\ Labelled(m, t).label = t
         /\ \A n : n = Labelled(m, t) =>
              /\ n.kind = m.kind /\ n.id = m.id /\ n.at = m.at /\ n.role = m.role
              /\ n.paint = m.paint /\ n.priority = m.priority
         /\ m.label = t => Labelled(m, t) = m
         /\ \A u : Labelled(Labelled(m, u), t) = Labelled(m, t)
  <1>1. PICK r, x, o, p, l, q :
          /\ m = [kind |-> "stop", id |-> x, at |-> o, role |-> r, paint |-> p, label |-> l,
                  priority |-> q]
          /\ l \in BOOLEAN /\ q \in Int
    BY DEF IsStop
  <1>2. ASSUME NEW u
        PROVE  Labelled(m, u) = [kind |-> "stop", id |-> x, at |-> o, role |-> r, paint |-> p,
                                 label |-> u, priority |-> q]
    BY <1>1 DEF Labelled
  <1>3. PICK named : named = Labelled(m, t)
    OBVIOUS
  <1>4. named = [kind |-> "stop", id |-> x, at |-> o, role |-> r, paint |-> p, label |-> t,
                 priority |-> q]
    BY <1>2, <1>3
  <1>5. /\ named.kind = "stop" /\ named.id = x /\ named.at = o /\ named.role = r
        /\ named.paint = p /\ named.label = t /\ named.priority = q /\ IsStop(named)
    BY <1>1, <1>4 DEF IsStop
  <1>6. /\ m.kind = "stop" /\ m.id = x /\ m.at = o /\ m.role = r /\ m.paint = p /\ m.label = l
        /\ m.priority = q
    BY <1>1
  <1>7. m.label = t => named = m
    BY <1>1, <1>4, <1>6
  <1>8. ASSUME NEW u PROVE Labelled(Labelled(m, u), t) = named
    <2>1. PICK k : k = Labelled(m, u)
      OBVIOUS
    <2>2. k = [kind |-> "stop", id |-> x, at |-> o, role |-> r, paint |-> p, label |-> u,
               priority |-> q]
      BY <1>2, <2>1
    <2>3. Labelled(k, t) = [kind |-> "stop", id |-> x, at |-> o, role |-> r, paint |-> p,
                            label |-> t, priority |-> q]
      BY <2>2 DEF Labelled
    <2> QED
      BY <1>4, <2>1, <2>3
  <1> QED
    BY <1>3, <1>5, <1>6, <1>7, <1>8

\* A sequence of markers.
IsMarkers(ms) ==
  /\ Len(ms) \in Nat /\ ms = [i \in 1 .. Len(ms) |-> ms[i]]
  /\ \A i \in 1 .. Len(ms) : ms[i].kind = "stop" => IsStop(ms[i])

\* The name of the i-th goes before that of the j-th.
IsAhead(ms, i, j) ==
  \/ ms[i].priority > ms[j].priority
  \/ ms[i].priority = ms[j].priority /\ i <= j

\* What holds after k turns: of the names at one coordinate that of the winner is
\* shown, who goes before all others.
WinnersHold(ms, winner, k) ==
  /\ winner = [x \in DOMAIN winner |-> winner[x]]
  /\ \A i \in Labels(ms) : i <= k => ms[i].at \in DOMAIN winner
  /\ \A x \in DOMAIN winner :
       /\ winner[x] \in Labels(ms) /\ winner[x] <= k /\ ms[winner[x]].at = x
       /\ \A j \in Labels(ms) : j <= k /\ ms[j].at = x => IsAhead(ms, winner[x], j)

NameAfter(ms, winner, k, i) ==
  IF i <= k /\ i \in Labels(ms)
  THEN IF winner[ms[i].at] = i THEN Labelled(ms[i], TRUE) ELSE Labelled(ms[i], FALSE)
  ELSE ms[i]

WeighHolds(ms, acc, k) ==
  /\ acc = [markers |-> acc.markers, winner |-> acc.winner]
  /\ acc.markers = [i \in 1 .. Len(ms) |-> NameAfter(ms, acc.winner, k, i)]
  /\ WinnersHold(ms, acc.winner, k)

\* The markers whose name shows are stops.
LEMMA LabelsAreStops ==
  ASSUME NEW ms, IsMarkers(ms)
  PROVE  /\ DOMAIN ms = 1 .. Len(ms) /\ Labels(ms) \in SUBSET (1 .. Len(ms))
         /\ \A i \in Labels(ms) : /\ IsStop(ms[i]) /\ ms[i].label = TRUE /\ ms[i].priority \in Int
                                  /\ ms[i].kind = "stop" /\ i \in Int /\ Labelled(ms[i], TRUE) = ms[i]
         /\ \A i \in 1 .. Len(ms) : i \notin Labels(ms) => ms[i].kind # "stop" \/ ~ms[i].label
  <1>1. DOMAIN ms = 1 .. Len(ms)
    BY DEF IsMarkers
  <1>2. Labels(ms) \in SUBSET (1 .. Len(ms))
    BY <1>1 DEF Labels
  <1>3. ASSUME NEW i \in Labels(ms)
        PROVE  /\ IsStop(ms[i]) /\ ms[i].label = TRUE /\ ms[i].priority \in Int
               /\ ms[i].kind = "stop" /\ i \in Int /\ Labelled(ms[i], TRUE) = ms[i]
    <2>1. ms[i].kind = "stop" /\ ms[i].label /\ i \in 1 .. Len(ms)
      BY <1>1 DEF Labels
    <2>2. IsStop(ms[i])
      BY <2>1 DEF IsMarkers
    <2>3. ms[i].label \in BOOLEAN /\ ms[i].priority \in Int
      BY <2>2 DEF IsStop
    <2>4. Labelled(ms[i], TRUE) = ms[i]
      BY <2>1, <2>2, <2>3, LabellingLabels
    <2>5. i \in Int
      BY <2>1 DEF IsMarkers
    <2> QED
      BY <2>1, <2>2, <2>3, <2>4, <2>5
  <1>4. \A i \in 1 .. Len(ms) : i \notin Labels(ms) => ms[i].kind # "stop" \/ ~ms[i].label
    BY <1>1 DEF Labels
  <1> QED
    BY <1>1, <1>2, <1>3, <1>4

\* Of two names, one is ahead of the other, and never both.
LEMMA AheadIsOrder ==
  ASSUME NEW ms, IsMarkers(ms), NEW i \in Labels(ms), NEW j \in Labels(ms), NEW k \in Labels(ms)
  PROVE  /\ IsAhead(ms, i, i) /\ (IsAhead(ms, i, j) \/ IsAhead(ms, j, i))
         /\ IsAhead(ms, i, j) /\ IsAhead(ms, j, k) => IsAhead(ms, i, k)
         /\ IsAhead(ms, i, j) /\ IsAhead(ms, j, i) => i = j
  <1>1. PICK a, b, c : a = ms[i].priority /\ b = ms[j].priority /\ c = ms[k].priority
    OBVIOUS
  <1>2. a \in Int /\ b \in Int /\ c \in Int /\ i \in Int /\ j \in Int /\ k \in Int
    BY <1>1, LabelsAreStops
  <1>3. /\ IsAhead(ms, i, j) <=> (a > b \/ (a = b /\ i <= j))
        /\ IsAhead(ms, j, i) <=> (b > a \/ (b = a /\ j <= i))
        /\ IsAhead(ms, j, k) <=> (b > c \/ (b = c /\ j <= k))
        /\ IsAhead(ms, i, k) <=> (a > c \/ (a = c /\ i <= k))
        /\ IsAhead(ms, i, i) <=> (a > a \/ (a = a /\ i <= i))
    BY <1>1 DEF IsAhead
  <1> QED
    BY <1>2, <1>3

\* A turn passes a marker without a name by.
LEMMA WeighPasses ==
  ASSUME NEW M, NEW W, NEW k, M[k].kind # "stop" \/ ~M[k].label
  PROVE  Weigh([markers |-> M, winner |-> W], k) = [markers |-> M, winner |-> W]
  <1> DEFINE acc == [markers |-> M, winner |-> W]
  <1>1. acc.markers = M
    OBVIOUS
  <1> HIDE DEF acc
  <1>2. acc.markers[k].kind /= "stop" \/ (acc.markers[k].kind = "stop" /\ ~acc.markers[k].label)
    BY <1>1
  <1>3. Weigh(acc, k) = acc
    BY <1>2 DEF Weigh
  <1> QED
    BY <1>3 DEF acc

\* A turn takes the first name at a coordinate for the winner, and of two names it
\* hides the one that loses.
TurnOfName(M, W, k, o) ==
  IF o \notin DOMAIN W
  THEN [markers |-> M, winner |-> [x \in DOMAIN W \cup {o} |-> IF x = o THEN k ELSE W[x]]]
  ELSE IF M[k].priority > M[W[o]].priority
  THEN [markers |-> [M EXCEPT ![W[o]] = Labelled(@, FALSE)], winner |-> [W EXCEPT ![o] = k]]
  ELSE [markers |-> [M EXCEPT ![k] = Labelled(@, FALSE)], winner |-> W]

\* This is what it makes of the markers M and the winners W.
LEMMA WeighTurns ==
  ASSUME NEW M, NEW W, NEW k, M[k].kind = "stop", M[k].label, NEW o, M[k].at = o,
         NEW acc, acc = [markers |-> M, winner |-> W]
  PROVE  Weigh(acc, k) = TurnOfName(M, W, k, o)
  <1>1. acc.markers = M /\ acc.winner = W
    OBVIOUS
  <1>2. [acc EXCEPT !.winner = [x \in DOMAIN @ \cup {o} |-> IF x = o THEN k ELSE @[x]]] =
          [markers |-> M, winner |-> [x \in DOMAIN W \cup {o} |-> IF x = o THEN k ELSE W[x]]]
    OBVIOUS
  <1>3. [acc EXCEPT !.markers[k].label = FALSE] =
          [markers |-> [M EXCEPT ![k] = Labelled(@, FALSE)], winner |-> W]
    <2>1. \A N : [acc EXCEPT !.markers = N] = [markers |-> N, winner |-> W]
      OBVIOUS
    <2>2. [acc.markers EXCEPT ![k].label = FALSE] = [M EXCEPT ![k] = Labelled(@, FALSE)]
      BY <1>1 DEF Labelled
    <2>3. [acc EXCEPT !.markers[k].label = FALSE] =
            [acc EXCEPT !.markers = [acc.markers EXCEPT ![k].label = FALSE]]
      OBVIOUS
    <2> QED
      BY <2>1, <2>2, <2>3
  <1>4. [M EXCEPT ![W[o]].label = FALSE] = [M EXCEPT ![W[o]] = Labelled(@, FALSE)]
    BY DEF Labelled
  <1>5. Weigh(acc, k) =
          IF o \notin DOMAIN acc.winner
          THEN [acc EXCEPT !.winner = [x \in DOMAIN @ \cup {o} |-> IF x = o THEN k ELSE @[x]]]
          ELSE IF acc.markers[k].priority > acc.markers[acc.winner[o]].priority
          THEN [markers |-> [acc.markers EXCEPT ![acc.winner[o]].label = FALSE],
                winner  |-> [acc.winner EXCEPT ![o] = k]]
          ELSE [acc EXCEPT !.markers[k].label = FALSE]
    <2>1. acc.markers[k].kind = "stop" /\ acc.markers[k].label /\ acc.markers[k].at = o
      BY <1>1
    <2> QED
      BY <2>1 DEF Weigh
  <1> QED
    BY <1>1, <1>2, <1>3, <1>4, <1>5 DEF TurnOfName

\* Every turn keeps what holds.
LEMMA WeighStepHolds ==
  ASSUME NEW ms, IsMarkers(ms), NEW k \in 1 .. Len(ms), NEW last, WeighHolds(ms, last, k - 1)
  PROVE  WeighHolds(ms, WeighedStep(ms, last, k), k)
  <1> DEFINE n == Len(ms)
  <1>1. n \in Nat /\ k \in Int /\ k \in 1 .. n /\ ~(k <= k - 1)
    BY DEF IsMarkers
  <1>2. PICK M, W : /\ last = [markers |-> M, winner |-> W]
                    /\ M = [i \in 1 .. n |-> NameAfter(ms, W, k - 1, i)]
                    /\ WinnersHold(ms, W, k - 1)
    BY DEF WeighHolds
  <1>3. M[k] = ms[k] /\ \A i \in 1 .. n : M[i] = NameAfter(ms, W, k - 1, i)
    BY <1>1, <1>2 DEF NameAfter
  <1>4. PICK next : next = WeighedStep(ms, last, k)
    OBVIOUS
  <1>5. next = Weigh(last, k) /\ last = [markers |-> M, winner |-> W]
    BY <1>2, <1>4 DEF WeighedStep
  <1>6. /\ Labels(ms) \in SUBSET (1 .. n)
        /\ \A i \in Labels(ms) : /\ IsStop(ms[i]) /\ ms[i].label = TRUE /\ ms[i].priority \in Int
                                 /\ ms[i].kind = "stop" /\ i \in Int
                                 /\ Labelled(ms[i], TRUE) = ms[i]
        /\ k \notin Labels(ms) => ms[k].kind # "stop" \/ ~ms[k].label
    BY LabelsAreStops
  <1> HIDE DEF n
  <1>7. \A i \in 1 .. n : i \in Int /\ (i <= k <=> i <= k - 1 \/ i = k)
    BY <1>1
  <1>8. CASE k \notin Labels(ms)
    <2>0. M[k].kind # "stop" \/ ~M[k].label
      BY <1>3, <1>6, <1>8
    <2>1. next = [markers |-> M, winner |-> W]
      BY <1>5, <2>0, WeighPasses, Zenon
    <2>2. \A i \in 1 .. n : NameAfter(ms, W, k, i) = NameAfter(ms, W, k - 1, i)
      BY <1>7, <1>8 DEF NameAfter
    <2>3. M = [i \in 1 .. n |-> NameAfter(ms, W, k, i)]
      BY <1>2, <2>2
    <2>4. WinnersHold(ms, W, k)
      <3>1. \A i \in Labels(ms) : i <= k => i <= k - 1
        BY <1>6, <1>7, <1>8
      <3>2. \A x \in DOMAIN W : W[x] <= k
        BY <1>1, <1>2, <1>6 DEF WinnersHold
      <3> QED
        BY <1>2, <3>1, <3>2 DEF WinnersHold
    <2> QED
      BY <1>4, <2>1, <2>3, <2>4 DEF WeighHolds, n
  <1>9. CASE k \in Labels(ms)
    <2>0. PICK at : at = ms[k].at
      OBVIOUS
    <2>1. M[k].kind = "stop" /\ M[k].label /\ M[k].at = at
      BY <1>3, <1>6, <1>9, <2>0
    <2>4. next =
            IF at \notin DOMAIN W
            THEN [markers |-> M,
                  winner |-> [x \in DOMAIN W \cup {at} |-> IF x = at THEN k ELSE W[x]]]
            ELSE IF M[k].priority > M[W[at]].priority
            THEN [markers |-> [M EXCEPT ![W[at]] = Labelled(@, FALSE)],
                  winner  |-> [W EXCEPT ![at] = k]]
            ELSE [markers |-> [M EXCEPT ![k] = Labelled(@, FALSE)], winner |-> W]
      <3>1. Weigh(last, k) = TurnOfName(M, W, k, at)
        BY <1>5, <2>1, WeighTurns, Zenon
      <3> QED
        BY <1>5, <3>1 DEF TurnOfName
    <2>2. ASSUME at \notin DOMAIN W PROVE WeighHolds(ms, next, k)
      <3> DEFINE V == [x \in DOMAIN W \cup {at} |-> IF x = at THEN k ELSE W[x]]
      <3>1. next = [markers |-> M, winner |-> V]
        BY <2>2, <2>4
      <3>2. ASSUME NEW i \in 1 .. n PROVE NameAfter(ms, V, k, i) = NameAfter(ms, W, k - 1, i)
        <4>1. CASE i \notin Labels(ms)
          BY <4>1 DEF NameAfter
        <4>2. CASE i \in Labels(ms) /\ i = k
          <5>1. V[at] = k
            OBVIOUS
          <5> HIDE DEF V
          <5> QED
            BY <2>0, <1>1, <1>6, <4>2, <5>1 DEF NameAfter
        <4>3. CASE i \in Labels(ms) /\ i <= k - 1
          <5>1. ms[i].at \in DOMAIN W
            BY <1>2, <4>3 DEF WinnersHold
          <5>2. V[ms[i].at] = W[ms[i].at]
            BY <2>2, <5>1
          <5> HIDE DEF V
          <5> QED
            BY <1>7, <4>3, <5>2 DEF NameAfter
        <4>4. CASE i \in Labels(ms) /\ ~(i <= k)
          BY <1>7, <4>4 DEF NameAfter
        <4> QED
          BY <1>7, <4>1, <4>2, <4>3, <4>4
      <3>3. M = [i \in 1 .. n |-> NameAfter(ms, V, k, i)]
        <4> HIDE DEF V
        <4> QED
          BY <1>2, <3>2
      <3>4. WinnersHold(ms, V, k)
        <4>1. /\ V = [x \in DOMAIN V |-> V[x]] /\ DOMAIN V = DOMAIN W \cup {at}
              /\ V[at] = k /\ \A x \in DOMAIN W : x # at => V[x] = W[x]
          OBVIOUS
        <4> HIDE DEF V
        <4>2. \A i \in Labels(ms) : i <= k => ms[i].at \in DOMAIN V
          BY <2>0, <1>2, <1>6, <1>7, <4>1 DEF WinnersHold
        <4>3. ASSUME NEW x \in DOMAIN V
              PROVE  /\ V[x] \in Labels(ms) /\ V[x] <= k /\ ms[V[x]].at = x
                     /\ \A j \in Labels(ms) : j <= k /\ ms[j].at = x => IsAhead(ms, V[x], j)
          <5>1. CASE x = at
            <6>1. \A j \in Labels(ms) : j <= k /\ ms[j].at = at => j = k
              BY <1>2, <1>6, <1>7, <2>2 DEF WinnersHold
            <6>2. IsAhead(ms, k, k)
              BY <1>9, AheadIsOrder
            <6> QED
              BY <2>0, <1>1, <1>9, <4>1, <5>1, <6>1, <6>2
          <5>2. CASE x # at
            <6>1. x \in DOMAIN W /\ V[x] = W[x]
              BY <4>1, <5>2
            <6>2. /\ W[x] \in Labels(ms) /\ W[x] <= k - 1 /\ ms[W[x]].at = x
                  /\ \A j \in Labels(ms) : j <= k - 1 /\ ms[j].at = x => IsAhead(ms, W[x], j)
              BY <1>2, <6>1 DEF WinnersHold
            <6>3. \A j \in Labels(ms) : j <= k /\ ms[j].at = x => j <= k - 1
              BY <2>0, <1>6, <1>7, <5>2
            <6>4. W[x] <= k
              BY <1>6, <1>7, <6>2
            <6> QED
              BY <6>1, <6>2, <6>3, <6>4
          <5> QED
            BY <5>1, <5>2
        <4> QED
          BY <4>1, <4>2, <4>3 DEF WinnersHold
      <3> HIDE DEF V
      <3> QED
        BY <3>1, <3>3, <3>4 DEF WeighHolds, n
    <2>3. ASSUME at \in DOMAIN W PROVE WeighHolds(ms, next, k)
      <3> DEFINE w == W[at]
      <3>1. /\ w \in Labels(ms) /\ w <= k - 1 /\ ms[w].at = at /\ w \in 1 .. n
            /\ \A j \in Labels(ms) : j <= k - 1 /\ ms[j].at = at => IsAhead(ms, w, j)
        BY <1>2, <1>6, <2>3 DEF WinnersHold
      <3>2. M[w] = ms[w] /\ M[w] = Labelled(ms[w], TRUE)
        <4>1. NameAfter(ms, W, k - 1, w) = Labelled(ms[w], TRUE)
          BY <3>1 DEF NameAfter
        <4> QED
          BY <1>3, <1>6, <3>1, <4>1
      <3>3. w # k /\ w \in Int /\ ms[w].priority \in Int /\ ms[k].priority \in Int
        BY <1>1, <1>6, <1>9, <3>1
      <3>4. ASSUME M[k].priority > M[w].priority PROVE WeighHolds(ms, next, k)
        <4> DEFINE V == [W EXCEPT ![at] = k]
                   N == [M EXCEPT ![w] = Labelled(@, FALSE)]
        <4>1. next = [markers |-> N, winner |-> V]
          BY <2>3, <2>4, <3>4
        <4>2. /\ V = [x \in DOMAIN V |-> V[x]] /\ DOMAIN V = DOMAIN W
              /\ V[at] = k /\ \A x \in DOMAIN W : x # at => V[x] = W[x]
          BY <1>2, <2>3 DEF WinnersHold
        <4>3. /\ N = [i \in 1 .. n |-> N[i]] /\ N[w] = Labelled(M[w], FALSE)
              /\ \A i \in 1 .. n : i # w => N[i] = M[i]
          BY <1>2, <3>1
        <4> HIDE DEF V, N, w
        <4>4. N[w] = Labelled(ms[w], FALSE)
          BY <3>2, <4>3
        <4>5. IsAhead(ms, k, w)
          BY <1>3, <3>2, <3>4 DEF IsAhead
        <4>6. ASSUME NEW i \in 1 .. n PROVE N[i] = NameAfter(ms, V, k, i)
          <5>1. CASE i \notin Labels(ms)
            <6>1. i # w
              BY <3>1, <5>1
            <6> QED
              BY <1>3, <4>3, <5>1, <6>1 DEF NameAfter
          <5>2. CASE i = k
            BY <2>0, <1>1, <1>3, <1>6, <1>9, <3>3, <4>2, <4>3, <5>2 DEF NameAfter
          <5>3. CASE i = w
            BY <1>7, <2>3, <3>1, <3>3, <4>2, <4>4, <5>3 DEF NameAfter
          <5>4. CASE i \in Labels(ms) /\ i <= k - 1 /\ i # w
            <6>1. N[i] = NameAfter(ms, W, k - 1, i) /\ ms[i].at \in DOMAIN W
              BY <1>2, <1>3, <4>3, <5>4 DEF WinnersHold
            <6>2. CASE ms[i].at = at
              <7>1. W[at] # i /\ V[at] # i
                BY <1>1, <1>7, <4>2, <5>4 DEF w
              <7> QED
                BY <1>7, <5>4, <6>1, <6>2, <7>1 DEF NameAfter
            <6>3. CASE ms[i].at # at
              BY <1>7, <4>2, <5>4, <6>1, <6>3 DEF NameAfter
            <6> QED
              BY <6>2, <6>3
          <5>5. CASE i \in Labels(ms) /\ ~(i <= k) /\ i # w
            BY <1>3, <1>7, <4>3, <5>5 DEF NameAfter
          <5> QED
            BY <1>7, <5>1, <5>2, <5>3, <5>4, <5>5
        <4>7. N = [i \in 1 .. n |-> NameAfter(ms, V, k, i)]
          BY <4>3, <4>6
        <4>8. WinnersHold(ms, V, k)
          <5>1. \A i \in Labels(ms) : i <= k => ms[i].at \in DOMAIN V
            BY <2>0, <1>2, <1>6, <1>7, <2>3, <4>2 DEF WinnersHold
          <5>2. ASSUME NEW x \in DOMAIN V
                PROVE  /\ V[x] \in Labels(ms) /\ V[x] <= k /\ ms[V[x]].at = x
                       /\ \A j \in Labels(ms) : j <= k /\ ms[j].at = x => IsAhead(ms, V[x], j)
            <6>1. CASE x = at
              <7>1. ASSUME NEW j \in Labels(ms), j <= k, ms[j].at = at PROVE IsAhead(ms, k, j)
                <8>1. CASE j = k
                  BY <1>9, <8>1, AheadIsOrder
                <8>2. CASE j # k
                  <9>1. j <= k - 1
                    BY <1>6, <1>7, <7>1, <8>2
                  <9>2. IsAhead(ms, w, j)
                    BY <3>1, <7>1, <9>1
                  <9> QED
                    BY <1>9, <3>1, <4>5, <9>2, AheadIsOrder
                <8> QED
                  BY <8>1, <8>2
              <7> QED
                BY <2>0, <1>1, <1>9, <4>2, <6>1, <7>1
            <6>2. CASE x # at
              <7>1. x \in DOMAIN W /\ V[x] = W[x]
                BY <4>2, <6>2
              <7>2. /\ W[x] \in Labels(ms) /\ W[x] <= k - 1 /\ ms[W[x]].at = x
                    /\ \A j \in Labels(ms) : j <= k - 1 /\ ms[j].at = x => IsAhead(ms, W[x], j)
                BY <1>2, <7>1 DEF WinnersHold
              <7>3. \A j \in Labels(ms) : j <= k /\ ms[j].at = x => j <= k - 1
                BY <2>0, <1>6, <1>7, <6>2
              <7>4. W[x] <= k
                BY <1>6, <1>7, <7>2
              <7> QED
                BY <7>1, <7>2, <7>3, <7>4
            <6> QED
              BY <6>1, <6>2
          <5> QED
            BY <4>2, <5>1, <5>2 DEF WinnersHold
        <4> QED
          BY <4>1, <4>7, <4>8 DEF WeighHolds, n
      <3>5. ASSUME ~(M[k].priority > M[w].priority) PROVE WeighHolds(ms, next, k)
        <4> DEFINE N == [M EXCEPT ![k] = Labelled(@, FALSE)]
        <4>1. next = [markers |-> N, winner |-> W]
          BY <2>3, <2>4, <3>5
        <4>2. /\ N = [i \in 1 .. n |-> N[i]] /\ N[k] = Labelled(M[k], FALSE)
              /\ \A i \in 1 .. n : i # k => N[i] = M[i]
          BY <1>1, <1>2
        <4> HIDE DEF N, w
        <4>3. IsAhead(ms, w, k)
          <5>1. ms[w].priority >= ms[k].priority
            <6>1. PICK a, b : a = ms[k].priority /\ b = ms[w].priority
              OBVIOUS
            <6>2. ~(a > b) /\ a \in Int /\ b \in Int
              <7>1. M[k].priority = a /\ M[w].priority = b
                BY <1>3, <3>2, <6>1, Zenon
              <7> QED
                BY <3>3, <3>5, <6>1, <7>1
            <6> QED
              BY <6>1, <6>2
          <5>2. w <= k
            BY <1>1, <3>1, <3>3
          <5> QED
            BY <3>3, <5>1, <5>2 DEF IsAhead
        <4>4. ASSUME NEW i \in 1 .. n PROVE N[i] = NameAfter(ms, W, k, i)
          <5>1. CASE i = k
            <6>1. N[k] = Labelled(ms[k], FALSE)
              BY <1>3, <4>2
            <6>2. W[ms[k].at] # k /\ k <= k
              BY <1>1, <2>0, <3>3 DEF w
            <6> QED
              BY <1>9, <5>1, <6>1, <6>2 DEF NameAfter
          <5>2. CASE i # k
            BY <1>3, <1>7, <4>2, <5>2 DEF NameAfter
          <5> QED
            BY <5>1, <5>2
        <4>5. N = [i \in 1 .. n |-> NameAfter(ms, W, k, i)]
          BY <4>2, <4>4
        <4>6. WinnersHold(ms, W, k)
          <5>1. \A i \in Labels(ms) : i <= k => ms[i].at \in DOMAIN W
            BY <2>0, <1>2, <1>6, <1>7, <2>3 DEF WinnersHold
          <5>2. ASSUME NEW x \in DOMAIN W
                PROVE  /\ W[x] \in Labels(ms) /\ W[x] <= k /\ ms[W[x]].at = x
                       /\ \A j \in Labels(ms) : j <= k /\ ms[j].at = x => IsAhead(ms, W[x], j)
            <6>1. /\ W[x] \in Labels(ms) /\ W[x] <= k - 1 /\ ms[W[x]].at = x
                  /\ \A j \in Labels(ms) : j <= k - 1 /\ ms[j].at = x => IsAhead(ms, W[x], j)
              BY <1>2 DEF WinnersHold
            <6>2. W[x] <= k
              BY <1>6, <1>7, <6>1
            <6>3. \A j \in Labels(ms) : j <= k /\ ms[j].at = x => IsAhead(ms, W[x], j)
              BY <2>0, <1>6, <1>7, <4>3, <6>1 DEF w
            <6> QED
              BY <6>1, <6>2, <6>3
          <5> QED
            BY <1>2, <5>1, <5>2 DEF WinnersHold
        <4> QED
          BY <4>1, <4>5, <4>6 DEF WeighHolds, n
      <3> QED
        BY <3>4, <3>5
    <2> QED
      BY <1>4, <2>2, <2>3
  <1> QED
    BY <1>8, <1>9

\* So it holds at the end of the pass.
LEMMA WeighedHolds ==
  ASSUME NEW ms, IsMarkers(ms)
  PROVE  WeighHolds(ms, Weighed(ms)[Len(ms)], Len(ms))
  <1>1. Len(ms) \in Nat /\ ms = [i \in 1 .. Len(ms) |-> ms[i]]
    BY DEF IsMarkers
  <1>2. /\ Weighed(ms)[0] = WeighedStart(ms)
        /\ \A k \in 1 .. Len(ms) : Weighed(ms)[k] = WeighedStep(ms, Weighed(ms)[k - 1], k)
    BY <1>1, WeighedTurns
  <1>3. WeighHolds(ms, WeighedStart(ms), 0)
    <2> DEFINE acc == WeighedStart(ms)
               none == << >>
    <2>1. acc = [markers |-> ms, winner |-> none]
      BY DEF WeighedStart
    <2>2. DOMAIN none = {} /\ none = [x \in DOMAIN none |-> none[x]]
      OBVIOUS
    <2> HIDE DEF none
    <2>8. \A i \in 1 .. Len(ms) : ~(i <= 0)
      BY <1>1
    <2>3. \A i \in 1 .. Len(ms) : NameAfter(ms, none, 0, i) = ms[i]
      BY <2>8 DEF NameAfter
    <2>4. ms = [i \in 1 .. Len(ms) |-> NameAfter(ms, none, 0, i)]
      BY <1>1, <2>3
    <2>5. \A i \in Labels(ms) : ~(i <= 0)
      BY <2>8, LabelsAreStops
    <2>6. WinnersHold(ms, none, 0)
      BY <2>2, <2>5 DEF WinnersHold
    <2> HIDE DEF acc
    <2>7. acc.markers = ms /\ acc.winner = none
      BY <2>1
    <2> QED
      BY <2>1, <2>4, <2>6, <2>7 DEF WeighHolds, acc
  <1> DEFINE wrong == {k \in Nat : k <= Len(ms) /\ ~WeighHolds(ms, Weighed(ms)[k], k)}
  <1>4. ASSUME wrong # {} PROVE FALSE
    <2>1. PICK k \in wrong : \A m \in wrong : k <= m
      <3>1. wrong \in SUBSET Nat
        OBVIOUS
      <3> HIDE DEF wrong
      <3> QED
        BY <1>4, <3>1, LeastNumber
    <2>2. k # 0 /\ k \in 1 .. Len(ms) /\ k - 1 \in Nat /\ k - 1 <= Len(ms) /\ ~(k <= k - 1)
      BY <1>1, <1>2, <1>3
    <2>3. WeighHolds(ms, Weighed(ms)[k - 1], k - 1)
      BY <2>1, <2>2
    <2>4. WeighHolds(ms, WeighedStep(ms, Weighed(ms)[k - 1], k), k)
      BY <2>2, <2>3, WeighStepHolds
    <2> QED
      BY <1>2, <2>2, <2>4
  <1> QED
    BY <1>1, <1>4

\* The pass changes nothing but whether names are shown, and it leaves the name
\* standing that goes before all others at its coordinate.
IsSuppressed(after, ms) ==
  /\ DOMAIN after = DOMAIN ms
  /\ \A i \in DOMAIN ms :
       /\ after[i].kind = ms[i].kind /\ after[i].id = ms[i].id /\ after[i].at = ms[i].at
       /\ ms[i].kind # "stop" => after[i] = ms[i]
  /\ Labels(after) =
       {i \in Labels(ms) : \A j \in Labels(ms) : ms[j].at = ms[i].at => IsAhead(ms, i, j)}

\* Of the names at a coordinate, the first by priority and place in the list is
\* kept (suppressDuplicateStopLabels).
LEMMA LabelsAreSuppressed ==
  ASSUME NEW ms, IsMarkers(ms)
  PROVE  IsSuppressed(LabelsSuppressed(ms), ms)
  <1> DEFINE n == Len(ms)
  <1>1. n \in Nat /\ DOMAIN ms = 1 .. n
    BY DEF IsMarkers
  <1>2. PICK acc : acc = Weighed(ms)[n]
    OBVIOUS
  <1>3. WeighHolds(ms, acc, n)
    BY <1>2, WeighedHolds
  <1>4. PICK after, W : after = acc.markers /\ W = acc.winner
    OBVIOUS
  <1>5. /\ after = [i \in 1 .. n |-> NameAfter(ms, W, n, i)] /\ WinnersHold(ms, W, n)
        /\ LabelsSuppressed(ms) = after
    BY <1>2, <1>3, <1>4 DEF WeighHolds, LabelsSuppressed
  <1>6. /\ Labels(ms) \in SUBSET (1 .. n)
        /\ \A i \in Labels(ms) : IsStop(ms[i]) /\ ms[i].label = TRUE /\ ms[i].kind = "stop" /\ i \in Int
    BY LabelsAreStops
  <1>7. \A i \in 1 .. n : i <= n /\ after[i] = NameAfter(ms, W, n, i)
    BY <1>1, <1>5
  <1>8. DOMAIN after = 1 .. n
    BY <1>5
  <1>9. \A i \in 1 .. n : i \notin Labels(ms) => after[i] = ms[i]
    BY <1>7 DEF NameAfter
  <1>10. ASSUME NEW i \in Labels(ms)
         PROVE  /\ after[i].kind = "stop" /\ after[i].id = ms[i].id /\ after[i].at = ms[i].at
                /\ after[i].label = (W[ms[i].at] = i)
    <2>1. PICK t \in BOOLEAN : t = (W[ms[i].at] = i)
      OBVIOUS
    <2>2. after[i] = Labelled(ms[i], t)
      <3>1. i \in 1 .. n
        BY <1>6
      <3>2. i <= n /\ after[i] = NameAfter(ms, W, n, i)
        BY <1>7, <3>1
      <3> QED
        BY <2>1, <3>2 DEF NameAfter
    <2>3. ms[i].kind = "stop" /\ IsStop(ms[i])
      BY <1>6
    <2>4. PICK a : a = after[i]
      OBVIOUS
    <2>5. a.kind = ms[i].kind /\ a.id = ms[i].id /\ a.at = ms[i].at /\ a.label = t
      BY <2>2, <2>3, <2>4, LabellingLabels
    <2> QED
      BY <2>1, <2>3, <2>4, <2>5
  <1>11. ASSUME NEW i \in Labels(ms)
         PROVE  W[ms[i].at] = i <=>
                  \A j \in Labels(ms) : ms[j].at = ms[i].at => IsAhead(ms, i, j)
    <2>1. PICK w : w = W[ms[i].at]
      OBVIOUS
    <2>2. /\ w \in Labels(ms) /\ ms[w].at = ms[i].at
          /\ \A j \in Labels(ms) : ms[j].at = ms[i].at => IsAhead(ms, w, j)
      BY <1>5, <1>6, <1>7, <2>1 DEF WinnersHold
    <2>3. IsAhead(ms, i, w) => i = w
      BY <2>2, AheadIsOrder
    <2> QED
      BY <2>1, <2>2, <2>3
  <1>12. Labels(after) = {i \in Labels(ms) : W[ms[i].at] = i}
    <2>1. Labels(after) = {i \in 1 .. n : after[i].kind = "stop" /\ after[i].label}
      BY <1>8 DEF Labels
    <2>2. Labels(ms) = {i \in 1 .. n : ms[i].kind = "stop" /\ ms[i].label}
      BY <1>1 DEF Labels
    <2>3. ASSUME NEW i \in 1 .. n
          PROVE  after[i].kind = "stop" /\ after[i].label <=> i \in Labels(ms) /\ W[ms[i].at] = i
      <3>1. CASE i \in Labels(ms)
        BY <1>10, <3>1, Zenon
      <3>2. CASE i \notin Labels(ms)
        <4>1. after[i] = ms[i]
          BY <1>9, <3>2
        <4>2. ~(ms[i].kind = "stop" /\ ms[i].label)
          BY <2>2, <3>2
        <4> QED
          BY <3>2, <4>1, <4>2, Zenon
      <3> QED
        BY <3>1, <3>2
    <2> HIDE DEF n
    <2> QED
      BY <1>6, <2>1, <2>3
  <1>13. Labels(after) =
           {i \in Labels(ms) : \A j \in Labels(ms) : ms[j].at = ms[i].at => IsAhead(ms, i, j)}
    BY <1>11, <1>12
  <1>14. ASSUME NEW i \in DOMAIN ms
         PROVE  /\ after[i].kind = ms[i].kind /\ after[i].id = ms[i].id /\ after[i].at = ms[i].at
                /\ ms[i].kind # "stop" => after[i] = ms[i]
    BY <1>1, <1>6, <1>9, <1>10
  <1> QED
    BY <1>1, <1>5, <1>8, <1>13, <1>14 DEF IsSuppressed

-----------------------------------------------------------------------------
(* The markers of a scene.                                                  *)

\* A sequence made of one by a test, and one made of another item by item, are
\* sequences.
LEMMA RowIsSequence ==
  ASSUME NEW n \in Nat, NEW s, s = [i \in 1 .. n |-> s[i]]
  PROVE  IsRow(s) /\ Len(s) = n /\ DOMAIN s = 1 .. n /\ \A i \in 1 .. n : s[i] \in Range(s)
  <1>1. s \in [1 .. n -> Range(s)]
    BY DEF Range
  <1>2. s \in Seq(Range(s)) /\ Len(s) = n
    BY <1>1
  <1> QED
    BY <1>1, <1>2 DEF IsRow

\* A row of rows over a set is a sequence of sequences over it.
LEMMA RowsTogether ==
  ASSUME NEW T, NEW n \in Nat, NEW s, s = [i \in 1 .. n |-> s[i]],
         \A i \in 1 .. n : IsRow(s[i]) /\ Range(s[i]) \in SUBSET T
  PROVE  s \in Seq(Seq(T)) /\ Len(s) = n
  <1>1. \A i \in 1 .. n : s[i] \in Seq(T)
    <2> SUFFICES ASSUME NEW i \in 1 .. n PROVE s[i] \in Seq(T)
      OBVIOUS
    <2>1. PICK t : t = s[i]
      OBVIOUS
    <2>2. t \in Seq(Range(t)) /\ Range(t) \in SUBSET T
      BY <2>1 DEF IsRow
    <2>3. Len(t) \in Nat /\ t \in [1 .. Len(t) -> Range(t)]
      BY <2>2
    <2>4. t \in [1 .. Len(t) -> T]
      BY <2>2, <2>3
    <2> QED
      BY <2>1, <2>3, <2>4
  <1>2. s \in [1 .. n -> Seq(T)]
    BY <1>1
  <1> QED
    BY <1>2

Roles == {"meeting", "transfer", "origin-station", "intermediate"}

\* Every role has a rank and a priority.
LEMMA RolesHaveRanks ==
  ASSUME NEW r, r \in Roles
  PROVE  RankOfRole(r) \in 0 .. 3 /\ LabelPriority(r) \in Int
  <1>1. r = "meeting" \/ r = "transfer" \/ r = "origin-station" \/ r = "intermediate"
    BY DEF Roles
  <1>2. /\ Precedence["meeting"] = 3 /\ Precedence["transfer"] = 1
        /\ Precedence.origin_station = 2 /\ Precedence["intermediate"] = 0
    BY DEF Precedence
  <1>3. RankOfRole(r) \in 0 .. 3
    BY <1>1, <1>2 DEF RankOfRole
  <1>4. LabelPriority(r) \in Int
    BY <1>1 DEF LabelPriority
  <1> QED
    BY <1>3, <1>4

\* The calls of a leg.
LEMMA CallsOfLegAreCalls ==
  ASSUME NEW legs, NEW i \in DOMAIN legs, IsRow(legs[i].via)
  PROVE  IsRow(CallsOfLeg(legs, i)) /\ \A c \in Range(CallsOfLeg(legs, i)) : c.role \in Roles
  <1> DEFINE leg == legs[i]
             first == Call(leg.from, IF i \in {1, FirstTransit(legs)} THEN "origin-station"
                                     ELSE "transfer", "departing", leg)
             between == [k \in DOMAIN leg.via |->
                           Call(leg.via[k], "intermediate", "calling", leg)]
             last == Call(leg.to, IF i \in {Len(legs), LastTransit(legs)} THEN "meeting"
                                  ELSE "transfer", "arriving", leg)
             U == {first, last} \cup {between[k] : k \in DOMAIN leg.via}
             T == {c \in U : c.role \in Roles}
  <1>1. first \in T /\ last \in T
    BY DEF Call, Roles
  <1>2. \A k \in DOMAIN leg.via : between[k] \in T
    BY DEF Call, Roles
  <1>3. PICK n \in Nat : DOMAIN leg.via = 1 .. n
    BY DEF IsRow
  <1>4. CallsOfLeg(legs, i) = <<first>> \o between \o <<last>>
    BY DEF CallsOfLeg
  <1>5. between \in [1 .. n -> T]
    BY <1>2, <1>3
  <1> HIDE DEF first, between, last, T
  <1>6. <<first>> \in Seq(T) /\ <<last>> \in Seq(T) /\ between \in Seq(T)
    BY <1>1, <1>5
  <1>7. PICK s : s = CallsOfLeg(legs, i)
    OBVIOUS
  <1>8. s \in Seq(T)
    BY <1>4, <1>6, <1>7
  <1>9. s \in [1 .. Len(s) -> T] /\ Len(s) \in Nat
    BY <1>8
  <1>10. IsRow(s)
    BY <1>9, RowIsSequence
  <1>11. \A c \in Range(s) : c \in T
    BY <1>9 DEF Range
  <1> QED
    BY <1>7, <1>10, <1>11 DEF T

IsLegs(legs) == IsRow(legs) /\ \A k \in DOMAIN legs : IsRow(legs[k].via)

\* The calls of a journey.
LEMMA CallsAreCalls ==
  ASSUME NEW legs, IsLegs(legs)
  PROVE  IsRow(Calls(legs)) /\ \A c \in Range(Calls(legs)) : c.role \in Roles
  <1> DEFINE each == [i \in DOMAIN legs |-> CallsOfLeg(legs, i)]
             T == {c \in UNION {Range(each[i]) : i \in DOMAIN legs} : c.role \in Roles}
  <1>1. Len(legs) \in Nat /\ DOMAIN legs = 1 .. Len(legs)
    BY DEF IsLegs, IsRow
  <1>2. \A i \in 1 .. Len(legs) : IsRow(each[i]) /\ \A c \in Range(each[i]) : c.role \in Roles
    BY <1>1, CallsOfLegAreCalls DEF IsLegs
  <1>3. each = [i \in 1 .. Len(legs) |-> each[i]]
    BY <1>1
  <1> HIDE DEF each
  <1>4. \A i \in 1 .. Len(legs) : IsRow(each[i]) /\ Range(each[i]) \in SUBSET T
    BY <1>1, <1>2
  <1> HIDE DEF T
  <1>5. each \in Seq(Seq(T))
    BY <1>1, <1>3, <1>4, RowsTogether
  <1>6. PICK all : all = FlattenSeq(each)
    OBVIOUS
  <1>7. all \in Seq(T)
    BY <1>5, <1>6, FlattenIsSequence
  <1> DEFINE at == {i \in DOMAIN all : IsReal(all[i])}
  <1>8. Calls(legs) = AtPlaces(all, at)
    BY <1>6 DEF Calls, Where, each
  <1>9. at \in SUBSET (DOMAIN all)
    OBVIOUS
  <1> HIDE DEF at
  <1>10. Calls(legs) \in Seq(T)
    BY <1>7, <1>8, <1>9, AtPlacesIsSequence
  <1>11. PICK s : s = Calls(legs)
    OBVIOUS
  <1>12. s \in [1 .. Len(s) -> T] /\ Len(s) \in Nat
    BY <1>10, <1>11
  <1>13. IsRow(s)
    BY <1>12, RowIsSequence
  <1>14. \A c \in Range(s) : c \in T
    BY <1>12 DEF Range
  <1> QED
    BY <1>11, <1>13, <1>14 DEF T

\* Some stop that is called at most prominently has its role from a call.
LEMMA HighestRole ==
  ASSUME NEW here, here # {}, \A c \in here : c.role \in Roles
  PROVE  (CHOOSE c \in here : \A d \in here : RankOfRole(c.role) >= RankOfRole(d.role)).role \in Roles
  <1> DEFINE S == {3 - RankOfRole(c.role) : c \in here}
             Highest(c) == \A d \in here : RankOfRole(c.role) >= RankOfRole(d.role)
  <1>1. \A c \in here : RankOfRole(c.role) \in 0 .. 3
    BY RolesHaveRanks
  <1>2. S \in SUBSET Nat /\ S # {}
    BY <1>1
  <1>3. PICK n \in S : \A x \in S : n <= x
    <2> HIDE DEF S
    <2> QED
      BY <1>2, LeastNumber
  <1>4. PICK c \in here : n = 3 - RankOfRole(c.role)
    OBVIOUS
  <1>5. ASSUME NEW d \in here PROVE RankOfRole(c.role) >= RankOfRole(d.role)
    <2>1. n <= 3 - RankOfRole(d.role)
      BY <1>3
    <2> QED
      BY <1>1, <1>4, <2>1
  <1>6. \E x \in here : Highest(x)
    BY <1>5
  <1> HIDE DEF Highest
  <1>7. (CHOOSE x \in here : Highest(x)) \in here
    BY <1>6
  <1> QED
    BY <1>7 DEF Highest

\* What passes a test is a sequence of what the sequence holds.
LEMMA AtPlacesIsRow ==
  ASSUME NEW s, IsRow(s), NEW at \in SUBSET (DOMAIN s)
  PROVE  /\ IsRow(AtPlaces(s, at)) /\ Len(AtPlaces(s, at)) \in Nat
         /\ DOMAIN AtPlaces(s, at) = 1 .. Len(AtPlaces(s, at))
         /\ \A n \in DOMAIN AtPlaces(s, at) : \E i \in at : AtPlaces(s, at)[n] = s[i]
         /\ \A i \in at : s[i] \in Range(AtPlaces(s, at))
         /\ Range(AtPlaces(s, at)) \in SUBSET Range(s)
  <1>1. PICK t, p : t = AtPlaces(s, at) /\ p = Places(at)
    OBVIOUS
  <1>2. s \in Seq(Range(s))
    BY DEF IsRow
  <1>3. /\ t \in Seq(Range(s)) /\ DOMAIN t = 1 .. Cardinality(at) /\ IsNumbering(p, at)
        /\ Len(t) = Cardinality(at)
        /\ \A n \in 1 .. Cardinality(at) : p[n] \in at /\ t[n] = s[p[n]]
    BY <1>1, <1>2, AtPlacesIsSequence
  <1>4. Len(t) \in Nat /\ t \in [1 .. Len(t) -> Range(s)]
    BY <1>3
  <1>5. IsRow(t)
    BY <1>4, RowIsSequence
  <1>6. ASSUME NEW i \in at PROVE s[i] \in Range(t)
    <2>1. PICK n \in 1 .. Cardinality(at) : p[n] = i
      BY <1>3 DEF IsNumbering
    <2> QED
      BY <1>3, <2>1 DEF Range
  <1>7. Range(t) \in SUBSET Range(s)
    BY <1>4 DEF Range
  <1>8. \A n \in DOMAIN t : \E i \in at : t[n] = s[i]
    BY <1>3
  <1> QED
    BY <1>1, <1>3, <1>4, <1>5, <1>6, <1>7, <1>8

\* The stops of a journey have the roles of calls.
LEMMA StopsHaveRoles ==
  ASSUME NEW legs, IsLegs(legs)
  PROVE  IsRow(StopsOf(legs)) /\ \A i \in DOMAIN StopsOf(legs) : StopsOf(legs)[i].role \in Roles
  <1>1. PICK calls : calls = Calls(legs)
    OBVIOUS
  <1>2. IsRow(calls) /\ \A c \in Range(calls) : c.role \in Roles
    BY <1>1, CallsAreCalls
  <1>3. Len(calls) \in Nat /\ DOMAIN calls = 1 .. Len(calls)
    BY <1>2 DEF IsRow
  <1> DEFINE rows == [i \in DOMAIN calls |-> [call |-> calls[i], nth |-> i]]
             at == {i \in DOMAIN rows : \A j \in 1 .. rows[i].nth - 1 :
                                          calls[j].stop /= rows[i].call.stop}
             firsts == AtPlaces(rows, at)
  <1>4. StopsOf(legs) = [i \in DOMAIN firsts |-> StopOf(calls, firsts[i].call.stop)]
    BY <1>1 DEF StopsOf, Where
  <1>5. rows = [i \in 1 .. Len(calls) |-> rows[i]] /\ DOMAIN rows = DOMAIN calls
    BY <1>3
  <1>6. \A i \in DOMAIN rows : rows[i].call = calls[i]
    OBVIOUS
  <1>7. at \in SUBSET (DOMAIN rows)
    OBVIOUS
  <1> HIDE DEF rows, at
  <1>8. IsRow(rows)
    BY <1>3, <1>5, RowIsSequence
  <1>9. /\ Len(firsts) \in Nat /\ DOMAIN firsts = 1 .. Len(firsts)
        /\ \A n \in DOMAIN firsts : \E i \in at : firsts[n] = rows[i]
    BY <1>7, <1>8, AtPlacesIsRow
  <1> HIDE DEF firsts
  <1>10. PICK stops : stops = StopsOf(legs)
    OBVIOUS
  <1>11. /\ stops = [i \in 1 .. Len(firsts) |-> stops[i]] /\ DOMAIN stops = DOMAIN firsts
         /\ \A i \in DOMAIN firsts : stops[i] = StopOf(calls, firsts[i].call.stop)
    BY <1>4, <1>9, <1>10
  <1>12. IsRow(stops)
    BY <1>9, <1>11, RowIsSequence
  <1>13. ASSUME NEW n \in DOMAIN firsts PROVE stops[n].role \in Roles
    <2>1. PICK i \in DOMAIN calls : firsts[n].call = calls[i]
      BY <1>5, <1>6, <1>7, <1>9
    <2>2. PICK stop : stop = calls[i].stop
      OBVIOUS
    <2> DEFINE has == {k \in DOMAIN calls : calls[k].stop = stop}
               here == Range(AtPlaces(calls, has))
               top == CHOOSE c \in here : \A d \in here : RankOfRole(c.role) >= RankOfRole(d.role)
    <2>3. i \in has /\ has \in SUBSET (DOMAIN calls)
      BY <2>2
    <2>4. stops[n] = StopOf(calls, stop)
      BY <1>11, <2>1, <2>2
    <2>5. StopOf(calls, stop) =
            [kind |-> "stop", id |-> stop, at |-> stop.at, role |-> top.role,
             paint |-> Painted(AtPlaces(calls, has))]
      BY DEF StopOf, Where
    <2>6. stops[n].role = top.role
      <3> HIDE DEF top, has
      <3> QED
        BY <2>4, <2>5
    <2> HIDE DEF has
    <2>7. here \in SUBSET Range(calls) /\ calls[i] \in here
      BY <1>2, <2>3, AtPlacesIsRow
    <2> HIDE DEF here
    <2>8. top.role \in Roles
      BY <1>2, <2>7, HighestRole
    <2> QED
      BY <2>6, <2>8
  <1> QED
    BY <1>10, <1>11, <1>12, <1>13

IsMarker(m) == m.kind = "stop" => IsStop(m)

\* Two markers that are at most named differently.
SameMark(m, n) ==
  /\ m.kind = n.kind /\ m.id = n.id /\ m.at = n.at
  /\ m.kind # "stop" => m = n

AreMarkers(s) == IsRow(s) /\ \A m \in Range(s) : IsMarker(m)

\* Focusing a traveler changes at most the names of the stops of a journey.
LEMMA StopMarkersAreMarkers ==
  ASSUME NEW city, NEW journey, IsLegs(journey.legs), NEW f
  PROVE  /\ AreMarkers(StopMarkers(city, journey, f))
         /\ Len(StopMarkers(city, journey, f)) = Len(StopMarkers(city, journey, Nobody))
         /\ \A i \in DOMAIN StopMarkers(city, journey, f) :
              SameMark(StopMarkers(city, journey, f)[i], StopMarkers(city, journey, Nobody)[i])
  <1>1. PICK stops : stops = StopsOf(journey.legs)
    OBVIOUS
  <1>2. IsRow(stops) /\ \A i \in DOMAIN stops : stops[i].role \in Roles
    BY <1>1, StopsHaveRoles
  <1> DEFINE at == {i \in DOMAIN stops : ~(stops[i].role = "meeting" /\ city.at /= Nowhere
                                           /\ stops[i].at = city.at)}
  <1>3. PICK drawn : drawn = AtPlaces(stops, at)
    OBVIOUS
  <1> DEFINE Mark(i, g) ==
               [kind |-> "stop", id |-> <<journey.traveler, drawn[i].id>>, at |-> drawn[i].at,
                role |-> drawn[i].role, paint |-> drawn[i].paint,
                label |-> drawn[i].role /= "intermediate" \/ IsFocused(journey.traveler, g),
                priority |-> LabelPriority(drawn[i].role)]
  <1>4. \A g : StopMarkers(city, journey, g) = [i \in DOMAIN drawn |-> Mark(i, g)]
    BY <1>1, <1>3 DEF StopMarkers, Where
  <1>5. at \in SUBSET (DOMAIN stops)
    OBVIOUS
  <1> HIDE DEF at
  <1>6. /\ Len(drawn) \in Nat /\ DOMAIN drawn = 1 .. Len(drawn)
        /\ \A n \in DOMAIN drawn : \E i \in at : drawn[n] = stops[i]
    BY <1>2, <1>3, <1>5, AtPlacesIsRow
  <1>7. \A i \in DOMAIN drawn : drawn[i].role \in Roles
    BY <1>2, <1>5, <1>6
  <1>8. ASSUME NEW i \in DOMAIN drawn, NEW g PROVE IsStop(Mark(i, g))
    <2>1. PICK o, r, p : o = drawn[i].at /\ r = drawn[i].role /\ p = drawn[i].paint
      OBVIOUS
    <2>2. PICK x, q : x = <<journey.traveler, drawn[i].id>> /\ q = LabelPriority(r)
      OBVIOUS
    <2>3. PICK l : l = (r /= "intermediate" \/ IsFocused(journey.traveler, g))
      OBVIOUS
    <2>4. l \in BOOLEAN /\ q \in Int
      BY <1>7, <2>1, <2>2, <2>3, RolesHaveRanks
    <2>5. PICK m : m = [kind |-> "stop", id |-> x, at |-> o, role |-> r, paint |-> p, label |-> l,
                        priority |-> q]
      OBVIOUS
    <2>6. Mark(i, g) = m
      BY <2>1, <2>2, <2>3, <2>5
    <2>7. IsStop(m)
      BY <2>4, <2>5 DEF IsStop
    <2> QED
      BY <2>6, <2>7
  <1>9. ASSUME NEW i \in DOMAIN drawn, NEW g PROVE SameMark(Mark(i, g), Mark(i, Nobody))
    BY DEF SameMark
  <1> HIDE DEF Mark
  <1>10. PICK s, t : s = StopMarkers(city, journey, f) /\ t = StopMarkers(city, journey, Nobody)
    OBVIOUS
  <1>11. /\ s = [i \in 1 .. Len(drawn) |-> s[i]] /\ t = [i \in 1 .. Len(drawn) |-> t[i]]
         /\ \A i \in 1 .. Len(drawn) : s[i] = Mark(i, f) /\ t[i] = Mark(i, Nobody)
    BY <1>4, <1>6, <1>10
  <1>12. IsRow(s) /\ Len(s) = Len(drawn) /\ DOMAIN s = 1 .. Len(drawn) /\ Len(t) = Len(drawn)
    BY <1>6, <1>11, RowIsSequence
  <1>13. \A m \in Range(s) : IsMarker(m)
    BY <1>6, <1>8, <1>11, <1>12 DEF Range, IsMarker
  <1>14. \A i \in DOMAIN s : SameMark(s[i], t[i])
    BY <1>6, <1>9, <1>11, <1>12
  <1> QED
    BY <1>10, <1>12, <1>13, <1>14 DEF AreMarkers

\* The markers of cities and origins are none of stops.
LEMMA OtherMarkersAreMarkers ==
  ASSUME NEW mode \in DOMAIN Ranked, NEW chosen
  PROVE  AreMarkers(CityMarkers(mode, chosen)) /\ AreMarkers(OriginMarkers)
  <1>1. IsRow(Rank(mode)) /\ IsRow(Travelers)
    BY MapSceneAssumption DEF Rank
  <1>2. AreMarkers(CityMarkers(mode, chosen))
    <2> DEFINE at == {i \in DOMAIN Rank(mode) : Rank(mode)[i].at /= Nowhere}
    <2>1. PICK located : located = AtPlaces(Rank(mode), at)
      OBVIOUS
    <2>2. PICK s : s = CityMarkers(mode, chosen)
      OBVIOUS
    <2>3. s = [i \in DOMAIN located |->
                 [kind |-> "candidate", id |-> located[i].city, at |-> located[i].at,
                  selected |-> located[i].city = chosen]]
      BY <2>1, <2>2 DEF CityMarkers, Where
    <2>4. at \in SUBSET (DOMAIN Rank(mode))
      OBVIOUS
    <2> HIDE DEF at
    <2>5. Len(located) \in Nat /\ DOMAIN located = 1 .. Len(located)
      BY <1>1, <2>1, <2>4, AtPlacesIsRow
    <2>6. s = [i \in 1 .. Len(located) |-> s[i]] /\ \A i \in 1 .. Len(located) : s[i].kind = "candidate"
      BY <2>3, <2>5
    <2>7. IsRow(s) /\ DOMAIN s = 1 .. Len(located)
      BY <2>5, <2>6, RowIsSequence
    <2> QED
      BY <2>2, <2>6, <2>7 DEF AreMarkers, IsMarker, Range
  <1>3. AreMarkers(OriginMarkers)
    <2> DEFINE at == {i \in DOMAIN Travelers : OriginAt[Travelers[i]] /= Nowhere}
    <2>1. PICK located : located = AtPlaces(Travelers, at)
      OBVIOUS
    <2>2. PICK s : s = OriginMarkers
      OBVIOUS
    <2>3. s = [i \in DOMAIN located |->
                 [kind |-> "origin", id |-> located[i], at |-> OriginAt[located[i]]]]
      BY <2>1, <2>2 DEF OriginMarkers, Where
    <2>4. at \in SUBSET (DOMAIN Travelers)
      OBVIOUS
    <2> HIDE DEF at
    <2>5. Len(located) \in Nat /\ DOMAIN located = 1 .. Len(located)
      BY <1>1, <2>1, <2>4, AtPlacesIsRow
    <2>6. s = [i \in 1 .. Len(located) |-> s[i]] /\ \A i \in 1 .. Len(located) : s[i].kind = "origin"
      BY <2>3, <2>5
    <2>7. IsRow(s) /\ DOMAIN s = 1 .. Len(located)
      BY <2>5, <2>6, RowIsSequence
    <2> QED
      BY <2>2, <2>6, <2>7 DEF AreMarkers, IsMarker, Range
  <1> QED
    BY <1>2, <1>3

\* The journeys to a city have legs.
LEMMA JourneysHaveLegs ==
  ASSUME NEW mode \in DOMAIN Ranked, NEW chosen
  PROVE  /\ IsRow(Journeys(mode, chosen))
         /\ \A i \in DOMAIN Journeys(mode, chosen) : IsLegs(Journeys(mode, chosen)[i].legs)
  <1>1. PICK cities : cities = Rank(mode)
    OBVIOUS
  <1>2. /\ IsRow(cities)
        /\ \A i \in DOMAIN cities :
             /\ IsRow(cities[i].journeys)
             /\ \A j \in DOMAIN cities[i].journeys : IsLegs(cities[i].journeys[j].legs)
    BY <1>1, MapSceneAssumption DEF Rank, IsLegs
  <1> DEFINE at == {i \in DOMAIN cities : cities[i].city = chosen}
  <1>3. PICK selected : selected = AtPlaces(cities, at)
    OBVIOUS
  <1>4. Selected(mode, chosen) = selected
    BY <1>1, <1>3 DEF Selected, Where
  <1>5. at \in SUBSET (DOMAIN cities)
    OBVIOUS
  <1> HIDE DEF at
  <1>6. /\ IsRow(selected) /\ Len(selected) \in Nat /\ DOMAIN selected = 1 .. Len(selected)
        /\ \A n \in DOMAIN selected : \E i \in at : selected[n] = cities[i]
    BY <1>2, <1>3, <1>5, AtPlacesIsRow
  <1>7. CASE selected = << >>
    <2>1. Journeys(mode, chosen) = << >>
      BY <1>4, <1>7 DEF Journeys
    <2>2. IsRow(<< >>)
      BY DEF IsRow
    <2> QED
      BY <2>1, <2>2
  <1>8. CASE selected # << >>
    <2>1. Len(selected) # 0
      BY <1>6, <1>8 DEF IsRow
    <2>2. 1 \in DOMAIN selected
      BY <1>6, <2>1
    <2>3. PICK i \in DOMAIN cities : selected[1] = cities[i]
      BY <1>5, <1>6, <2>2
    <2>4. Journeys(mode, chosen) = cities[i].journeys
      BY <1>4, <1>8, <2>3 DEF Journeys
    <2> QED
      BY <1>2, <2>4
  <1> QED
    BY <1>7, <1>8

\* What is a sequence of markers by its elements is one item by item.
LEMMA MarkersByItem ==
  ASSUME NEW s, AreMarkers(s)
  PROVE  IsMarkers(s)
  <1>1. s \in Seq(Range(s))
    BY DEF AreMarkers, IsRow
  <1>2. Len(s) \in Nat /\ s = [i \in 1 .. Len(s) |-> s[i]] /\ \A i \in 1 .. Len(s) : s[i] \in Range(s)
    BY <1>1
  <1> QED
    BY <1>2 DEF IsMarkers, AreMarkers, IsMarker

\* The markers of a scene, and what focusing a traveler changes about them.
LEMMA SceneHasMarkers ==
  ASSUME NEW mode \in DOMAIN Ranked, NEW chosen, NEW f
  PROVE  /\ IsMarkers(UnsuppressedMarkers(TRUE, mode, chosen, f))
         /\ Len(UnsuppressedMarkers(TRUE, mode, chosen, f)) =
              Len(UnsuppressedMarkers(TRUE, mode, chosen, Nobody))
         /\ \A i \in 1 .. Len(UnsuppressedMarkers(TRUE, mode, chosen, f)) :
              SameMark(UnsuppressedMarkers(TRUE, mode, chosen, f)[i],
                       UnsuppressedMarkers(TRUE, mode, chosen, Nobody)[i])
  <1>1. PICK journeys, city : journeys = Journeys(mode, chosen) /\ city = Selected(mode, chosen)[1]
    OBVIOUS
  <1>2. PICK before, behind : before = CityMarkers(mode, chosen) /\ behind = OriginMarkers
    OBVIOUS
  <1> DEFINE n == Len(journeys)
             a == [i \in 1 .. n |-> StopMarkers(city, journeys[i], f)]
             b == [i \in 1 .. n |-> StopMarkers(city, journeys[i], Nobody)]
             Of(s) == UNION {Range(s[i]) : i \in 1 .. n}
             U == Range(before) \cup Range(behind) \cup Of(a) \cup Of(b)
             T == {m \in U : IsMarker(m)}
             R == {p \in T \X T : SameMark(p[1], p[2])}
  <1>3. n \in Nat /\ DOMAIN journeys = 1 .. n /\ \A i \in 1 .. n : IsLegs(journeys[i].legs)
    <2>1. IsRow(journeys) /\ \A i \in DOMAIN journeys : IsLegs(journeys[i].legs)
      BY <1>1, JourneysHaveLegs
    <2> QED
      BY <2>1 DEF IsRow
  <1>4. \A i \in 1 .. n :
          /\ AreMarkers(a[i]) /\ AreMarkers(b[i]) /\ Len(a[i]) = Len(b[i])
          /\ \A k \in DOMAIN a[i] : SameMark(a[i][k], b[i][k])
    BY <1>3, StopMarkersAreMarkers
  <1>5. AreMarkers(before) /\ AreMarkers(behind)
    BY <1>2, OtherMarkersAreMarkers
  <1>6. /\ UnsuppressedMarkers(TRUE, mode, chosen, f) = before \o FlattenSeq(a) \o behind
        /\ UnsuppressedMarkers(TRUE, mode, chosen, Nobody) = before \o FlattenSeq(b) \o behind
    BY <1>1, <1>2, <1>3 DEF UnsuppressedMarkers
  <1>7. a = [i \in 1 .. n |-> a[i]] /\ b = [i \in 1 .. n |-> b[i]]
    OBVIOUS
  <1> HIDE DEF n, a, b
  <1>8. /\ \A i \in 1 .. n : /\ IsRow(a[i]) /\ Range(a[i]) \in SUBSET T
                             /\ IsRow(b[i]) /\ Range(b[i]) \in SUBSET T
        /\ Range(before) \in SUBSET T /\ Range(behind) \in SUBSET T
    <2>1. Range(before) \in SUBSET T /\ Range(behind) \in SUBSET T
      BY <1>5 DEF AreMarkers
    <2>2. ASSUME NEW i \in 1 .. n, NEW s, s \in {a[i], b[i]}
          PROVE  IsRow(s) /\ Range(s) \in SUBSET T
      <3>1. AreMarkers(s)
        BY <1>4, <2>2
      <3>2. \A m \in Range(s) : m \in U
        <4>1. Range(a[i]) \in SUBSET Of(a) /\ Range(b[i]) \in SUBSET Of(b)
          OBVIOUS
        <4> HIDE DEF Of
        <4> QED
          BY <2>2, <4>1
      <3> HIDE DEF U
      <3> QED
        BY <3>1, <3>2 DEF AreMarkers
    <2> HIDE DEF T
    <2> QED
      BY <2>1, <2>2
  <1>9. \A m \in T : IsMarker(m)
    OBVIOUS
  <1>10. \A x, y \in T : SameMark(x, y) <=> <<x, y>> \in R
    OBVIOUS
  <1> HIDE DEF T, R
  <1>11. a \in Seq(Seq(T)) /\ Len(a) = n /\ b \in Seq(Seq(T)) /\ Len(b) = n
    BY <1>3, <1>7, <1>8, RowsTogether
  <1>12. \A s : IsRow(s) /\ Range(s) \in SUBSET T => s \in Seq(T)
    <2> SUFFICES ASSUME NEW s, IsRow(s), Range(s) \in SUBSET T PROVE s \in Seq(T)
      OBVIOUS
    <2>1. s \in Seq(Range(s))
      BY DEF IsRow
    <2>2. Len(s) \in Nat /\ s \in [1 .. Len(s) -> Range(s)]
      BY <2>1
    <2>3. s \in [1 .. Len(s) -> T]
      BY <2>2
    <2> QED
      BY <2>2, <2>3
  <1>13. before \in Seq(T) /\ behind \in Seq(T)
    BY <1>5, <1>8, <1>12 DEF AreMarkers
  <1>14. PICK x, y : x = FlattenSeq(a) /\ y = FlattenSeq(b)
    OBVIOUS
  <1>15. x \in Seq(T) /\ y \in Seq(T)
    BY <1>11, <1>14, FlattenIsSequence
  <1>16. Alike(x, y, R)
    <2>1. ASSUME NEW i \in 1 .. n PROVE Alike(a[i], b[i], R)
      <3>1. PICK s, t : s = a[i] /\ t = b[i]
        OBVIOUS
      <3>2. s \in Seq(T) /\ t \in Seq(T) /\ Len(s) = Len(t)
        BY <1>4, <1>8, <1>12, <3>1
      <3>3. \A k \in 1 .. Len(s) : s[k] \in T /\ t[k] \in T /\ SameMark(s[k], t[k])
        BY <1>4, <3>1, <3>2
      <3>4. Alike(s, t, R)
        BY <1>10, <3>2, <3>3 DEF Alike
      <3> QED
        BY <3>1, <3>4
    <2> QED
      BY <1>11, <1>14, <2>1, FlattenAlike
  <1>17. \A s \in Seq(T) : Alike(s, s, R)
    <2>1. \A m \in T : SameMark(m, m)
      BY DEF SameMark
    <2> QED
      BY <1>10, <2>1 DEF Alike
  <1>18. before \o x \in Seq(T) /\ before \o y \in Seq(T)
    BY <1>13, <1>15, ConcatProperties
  <1>19. PICK u, v : u = before \o x \o behind /\ v = before \o y \o behind
    OBVIOUS
  <1>20. Alike(before \o x, before \o y, R)
    BY <1>13, <1>15, <1>16, <1>17, AlikeTogether
  <1>21. Alike(u, v, R)
    BY <1>13, <1>17, <1>18, <1>19, <1>20, AlikeTogether
  <1>22. u \in Seq(T) /\ v \in Seq(T)
    BY <1>13, <1>18, <1>19, ConcatProperties
  <1>23. Len(u) \in Nat /\ Len(u) = Len(v) /\ u \in [1 .. Len(u) -> T] /\ v \in [1 .. Len(u) -> T]
    BY <1>21, <1>22 DEF Alike
  <1>24. \A i \in 1 .. Len(u) : SameMark(u[i], v[i])
    BY <1>10, <1>21, <1>23 DEF Alike
  <1>25. IsMarkers(u)
    BY <1>9, <1>23 DEF IsMarkers, IsMarker
  <1> QED
    BY <1>6, <1>14, <1>19, <1>23, <1>24, <1>25

\* A camera's key is made of what focusing leaves alone.
MarkOfKey(m) == <<m.kind, m.id, m.at, m.kind = "candidate" /\ m.selected>>

\* Markers that are the same but for the focus have the same part of the key.
LEMMA SameMarkSameKey ==
  ASSUME NEW m, NEW n, SameMark(m, n)
  PROVE  MarkOfKey(m) = MarkOfKey(n)
  <1>1. m.kind = n.kind /\ m.id = n.id /\ m.at = n.at
    BY DEF SameMark
  <1>2. (m.kind = "candidate" /\ m.selected) = (n.kind = "candidate" /\ n.selected)
    <2>1. CASE m.kind = "candidate"
      <3>1. m = n
        BY <2>1 DEF SameMark
      <3> QED
        BY <3>1
    <2>2. CASE m.kind # "candidate"
      BY <1>1, <2>2
    <2> QED
      BY <2>1, <2>2
  <1> QED
    BY <1>1, <1>2 DEF MarkOfKey

\* In every state of the scene, one name is shown at each coordinate, and focusing a
\* traveler changes neither the stops and lines nor where the camera looks
\* (map-markers.ts).
THEOREM SceneIsRight ==
  ASSUME MapSceneTypeOK
  PROVE  LabelsDontCollide /\ FocusMovesNothing
  <1>1. sceneMode \in DOMAIN Ranked /\ shownResults \in BOOLEAN
    BY DEF MapSceneTypeOK
  <1>2. PICK ms, ns : /\ ms = UnsuppressedMarkers(shownResults, sceneMode, sceneCity, focus)
                      /\ ns = UnsuppressedMarkers(shownResults, sceneMode, sceneCity, Nobody)
    OBVIOUS
  <1>3. PICK scene, plain : /\ scene = Scene(shownResults, sceneMode, sceneCity, focus)
                            /\ plain = Scene(shownResults, sceneMode, sceneCity, Nobody)
    OBVIOUS
  <1>4. scene.lines = plain.lines
    BY <1>3 DEF Scene
  <1>5. /\ IsMarkers(ms) /\ IsMarkers(ns) /\ Len(ms) = Len(ns)
        /\ \A i \in 1 .. Len(ms) : SameMark(ms[i], ns[i])
        /\ IsSuppressed(scene.markers, ms) /\ IsSuppressed(plain.markers, ns)
    <2>1. CASE shownResults
      <3>1. /\ ms = UnsuppressedMarkers(TRUE, sceneMode, sceneCity, focus)
            /\ ns = UnsuppressedMarkers(TRUE, sceneMode, sceneCity, Nobody)
        BY <1>2, <2>1 DEF UnsuppressedMarkers
      <3>2. /\ IsMarkers(ms) /\ IsMarkers(ns) /\ Len(ms) = Len(ns)
            /\ \A i \in 1 .. Len(ms) : SameMark(ms[i], ns[i])
        BY <1>1, <3>1, SceneHasMarkers
      <3>3. scene.markers = LabelsSuppressed(ms) /\ plain.markers = LabelsSuppressed(ns)
        BY <1>2, <1>3, <2>1 DEF Scene
      <3>4. IsSuppressed(scene.markers, ms) /\ IsSuppressed(plain.markers, ns)
        BY <3>2, <3>3, LabelsAreSuppressed
      <3> QED
        BY <3>2, <3>4
    <2>2. CASE ~shownResults
      <3>1. ms = OriginMarkers /\ ns = OriginMarkers
        BY <1>2, <2>2 DEF UnsuppressedMarkers
      <3>2. scene.markers = OriginMarkers /\ plain.markers = OriginMarkers
        BY <1>3, <2>2 DEF Scene
      <3>3. IsMarkers(OriginMarkers)
        BY <1>1, OtherMarkersAreMarkers, MarkersByItem
      <3>4. IsSuppressed(OriginMarkers, OriginMarkers)
        <4>1. \A i \in DOMAIN OriginMarkers : OriginMarkers[i].kind = "origin"
          BY DEF OriginMarkers
        <4>2. Labels(OriginMarkers) = {}
          BY <4>1 DEF Labels
        <4> QED
          BY <4>2 DEF IsSuppressed
      <3> QED
        BY <3>1, <3>2, <3>3, <3>4 DEF SameMark
    <2> QED
      BY <1>1, <2>1, <2>2
  <1>6. LabelsDontCollide
    <2>1. Labels(scene.markers) =
            {i \in Labels(ms) : \A j \in Labels(ms) : ms[j].at = ms[i].at => IsAhead(ms, i, j)}
      BY <1>5 DEF IsSuppressed
    <2> QED
      BY <1>2, <1>3, <2>1 DEF LabelsDontCollide, KeepsFirst, IsAhead
  <1>7. CameraKey(scene) = CameraKey(plain)
    <2>1. DOMAIN ms = 1 .. Len(ms) /\ DOMAIN ns = 1 .. Len(ms)
      BY <1>5 DEF IsMarkers
    <2>2. DOMAIN scene.markers = 1 .. Len(ms) /\ DOMAIN plain.markers = 1 .. Len(ms)
      BY <1>5, <2>1 DEF IsSuppressed
    <2>3. ASSUME NEW i \in 1 .. Len(ms)
          PROVE  MarkOfKey(scene.markers[i]) = MarkOfKey(plain.markers[i])
      <3>1. PICK x, y, u, v : /\ x = ms[i] /\ y = ns[i]
                              /\ u = scene.markers[i] /\ v = plain.markers[i]
        OBVIOUS
      <3>2. SameMark(u, x) /\ SameMark(x, y) /\ SameMark(v, y)
        BY <1>5, <2>1, <3>1 DEF IsSuppressed, SameMark
      <3> QED
        BY <3>1, <3>2, SameMarkSameKey
    <2>4. CameraKey(scene) =
            <<[i \in DOMAIN scene.markers |-> MarkOfKey(scene.markers[i])],
              [i \in DOMAIN scene.lines |->
                <<scene.lines[i].id, scene.lines[i].walk, scene.lines[i].points>>]>>
      BY DEF CameraKey, MarkOfKey
    <2>5. CameraKey(plain) =
            <<[i \in DOMAIN plain.markers |-> MarkOfKey(plain.markers[i])],
              [i \in DOMAIN plain.lines |->
                <<plain.lines[i].id, plain.lines[i].walk, plain.lines[i].points>>]>>
      BY DEF CameraKey, MarkOfKey
    <2>6. [i \in DOMAIN scene.markers |-> MarkOfKey(scene.markers[i])] =
            [i \in DOMAIN plain.markers |-> MarkOfKey(plain.markers[i])]
      BY <2>2, <2>3
    <2> QED
      BY <1>4, <2>4, <2>5, <2>6
  <1>8. \A t : LegendServices(scene, t) = LegendServices(plain, t)
    BY <1>4 DEF LegendServices
  <1>9. FocusMovesNothing
    BY <1>3, <1>7, <1>8 DEF FocusMovesNothing, AreAlike
  <1> QED
    BY <1>6, <1>9

=============================================================================
