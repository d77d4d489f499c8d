----------------------------- MODULE ItineraryProofs -----------------------------
(***************************************************************************)
(* Proofs about what a reader is shown of a journey, for any itinerary of    *)
(* legs one after the other: the timeline tells all of it, its days are      *)
(* separated, and chips and panel agree, in whatever form the row holds it.  *)
(***************************************************************************)
EXTENDS JourneyDocument, MapProofs

-----------------------------------------------------------------------------
(* Places in a sequence.                                                    *)

\* There is one way to number a set of places.
LEMMA NumberingsAgree ==
  ASSUME NEW at \in SUBSET Nat, NEW p, NEW q, IsNumbering(p, at), IsNumbering(q, at)
  PROVE  p = q
  <1>1. PICK c \in Nat : c = Cardinality(at)
    BY DEF IsNumbering
  <1>2. /\ p \in [1 .. c -> at] /\ q \in [1 .. c -> at]
        /\ \A x \in at : \E i \in 1 .. c : p[i] = x
        /\ \A x \in at : \E i \in 1 .. c : q[i] = x
        /\ \A i, j \in 1 .. c : i < j => p[i] < p[j] /\ q[i] < q[j]
    BY <1>1 DEF IsNumbering
  <1> DEFINE other == {i \in Nat : i \in 1 .. c /\ p[i] # q[i]}
  <1>3. ASSUME other # {} PROVE FALSE
    <2>1. PICK k \in other : \A m \in other : k <= m
      <3>1. other \in SUBSET Nat
        OBVIOUS
      <3> HIDE DEF other
      <3> QED
        BY <1>3, <3>1, LeastNumber
    <2>2. /\ k \in 1 .. c /\ k \in Nat /\ p[k] # q[k] /\ p[k] \in at /\ q[k] \in at
          /\ \A j \in 1 .. c : j < k => p[j] = q[j]
      BY <1>2, <2>1
    <2>3. \A i \in 1 .. c : p[i] \in Nat /\ q[i] \in Nat /\ i \in Nat
      <3>1. \A x \in at : x \in Nat
        OBVIOUS
      <3>2. \A i \in 1 .. c : p[i] \in at /\ q[i] \in at
        BY <1>2
      <3>3. \A i \in 1 .. c : i \in Nat
        OBVIOUS
      <3> QED
        BY <3>1, <3>2, <3>3
    <2>4. ASSUME p[k] < q[k] PROVE FALSE
      <3>1. PICK j \in 1 .. c : q[j] = p[k]
        BY <1>2, <2>2
      <3>2. CASE j < k
        <4>1. p[j] = q[j] /\ p[j] < p[k] /\ q[j] < q[k]
          BY <1>2, <2>2, <3>2
        <4> QED
          BY <2>2, <2>3, <3>1, <4>1
      <3>3. CASE k < j
        <4>1. p[k] < p[j] /\ q[k] < q[j]
          BY <1>2, <2>2, <3>3
        <4> QED
          BY <2>2, <2>3, <2>4, <3>1, <4>1
      <3> QED
        BY <2>2, <2>3, <3>1, <3>2, <3>3
    <2>5. ASSUME q[k] < p[k] PROVE FALSE
      <3>1. PICK j \in 1 .. c : p[j] = q[k]
        BY <1>2, <2>2
      <3>2. CASE j < k
        <4>1. p[j] = q[j] /\ p[j] < p[k] /\ q[j] < q[k]
          BY <1>2, <2>2, <3>2
        <4> QED
          BY <2>2, <2>3, <3>1, <4>1
      <3>3. CASE k < j
        <4>1. p[k] < p[j] /\ q[k] < q[j]
          BY <1>2, <2>2, <3>3
        <4> QED
          BY <2>2, <2>3, <2>5, <3>1, <4>1
      <3> QED
        BY <2>2, <2>3, <3>1, <3>2, <3>3
    <2> QED
      BY <2>2, <2>3, <2>4, <2>5
  <1>4. \A i \in 1 .. c : p[i] = q[i]
    BY <1>3
  <1> QED
    BY <1>2, <1>4

\* What a numbering looks like decides how many places there are.
LEMMA NumberedIs ==
  ASSUME NEW n \in Nat, NEW at \in SUBSET (1 .. n), NEW c \in Nat, NEW q \in [1 .. c -> at],
         \A x \in at : \E i \in 1 .. c : q[i] = x,
         \A i, j \in 1 .. c : i < j => q[i] < q[j]
  PROVE  Cardinality(at) = c /\ Places(at) = q
  <1>1. \A i, j \in 1 .. c : q[i] = q[j] => i = j
    <2> SUFFICES ASSUME NEW i \in 1 .. c, NEW j \in 1 .. c, q[i] = q[j] PROVE i = j
      OBVIOUS
    <2>1. q[i] \in at /\ q[j] \in at /\ i \in Nat /\ j \in Nat
      OBVIOUS
    <2>2. q[i] \in Nat /\ q[j] \in Nat
      <3>1. \A x \in at : x \in Nat
        OBVIOUS
      <3> QED
        BY <2>1, <3>1
    <2>3. (i < j => q[i] < q[j]) /\ (j < i => q[j] < q[i])
      OBVIOUS
    <2> QED
      BY <2>1, <2>2, <2>3
  <1>2. q \in Surjection(1 .. c, at) /\ q \in Injection(1 .. c, at)
    BY <1>1 DEF Surjection, Injection, IsInjective
  <1>3. IsFiniteSet(1 .. c) /\ Cardinality(1 .. c) = c
    BY FS_Interval
  <1>4. Cardinality(at) = c
    BY <1>2, <1>3, FS_Surjection
  <1>5. IsNumbering(q, at)
    BY <1>4 DEF IsNumbering
  <1>6. IsNumbering(Places(at), at)
    BY PlacesAreNumbered
  <1>7. at \in SUBSET Nat
    OBVIOUS
  <1> QED
    BY <1>4, <1>5, <1>6, <1>7, NumberingsAgree

\* One more place behind the others appends what stands there.
LEMMA AtPlacesGrows ==
  ASSUME NEW T, NEW s \in Seq(T), NEW at \in SUBSET (DOMAIN s), NEW k \in DOMAIN s,
         \A i \in at : i < k
  PROVE  AtPlaces(s, at \cup {k}) = Append(AtPlaces(s, at), s[k])
  <1>1. Len(s) \in Nat /\ DOMAIN s = 1 .. Len(s)
    OBVIOUS
  <1>2. PICK p : p = Places(at)
    OBVIOUS
  <1>3. PICK t : t = AtPlaces(s, at)
    OBVIOUS
  <1>4. /\ IsNumbering(p, at) /\ t \in Seq(T)
        /\ DOMAIN t = 1 .. Cardinality(at) /\ Len(t) = Cardinality(at)
        /\ \A n \in 1 .. Cardinality(at) : t[n] = s[p[n]]
    BY <1>2, <1>3, AtPlacesIsSequence
  <1>5. PICK c \in Nat : c = Cardinality(at)
    BY <1>4 DEF IsNumbering
  <1>6. /\ p \in [1 .. c -> at] /\ \A x \in at : \E i \in 1 .. c : p[i] = x
        /\ \A i, j \in 1 .. c : i < j => p[i] < p[j]
    BY <1>4, <1>5 DEF IsNumbering
  <1> DEFINE q == [i \in 1 .. c + 1 |-> IF i <= c THEN p[i] ELSE k]
             more == at \cup {k}
  <1>7. q \in [1 .. c + 1 -> more]
    BY <1>6
  <1>8. q[c + 1] = k /\ \A i \in 1 .. c : i \in 1 .. c + 1 /\ q[i] = p[i]
    OBVIOUS
  <1> HIDE DEF q
  <1>9. \A x \in more : \E i \in 1 .. c + 1 : q[i] = x
    <2>1. c + 1 \in 1 .. c + 1
      OBVIOUS
    <2> QED
      BY <1>6, <1>8, <2>1
  <1>10. ASSUME NEW i \in 1 .. c + 1, NEW j \in 1 .. c + 1, i < j PROVE q[i] < q[j]
    <2>1. i \in 1 .. c /\ (j \in 1 .. c \/ j = c + 1)
      BY <1>10
    <2> QED
      BY <1>6, <1>8, <1>10, <2>1
  <1>11. more \in SUBSET (1 .. Len(s)) /\ c + 1 \in Nat
    BY <1>1
  <1> HIDE DEF more
  <1>12. Cardinality(more) = c + 1 /\ Places(more) = q
    BY <1>1, <1>7, <1>9, <1>10, <1>11, NumberedIs
  <1>13. AtPlaces(s, more) = [n \in 1 .. c + 1 |-> s[q[n]]]
    BY <1>12 DEF AtPlaces
  <1>14. Append(t, s[k]) = [n \in 1 .. c + 1 |-> IF n <= c THEN t[n] ELSE s[k]]
    <2>1. Len(t) = c /\ t \in Seq(T)
      BY <1>4, <1>5
    <2>2. PICK x : x = s[k]
      OBVIOUS
    <2>3. \A n \in 1 .. c + 1 : Append(t, x)[n] = IF n <= c THEN t[n] ELSE x
      BY <2>1
    <2>4. DOMAIN Append(t, x) = 1 .. c + 1 /\ Append(t, x) = [n \in 1 .. c + 1 |-> Append(t, x)[n]]
      <3>1. x \in T
        BY <1>1, <2>2, ElementOfSeq
      <3>2. Append(t, x) \in Seq(T) /\ Len(Append(t, x)) = c + 1
        BY <2>1, <3>1, AppendProperties
      <3>3. PICK u : u = Append(t, x)
        OBVIOUS
      <3>4. u \in Seq(T) /\ Len(u) = c + 1
        BY <3>2, <3>3
      <3>5. u \in [1 .. c + 1 -> T]
        BY <3>4
      <3> QED
        BY <3>3, <3>5
    <2> QED
      BY <2>2, <2>3, <2>4
  <1>15. ASSUME NEW n \in 1 .. c + 1 PROVE s[q[n]] = IF n <= c THEN t[n] ELSE s[k]
    <2>1. CASE n <= c
      <3>1. n \in 1 .. c
        BY <2>1
      <3> QED
        BY <1>4, <1>5, <1>8, <2>1, <3>1
    <2>2. CASE ~(n <= c)
      <3>1. n = c + 1
        BY <2>2
      <3> QED
        BY <1>8, <2>2, <3>1
    <2> QED
      BY <2>1, <2>2
  <1>16. AtPlaces(s, more) = Append(t, s[k])
    BY <1>13, <1>14, <1>15
  <1> QED
    BY <1>3, <1>16 DEF more

\* Sequences of sequences, and one more.
LEMMA FlattenAppends ==
  ASSUME NEW T, NEW a \in Seq(Seq(T)), NEW x \in Seq(T)
  PROVE  /\ FlattenSeq(Append(a, x)) = FlattenSeq(a) \o x
         /\ FlattenSeq(Append(a, x)) \in Seq(T) /\ FlattenSeq(a) \in Seq(T)
  <1> DEFINE n == Len(a)
  <1>1. PICK b : b = Append(a, x)
    OBVIOUS
  <1>2. n \in Nat /\ b \in Seq(Seq(T)) /\ Len(b) = n + 1
    BY <1>1, AppendProperties
  <1>3. b[n + 1] = x /\ \A k \in 1 .. n : b[k] = a[k]
    BY <1>1
  <1>4. PICK f, g : f = Flat(a) /\ g = Flat(b)
    OBVIOUS
  <1>5. /\ IsFlattening(f, a, T) /\ FlattenSeq(a) = f[n]
        /\ IsFlattening(g, b, T) /\ FlattenSeq(b) = g[n + 1]
    BY <1>2, <1>4, FlattenTurns
  <1> HIDE DEF n
  <1>6. /\ f[0] = << >> /\ g[0] = << >>
        /\ \A k \in 1 .. n : f[k] = f[k - 1] \o a[k]
        /\ \A k \in 1 .. n + 1 : g[k] = g[k - 1] \o b[k]
    BY <1>2, <1>5 DEF IsFlattening, n
  <1> DEFINE other == {k \in Nat : k <= n /\ f[k] # g[k]}
  <1>7. ASSUME other # {} PROVE FALSE
    <2>1. PICK k \in other : \A m \in other : k <= m
      <3>1. other \in SUBSET Nat
        OBVIOUS
      <3> HIDE DEF other
      <3> QED
        BY <1>7, <3>1, LeastNumber
    <2>2. k # 0
      BY <1>6
    <2>3. k \in 1 .. n /\ k \in 1 .. n + 1 /\ k - 1 \in Nat /\ k - 1 <= n /\ ~(k <= k - 1)
      BY <1>2, <2>2
    <2>4. f[k - 1] = g[k - 1]
      BY <2>1, <2>3
    <2> QED
      BY <1>3, <1>6, <2>3, <2>4
  <1>8. f[n] = g[n]
    BY <1>2, <1>7
  <1>9. g[n + 1] = g[n] \o x
    <2>1. n + 1 \in 1 .. n + 1 /\ (n + 1) - 1 = n
      BY <1>2
    <2>2. g[n + 1] = g[(n + 1) - 1] \o b[n + 1]
      BY <1>6, <2>1
    <2> QED
      BY <1>3, <2>1, <2>2
  <1>10. FlattenSeq(a) \in Seq(T) /\ FlattenSeq(b) \in Seq(T)
    BY <1>2, FlattenIsSequence
  <1> QED
    BY <1>1, <1>5, <1>8, <1>9, <1>10

-----------------------------------------------------------------------------
(* Totals.                                                                  *)

Totals(s) ==
  LET total[k \in 0 .. Len(s)] == IF k = 0 THEN 0 ELSE total[k - 1] + s[k] IN total

\* One turn of the adding up of numbers.
TotalsStep(s, last, k) == last + s[k]

TotalsStart(s) == 0

\* The adding up of numbers up to the n-th turn.
IsTotals(f, s, n) ==
  f = [k \in 0 .. n |-> IF k = 0 THEN TotalsStart(s) ELSE TotalsStep(s, f[k - 1], k)]

\* It goes on by one turn.
LEMMA TotalsGoesOn ==
  ASSUME NEW s, NEW n \in Nat, n # 0, NEW g, IsTotals(g, s, n - 1)
  PROVE  \E h : IsTotals(h, s, n)
  <1> DEFINE h == [k \in 0 .. n |-> IF k = 0 THEN TotalsStart(s) ELSE TotalsStep(s, g[k - 1], k)]
  <1>1. ASSUME NEW k \in 0 .. n
        PROVE  h[k] = IF k = 0 THEN TotalsStart(s) ELSE TotalsStep(s, h[k - 1], k)
    <2>1. CASE k # 0
      <3>1. k - 1 \in 0 .. n - 1 /\ k - 1 \in 0 .. n
        BY <2>1
      <3>2. g[k - 1] = IF k - 1 = 0 THEN TotalsStart(s) ELSE TotalsStep(s, g[k - 1 - 1], k - 1)
        BY <3>1 DEF IsTotals
      <3>3. h[k - 1] = IF k - 1 = 0 THEN TotalsStart(s) ELSE TotalsStep(s, g[k - 1 - 1], k - 1)
        BY <3>1
      <3>4. h[k] = TotalsStep(s, g[k - 1], k)
        BY <2>1
      <3> HIDE DEF h
      <3> QED
        BY <2>1, <3>2, <3>3, <3>4
    <2>2. CASE k = 0
      BY <2>2
    <2> QED
      BY <2>1, <2>2
  <1>2. h = [k \in 0 .. n |-> h[k]]
    OBVIOUS
  <1>3. h = [k \in 0 .. n |-> IF k = 0 THEN TotalsStart(s) ELSE TotalsStep(s, h[k - 1], k)]
    <2> HIDE DEF h
    <2> QED
      BY <1>1, <1>2
  <1> QED
    BY <1>3 DEF IsTotals

\* So it reaches the last one.
LEMMA TotalsExists ==
  ASSUME NEW s, NEW n \in Nat
  PROVE  \E f : IsTotals(f, s, n)
  <1> DEFINE without == {k \in Nat : ~\E g : IsTotals(g, s, k)}
  <1>1. ASSUME without # {} PROVE FALSE
    <2>0. without \in SUBSET Nat
      OBVIOUS
    <2>1. PICK k \in without : \A m \in without : k <= m
      <3> HIDE DEF without
      <3> QED
        BY <1>1, <2>0, LeastNumber
    <2>2. k # 0
      <3>1. IsTotals([i \in 0 .. 0 |-> TotalsStart(s)], s, 0)
        BY DEF IsTotals
      <3> QED
        BY <3>1
    <2>3. k \in Nat /\ k - 1 \in Nat
      BY <2>2
    <2>4. k - 1 \notin without
      <3> HIDE DEF without
      <3> QED
        BY <2>1, <2>3
    <2>5. PICK g : IsTotals(g, s, k - 1)
      BY <2>3, <2>4
    <2> QED
      BY <2>2, <2>3, <2>5, TotalsGoesOn
  <1> QED
    BY <1>1

\* What the adding up of numbers computes, turn by turn.
LEMMA TotalsTurns ==
  ASSUME NEW s, Len(s) \in Nat
  PROVE  /\ Totals(s)[0] = TotalsStart(s)
         /\ \A k \in 1 .. Len(s) : Totals(s)[k] = TotalsStep(s, Totals(s)[k - 1], k)
  <1> DEFINE n == Len(s)
  <1>1. \E f : IsTotals(f, s, n)
    BY TotalsExists
  <1>2. Totals(s) = CHOOSE f : IsTotals(f, s, n)
    BY DEF Totals, IsTotals, TotalsStep, TotalsStart
  <1>3. IsTotals(Totals(s), s, n)
    BY <1>1, <1>2
  <1> QED
    BY <1>3 DEF IsTotals

\* Numbers, and one more.
LEMMA TotalAppends ==
  ASSUME NEW a \in Seq(Int), NEW x \in Int
  PROVE  /\ Total(Append(a, x)) = Total(a) + x
         /\ Total(a) \in Int /\ Total(Append(a, x)) \in Int
  <1> DEFINE n == Len(a)
  <1>1. PICK b : b = Append(a, x)
    OBVIOUS
  <1>2. n \in Nat /\ b \in Seq(Int) /\ Len(b) = n + 1
    BY <1>1, AppendProperties
  <1>3. b[n + 1] = x /\ \A k \in 1 .. n : b[k] = a[k] /\ a[k] \in Int
    BY <1>1
  <1>4. PICK f, g : f = Totals(a) /\ g = Totals(b)
    OBVIOUS
  <1>5. Total(a) = f[n] /\ Total(b) = g[n + 1]
    BY <1>2, <1>4 DEF Total, Totals
  <1>6. /\ f[0] = 0 /\ g[0] = 0
        /\ \A k \in 1 .. n : f[k] = f[k - 1] + a[k]
        /\ \A k \in 1 .. n + 1 : g[k] = g[k - 1] + b[k]
    <2>1. f[0] = 0 /\ \A k \in 1 .. n : f[k] = f[k - 1] + a[k]
      BY <1>2, <1>4, TotalsTurns DEF TotalsStart, TotalsStep
    <2>2. g[0] = 0 /\ \A k \in 1 .. n + 1 : g[k] = g[k - 1] + b[k]
      BY <1>2, <1>4, TotalsTurns DEF TotalsStart, TotalsStep
    <2> QED
      BY <2>1, <2>2
  <1> HIDE DEF n
  <1> DEFINE other == {k \in Nat : k <= n /\ ~(f[k] = g[k] /\ f[k] \in Int)}
  <1>7. ASSUME other # {} PROVE FALSE
    <2>1. PICK k \in other : \A m \in other : k <= m
      <3>1. other \in SUBSET Nat
        OBVIOUS
      <3> HIDE DEF other
      <3> QED
        BY <1>7, <3>1, LeastNumber
    <2>2. k # 0
      BY <1>6
    <2>3. k \in 1 .. n /\ k \in 1 .. n + 1 /\ k - 1 \in Nat /\ k - 1 <= n /\ ~(k <= k - 1)
      BY <1>2, <2>2
    <2>4. f[k - 1] = g[k - 1] /\ f[k - 1] \in Int
      BY <2>1, <2>3
    <2>5. f[k] = f[k - 1] + a[k] /\ g[k] = g[k - 1] + b[k] /\ b[k] = a[k] /\ a[k] \in Int
      BY <1>3, <1>6, <2>3
    <2> QED
      BY <2>4, <2>5
  <1>8. f[n] = g[n] /\ f[n] \in Int
    BY <1>2, <1>7
  <1>9. g[n + 1] = g[n] + x
    <2>1. n + 1 \in 1 .. n + 1 /\ (n + 1) - 1 = n
      BY <1>2
    <2>2. g[n + 1] = g[(n + 1) - 1] + b[n + 1]
      BY <1>6, <2>1
    <2> QED
      BY <1>3, <2>1, <2>2
  <1> QED
    BY <1>1, <1>5, <1>8, <1>9

\* Nothing adds up to nothing.
LEMMA TotalOfNone == Total(<< >>) = 0
  <1>1. Len(<< >>) = 0 /\ Len(<< >>) \in Nat
    OBVIOUS
  <1>2. Totals(<< >>)[0] = 0
    BY <1>1, TotalsTurns DEF TotalsStart
  <1> QED
    BY <1>1, <1>2 DEF Total, Totals

-----------------------------------------------------------------------------
(* Legs, joined where the traveler stays seated.                            *)

\* A row, and one more.
LEMMA RowAppends ==
  ASSUME NEW s, IsRow(s), NEW x
  PROVE  /\ IsRow(Append(s, x)) /\ Len(s) \in Nat /\ Len(Append(s, x)) = Len(s) + 1
         /\ DOMAIN Append(s, x) = 1 .. Len(s) + 1
         /\ Append(s, x)[Len(s) + 1] = x /\ \A i \in 1 .. Len(s) : Append(s, x)[i] = s[i]
         /\ Append(s, x) \o << >> = Append(s, x)
  <1> DEFINE T == Range(s) \cup {x}
  <1>1. s \in Seq(Range(s))
    BY DEF IsRow
  <1>2. Len(s) \in Nat /\ s \in [1 .. Len(s) -> Range(s)]
    BY <1>1
  <1>3. s \in [1 .. Len(s) -> T]
    BY <1>2
  <1>4. s \in Seq(T) /\ x \in T
    BY <1>2, <1>3
  <1> HIDE DEF T
  <1>5. PICK t : t = Append(s, x)
    OBVIOUS
  <1>6. t \in Seq(T) /\ Len(t) = Len(s) + 1
    BY <1>4, <1>5, AppendProperties
  <1>7. t[Len(s) + 1] = x /\ \A i \in 1 .. Len(s) : t[i] = s[i]
    BY <1>4, <1>5, AppendProperties
  <1>8. t \in [1 .. Len(s) + 1 -> T]
    BY <1>6
  <1>9. IsRow(t)
    BY <1>2, <1>8, RowIsSequence
  <1>10. t \o << >> = t
    BY <1>6
  <1> QED
    BY <1>2, <1>5, <1>6, <1>7, <1>8, <1>9, <1>10

Kinds == {"walk", "named walk", "ride", "other"}

IsStoredLeg(l) ==
  /\ l = [kind |-> l.kind, service |-> l.service, seated |-> l.seated, start |-> l.start,
          end |-> l.end, minutes |-> l.minutes, from |-> l.from, to |-> l.to,
          through |-> << >>]
  /\ l.kind \in Kinds /\ l.seated \in BOOLEAN /\ l.minutes \in Int

\* Legs as they are stored, and as the panel makes them of ranking legs.
IsStored(L) ==
  /\ IsRow(L) /\ L # << >>
  /\ \A i \in DOMAIN L :
       /\ IsStoredLeg(L[i])
       /\ L[i].seated => ~IsWalk(L[i]) /\ i > 1 /\ ~IsWalk(L[i - 1])

\* x is leg a of L, and those after it up to leg b, for which the traveler stays
\* seated.
IsJoined(x, L, a, b) ==
  /\ x = [kind |-> L[a].kind, service |-> L[a].service, seated |-> L[a].seated,
          start |-> L[a].start, end |-> L[b].end, minutes |-> x.minutes, from |-> L[a].from,
          to |-> L[b].to, through |-> x.through]
  /\ x.minutes \in Int /\ (a = b => x.minutes = L[a].minutes)
  /\ IsRow(x.through) /\ Len(x.through) = b - a
  /\ \A i \in 1 .. b - a : x.through[i].service = L[a + i].service

\* A joined leg goes on.
LEMMA LegGoesOn ==
  ASSUME NEW L, NEW a \in Nat, NEW b \in Nat, a <= b, NEW x, IsJoined(x, L, a, b),
         NEW leg, leg = L[b + 1], IsStoredLeg(leg)
  PROVE  IsJoined(Extended(x, leg), L, a, b + 1)
  <1>1. PICK ki, se, sd, st, en, mi, fr, t, th :
          /\ x = [kind |-> ki, service |-> se, seated |-> sd, start |-> st, end |-> en,
                  minutes |-> mi, from |-> fr, to |-> t, through |-> th]
          /\ ki = L[a].kind /\ se = L[a].service /\ sd = L[a].seated /\ st = L[a].start
          /\ fr = L[a].from
    BY DEF IsJoined
  <1>2. mi \in Int /\ IsRow(th) /\ Len(th) = b - a /\ \A i \in 1 .. b - a : th[i].service = L[a + i].service
    <2>1. x.minutes = mi /\ x.through = th
      BY <1>1
    <2> QED
      BY <2>1 DEF IsJoined
  <1>3. PICK m, e, o, s : m = leg.minutes /\ e = leg.end /\ o = leg.to /\ s = leg.service
    OBVIOUS
  <1>4. m \in Int /\ leg.through = << >>
    <2>1. leg = [kind |-> leg.kind, service |-> leg.service, seated |-> leg.seated,
                 start |-> leg.start, end |-> leg.end, minutes |-> leg.minutes,
                 from |-> leg.from, to |-> leg.to, through |-> << >>]
      BY DEF IsStoredLeg
    <2>2. leg.through = << >>
      BY <2>1
    <2> QED
      BY <1>3, <2>2 DEF IsStoredLeg
  <1>5. PICK call : call = [stop |-> x.to, service |-> s]
    OBVIOUS
  <1>6. PICK more : more = Append(th, call)
    OBVIOUS
  <1>7. /\ IsRow(more) /\ Len(more) = b - a + 1 /\ more \o << >> = more
        /\ more[b - a + 1] = call /\ \A i \in 1 .. b - a : more[i] = th[i]
    BY <1>2, <1>6, RowAppends
  <1>8. PICK y : y = Extended(x, leg)
    OBVIOUS
  <1>9. y = [kind |-> ki, service |-> se, seated |-> sd, start |-> st, end |-> e,
             minutes |-> mi + m, from |-> fr, to |-> o, through |-> more]
    <2>1. y = [x EXCEPT !.minutes = @ + m, !.end = e, !.to = o, !.through = Append(@, call) \o << >>]
      BY <1>3, <1>4, <1>5, <1>8 DEF Extended
    <2>2. Append(th, call) \o << >> = more
      BY <1>6, <1>7
    <2>3. x.minutes = mi /\ x.through = th
      BY <1>1
    <2>4. y = [x EXCEPT !.minutes = mi + m, !.end = e, !.to = o, !.through = more]
      BY <2>1, <2>2, <2>3
    <2> QED
      BY <1>1, <2>4
  <1>10. y.minutes = mi + m /\ y.through = more
    BY <1>9
  <1>11. a # b + 1 /\ (b + 1) - a = b - a + 1
    OBVIOUS
  <1>12. ASSUME NEW i \in 1 .. b - a + 1 PROVE more[i].service = L[a + i].service
    <2>1. CASE i = b - a + 1
      <3>1. a + i = b + 1 /\ more[i] = call /\ call.service = s
        BY <1>5, <1>7, <2>1
      <3> QED
        BY <1>3, <3>1
    <2>2. CASE i # b - a + 1
      <3>1. i \in 1 .. b - a
        BY <2>2
      <3> QED
        BY <1>2, <1>7, <3>1
    <2> QED
      BY <2>1, <2>2
  <1>13. mi + m \in Int
    BY <1>2, <1>4
  <1>14. e = L[b + 1].end /\ o = L[b + 1].to
    BY <1>3
  <1>15. y = [kind |-> L[a].kind, service |-> L[a].service, seated |-> L[a].seated,
              start |-> L[a].start, end |-> L[b + 1].end, minutes |-> y.minutes,
              from |-> L[a].from, to |-> L[b + 1].to, through |-> y.through]
    BY <1>1, <1>9, <1>10, <1>14
  <1>16. IsJoined(y, L, a, b + 1)
    BY <1>7, <1>10, <1>11, <1>12, <1>13, <1>15 DEF IsJoined
  <1> QED
    BY <1>8, <1>16

\* One turn of the joining of legs.
JoiningStep(legs, last, k) == Join(last, legs[k])

JoiningStart(legs) == << >>

\* The joining of legs up to the n-th turn.
IsJoining(f, legs, n) ==
  f = [k \in 0 .. n |-> IF k = 0 THEN JoiningStart(legs) ELSE JoiningStep(legs, f[k - 1], k)]

\* It goes on by one turn.
LEMMA JoiningGoesOn ==
  ASSUME NEW legs, NEW n \in Nat, n # 0, NEW g, IsJoining(g, legs, n - 1)
  PROVE  \E h : IsJoining(h, legs, n)
  <1> DEFINE h == [k \in 0 .. n |-> IF k = 0 THEN JoiningStart(legs) ELSE JoiningStep(legs, g[k - 1], k)]
  <1>1. ASSUME NEW k \in 0 .. n
        PROVE  h[k] = IF k = 0 THEN JoiningStart(legs) ELSE JoiningStep(legs, h[k - 1], k)
    <2>1. CASE k # 0
      <3>1. k - 1 \in 0 .. n - 1 /\ k - 1 \in 0 .. n
        BY <2>1
      <3>2. g[k - 1] = IF k - 1 = 0 THEN JoiningStart(legs) ELSE JoiningStep(legs, g[k - 1 - 1], k - 1)
        BY <3>1 DEF IsJoining
      <3>3. h[k - 1] = IF k - 1 = 0 THEN JoiningStart(legs) ELSE JoiningStep(legs, g[k - 1 - 1], k - 1)
        BY <3>1
      <3>4. h[k] = JoiningStep(legs, g[k - 1], k)
        BY <2>1
      <3> HIDE DEF h
      <3> QED
        BY <2>1, <3>2, <3>3, <3>4
    <2>2. CASE k = 0
      BY <2>2
    <2> QED
      BY <2>1, <2>2
  <1>2. h = [k \in 0 .. n |-> h[k]]
    OBVIOUS
  <1>3. h = [k \in 0 .. n |-> IF k = 0 THEN JoiningStart(legs) ELSE JoiningStep(legs, h[k - 1], k)]
    <2> HIDE DEF h
    <2> QED
      BY <1>1, <1>2
  <1> QED
    BY <1>3 DEF IsJoining

\* So it reaches the last one.
LEMMA JoiningExists ==
  ASSUME NEW legs, NEW n \in Nat
  PROVE  \E f : IsJoining(f, legs, n)
  <1> DEFINE without == {k \in Nat : ~\E g : IsJoining(g, legs, k)}
  <1>1. ASSUME without # {} PROVE FALSE
    <2>0. without \in SUBSET Nat
      OBVIOUS
    <2>1. PICK k \in without : \A m \in without : k <= m
      <3> HIDE DEF without
      <3> QED
        BY <1>1, <2>0, LeastNumber
    <2>2. k # 0
      <3>1. IsJoining([i \in 0 .. 0 |-> JoiningStart(legs)], legs, 0)
        BY DEF IsJoining
      <3> QED
        BY <3>1
    <2>3. k \in Nat /\ k - 1 \in Nat
      BY <2>2
    <2>4. k - 1 \notin without
      <3> HIDE DEF without
      <3> QED
        BY <2>1, <2>3
    <2>5. PICK g : IsJoining(g, legs, k - 1)
      BY <2>3, <2>4
    <2> QED
      BY <2>2, <2>3, <2>5, JoiningGoesOn
  <1> QED
    BY <1>1

\* What the joining of legs computes, turn by turn.
LEMMA JoiningTurns ==
  ASSUME NEW legs, Len(legs) \in Nat
  PROVE  /\ Joining(legs)[0] = JoiningStart(legs)
         /\ \A k \in 1 .. Len(legs) : Joining(legs)[k] = JoiningStep(legs, Joining(legs)[k - 1], k)
  <1> DEFINE n == Len(legs)
  <1>1. \E f : IsJoining(f, legs, n)
    BY JoiningExists
  <1>2. Joining(legs) = CHOOSE f : IsJoining(f, legs, n)
    BY DEF Joining, IsJoining, JoiningStep, JoiningStart
  <1>3. IsJoining(Joining(legs), legs, n)
    BY <1>1, <1>2
  <1> QED
    BY <1>3 DEF IsJoining

\* The last leg that is joined to the m-th of c.
TailOf(h, c, k, m) == IF m < c THEN h[m + 1] - 1 ELSE k

\* J is made of the first k legs of L: a joined leg begins at each one that is not
\* seated.
AreJoined(J, h, L, k) ==
  /\ IsRow(J) /\ h \in [1 .. Len(J) -> 1 .. k]
  /\ \A m, j \in 1 .. Len(J) : m < j => h[m] < h[j]
  /\ \A i \in 1 .. k : ~L[i].seated => \E m \in 1 .. Len(J) : h[m] = i
  /\ k > 0 => Len(J) > 0 /\ h[1] = 1
  /\ \A m \in 1 .. Len(J) : /\ ~L[h[m]].seated /\ h[m] <= TailOf(h, Len(J), k, m)
                            /\ IsJoined(J[m], L, h[m], TailOf(h, Len(J), k, m))

\* The first leg stands for itself.
LEMMA LegBegins ==
  ASSUME NEW L, NEW a \in Nat, IsStoredLeg(L[a])
  PROVE  IsJoined(L[a], L, a, a)
  <1>1. PICK l : l = L[a]
    OBVIOUS
  <1>2. /\ l = [kind |-> l.kind, service |-> l.service, seated |-> l.seated, start |-> l.start,
                end |-> l.end, minutes |-> l.minutes, from |-> l.from, to |-> l.to,
                through |-> << >>]
        /\ l.minutes \in Int
    BY <1>1 DEF IsStoredLeg
  <1>3. l.through = << >>
    BY <1>2
  <1>4. IsRow(<< >>) /\ Len(<< >>) = 0 /\ a - a = 0
    BY DEF IsRow
  <1> QED
    BY <1>1, <1>2, <1>3, <1>4 DEF IsJoined

\* One more leg is joined to the last one or starts a new one.
LEMMA JoinSteps ==
  ASSUME NEW L, IsStored(L), NEW k \in 1 .. Len(L), NEW J, NEW h, AreJoined(J, h, L, k - 1)
  PROVE  \E g : AreJoined(Join(J, L[k]), g, L, k)
  <1>1. Len(L) \in Nat /\ DOMAIN L = 1 .. Len(L) /\ k \in Nat /\ k - 1 \in Nat
    BY DEF IsStored, IsRow
  <1>2. PICK c : c = Len(J)
    OBVIOUS
  <1>3. /\ c \in Nat /\ IsRow(J) /\ h \in [1 .. c -> 1 .. k - 1] /\ DOMAIN J = 1 .. c
        /\ \A m, j \in 1 .. c : m < j => h[m] < h[j]
        /\ \A i \in 1 .. k - 1 : ~L[i].seated => \E m \in 1 .. c : h[m] = i
        /\ k - 1 > 0 => c > 0 /\ h[1] = 1
        /\ \A m \in 1 .. c : ~L[h[m]].seated /\ h[m] <= TailOf(h, c, k - 1, m)
        /\ \A m \in 1 .. c : IsJoined(J[m], L, h[m], TailOf(h, c, k - 1, m))
    BY <1>2 DEF AreJoined, IsRow
  <1>4. PICK leg : leg = L[k]
    OBVIOUS
  <1>5. /\ IsStoredLeg(leg) /\ leg.seated \in BOOLEAN
        /\ leg.seated => k > 1
    BY <1>1, <1>4 DEF IsStored, IsStoredLeg
  <1>6. \A m \in 1 .. c : h[m] \in 1 .. k - 1 /\ h[m] \in 1 .. k /\ h[m] \in Nat /\ h[m] < k
    <2>1. \A i \in 1 .. k - 1 : i \in 1 .. k /\ i \in Nat /\ i < k
      BY <1>1
    <2> QED
      BY <1>3, <2>1
  <1>7. PICK K : K = Join(J, leg)
    OBVIOUS
  <1>8. CASE leg.seated
    <2>1. c > 0 /\ h[1] = 1 /\ J # << >> /\ c \in 1 .. c
      <3>1. k - 1 > 0
        BY <1>1, <1>5, <1>8
      <3> QED
        BY <1>2, <1>3, <3>1
    <2>2. PICK x : x = J[c]
      OBVIOUS
    <2>3. IsJoined(x, L, h[c], k - 1) /\ h[c] <= k - 1
      BY <1>3, <2>1, <2>2 DEF TailOf
    <2>4. PICK y : y = Extended(x, leg)
      OBVIOUS
    <2>5. IsJoined(y, L, h[c], k)
      <3>1. PICK a, b : a = h[c] /\ b = k - 1
        OBVIOUS
      <3>2. a \in Nat /\ b \in Nat /\ a <= b /\ b + 1 = k
        BY <1>1, <1>6, <2>1, <2>3, <3>1
      <3>3. IsJoined(x, L, a, b) /\ leg = L[b + 1]
        BY <1>4, <2>3, <3>1, <3>2
      <3>4. IsJoined(y, L, a, b + 1)
        BY <1>5, <2>4, <3>2, <3>3, LegGoesOn
      <3> QED
        BY <3>1, <3>2, <3>4
    <2>6. K = [J EXCEPT ![c] = y]
      <3>1. Join(J, leg) = [J EXCEPT ![Len(J)] = Extended(J[Len(J)], leg)]
        BY <1>8, <2>1 DEF Join
      <3>2. Join(J, leg) = [J EXCEPT ![c] = y]
        BY <1>2, <2>2, <2>4, <3>1
      <3> QED
        BY <1>7, <3>2
    <2>7. K[c] = y /\ DOMAIN K = 1 .. c /\ \A m \in 1 .. c : m # c => K[m] = J[m]
      BY <1>3, <2>1, <2>6
    <2>8. IsRow(K) /\ Len(K) = c
      <3>1. K = [m \in 1 .. c |-> K[m]]
        BY <1>3, <2>6
      <3> QED
        BY <1>3, <3>1, RowIsSequence
    <2>9. ASSUME NEW m \in 1 .. c
          PROVE  ~L[h[m]].seated /\ h[m] <= TailOf(h, c, k, m) /\ IsJoined(K[m], L, h[m], TailOf(h, c, k, m))
      <3>1. CASE m = c
        <4>1. TailOf(h, c, k, m) = k /\ h[m] <= k
          BY <1>1, <1>3, <1>6, <3>1 DEF TailOf
        <4> QED
          BY <1>3, <2>5, <2>7, <3>1, <4>1
      <3>2. CASE m # c
        <4>1. m < c
          BY <1>3, <3>2
        <4>2. TailOf(h, c, k, m) = TailOf(h, c, k - 1, m)
          BY <4>1 DEF TailOf
        <4> QED
          BY <1>3, <2>7, <3>2, <4>2
      <3> QED
        BY <3>1, <3>2
    <2>10. h \in [1 .. c -> 1 .. k]
      BY <1>3, <1>6
    <2>11. \A i \in 1 .. k : ~L[i].seated => \E m \in 1 .. c : h[m] = i
      <3>1. \A i \in 1 .. k : i = k \/ i \in 1 .. k - 1
        BY <1>1
      <3> QED
        BY <1>3, <1>4, <1>8, <3>1
    <2>12. AreJoined(K, h, L, k)
      BY <1>3, <2>1, <2>8, <2>9, <2>10, <2>11 DEF AreJoined
    <2> QED
      BY <1>4, <1>7, <2>12
  <1>9. CASE ~leg.seated
    <2>1. K = Append(J, leg)
      BY <1>7, <1>9 DEF Join
    <2>2. /\ IsRow(K) /\ Len(K) = c + 1
          /\ K[c + 1] = leg /\ \A m \in 1 .. c : K[m] = J[m]
      BY <1>2, <1>3, <2>1, RowAppends
    <2> DEFINE g == [m \in 1 .. c + 1 |-> IF m <= c THEN h[m] ELSE k]
    <2>3. g[c + 1] = k /\ \A m \in 1 .. c : g[m] = h[m]
      BY <1>3
    <2>4. g \in [1 .. c + 1 -> 1 .. k]
      <3>1. \A m \in 1 .. c + 1 : m <= c => m \in 1 .. c
        BY <1>3
      <3>2. k \in 1 .. k
        BY <1>1
      <3> QED
        BY <1>6, <3>1, <3>2
    <2> HIDE DEF g
    <2>5. \A m \in 1 .. c + 1 : m \in 1 .. c \/ m = c + 1
      BY <1>3
    <2>6. ASSUME NEW m \in 1 .. c + 1, NEW j \in 1 .. c + 1, m < j PROVE g[m] < g[j]
      <3>1. m \in 1 .. c
        BY <1>3, <2>6
      <3>2. CASE j \in 1 .. c
        BY <1>3, <2>3, <2>6, <3>1, <3>2
      <3>3. CASE j = c + 1
        BY <1>6, <2>3, <3>1, <3>3
      <3> QED
        BY <2>5, <3>2, <3>3
    <2>7. ASSUME NEW i \in 1 .. k, ~L[i].seated PROVE \E m \in 1 .. c + 1 : g[m] = i
      <3>1. CASE i = k
        BY <1>3, <2>3, <3>1
      <3>2. CASE i # k
        <4>1. i \in 1 .. k - 1
          BY <1>1, <3>2
        <4>2. PICK m \in 1 .. c : h[m] = i
          BY <1>3, <2>7, <4>1
        <4>3. m \in 1 .. c + 1
          BY <1>3
        <4> QED
          BY <2>3, <4>2, <4>3
      <3> QED
        BY <3>1, <3>2
    <2>8. c + 1 > 0 /\ g[1] = 1
      <3>1. CASE c = 0
        <4>1. k = 1
          BY <1>1, <1>3, <3>1
        <4> QED
          BY <2>3, <3>1, <4>1
      <3>2. CASE c # 0
        <4>1. 1 \in 1 .. c /\ c > 0
          BY <1>3, <3>2
        <4>2. h[1] \in 1 .. k - 1
          BY <1>6, <4>1
        <4>3. k - 1 > 0
          BY <1>1, <4>2
        <4> QED
          BY <1>3, <2>3, <4>1, <4>3
      <3> QED
        BY <3>1, <3>2
    <2>9. ASSUME NEW m \in 1 .. c + 1
          PROVE  /\ ~L[g[m]].seated /\ g[m] <= TailOf(g, c + 1, k, m)
                 /\ IsJoined(K[m], L, g[m], TailOf(g, c + 1, k, m))
      <3>1. CASE m = c + 1
        <4>1. TailOf(g, c + 1, k, m) = k
          BY <1>3, <3>1 DEF TailOf
        <4>2. IsJoined(leg, L, k, k)
          BY <1>1, <1>4, <1>5, LegBegins
        <4> QED
          BY <1>1, <1>4, <1>9, <2>2, <2>3, <3>1, <4>1, <4>2
      <3>2. CASE m \in 1 .. c
        <4>1. TailOf(g, c + 1, k, m) = TailOf(h, c, k - 1, m)
          <5>1. m < c + 1 /\ m + 1 \in 1 .. c + 1
            BY <1>3, <3>2
          <5>2. TailOf(g, c + 1, k, m) = g[m + 1] - 1
            BY <5>1 DEF TailOf
          <5>3. CASE m < c
            <6>1. m + 1 \in 1 .. c
              BY <1>3, <3>2, <5>3
            <6>2. g[m + 1] = h[m + 1]
              BY <2>3, <6>1
            <6> QED
              BY <5>2, <5>3, <6>2 DEF TailOf
          <5>4. CASE ~(m < c)
            <6>1. m = c
              BY <1>3, <3>2, <5>4
            <6> QED
              BY <2>3, <5>2, <5>4, <6>1 DEF TailOf
          <5> QED
            BY <5>3, <5>4
        <4> QED
          BY <1>3, <2>2, <2>3, <3>2, <4>1
      <3> QED
        BY <2>5, <3>1, <3>2
    <2>10. AreJoined(K, g, L, k)
      BY <2>2, <2>4, <2>6, <2>7, <2>8, <2>9 DEF AreJoined
    <2> QED
      BY <1>4, <1>7, <2>10
  <1> QED
    BY <1>5, <1>8, <1>9

\* So are all legs joined.
LEMMA JoinedIs ==
  ASSUME NEW L, IsStored(L)
  PROVE  \E h : AreJoined(Joined(L), h, L, Len(L))
  <1>1. PICK n \in Nat : n = Len(L)
    BY DEF IsStored, IsRow
  <1>2. /\ Joining(L)[0] = << >>
        /\ \A k \in 1 .. n : Joining(L)[k] = Join(Joining(L)[k - 1], L[k])
    BY <1>1, JoiningTurns DEF JoiningStart, JoiningStep
  <1>3. \E h : AreJoined(Joining(L)[0], h, L, 0)
    <2> DEFINE none == << >>
    <2>1. IsRow(none) /\ Len(none) = 0
      BY DEF IsRow
    <2>2. none \in [1 .. 0 -> 1 .. 0] /\ 1 .. 0 = {}
      OBVIOUS
    <2> HIDE DEF none
    <2>3. AreJoined(none, none, L, 0)
      BY <2>1, <2>2 DEF AreJoined
    <2> QED
      BY <1>2, <2>3 DEF none
  <1> DEFINE wrong == {k \in Nat : k <= n /\ ~\E h : AreJoined(Joining(L)[k], h, L, k)}
  <1>4. ASSUME wrong # {} PROVE FALSE
    <2>1. PICK k \in wrong : \A m \in wrong : k <= m
      <3>1. wrong \in SUBSET Nat
        OBVIOUS
      <3> HIDE DEF wrong
      <3> QED
        BY <1>4, <3>1, LeastNumber
    <2>2. k # 0 /\ k <= n /\ k \in Nat /\ ~\E h : AreJoined(Joining(L)[k], h, L, k)
      BY <1>3
    <2>3. k \in 1 .. n /\ k - 1 \in Nat /\ k - 1 <= n /\ ~(k <= k - 1)
      BY <2>2
    <2>4. PICK h : AreJoined(Joining(L)[k - 1], h, L, k - 1)
      BY <2>1, <2>3
    <2>5. \E g : AreJoined(Join(Joining(L)[k - 1], L[k]), g, L, k)
      BY <1>1, <2>3, <2>4, JoinSteps
    <2> QED
      BY <1>2, <2>2, <2>3, <2>5
  <1>5. \E h : AreJoined(Joining(L)[n], h, L, n)
    BY <1>4
  <1> QED
    BY <1>1, <1>5 DEF Joined

-----------------------------------------------------------------------------
(* The items of a timeline, one after the other.                            *)

\* One turn of the telling of a journey.
TellingStep(legs, last, k) == Tell(legs, last, k)

TellingStart(legs) == [items |-> << >>, last |-> NoTime]

\* The telling of a journey up to the n-th turn.
IsTelling(f, legs, n) ==
  f = [k \in 0 .. n |-> IF k = 0 THEN TellingStart(legs) ELSE TellingStep(legs, f[k - 1], k)]

\* It goes on by one turn.
LEMMA TellingGoesOn ==
  ASSUME NEW legs, NEW n \in Nat, n # 0, NEW g, IsTelling(g, legs, n - 1)
  PROVE  \E h : IsTelling(h, legs, n)
  <1> DEFINE h == [k \in 0 .. n |-> IF k = 0 THEN TellingStart(legs) ELSE TellingStep(legs, g[k - 1], k)]
  <1>1. ASSUME NEW k \in 0 .. n
        PROVE  h[k] = IF k = 0 THEN TellingStart(legs) ELSE TellingStep(legs, h[k - 1], k)
    <2>1. CASE k # 0
      <3>1. k - 1 \in 0 .. n - 1 /\ k - 1 \in 0 .. n
        BY <2>1
      <3>2. g[k - 1] = IF k - 1 = 0 THEN TellingStart(legs) ELSE TellingStep(legs, g[k - 1 - 1], k - 1)
        BY <3>1 DEF IsTelling
      <3>3. h[k - 1] = IF k - 1 = 0 THEN TellingStart(legs) ELSE TellingStep(legs, g[k - 1 - 1], k - 1)
        BY <3>1
      <3>4. h[k] = TellingStep(legs, g[k - 1], k)
        BY <2>1
      <3> HIDE DEF h
      <3> QED
        BY <2>1, <3>2, <3>3, <3>4
    <2>2. CASE k = 0
      BY <2>2
    <2> QED
      BY <2>1, <2>2
  <1>2. h = [k \in 0 .. n |-> h[k]]
    OBVIOUS
  <1>3. h = [k \in 0 .. n |-> IF k = 0 THEN TellingStart(legs) ELSE TellingStep(legs, h[k - 1], k)]
    <2> HIDE DEF h
    <2> QED
      BY <1>1, <1>2
  <1> QED
    BY <1>3 DEF IsTelling

\* So it reaches the last one.
LEMMA TellingExists ==
  ASSUME NEW legs, NEW n \in Nat
  PROVE  \E f : IsTelling(f, legs, n)
  <1> DEFINE without == {k \in Nat : ~\E g : IsTelling(g, legs, k)}
  <1>1. ASSUME without # {} PROVE FALSE
    <2>0. without \in SUBSET Nat
      OBVIOUS
    <2>1. PICK k \in without : \A m \in without : k <= m
      <3> HIDE DEF without
      <3> QED
        BY <1>1, <2>0, LeastNumber
    <2>2. k # 0
      <3>1. IsTelling([i \in 0 .. 0 |-> TellingStart(legs)], legs, 0)
        BY DEF IsTelling
      <3> QED
        BY <3>1
    <2>3. k \in Nat /\ k - 1 \in Nat
      BY <2>2
    <2>4. k - 1 \notin without
      <3> HIDE DEF without
      <3> QED
        BY <2>1, <2>3
    <2>5. PICK g : IsTelling(g, legs, k - 1)
      BY <2>3, <2>4
    <2> QED
      BY <2>2, <2>3, <2>5, TellingGoesOn
  <1> QED
    BY <1>1

\* What the telling of a journey computes, turn by turn.
LEMMA TellingTurns ==
  ASSUME NEW legs, Len(legs) \in Nat
  PROVE  /\ Telling(legs)[0] = TellingStart(legs)
         /\ \A k \in 1 .. Len(legs) : Telling(legs)[k] = TellingStep(legs, Telling(legs)[k - 1], k)
  <1> DEFINE n == Len(legs)
  <1>1. \E f : IsTelling(f, legs, n)
    BY TellingExists
  <1>2. Telling(legs) = CHOOSE f : IsTelling(f, legs, n)
    BY DEF Telling, IsTelling, TellingStep, TellingStart
  <1>3. IsTelling(Telling(legs), legs, n)
    BY <1>1, <1>2
  <1> QED
    BY <1>3 DEF IsTelling

\* A displayed leg is told with a change, or with a date, before it.
HasChange(D, k) == IsRide(D[k]) /\ RidesBefore(D, k) # {}
HasDate(last, leg) ==
  last.known /\ Day(last.time, last.zone) # Day(leg.start, leg.from.zone)

WithChange(D, items, k) == IF HasChange(D, k) THEN Append(items, Change(D, k)) ELSE items

DateOf(leg) == [kind |-> "date", day |-> Day(leg.start, leg.from.zone)]
WithDate(last, items, leg) == IF HasDate(last, leg) THEN Append(items, DateOf(leg)) ELSE items

ItemOf(D, k) == ItemsOfLeg(D, k).item
ItemsAfter(D, told, k) ==
  Append(WithDate(told.last, WithChange(D, told.items, k), D[k]), ItemOf(D, k))
LastOf(leg) ==
  [known |-> TRUE, time |-> leg.end, zone |-> IF IsRide(leg) THEN leg.to.zone ELSE leg.from.zone]

\* A leg is told by at most a change, a date and an item of its own.
LEMMA TellAppends ==
  ASSUME NEW D, NEW told, NEW k, IsRow(told.items)
  PROVE  /\ IsItem(D, k) =>
              Tell(D, told, k) = [items |-> ItemsAfter(D, told, k), last |-> LastOf(D[k])]
         /\ ~IsItem(D, k) => Tell(D, told, k) = told
  <1>1. PICK e : e = ItemsOfLeg(D, k)
    OBVIOUS
  <1>2. e.change = IF HasChange(D, k) THEN <<Change(D, k)>> ELSE << >>
    BY <1>1 DEF ItemsOfLeg, HasChange
  <1>3. e.item = ItemOf(D, k)
    BY <1>1 DEF ItemOf
  <1>4. Separators(told.last, D[k]) = IF HasDate(told.last, D[k]) THEN <<DateOf(D[k])>> ELSE << >>
    BY DEF Separators, HasDate, DateOf
  <1>5. PICK items : items = told.items
    OBVIOUS
  <1>6. \A s, x : IsRow(s) => s \o <<x>> = Append(s, x) /\ s \o << >> = s /\ IsRow(Append(s, x))
    <2> SUFFICES ASSUME NEW s, NEW x, IsRow(s)
                 PROVE  s \o <<x>> = Append(s, x) /\ s \o << >> = s /\ IsRow(Append(s, x))
      OBVIOUS
    <2>1. s \in Seq(Range(s))
      BY DEF IsRow
    <2>2. s \o <<x>> = Append(s, x) /\ s \o << >> = s
      BY <2>1
    <2> QED
      BY <2>2, RowAppends
  <1>7. items \o e.change = WithChange(D, items, k) /\ IsRow(WithChange(D, items, k))
    BY <1>2, <1>5, <1>6 DEF WithChange
  <1>8. PICK mid : mid = WithChange(D, items, k)
    OBVIOUS
  <1>9. /\ mid \o Separators(told.last, D[k]) = WithDate(told.last, mid, D[k])
        /\ IsRow(WithDate(told.last, mid, D[k]))
    BY <1>4, <1>6, <1>7, <1>8 DEF WithDate
  <1>10. items \o e.change \o Separators(told.last, D[k]) \o <<e.item>> = ItemsAfter(D, told, k)
    <2>1. WithDate(told.last, mid, D[k]) \o <<e.item>> = ItemsAfter(D, told, k)
      BY <1>3, <1>5, <1>6, <1>8, <1>9 DEF ItemsAfter
    <2> QED
      BY <1>7, <1>8, <1>9, <2>1
  <1>11. Tell(D, told, k) =
           IF ~IsItem(D, k) THEN told
           ELSE [items |-> items \o e.change \o Separators(told.last, D[k]) \o <<e.item>>,
                 last |-> LastOf(D[k])]
    BY <1>1, <1>5 DEF Tell, LastOf
  <1> QED
    BY <1>10, <1>11

\* What kind of item it is.
LEMMA ItemIs ==
  ASSUME NEW D, NEW k
  PROVE  /\ IsRide(D[k]) => ItemOf(D, k) = [kind |-> "ride", leg |-> D[k], isLast |-> RidesAfter(D, k) = {}]
         /\ ~IsRide(D[k]) => ItemOf(D, k) = [kind |-> "walk", leg |-> D[k], role |-> RoleOfWalk(D, k)]
  BY DEF ItemOf, ItemsOfLeg

KindPlaces(items, kind) == {i \in DOMAIN items : items[i].kind = kind}

\* One more item is at most one more of its kind.
LEMMA KindAppends ==
  ASSUME NEW items, IsRow(items), NEW e, NEW kind
  PROVE  /\ IsFiniteSet(KindPlaces(items, kind)) /\ Cardinality(KindPlaces(items, kind)) \in Nat
         /\ e.kind = kind =>
              /\ KindPlaces(Append(items, e), kind) = KindPlaces(items, kind) \cup {Len(items) + 1}
              /\ Cardinality(KindPlaces(Append(items, e), kind)) = Cardinality(KindPlaces(items, kind)) + 1
         /\ e.kind # kind => KindPlaces(Append(items, e), kind) = KindPlaces(items, kind)
  <1>1. PICK n \in Nat : n = Len(items) /\ DOMAIN items = 1 .. n
    BY DEF IsRow
  <1>2. PICK more : more = Append(items, e)
    OBVIOUS
  <1>3. /\ DOMAIN more = 1 .. n + 1 /\ more[n + 1] = e /\ \A i \in 1 .. n : more[i] = items[i]
    BY <1>1, <1>2, RowAppends
  <1>4. \A i : i \in 1 .. n + 1 <=> i \in 1 .. n \/ i = n + 1
    OBVIOUS
  <1>5. KindPlaces(items, kind) \in SUBSET (1 .. n) /\ n + 1 \notin 1 .. n
    BY <1>1 DEF KindPlaces
  <1>6. IsFiniteSet(KindPlaces(items, kind)) /\ Cardinality(KindPlaces(items, kind)) \in Nat
    <2>1. IsFiniteSet(1 .. n)
      BY FS_Interval
    <2>2. IsFiniteSet(KindPlaces(items, kind))
      BY <1>5, <2>1, FS_Subset
    <2> QED
      BY <2>2, FS_CardinalityType
  <1>7. ASSUME e.kind = kind
        PROVE  KindPlaces(more, kind) = KindPlaces(items, kind) \cup {n + 1}
    BY <1>1, <1>3, <1>4, <1>7 DEF KindPlaces
  <1>8. ASSUME e.kind # kind
        PROVE  KindPlaces(more, kind) = KindPlaces(items, kind)
    BY <1>1, <1>3, <1>4, <1>8 DEF KindPlaces
  <1>9. n + 1 \notin KindPlaces(items, kind)
    BY <1>5
  <1>10. Cardinality(KindPlaces(items, kind) \cup {n + 1}) = Cardinality(KindPlaces(items, kind)) + 1
    BY <1>6, <1>9, FS_AddElement
  <1> QED
    BY <1>1, <1>2, <1>6, <1>7, <1>8, <1>10

-----------------------------------------------------------------------------
(* Legs as they are displayed.                                              *)

\* y is how a leg is displayed that begins as leg a of L and goes on to leg b.
IsDisplayedLeg(y, L, a, b) ==
  /\ y.kind \in {"walk", "named walk", "ride"}
  /\ (IsRide(y) <=> L[a].kind # "walk") /\ (IsWalk(y) <=> IsWalk(L[a]))
  /\ y.service = L[a].service /\ y.start = L[a].start /\ y.from = L[a].from
  /\ y.end = L[b].end /\ y.to = L[b].to
  /\ y.minutes \in Int /\ (a = b => y.minutes = L[a].minutes)
  /\ IsRow(y.through) /\ Len(y.through) = b - a
  /\ \A i \in 1 .. b - a : y.through[i].service = L[a + i].service

\* D displays the legs of L, one for each that is not seated.
AreDisplayed(D, h, L) ==
  /\ IsRow(D) /\ Len(D) > 0 /\ h \in [1 .. Len(D) -> 1 .. Len(L)] /\ h[1] = 1
  /\ \A m, j \in 1 .. Len(D) : m < j => h[m] < h[j]
  /\ \A i \in 1 .. Len(L) : ~L[i].seated => \E m \in 1 .. Len(D) : h[m] = i
  /\ \A m \in 1 .. Len(D) :
       /\ ~L[h[m]].seated /\ h[m] <= TailOf(h, Len(D), Len(L), m)
       /\ IsDisplayedLeg(D[m], L, h[m], TailOf(h, Len(D), Len(L), m))

\* A joined leg is displayed with a name unless it is a walk without one.
LEMMA NamedIsDisplayed ==
  ASSUME NEW L, NEW a, NEW b, NEW x, IsJoined(x, L, a, b), L[a].kind \in Kinds
  PROVE  IsDisplayedLeg(Named(x), L, a, b)
  <1>1. PICK ki, se, sd, st, en, mi, fr, t, th :
          /\ x = [kind |-> ki, service |-> se, seated |-> sd, start |-> st, end |-> en,
                  minutes |-> mi, from |-> fr, to |-> t, through |-> th]
          /\ ki = L[a].kind /\ se = L[a].service /\ st = L[a].start
          /\ fr = L[a].from /\ en = L[b].end /\ t = L[b].to
    BY DEF IsJoined
  <1>2. x.minutes = mi /\ x.through = th /\ x.kind = ki
    BY <1>1
  <1>3. /\ mi \in Int /\ IsRow(th) /\ Len(th) = b - a /\ (a = b => mi = L[a].minutes)
        /\ \A i \in 1 .. b - a : th[i].service = L[a + i].service
    BY <1>2 DEF IsJoined
  <1>4. ki \in Kinds
    BY <1>1
  <1> DEFINE kind == IF ki = "other" THEN "ride" ELSE ki
  <1>5. Named(x) = [kind |-> kind, service |-> se, seated |-> sd, start |-> st, end |-> en,
                    minutes |-> mi, from |-> fr, to |-> t, through |-> th]
    <2>1. CASE ki = "other"
      <3>1. ~IsRide(x) /\ ~IsWalk(x)
        BY <1>2, <2>1 DEF IsRide, IsWalk
      <3> QED
        BY <1>1, <2>1, <3>1 DEF Named
    <2>2. CASE ki # "other"
      <3>1. IsRide(x) \/ IsWalk(x)
        BY <1>2, <1>4, <2>2 DEF IsRide, IsWalk, Kinds
      <3> QED
        BY <1>1, <2>2, <3>1 DEF Named
    <2> QED
      BY <2>1, <2>2
  <1>6. PICK y : y = Named(x)
    OBVIOUS
  <1>7. kind \in {"walk", "named walk", "ride"}
    BY <1>4 DEF Kinds
  <1>8. /\ y.kind = kind /\ y.service = se /\ y.start = st /\ y.end = en /\ y.minutes = mi
        /\ y.from = fr /\ y.to = t /\ y.through = th
    BY <1>5, <1>6
  <1>9. (IsRide(y) <=> ki # "walk") /\ (IsWalk(y) <=> IsWalk(L[a]))
    BY <1>1, <1>4, <1>8 DEF IsRide, IsWalk, Kinds
  <1>10. IsDisplayedLeg(y, L, a, b)
    <2> HIDE DEF kind
    <2> QED
      BY <1>1, <1>3, <1>7, <1>8, <1>9 DEF IsDisplayedLeg
  <1> QED
    BY <1>6, <1>10

\* So every stored journey is displayed.
LEMMA LegsAreDisplayed ==
  ASSUME NEW L, IsStored(L)
  PROVE  \E h : AreDisplayed(DisplayLegs(L), h, L)
  <1>1. PICK n \in Nat : n = Len(L) /\ DOMAIN L = 1 .. n /\ n # 0
    BY DEF IsStored, IsRow
  <1>2. PICK J : J = Joined(L)
    OBVIOUS
  <1>3. PICK h : AreJoined(J, h, L, n)
    BY <1>1, <1>2, JoinedIs
  <1>4. PICK c \in Nat : c = Len(J) /\ DOMAIN J = 1 .. c
    BY <1>3 DEF AreJoined, IsRow
  <1>5. PICK D : D = DisplayLegs(L)
    OBVIOUS
  <1>6. D = [m \in 1 .. c |-> Named(J[m])]
    BY <1>2, <1>4, <1>5 DEF DisplayLegs
  <1>7. IsRow(D) /\ Len(D) = c
    <2>1. D = [m \in 1 .. c |-> D[m]]
      BY <1>6
    <2> QED
      BY <2>1, RowIsSequence
  <1>8. /\ h \in [1 .. c -> 1 .. n] /\ c > 0 /\ h[1] = 1
        /\ \A m, j \in 1 .. c : m < j => h[m] < h[j]
        /\ \A i \in 1 .. n : ~L[i].seated => \E m \in 1 .. c : h[m] = i
        /\ \A m \in 1 .. c : /\ ~L[h[m]].seated /\ h[m] <= TailOf(h, c, n, m)
                             /\ IsJoined(J[m], L, h[m], TailOf(h, c, n, m))
    <2>1. n > 0
      BY <1>1
    <2> QED
      BY <1>3, <1>4, <2>1 DEF AreJoined
  <1>9. ASSUME NEW m \in 1 .. c PROVE IsDisplayedLeg(D[m], L, h[m], TailOf(h, c, n, m))
    <2>1. PICK a, b : a = h[m] /\ b = TailOf(h, c, n, m)
      OBVIOUS
    <2>2. a \in 1 .. n
      BY <1>8, <2>1
    <2>3. L[a].kind \in Kinds
      BY <1>1, <2>2 DEF IsStored, IsStoredLeg
    <2>4. IsJoined(J[m], L, a, b)
      BY <1>8, <2>1
    <2>5. IsDisplayedLeg(Named(J[m]), L, a, b)
      BY <2>3, <2>4, NamedIsDisplayed
    <2> QED
      BY <1>6, <2>1, <2>5
  <1>10. AreDisplayed(D, h, L)
    BY <1>1, <1>7, <1>8, <1>9 DEF AreDisplayed
  <1> QED
    BY <1>5, <1>10

\* The traveler stays seated from a displayed leg's start to its end.
LEMMA SeatedWithin ==
  ASSUME NEW L, IsStored(L), NEW D, NEW h, AreDisplayed(D, h, L), NEW m \in 1 .. Len(D)
  PROVE  /\ Len(D) \in Nat /\ Len(L) \in Nat /\ h[m] \in 1 .. Len(L)
         /\ TailOf(h, Len(D), Len(L), m) \in 1 .. Len(L)
         /\ h[m] <= TailOf(h, Len(D), Len(L), m)
         /\ \A i \in 1 .. Len(L) : h[m] < i /\ i <= TailOf(h, Len(D), Len(L), m) =>
              L[i].seated /\ IsMoved(L[i])
         /\ IsWalk(L[h[m]]) => TailOf(h, Len(D), Len(L), m) = h[m]
  <1>1. PICK c, n : c = Len(D) /\ n = Len(L)
    OBVIOUS
  <1>2. /\ c \in Nat /\ n \in Nat /\ h \in [1 .. c -> 1 .. n] /\ DOMAIN L = 1 .. n /\ m \in 1 .. c
        /\ \A i, j \in 1 .. c : i < j => h[i] < h[j]
        /\ \A i \in 1 .. n : ~L[i].seated => \E j \in 1 .. c : h[j] = i
        /\ h[m] <= TailOf(h, c, n, m)
    BY <1>1 DEF AreDisplayed, IsStored, IsRow
  <1>3. PICK a, b : a = h[m] /\ b = TailOf(h, c, n, m)
    OBVIOUS
  <1>4. a \in 1 .. n /\ a <= b
    BY <1>2, <1>3
  <1>5. b \in 1 .. n
    <2>1. CASE m < c
      <3>1. m + 1 \in 1 .. c
        BY <1>2, <2>1
      <3>2. h[m + 1] \in 1 .. n /\ b = h[m + 1] - 1
        BY <1>2, <1>3, <2>1, <3>1 DEF TailOf
      <3> QED
        BY <1>2, <1>4, <3>2
    <2>2. CASE ~(m < c)
      <3>1. b = n
        BY <1>3, <2>2 DEF TailOf
      <3> QED
        BY <1>2, <1>4, <3>1
    <2> QED
      BY <2>1, <2>2
  <1>6. ASSUME NEW i \in 1 .. n, a < i, i <= b PROVE L[i].seated /\ IsMoved(L[i])
    <2>1. ASSUME ~L[i].seated PROVE FALSE
      <3>1. PICK j \in 1 .. c : h[j] = i
        BY <1>2, <2>1
      <3>2. m < j
        <4>1. CASE j < m
          <5>1. h[j] < h[m]
            BY <1>2, <4>1
          <5> QED
            BY <1>2, <1>3, <1>4, <1>6, <3>1, <5>1
        <4>2. CASE j = m
          BY <1>2, <1>3, <1>4, <1>6, <3>1, <4>2
        <4> QED
          BY <1>2, <4>1, <4>2
      <3>3. m < c /\ m + 1 \in 1 .. c
        BY <1>2, <3>2
      <3>4. b = h[m + 1] - 1 /\ h[m + 1] \in 1 .. n
        BY <1>2, <1>3, <3>3 DEF TailOf
      <3>5. h[m + 1] <= h[j]
        <4>1. CASE j = m + 1
          BY <1>2, <3>4, <4>1
        <4>2. CASE j # m + 1
          <5>1. m + 1 < j
            BY <1>2, <3>2, <4>2
          <5>2. h[m + 1] < h[j] /\ h[j] \in 1 .. n
            BY <1>2, <3>3, <5>1
          <5> QED
            BY <1>2, <3>4, <5>2
        <4> QED
          BY <4>1, <4>2
      <3> QED
        BY <1>2, <1>5, <1>6, <3>1, <3>4, <3>5
    <2>2. L[i].seated => ~IsWalk(L[i])
      BY <1>2 DEF IsStored
    <2> QED
      BY <2>1, <2>2 DEF IsMoved
  <1>7. IsWalk(L[a]) => b = a
    <2>1. ASSUME IsWalk(L[a]), b # a PROVE FALSE
      <3>1. a + 1 \in 1 .. n /\ a < a + 1 /\ a + 1 <= b /\ (a + 1) - 1 = a
        BY <1>2, <1>4, <1>5, <2>1
      <3>2. L[a + 1].seated
        BY <1>6, <3>1
      <3>3. ~IsWalk(L[(a + 1) - 1])
        BY <1>2, <3>1, <3>2 DEF IsStored
      <3> QED
        BY <2>1, <3>1, <3>3
    <2> QED
      BY <2>1
  <1> QED
    BY <1>1, <1>2, <1>3, <1>4, <1>5, <1>6, <1>7

-----------------------------------------------------------------------------
(* What a timeline tells, item after item.                                  *)

\* The places more are those of at, and behind them those after a as far as b, where
\* u stands in s.
IsRun(T, s, at, a, b, u, more) ==
  /\ s \in Seq(T) /\ u \in Seq(T) /\ a \in Nat /\ b \in Nat
  /\ at \in SUBSET (1 .. a) /\ more = at \cup (a + 1 .. b)
  /\ a <= b /\ b <= Len(s) /\ Len(u) = b - a
  /\ \A i \in 1 .. b - a : u[i] = s[a + i]

RunAppends(s, at, u, more) == AtPlaces(s, more) = AtPlaces(s, at) \o u

\* Places that follow one another append what stands there.
LEMMA AtPlacesRun ==
  ASSUME NEW T, NEW s, NEW at, NEW a, NEW b, NEW u, NEW more, IsRun(T, s, at, a, b, u, more)
  PROVE  RunAppends(s, at, u, more)
  <1> SUFFICES ASSUME /\ s \in Seq(T) /\ u \in Seq(T) /\ a \in Nat /\ b \in Nat
                      /\ at \in SUBSET (1 .. a) /\ more = at \cup (a + 1 .. b)
                      /\ a <= b /\ b <= Len(s) /\ Len(u) = b - a
                      /\ \A i \in 1 .. b - a : u[i] = s[a + i]
               PROVE  AtPlaces(s, more) = AtPlaces(s, at) \o u
    BY DEF IsRun, RunAppends
  <1>0. a <= b /\ b <= Len(s) /\ Len(u) = b - a /\ \A i \in 1 .. b - a : u[i] = s[a + i]
    OBVIOUS
  <1>1. Len(s) \in Nat /\ DOMAIN s = 1 .. Len(s) /\ at \in SUBSET (DOMAIN s)
    BY <1>0
  <1>2. PICK p, t : p = Places(at) /\ t = AtPlaces(s, at)
    OBVIOUS
  <1>3. /\ IsNumbering(p, at) /\ t \in Seq(T)
        /\ DOMAIN t = 1 .. Cardinality(at) /\ Len(t) = Cardinality(at)
        /\ \A n \in 1 .. Cardinality(at) : t[n] = s[p[n]]
    BY <1>1, <1>2, AtPlacesIsSequence
  <1>4. PICK c \in Nat : c = Cardinality(at)
    BY <1>3 DEF IsNumbering
  <1>5. /\ p \in [1 .. c -> at] /\ \A x \in at : \E i \in 1 .. c : p[i] = x
        /\ \A i, j \in 1 .. c : i < j => p[i] < p[j]
    BY <1>3, <1>4 DEF IsNumbering
  <1>6. PICK d \in Nat : d = b - a
    BY <1>0
  <1> DEFINE q == [i \in 1 .. c + d |-> IF i <= c THEN p[i] ELSE a + (i - c)]
  <1>7. \A i \in 1 .. c : i \in 1 .. c + d /\ q[i] = p[i] /\ p[i] \in 1 .. a
    <2> SUFFICES ASSUME NEW i \in 1 .. c PROVE i \in 1 .. c + d /\ q[i] = p[i] /\ p[i] \in 1 .. a
      OBVIOUS
    <2>1. i \in 1 .. c + d /\ i <= c
      BY <1>4, <1>6
    <2>2. q[i] = p[i]
      BY <2>1
    <2>3. p[i] \in at
      BY <1>5
    <2> QED
      BY <2>1, <2>2, <2>3
  <1>8. \A i \in 1 .. d : c + i \in 1 .. c + d /\ q[c + i] = a + i /\ a + i \in a + 1 .. b
    BY <1>6
  <1>9. \A i \in 1 .. c + d : i \in 1 .. c \/ (i - c \in 1 .. d /\ i = c + (i - c) /\ ~(i <= c))
    OBVIOUS
  <1>10. q \in [1 .. c + d -> more]
    <2>1. \A i \in 1 .. c + d : q[i] \in more
      <3>1. \A i \in 1 .. c : q[i] \in at
        BY <1>5, <1>7
      <3> QED
        BY <1>8, <1>9, <3>1
    <2> QED
      BY <2>1
  <1> HIDE DEF q
  <1>11. \A x \in more : \E i \in 1 .. c + d : q[i] = x
    <2> SUFFICES ASSUME NEW x \in more PROVE \E i \in 1 .. c + d : q[i] = x
      OBVIOUS
    <2>1. CASE x \in at
      BY <1>5, <1>7, <2>1
    <2>2. CASE x \in a + 1 .. b
      <3>1. x - a \in 1 .. d /\ a + (x - a) = x
        BY <1>6, <2>2
      <3> QED
        BY <1>8, <3>1
    <2> QED
      BY <2>1, <2>2
  <1>12. ASSUME NEW i \in 1 .. c + d, NEW j \in 1 .. c + d, i < j PROVE q[i] < q[j]
    <2>1. CASE j \in 1 .. c
      <3>1. i \in 1 .. c
        BY <1>12, <2>1
      <3> QED
        BY <1>5, <1>7, <1>12, <2>1, <3>1
    <2>2. CASE j \notin 1 .. c
      <3>1. j - c \in 1 .. d /\ q[j] = a + (j - c)
        BY <1>8, <1>9, <2>2
      <3>2. CASE i \in 1 .. c
        <4>1. q[i] \in 1 .. a
          BY <1>7, <3>2
        <4> QED
          BY <3>1, <4>1
      <3>3. CASE i \notin 1 .. c
        <4>1. i - c \in 1 .. d /\ q[i] = a + (i - c)
          BY <1>8, <1>9, <3>3
        <4> QED
          BY <1>12, <3>1, <4>1
      <3> QED
        BY <3>2, <3>3
    <2> QED
      BY <2>1, <2>2
  <1>13. more \in SUBSET (1 .. Len(s)) /\ c + d \in Nat
    <2>1. \A i \in 1 .. a : i \in 1 .. Len(s)
      BY <1>0, <1>1
    <2>2. \A i \in a + 1 .. b : i \in 1 .. Len(s)
      BY <1>0, <1>1
    <2>3. \A x \in more : x \in 1 .. Len(s)
      BY <2>1, <2>2
    <2> QED
      BY <2>3
  <1>14. Cardinality(more) = c + d /\ Places(more) = q
    BY <1>1, <1>10, <1>11, <1>12, <1>13, NumberedIs, ZenonT(60)
  <1>15. AtPlaces(s, more) = [n \in 1 .. c + d |-> s[q[n]]]
    BY <1>14 DEF AtPlaces
  <1>16. PICK w : w = t \o u
    OBVIOUS
  <1>17. /\ w \in Seq(T) /\ Len(w) = c + d
         /\ \A i \in 1 .. c : w[i] = t[i]
         /\ \A i \in 1 .. d : w[c + i] = u[i]
    <2>1. /\ w \in Seq(T) /\ Len(w) = Len(t) + Len(u)
          /\ \A i \in 1 .. Len(t) + Len(u) : w[i] = IF i <= Len(t) THEN t[i] ELSE u[i - Len(t)]
      BY <1>3, <1>16, ConcatProperties
    <2>2. Len(t) = c /\ Len(u) = d
      BY <1>0, <1>3, <1>4, <1>6
    <2>3. \A i \in 1 .. c + d : w[i] = IF i <= c THEN t[i] ELSE u[i - c]
      BY <2>1, <2>2
    <2>4. \A i \in 1 .. c : w[i] = t[i]
      <3>1. \A i \in 1 .. c : i \in 1 .. c + d /\ i <= c
        BY <1>4, <1>6
      <3> QED
        BY <2>3, <3>1
    <2>5. \A i \in 1 .. d : w[c + i] = u[i]
      <3>1. \A i \in 1 .. d : c + i \in 1 .. c + d /\ ~(c + i <= c) /\ (c + i) - c = i
        BY <1>4, <1>6
      <3>2. \A i \in 1 .. d : w[c + i] = u[(c + i) - c]
        BY <2>3, <3>1
      <3> QED
        BY <3>1, <3>2
    <2> QED
      BY <2>1, <2>2, <2>4, <2>5
  <1>18. w = [n \in 1 .. c + d |-> w[n]]
    <2>1. w \in [1 .. c + d -> T]
      BY <1>17
    <2> QED
      BY <2>1
  <1>19. ASSUME NEW n \in 1 .. c + d PROVE s[q[n]] = w[n]
    <2>1. CASE n \in 1 .. c
      <3>1. w[n] = t[n] /\ t[n] = s[p[n]] /\ q[n] = p[n]
        BY <1>3, <1>4, <1>7, <1>17, <2>1
      <3> QED
        BY <3>1
    <2>2. CASE n \notin 1 .. c
      <3>1. PICK i \in 1 .. d : n = c + i
        BY <1>9, <2>2
      <3>2. w[n] = u[i] /\ q[n] = a + i /\ u[i] = s[a + i]
        BY <1>0, <1>6, <1>8, <1>17, <3>1
      <3> QED
        BY <3>2
    <2> QED
      BY <2>1, <2>2
  <1>20. AtPlaces(s, more) = w
    BY <1>15, <1>18, <1>19
  <1> QED
    BY <1>2, <1>16, <1>20

\* b is a, of n elements, and one more.
IsOneMore(b, a, n, x) ==
  /\ n = Len(a) /\ b = [i \in 1 .. n + 1 |-> b[i]] /\ b[n + 1] = x
  /\ \A i \in 1 .. n : b[i] = a[i]

\* Then it is appended.
LEMMA AppendedIs ==
  ASSUME NEW T, NEW a \in Seq(T), NEW x \in T, NEW n \in Nat, NEW b, IsOneMore(b, a, n, x)
  PROVE  b = Append(a, x)
  <1>0. /\ n = Len(a) /\ b = [i \in 1 .. n + 1 |-> b[i]] /\ b[n + 1] = x
        /\ \A i \in 1 .. n : b[i] = a[i]
    BY DEF IsOneMore
  <1>1. PICK w : w = Append(a, x)
    OBVIOUS
  <1>2. w \in Seq(T) /\ Len(w) = n + 1 /\ w[n + 1] = x /\ \A i \in 1 .. n : w[i] = a[i]
    BY <1>0, <1>1, AppendProperties
  <1>3. w = [i \in 1 .. n + 1 |-> w[i]]
    <2>1. w \in [1 .. n + 1 -> T]
      BY <1>2
    <2> QED
      BY <2>1
  <1>4. \A i \in 1 .. n + 1 : i \in 1 .. n \/ i = n + 1
    OBVIOUS
  <1>5. \A i \in 1 .. n + 1 : b[i] = w[i]
    BY <1>0, <1>2, <1>4
  <1> QED
    BY <1>0, <1>1, <1>3, <1>5

\* What one leg adds to the items: a change and a date, or one of them or none, and
\* then its own.
LEMMA AfterLooks ==
  ASSUME NEW D, NEW told, NEW k, NEW items, items = told.items, IsRow(items),
         NEW after, after = ItemsAfter(D, told, k)
  PROVE  /\ IsRow(after) /\ Len(items) \in Nat /\ Len(after) \in Nat /\ Len(items) < Len(after)
         /\ DOMAIN items = 1 .. Len(items) /\ DOMAIN after = 1 .. Len(after)
         /\ \A i \in 1 .. Len(items) : after[i] = items[i]
         /\ after[Len(after)] = ItemOf(D, k)
         /\ HasChange(D, k) =>
              Len(items) + 1 < Len(after) /\ after[Len(items) + 1] = Change(D, k)
         /\ HasDate(told.last, D[k]) =>
              Len(items) + 1 < Len(after) /\ after[Len(after) - 1] = DateOf(D[k])
         /\ \A i \in 1 .. Len(after) :
              Len(items) < i /\ i < Len(after) =>
                \/ HasChange(D, k) /\ i = Len(items) + 1 /\ after[i] = Change(D, k)
                \/ after[i] = DateOf(D[k])
  <1>1. PICK n \in Nat : n = Len(items) /\ DOMAIN items = 1 .. n
    BY DEF IsRow
  <1>2. PICK mid : mid = WithChange(D, items, k)
    OBVIOUS
  <1>3. PICK dated : dated = WithDate(told.last, mid, D[k])
    OBVIOUS
  <1>4. after = Append(dated, ItemOf(D, k))
    BY <1>2, <1>3 DEF ItemsAfter
  <1>5. PICK m : m = Len(mid)
    OBVIOUS
  <1>6. /\ IsRow(mid) /\ m \in Nat /\ DOMAIN mid = 1 .. m
        /\ \A i \in 1 .. n : mid[i] = items[i]
        /\ IF HasChange(D, k) THEN m = n + 1 /\ mid[n + 1] = Change(D, k) ELSE m = n
    <2>1. CASE HasChange(D, k)
      <3>1. mid = Append(items, Change(D, k))
        BY <1>2, <2>1 DEF WithChange
      <3>2. PICK e : e = Change(D, k)
        OBVIOUS
      <3>3. /\ IsRow(Append(items, e)) /\ Len(Append(items, e)) = n + 1
            /\ DOMAIN Append(items, e) = 1 .. n + 1
            /\ Append(items, e)[n + 1] = e /\ \A i \in 1 .. n : Append(items, e)[i] = items[i]
        BY <1>1, RowAppends
      <3>4. /\ IsRow(mid) /\ Len(mid) = n + 1 /\ DOMAIN mid = 1 .. n + 1
            /\ mid[n + 1] = e /\ \A i \in 1 .. n : mid[i] = items[i]
        BY <3>1, <3>2, <3>3
      <3>5. n + 1 \in Nat
        BY <1>1
      <3> QED
        BY <1>5, <2>1, <3>2, <3>4, <3>5
    <2>2. CASE ~HasChange(D, k)
      <3>1. mid = items
        BY <1>2, <2>2 DEF WithChange
      <3> QED
        BY <1>1, <1>5, <2>2, <3>1
    <2> QED
      BY <2>1, <2>2
  <1>7. PICK d : d = Len(dated)
    OBVIOUS
  <1>8. /\ IsRow(dated) /\ d \in Nat /\ DOMAIN dated = 1 .. d
        /\ \A i \in 1 .. m : dated[i] = mid[i]
        /\ IF HasDate(told.last, D[k]) THEN d = m + 1 /\ dated[m + 1] = DateOf(D[k]) ELSE d = m
    <2>1. CASE HasDate(told.last, D[k])
      <3>1. dated = Append(mid, DateOf(D[k]))
        BY <1>3, <2>1 DEF WithDate
      <3>2. PICK e : e = DateOf(D[k])
        OBVIOUS
      <3>3. /\ IsRow(Append(mid, e)) /\ Len(Append(mid, e)) = m + 1
            /\ DOMAIN Append(mid, e) = 1 .. m + 1
            /\ Append(mid, e)[m + 1] = e /\ \A i \in 1 .. m : Append(mid, e)[i] = mid[i]
        BY <1>5, <1>6, RowAppends
      <3>4. /\ IsRow(dated) /\ Len(dated) = m + 1 /\ DOMAIN dated = 1 .. m + 1
            /\ dated[m + 1] = e /\ \A i \in 1 .. m : dated[i] = mid[i]
        BY <3>1, <3>2, <3>3
      <3>5. m + 1 \in Nat
        BY <1>6
      <3> QED
        BY <1>7, <2>1, <3>2, <3>4, <3>5
    <2>2. CASE ~HasDate(told.last, D[k])
      <3>1. dated = mid
        BY <1>3, <2>2 DEF WithDate
      <3> QED
        BY <1>5, <1>6, <1>7, <2>2, <3>1
    <2> QED
      BY <2>1, <2>2
  <1>9. PICK e : e = ItemOf(D, k)
    OBVIOUS
  <1>10. /\ IsRow(after) /\ Len(after) = d + 1 /\ DOMAIN after = 1 .. d + 1
         /\ after[d + 1] = e /\ \A i \in 1 .. d : after[i] = dated[i]
    BY <1>4, <1>7, <1>8, <1>9, RowAppends
  <1>11. n <= m /\ m <= d
    BY <1>1, <1>6, <1>8
  <1>12. \A i \in 1 .. n : i \in 1 .. m /\ i \in 1 .. d
    BY <1>1, <1>6, <1>8, <1>11
  <1>13. \A i \in 1 .. n : after[i] = items[i]
    BY <1>6, <1>8, <1>10, <1>12
  <1>14. HasChange(D, k) => n + 1 < d + 1 /\ after[n + 1] = Change(D, k)
    <2> SUFFICES ASSUME HasChange(D, k) PROVE n + 1 < d + 1 /\ after[n + 1] = Change(D, k)
      OBVIOUS
    <2>1. m = n + 1 /\ mid[n + 1] = Change(D, k)
      BY <1>6
    <2>2. n + 1 \in 1 .. m /\ n + 1 \in 1 .. d /\ n + 1 < d + 1
      BY <1>1, <1>6, <1>8, <1>11, <2>1
    <2> QED
      BY <1>8, <1>10, <2>1, <2>2
  <1>15. HasDate(told.last, D[k]) => n + 1 < d + 1 /\ after[(d + 1) - 1] = DateOf(D[k])
    <2> SUFFICES ASSUME HasDate(told.last, D[k])
                 PROVE  n + 1 < d + 1 /\ after[(d + 1) - 1] = DateOf(D[k])
      OBVIOUS
    <2>1. d = m + 1 /\ dated[m + 1] = DateOf(D[k])
      BY <1>8
    <2>2. (d + 1) - 1 = m + 1 /\ m + 1 \in 1 .. d /\ n + 1 < d + 1
      BY <1>1, <1>6, <1>8, <1>11, <2>1
    <2> QED
      BY <1>10, <2>1, <2>2
  <1>16. ASSUME NEW i \in 1 .. d + 1, n < i, i < d + 1
         PROVE  \/ HasChange(D, k) /\ i = n + 1 /\ after[i] = Change(D, k)
                \/ after[i] = DateOf(D[k])
    <2>1. CASE i <= m
      <3>1. HasChange(D, k) /\ m = n + 1 /\ i = n + 1
        <4>1. m # n
          BY <1>1, <1>6, <1>16, <2>1
        <4>2. HasChange(D, k) /\ m = n + 1
          BY <1>6, <4>1
        <4> QED
          BY <1>1, <1>16, <2>1, <4>2
      <3> QED
        BY <1>14, <3>1
    <2>2. CASE ~(i <= m)
      <3>1. d # m
        BY <1>6, <1>8, <1>16, <2>2
      <3>2. d = m + 1 /\ dated[m + 1] = DateOf(D[k])
        BY <1>8, <3>1
      <3>3. i = m + 1 /\ i \in 1 .. d
        BY <1>6, <1>8, <1>16, <2>2, <3>2
      <3> QED
        BY <1>10, <3>2, <3>3
    <2> QED
      BY <2>1, <2>2
  <1>17. d + 1 \in Nat /\ n < d + 1
    BY <1>1, <1>6, <1>8, <1>11
  <1> QED
    BY <1>1, <1>9, <1>10, <1>13, <1>14, <1>15, <1>16, <1>17

\* Items that tell the services v, each of its own.
TellsOf(items, T, v) ==
  /\ IsRow(items) /\ \A i \in DOMAIN items : ToldBy(items[i]) \in Seq(T)
  /\ Told(items) = v /\ v \in Seq(T)

\* No item tells nothing.
LEMMA NothingIsTold ==
  ASSUME NEW T
  PROVE  TellsOf(<< >>, T, << >>)
  <1>1. [i \in DOMAIN << >> |-> ToldBy(<< >>[i])] = << >>
    OBVIOUS
  <1>2. PICK none : none = << >>
    OBVIOUS
  <1>3. none \in Seq(Seq(T)) /\ Len(none) = 0 /\ IsRow(none) /\ none \in Seq(T)
    BY <1>2 DEF IsRow
  <1>4. FlattenSeq(none) = Flat(none)[Len(none)]
    BY <1>3, FlattenTurns DEF IsFlattening
  <1>5. Flat(none)[0] = << >>
    BY <1>3, FlatTurns DEF FlatStart
  <1>6. Told(<< >>) = << >>
    BY <1>1, <1>2, <1>3, <1>4, <1>5 DEF Told
  <1>7. DOMAIN << >> = {}
    OBVIOUS
  <1> QED
    BY <1>2, <1>3, <1>6, <1>7 DEF TellsOf

\* One more item tells what it tells.
LEMMA ToldAppends ==
  ASSUME NEW T, NEW items, NEW v, TellsOf(items, T, v), NEW e, ToldBy(e) \in Seq(T)
  PROVE  TellsOf(Append(items, e), T, v \o ToldBy(e))
  <1>1. PICK n \in Nat : n = Len(items) /\ DOMAIN items = 1 .. n
    BY DEF TellsOf, IsRow
  <1>2. PICK more : more = Append(items, e)
    OBVIOUS
  <1>3. /\ IsRow(more) /\ DOMAIN more = 1 .. n + 1 /\ more[n + 1] = e
        /\ \A i \in 1 .. n : more[i] = items[i]
    BY <1>1, <1>2, RowAppends DEF TellsOf
  <1>4. PICK a : a = [i \in 1 .. n |-> ToldBy(items[i])]
    OBVIOUS
  <1>5. \A i \in 1 .. n : ToldBy(items[i]) \in Seq(T)
    BY <1>1 DEF TellsOf
  <1>6. a \in [1 .. n -> Seq(T)]
    BY <1>4, <1>5
  <1>7. a \in Seq(Seq(T)) /\ Len(a) = n
    <2>1. PICK S : S = Seq(T)
      OBVIOUS
    <2>2. a \in Seq(S) /\ Len(a) = n
      BY <1>6, <2>1
    <2> QED
      BY <2>1, <2>2
  <1>8. PICK b : b = [i \in 1 .. n + 1 |-> ToldBy(more[i])]
    OBVIOUS
  <1>9. PICK x : x = ToldBy(e)
    OBVIOUS
  <1>10. IsOneMore(b, a, n, x)
    <2>1. b = [i \in 1 .. n + 1 |-> b[i]] /\ b[n + 1] = x /\ \A i \in 1 .. n : b[i] = a[i]
      BY <1>3, <1>4, <1>8, <1>9
    <2> QED
      BY <1>7, <2>1 DEF IsOneMore
  <1>11. b = Append(a, x)
    <2>1. PICK S : S = Seq(T)
      OBVIOUS
    <2>2. a \in Seq(S) /\ x \in S
      BY <1>7, <1>9, <2>1
    <2> QED
      BY <1>1, <1>7, <1>10, <2>2, AppendedIs
  <1>12. FlattenSeq(b) = FlattenSeq(a) \o x /\ FlattenSeq(b) \in Seq(T)
    BY <1>7, <1>9, <1>11, FlattenAppends
  <1>13. Told(more) = v \o x /\ v \o x \in Seq(T)
    <2>1. Told(items) = FlattenSeq(a) /\ Told(items) = v
      BY <1>1, <1>4 DEF Told, TellsOf
    <2>2. Told(more) = FlattenSeq(b)
      BY <1>3, <1>8 DEF Told
    <2> QED
      BY <1>12, <2>1, <2>2
  <1>14. \A i \in 1 .. n + 1 : ToldBy(more[i]) \in Seq(T)
    <2>1. \A i \in 1 .. n + 1 : i \in 1 .. n \/ i = n + 1
      BY <1>1
    <2> QED
      BY <1>3, <1>5, <2>1
  <1> QED
    BY <1>2, <1>3, <1>9, <1>13, <1>14 DEF TellsOf

\* What a leg tells.
ToldByLeg(leg) ==
  IF IsRide(leg) /\ ~IsWalk(leg) THEN << leg.service >> \o ServicesOf(leg.through) ELSE << >>

\* A leg's items tell what it tells, and one without an item tells nothing.
LEMMA TellTells ==
  ASSUME NEW T, NEW D, NEW told, NEW k, NEW v, TellsOf(told.items, T, v),
         ToldByLeg(D[k]) \in Seq(T)
  PROVE  TellsOf(Tell(D, told, k).items, T, v \o ToldByLeg(D[k]))
  <1>1. IsRow(told.items) /\ v \in Seq(T)
    BY DEF TellsOf
  <1>2. PICK x : x = ToldByLeg(D[k])
    OBVIOUS
  <1>3. CASE ~IsItem(D, k)
    <2>1. Tell(D, told, k) = told
      BY <1>1, <1>3, TellAppends
    <2>2. x = << >>
      BY <1>2, <1>3 DEF IsItem, ToldByLeg
    <2>3. v \o << >> = v
      BY <1>1
    <2> QED
      BY <1>2, <2>1, <2>2, <2>3
  <1>4. CASE IsItem(D, k)
    <2>1. Tell(D, told, k).items = ItemsAfter(D, told, k)
      BY <1>1, <1>4, TellAppends
    <2>2. << >> \in Seq(T) /\ v \o << >> = v
      BY <1>1
    <2>3. PICK mid : mid = WithChange(D, told.items, k)
      OBVIOUS
    <2>4. TellsOf(mid, T, v)
      <3>1. CASE HasChange(D, k)
        <4>1. PICK e : e = Change(D, k)
          OBVIOUS
        <4>2. e.kind = "transfer"
          BY <4>1 DEF Change
        <4>3. ToldBy(e) = << >>
          BY <4>2 DEF ToldBy
        <4>4. TellsOf(Append(told.items, e), T, v \o << >>)
          BY <2>2, <4>3, ToldAppends
        <4> QED
          BY <2>2, <2>3, <3>1, <4>1, <4>4 DEF WithChange
      <3>2. CASE ~HasChange(D, k)
        BY <2>3, <3>2 DEF WithChange
      <3> QED
        BY <3>1, <3>2
    <2>5. PICK dated : dated = WithDate(told.last, mid, D[k])
      OBVIOUS
    <2>6. TellsOf(dated, T, v)
      <3>1. CASE HasDate(told.last, D[k])
        <4>1. PICK e : e = DateOf(D[k])
          OBVIOUS
        <4>2. e.kind = "date"
          BY <4>1 DEF DateOf
        <4>3. ToldBy(e) = << >>
          BY <4>2 DEF ToldBy
        <4>4. TellsOf(Append(mid, e), T, v \o << >>)
          BY <2>2, <2>4, <4>3, ToldAppends
        <4> QED
          BY <2>2, <2>5, <3>1, <4>1, <4>4 DEF WithDate
      <3>2. CASE ~HasDate(told.last, D[k])
        BY <2>4, <2>5, <3>2 DEF WithDate
      <3> QED
        BY <3>1, <3>2
    <2>7. PICK e : e = ItemOf(D, k)
      OBVIOUS
    <2>8. ToldBy(e) = x
      <3>1. CASE IsRide(D[k])
        <4>1. e = [kind |-> "ride", leg |-> D[k], isLast |-> RidesAfter(D, k) = {}]
          BY <2>7, <3>1, ItemIs
        <4>2. e.kind = "ride" /\ e.leg = D[k]
          BY <4>1
        <4> QED
          BY <1>2, <3>1, <4>2 DEF ToldBy, ToldByLeg
      <3>2. CASE ~IsRide(D[k])
        <4>1. e = [kind |-> "walk", leg |-> D[k], role |-> RoleOfWalk(D, k)]
          BY <2>7, <3>2, ItemIs
        <4>2. e.kind = "walk"
          BY <4>1
        <4> QED
          BY <1>2, <3>2, <4>2 DEF ToldBy, ToldByLeg
      <3> QED
        BY <3>1, <3>2
    <2>9. TellsOf(Append(dated, e), T, v \o x)
      BY <1>2, <2>6, <2>8, ToldAppends
    <2>10. ItemsAfter(D, told, k) = Append(dated, e)
      BY <2>3, <2>5, <2>7 DEF ItemsAfter
    <2> QED
      BY <1>2, <2>1, <2>9, <2>10
  <1> QED
    BY <1>3, <1>4

\* The legs up to leg e in which the traveler sits.
MovedUpTo(L, e) == {i \in 1 .. e : IsMoved(L[i])}

LegIsTold(L, h, D, s, m, b) ==
  /\ ToldByLeg(D[m]) \in Seq(Range(s))
  /\ AtPlaces(s, MovedUpTo(L, b)) = AtPlaces(s, MovedUpTo(L, h[m] - 1)) \o ToldByLeg(D[m])
  /\ AtPlaces(s, MovedUpTo(L, h[m] - 1)) \in Seq(Range(s))

\* A displayed leg tells the services of its legs, and nothing if it is a walk.
LEMMA LegTells ==
  ASSUME NEW L, IsStored(L), NEW D, NEW h, AreDisplayed(D, h, L), NEW m \in 1 .. Len(D),
         NEW s, s = ServicesOf(L), NEW b, b = TailOf(h, Len(D), Len(L), m)
  PROVE  LegIsTold(L, h, D, s, m, b)
  <1> USE DEF LegIsTold
  <1>1. PICK a, n : a = h[m] /\ n = Len(L)
    OBVIOUS
  <1>2. /\ n \in Nat /\ DOMAIN L = 1 .. n /\ a \in 1 .. n /\ b \in 1 .. n /\ a <= b
        /\ \A i \in 1 .. n : a < i /\ i <= b => IsMoved(L[i])
        /\ IsWalk(L[a]) => b = a
    <2>1. DOMAIN L = 1 .. n
      BY <1>1 DEF IsStored, IsRow
    <2>2. /\ n \in Nat /\ a \in 1 .. n /\ b \in 1 .. n /\ a <= b
          /\ \A i \in 1 .. n : a < i /\ i <= b => L[i].seated /\ IsMoved(L[i])
          /\ IsWalk(L[a]) => b = a
      BY <1>1, SeatedWithin
    <2> QED
      BY <2>1, <2>2
  <1>3. IsDisplayedLeg(D[m], L, a, b)
    BY <1>1 DEF AreDisplayed
  <1>4. PICK T : T = Range(s)
    OBVIOUS
  <1>5. s = [i \in 1 .. n |-> L[i].service]
    BY <1>2 DEF ServicesOf
  <1>6. s \in Seq(T) /\ Len(s) = n /\ DOMAIN s = 1 .. n
    <2>1. s = [i \in 1 .. n |-> s[i]]
      BY <1>5
    <2>2. IsRow(s) /\ Len(s) = n
      BY <1>2, <2>1, RowIsSequence
    <2> QED
      BY <1>4, <1>5, <2>2 DEF IsRow
  <1> DEFINE sat == MovedUpTo(L, a - 1)
  <1>7. sat \in SUBSET (1 .. a - 1) /\ sat \in SUBSET (DOMAIN s)
    BY <1>2, <1>6 DEF MovedUpTo
  <1>8. AtPlaces(s, sat) \in Seq(T)
    <2> HIDE DEF sat
    <2> QED
      BY <1>6, <1>7, AtPlacesIsSequence
  <1>9. PICK u : u = ToldByLeg(D[m])
    OBVIOUS
  <1>10. CASE IsWalk(L[a])
    <2>1. IsWalk(D[m])
      BY <1>3, <1>10 DEF IsDisplayedLeg
    <2>2. u = << >>
      BY <1>9, <2>1 DEF ToldByLeg
    <2>3. MovedUpTo(L, b) = sat
      <3>1. b = a /\ ~IsMoved(L[a])
        BY <1>2, <1>10 DEF IsMoved
      <3>2. \A i : i \in 1 .. a <=> i \in 1 .. a - 1 \/ i = a
        BY <1>2
      <3> QED
        BY <3>1, <3>2 DEF MovedUpTo
    <2>4. AtPlaces(s, sat) \o << >> = AtPlaces(s, sat) /\ << >> \in Seq(T)
      BY <1>8
    <2> QED
      BY <1>1, <1>4, <1>8, <1>9, <2>2, <2>3, <2>4
  <1>11. CASE ~IsWalk(L[a])
    <2>1. IsRide(D[m]) /\ ~IsWalk(D[m])
      BY <1>3, <1>11 DEF IsDisplayedLeg, IsRide, IsWalk
    <2>2. PICK th, se : th = D[m].through /\ se = D[m].service
      OBVIOUS
    <2>3. /\ se = s[a] /\ IsRow(th) /\ Len(th) = b - a
          /\ \A i \in 1 .. b - a : th[i].service = s[a + i]
      <3>1. \A i \in 1 .. b - a : a + i \in 1 .. n
        BY <1>2
      <3> QED
        BY <1>2, <1>3, <1>5, <2>2, <3>1 DEF IsDisplayedLeg
    <2>4. PICK w : w = ServicesOf(th)
      OBVIOUS
    <2>5. w = [i \in 1 .. b - a |-> s[a + i]]
      <3>1. DOMAIN th = 1 .. b - a
        BY <2>3 DEF IsRow
      <3> QED
        BY <2>3, <2>4, <3>1 DEF ServicesOf
    <2>6. w \in Seq(T) /\ Len(w) = b - a /\ se \in T
      <3>1. \A i \in 1 .. b - a : s[a + i] \in T
        <4>1. \A i \in 1 .. b - a : a + i \in 1 .. n
          BY <1>2
        <4> QED
          BY <1>6, <4>1, ElementOfSeq
      <3>2. b - a \in Nat
        BY <1>2
      <3>3. w \in [1 .. b - a -> T]
        BY <2>5, <3>1
      <3>4. PICK d : d = b - a
        OBVIOUS
      <3>5. w \in Seq(T) /\ Len(w) = d
        BY <3>2, <3>3, <3>4
      <3>6. s[a] \in T
        BY <1>2, <1>6, ElementOfSeq
      <3> QED
        BY <2>3, <3>4, <3>5, <3>6
    <2>7. u = <<se>> \o w
      BY <1>9, <2>1, <2>2, <2>4 DEF ToldByLeg
    <2>8. PICK one : one = <<se>>
      OBVIOUS
    <2>9. one \in Seq(T) /\ Len(one) = 1 /\ one[1] = se
      BY <2>6, <2>8
    <2>10. PICK d \in Nat : d = b - a
      BY <1>2
    <2>11. /\ u \in Seq(T) /\ Len(u) = 1 + d
           /\ \A i \in 1 .. 1 + d : u[i] = IF i <= 1 THEN one[i] ELSE w[i - 1]
      <3>1. /\ u \in Seq(T) /\ Len(u) = Len(one) + Len(w)
            /\ \A i \in 1 .. Len(one) + Len(w) :
                 u[i] = IF i <= Len(one) THEN one[i] ELSE w[i - Len(one)]
        BY <2>6, <2>7, <2>8, <2>9, ConcatProperties
      <3>2. Len(one) = 1 /\ Len(w) = d
        BY <2>6, <2>9, <2>10
      <3> QED
        BY <3>1, <3>2
    <2>12. PICK f \in Nat : f = a - 1
      BY <1>2
    <2>13. ASSUME NEW i \in 1 .. b - f PROVE u[i] = s[f + i]
      <3>1. i \in 1 .. 1 + d
        BY <1>2, <2>10, <2>12
      <3>2. CASE i = 1
        <4>1. f + i = a /\ i <= 1
          BY <1>2, <2>12, <3>2
        <4> QED
          BY <2>3, <2>9, <2>11, <3>1, <3>2, <4>1
      <3>3. CASE i # 1
        <4>1. ~(i <= 1) /\ i - 1 \in 1 .. b - a /\ a + (i - 1) = f + i
          BY <1>2, <2>10, <2>12, <3>1, <3>3
        <4>2. u[i] = w[i - 1] /\ w[i - 1] = s[a + (i - 1)]
          BY <2>5, <2>11, <3>1, <4>1
        <4> QED
          BY <4>1, <4>2
      <3> QED
        BY <3>2, <3>3
    <2>14. Len(u) = b - f /\ f <= b /\ b <= Len(s) /\ b \in Nat
      BY <1>2, <1>6, <2>10, <2>11, <2>12
    <2>15. MovedUpTo(L, b) = sat \cup (f + 1 .. b)
      <3>1. \A i : i \in 1 .. b <=> i \in 1 .. a - 1 \/ i \in f + 1 .. b
        BY <1>2, <2>12
      <3>2. \A i \in f + 1 .. b : IsMoved(L[i])
        <4>1. \A i \in f + 1 .. b : i = a \/ (i \in 1 .. n /\ a < i /\ i <= b)
          BY <1>2, <2>12
        <4>2. IsMoved(L[a])
          BY <1>11 DEF IsMoved
        <4> QED
          BY <1>2, <4>1, <4>2
      <3> QED
        BY <3>1, <3>2 DEF MovedUpTo
    <2>16. sat \in SUBSET (1 .. f)
      BY <1>7, <2>12
    <2>17. PICK fewer, more : fewer = sat /\ more = sat \cup (f + 1 .. b)
      OBVIOUS
    <2>18. IsRun(T, s, fewer, f, b, u, more)
      <3>1. s \in Seq(T) /\ u \in Seq(T) /\ b \in Nat
        BY <1>6, <2>11, <2>14
      <3>2. fewer \in SUBSET (1 .. f) /\ more = fewer \cup (f + 1 .. b)
        BY <2>16, <2>17
      <3> HIDE DEF sat
      <3> QED
        BY <2>12, <2>13, <2>14, <3>1, <3>2 DEF IsRun
    <2>19. AtPlaces(s, more) = AtPlaces(s, fewer) \o u
      <3>1. RunAppends(s, fewer, u, more)
        BY <2>18, AtPlacesRun
      <3> QED
        BY <3>1 DEF RunAppends
    <2> QED
      BY <1>1, <1>4, <1>8, <1>9, <2>11, <2>15, <2>17, <2>19
  <1> QED
    BY <1>10, <1>11

-----------------------------------------------------------------------------
(* Rides, changes and walks.                                                *)

RidesUpTo(D, k) == {j \in 1 .. k : IsRide(D[j])}

\* Another leg is behind, and no longer ahead.
LEMMA RidesMove ==
  ASSUME NEW D, IsRow(D), NEW k \in 1 .. Len(D)
  PROVE  /\ RidesBefore(D, k) = RidesUpTo(D, k - 1)
         /\ IsRide(D[k]) => /\ RidesUpTo(D, k) = RidesUpTo(D, k - 1) \cup {k}
                            /\ RidesAfter(D, k - 1) # {}
         /\ ~IsRide(D[k]) => /\ RidesUpTo(D, k) = RidesUpTo(D, k - 1)
                             /\ RidesAfter(D, k) = RidesAfter(D, k - 1)
         /\ k \notin RidesUpTo(D, k - 1)
         /\ IsFiniteSet(RidesUpTo(D, k - 1)) /\ Cardinality(RidesUpTo(D, k - 1)) \in Nat
         /\ RidesAfter(D, k) # {} => RidesAfter(D, k - 1) # {}
  <1>1. PICK c \in Nat : c = Len(D)
    BY DEF IsRow
  <1>2. k \in Nat /\ k \in 1 .. c /\ k - 1 \in Nat
    BY <1>1
  <1>3. \A i : i \in 1 .. k <=> i \in 1 .. k - 1 \/ i = k
    BY <1>2
  <1>4. \A i : i \in (k - 1) + 1 .. c <=> i \in k + 1 .. c \/ i = k
    BY <1>1, <1>2
  <1>5. k \notin 1 .. k - 1
    BY <1>2
  <1>6. RidesBefore(D, k) = RidesUpTo(D, k - 1)
    BY DEF RidesBefore, RidesUpTo
  <1>7. IsRide(D[k]) => RidesUpTo(D, k) = RidesUpTo(D, k - 1) \cup {k}
    BY <1>3 DEF RidesUpTo
  <1>8. ~IsRide(D[k]) => RidesUpTo(D, k) = RidesUpTo(D, k - 1)
    BY <1>3 DEF RidesUpTo
  <1>9. IsRide(D[k]) => RidesAfter(D, k - 1) # {}
    BY <1>1, <1>4 DEF RidesAfter
  <1>10. ~IsRide(D[k]) => RidesAfter(D, k) = RidesAfter(D, k - 1)
    BY <1>1, <1>4 DEF RidesAfter
  <1>11. k \notin RidesUpTo(D, k - 1)
    BY <1>5 DEF RidesUpTo
  <1>12. IsFiniteSet(RidesUpTo(D, k - 1)) /\ Cardinality(RidesUpTo(D, k - 1)) \in Nat
    <2>1. PICK S : S = 1 .. k - 1
      OBVIOUS
    <2>2. IsFiniteSet(S)
      <3>1. 1 \in Int /\ k - 1 \in Int
        BY <1>2
      <3> QED
        BY <2>1, <3>1, FS_Interval
    <2>3. PICK U : U = RidesUpTo(D, k - 1)
      OBVIOUS
    <2>4. U \subseteq S
      BY <2>1, <2>3 DEF RidesUpTo
    <2>5. IsFiniteSet(U)
      BY <2>2, <2>4, FS_Subset
    <2> QED
      BY <2>3, <2>5, FS_CardinalityType
  <1>13. RidesAfter(D, k) # {} => RidesAfter(D, k - 1) # {}
    BY <1>1, <1>4 DEF RidesAfter
  <1> QED
    BY <1>6, <1>7, <1>8, <1>9, <1>10, <1>11, <1>12, <1>13

\* A ride item for every ride, and a change between two of them.
CountsRides(D, k, items) ==
  /\ IsRow(items)
  /\ Cardinality(KindPlaces(items, "ride")) = Cardinality(RidesUpTo(D, k))
  /\ Cardinality(KindPlaces(items, "transfer")) = AtLeast0(Cardinality(RidesUpTo(D, k)) - 1)

\* What is appended before the item itself is no ride.
LEMMA KindsBefore ==
  ASSUME NEW D, NEW k, NEW told, IsRow(told.items), NEW items, items = told.items,
         NEW dated, dated = WithDate(told.last, WithChange(D, items, k), D[k])
  PROVE  /\ IsRow(dated)
         /\ KindPlaces(dated, "ride") = KindPlaces(items, "ride")
         /\ ~HasChange(D, k) => KindPlaces(dated, "transfer") = KindPlaces(items, "transfer")
         /\ HasChange(D, k) => Cardinality(KindPlaces(dated, "transfer"))
                               = Cardinality(KindPlaces(items, "transfer")) + 1
  <1>1. PICK mid : mid = WithChange(D, items, k)
    OBVIOUS
  <1>2. /\ IsRow(mid)
        /\ KindPlaces(mid, "ride") = KindPlaces(items, "ride")
        /\ ~HasChange(D, k) => KindPlaces(mid, "transfer") = KindPlaces(items, "transfer")
        /\ HasChange(D, k) => Cardinality(KindPlaces(mid, "transfer"))
                              = Cardinality(KindPlaces(items, "transfer")) + 1
    <2>1. CASE HasChange(D, k)
      <3>1. PICK e : e = Change(D, k)
        OBVIOUS
      <3>2. e.kind = "transfer" /\ e.kind # "ride"
        BY <3>1 DEF Change
      <3>3. mid = Append(items, e)
        BY <1>1, <2>1, <3>1 DEF WithChange
      <3>4. IsRow(Append(items, e))
        BY RowAppends
      <3>5. KindPlaces(Append(items, e), "ride") = KindPlaces(items, "ride")
        BY <3>2, KindAppends
      <3>6. Cardinality(KindPlaces(Append(items, e), "transfer"))
            = Cardinality(KindPlaces(items, "transfer")) + 1
        BY <3>2, KindAppends
      <3> QED
        BY <2>1, <3>3, <3>4, <3>5, <3>6
    <2>2. CASE ~HasChange(D, k)
      BY <1>1, <2>2 DEF WithChange
    <2> QED
      BY <2>1, <2>2
  <1>3. /\ IsRow(dated)
        /\ KindPlaces(dated, "ride") = KindPlaces(mid, "ride")
        /\ KindPlaces(dated, "transfer") = KindPlaces(mid, "transfer")
    <2>1. CASE HasDate(told.last, D[k])
      <3>1. PICK e : e = DateOf(D[k])
        OBVIOUS
      <3>2. e.kind # "transfer" /\ e.kind # "ride"
        BY <3>1 DEF DateOf
      <3>3. dated = Append(mid, e)
        BY <1>1, <2>1, <3>1 DEF WithDate
      <3>4. IsRow(Append(mid, e))
        BY <1>2, RowAppends
      <3>5. KindPlaces(Append(mid, e), "ride") = KindPlaces(mid, "ride")
        BY <1>2, <3>2, KindAppends
      <3>6. KindPlaces(Append(mid, e), "transfer") = KindPlaces(mid, "transfer")
        BY <1>2, <3>2, KindAppends
      <3> QED
        BY <3>3, <3>4, <3>5, <3>6
    <2>2. CASE ~HasDate(told.last, D[k])
      BY <1>1, <1>2, <2>2 DEF WithDate
    <2> QED
      BY <2>1, <2>2
  <1> QED
    BY <1>2, <1>3

\* So every leg is counted.
LEMMA TellCounts ==
  ASSUME NEW D, IsRow(D), NEW k \in 1 .. Len(D), NEW told, CountsRides(D, k - 1, told.items)
  PROVE  CountsRides(D, k, Tell(D, told, k).items)
  <1>1. PICK items : items = told.items
    OBVIOUS
  <1>2. /\ IsRow(items) /\ IsRow(told.items)
        /\ Cardinality(KindPlaces(items, "ride")) = Cardinality(RidesUpTo(D, k - 1))
        /\ Cardinality(KindPlaces(items, "transfer"))
           = AtLeast0(Cardinality(RidesUpTo(D, k - 1)) - 1)
    BY <1>1 DEF CountsRides
  <1>3. CASE ~IsItem(D, k)
    <2>1. Tell(D, told, k) = told
      BY <1>2, <1>3, TellAppends
    <2>2. ~IsRide(D[k])
      BY <1>3 DEF IsItem
    <2>3. RidesUpTo(D, k) = RidesUpTo(D, k - 1)
      BY <2>2, RidesMove
    <2> QED
      BY <1>1, <1>2, <2>1, <2>3 DEF CountsRides
  <1>4. CASE IsItem(D, k)
    <2>1. Tell(D, told, k).items = ItemsAfter(D, told, k)
      BY <1>2, <1>4, TellAppends
    <2>2. PICK dated : dated = WithDate(told.last, WithChange(D, items, k), D[k])
      OBVIOUS
    <2>3. /\ IsRow(dated)
          /\ KindPlaces(dated, "ride") = KindPlaces(items, "ride")
          /\ ~HasChange(D, k) => KindPlaces(dated, "transfer") = KindPlaces(items, "transfer")
          /\ HasChange(D, k) => Cardinality(KindPlaces(dated, "transfer"))
                                = Cardinality(KindPlaces(items, "transfer")) + 1
      BY <1>1, <1>2, <2>2, KindsBefore
    <2>4. PICK e : e = ItemOf(D, k)
      OBVIOUS
    <2>5. PICK after : after = Append(dated, e)
      OBVIOUS
    <2>6. Tell(D, told, k).items = after
      BY <1>1, <2>1, <2>2, <2>4, <2>5 DEF ItemsAfter
    <2>7. IsRow(after)
      BY <2>3, <2>5, RowAppends
    <2>8. PICK r : r = Cardinality(RidesUpTo(D, k - 1))
      OBVIOUS
    <2>9. r \in Nat
      BY <2>8, RidesMove
    <2>10. CASE IsRide(D[k])
      <3>1. e.kind = "ride"
        <4>1. e = [kind |-> "ride", leg |-> D[k], isLast |-> RidesAfter(D, k) = {}]
          BY <2>4, <2>10, ItemIs
        <4> QED
          BY <4>1
      <3>2. Cardinality(KindPlaces(after, "ride")) = Cardinality(KindPlaces(dated, "ride")) + 1
        BY <2>3, <2>5, <3>1, KindAppends
      <3>3. KindPlaces(after, "transfer") = KindPlaces(dated, "transfer")
        <4>1. e.kind # "transfer"
          BY <3>1
        <4> QED
          BY <2>3, <2>5, <4>1, KindAppends
      <3>4. Cardinality(RidesUpTo(D, k)) = r + 1
        <4>1. PICK U : U = RidesUpTo(D, k - 1)
          OBVIOUS
        <4>2. IsFiniteSet(U) /\ k \notin U /\ RidesUpTo(D, k) = U \cup {k}
          BY <2>10, <4>1, RidesMove
        <4>3. Cardinality(U \cup {k}) = Cardinality(U) + 1
          BY <4>2, FS_AddElement
        <4> QED
          BY <2>8, <4>1, <4>2, <4>3
      <3>5. CASE r = 0
        <4>1. RidesBefore(D, k) = {}
          <5>1. PICK U : U = RidesUpTo(D, k - 1)
            OBVIOUS
          <5>2. IsFiniteSet(U) /\ RidesBefore(D, k) = U /\ Cardinality(U) = 0
            BY <2>8, <3>5, <5>1, RidesMove
          <5> QED
            BY <5>2, FS_EmptySet
        <4>2. ~HasChange(D, k)
          BY <4>1 DEF HasChange
        <4>3. Cardinality(KindPlaces(after, "transfer")) = AtLeast0(r - 1)
          BY <1>2, <2>3, <2>8, <3>3, <4>2
        <4>4. AtLeast0(r - 1) = AtLeast0((r + 1) - 1)
          BY <3>5 DEF AtLeast0
        <4> QED
          BY <1>2, <2>3, <2>6, <2>7, <2>8, <3>2, <3>4, <4>3, <4>4 DEF CountsRides
      <3>6. CASE r # 0
        <4>1. RidesBefore(D, k) # {}
          <5>1. RidesBefore(D, k) = RidesUpTo(D, k - 1)
            BY RidesMove
          <5>2. Cardinality({}) = 0
            BY FS_EmptySet
          <5> QED
            BY <2>8, <3>6, <5>1, <5>2
        <4>2. HasChange(D, k)
          BY <2>10, <4>1 DEF HasChange
        <4>3. Cardinality(KindPlaces(after, "transfer")) = AtLeast0(r - 1) + 1
          BY <1>2, <2>3, <2>8, <3>3, <4>2
        <4>4. AtLeast0(r - 1) + 1 = AtLeast0((r + 1) - 1)
          BY <2>9, <3>6 DEF AtLeast0
        <4> QED
          BY <1>2, <2>3, <2>6, <2>7, <2>8, <3>2, <3>4, <4>3, <4>4 DEF CountsRides
      <3> QED
        BY <3>5, <3>6
    <2>11. CASE ~IsRide(D[k])
      <3>1. e.kind = "walk"
        <4>1. e = [kind |-> "walk", leg |-> D[k], role |-> RoleOfWalk(D, k)]
          BY <2>4, <2>11, ItemIs
        <4> QED
          BY <4>1
      <3>2. e.kind # "ride" /\ e.kind # "transfer" /\ ~HasChange(D, k)
        BY <2>11, <3>1 DEF HasChange
      <3>3. KindPlaces(after, "ride") = KindPlaces(dated, "ride")
        BY <2>3, <2>5, <3>2, KindAppends
      <3>4. KindPlaces(after, "transfer") = KindPlaces(dated, "transfer")
        BY <2>3, <2>5, <3>2, KindAppends
      <3>5. RidesUpTo(D, k) = RidesUpTo(D, k - 1)
        BY <2>11, RidesMove
      <3> QED
        BY <1>2, <2>3, <2>6, <2>7, <3>2, <3>3, <3>4, <3>5 DEF CountsRides
    <2> QED
      BY <2>10, <2>11
  <1> QED
    BY <1>3, <1>4

\* A change comes right after a ride, and between rides nothing else comes last.
ChangesFollow(D, k, items) ==
  /\ IsRow(items)
  /\ \A i \in DOMAIN items : items[i].kind = "transfer" => i > 1 /\ items[i - 1].kind = "ride"
  /\ RidesUpTo(D, k) # {} /\ RidesAfter(D, k) # {} =>
       Len(items) > 0 /\ items[Len(items)].kind = "ride"

\* So it stays.
LEMMA TellChanges ==
  ASSUME NEW D, IsRow(D), NEW k \in 1 .. Len(D), NEW told, ChangesFollow(D, k - 1, told.items)
  PROVE  ChangesFollow(D, k, Tell(D, told, k).items)
  <1>1. PICK items : items = told.items
    OBVIOUS
  <1>2. /\ IsRow(items) /\ IsRow(told.items)
        /\ \A i \in DOMAIN items : items[i].kind = "transfer" => i > 1 /\ items[i - 1].kind = "ride"
        /\ RidesUpTo(D, k - 1) # {} /\ RidesAfter(D, k - 1) # {} =>
             Len(items) > 0 /\ items[Len(items)].kind = "ride"
    BY <1>1 DEF ChangesFollow
  <1>3. CASE ~IsItem(D, k)
    <2>1. Tell(D, told, k) = told
      BY <1>2, <1>3, TellAppends
    <2>2. ~IsRide(D[k])
      BY <1>3 DEF IsItem
    <2>3. RidesUpTo(D, k) = RidesUpTo(D, k - 1) /\ RidesAfter(D, k) = RidesAfter(D, k - 1)
      BY <2>2, RidesMove
    <2> QED
      BY <1>1, <1>2, <2>1, <2>3 DEF ChangesFollow
  <1>4. CASE IsItem(D, k)
    <2>1. PICK after : after = ItemsAfter(D, told, k)
      OBVIOUS
    <2>2. Tell(D, told, k).items = after
      BY <1>2, <1>4, <2>1, TellAppends
    <2>3. PICK n, a : n = Len(items) /\ a = Len(after)
      OBVIOUS
    <2>4. /\ IsRow(after) /\ n \in Nat /\ a \in Nat /\ n < a
          /\ DOMAIN items = 1 .. n /\ DOMAIN after = 1 .. a
          /\ \A i \in 1 .. n : after[i] = items[i]
          /\ after[a] = ItemOf(D, k)
          /\ \A i \in 1 .. a :
               n < i /\ i < a =>
                 \/ HasChange(D, k) /\ i = n + 1 /\ after[i] = Change(D, k)
                 \/ after[i] = DateOf(D[k])
      BY <1>1, <1>2, <2>1, <2>3, AfterLooks
    <2>5. IsRide(D[k]) => after[a].kind = "ride"
      <3> SUFFICES ASSUME IsRide(D[k]) PROVE after[a].kind = "ride"
        OBVIOUS
      <3>1. after[a] = [kind |-> "ride", leg |-> D[k], isLast |-> RidesAfter(D, k) = {}]
        BY <2>4, ItemIs
      <3> QED
        BY <3>1
    <2>6. ~IsRide(D[k]) => after[a].kind = "walk"
      <3> SUFFICES ASSUME ~IsRide(D[k]) PROVE after[a].kind = "walk"
        OBVIOUS
      <3>1. after[a] = [kind |-> "walk", leg |-> D[k], role |-> RoleOfWalk(D, k)]
        BY <2>4, ItemIs
      <3> QED
        BY <3>1
    <2>7. ASSUME NEW i \in 1 .. a, after[i].kind = "transfer"
          PROVE  i > 1 /\ after[i - 1].kind = "ride"
      <3>1. CASE i <= n
        <4>1. i \in 1 .. n /\ i \in DOMAIN items /\ items[i].kind = "transfer"
          BY <2>4, <2>7, <3>1
        <4>2. i > 1 /\ items[i - 1].kind = "ride"
          BY <1>2, <4>1
        <4>3. i - 1 \in 1 .. n
          BY <2>4, <4>1, <4>2
        <4> QED
          BY <2>4, <4>2, <4>3
      <3>2. CASE ~(i <= n)
        <4>1. i # a
          <5>1. after[a].kind = "ride" \/ after[a].kind = "walk"
            BY <2>5, <2>6
          <5> QED
            BY <2>7, <5>1
        <4>2. n < i /\ i < a
          BY <2>4, <3>2, <4>1
        <4>3. DateOf(D[k]).kind = "date"
          BY DEF DateOf
        <4>4. HasChange(D, k) /\ i = n + 1
          BY <2>4, <2>7, <4>2, <4>3
        <4>5. RidesUpTo(D, k - 1) # {} /\ RidesAfter(D, k - 1) # {}
          <5>1. IsRide(D[k]) /\ RidesBefore(D, k) # {}
            BY <4>4 DEF HasChange
          <5> QED
            BY <5>1, RidesMove
        <4>6. n > 0 /\ items[n].kind = "ride"
          BY <1>2, <2>3, <4>5
        <4>7. i > 1 /\ i - 1 = n /\ n \in 1 .. n
          BY <2>4, <4>4, <4>6
        <4> QED
          BY <2>4, <4>6, <4>7
      <3> QED
        BY <3>1, <3>2
    <2>8. ASSUME RidesUpTo(D, k) # {}, RidesAfter(D, k) # {}
          PROVE  a > 0 /\ after[a].kind = "ride"
      <3>1. IsRide(D[k])
        <4> SUFFICES ASSUME ~IsRide(D[k]) PROVE FALSE
          OBVIOUS
        <4>1. RidesUpTo(D, k) = RidesBefore(D, k)
          BY RidesMove
        <4> QED
          BY <1>4, <2>8, <4>1 DEF IsItem
      <3> QED
        BY <2>4, <2>5, <3>1
    <2> QED
      BY <2>2, <2>3, <2>4, <2>7, <2>8 DEF ChangesFollow
  <1> QED
    BY <1>3, <1>4

RideComes(items, i) == \E j \in i .. Len(items) : items[j].kind = "ride"

\* A first walk has a ride after it, or will have one; a last one has none.
WalksAtEnds(D, k, items) ==
  /\ IsRow(items)
  /\ \A i \in DOMAIN items : items[i].kind = "walk" =>
       /\ items[i].role \in {"initial", "final", "standalone"}
       /\ items[i].role = "initial" => RideComes(items, i) \/ RidesAfter(D, k) # {}
       /\ items[i].role = "final" => ~RideComes(items, i) /\ RidesAfter(D, k) = {}

\* So it stays.
LEMMA TellWalks ==
  ASSUME NEW D, IsRow(D), NEW k \in 1 .. Len(D), NEW told, WalksAtEnds(D, k - 1, told.items)
  PROVE  WalksAtEnds(D, k, Tell(D, told, k).items)
  <1>1. PICK items : items = told.items
    OBVIOUS
  <1>2. /\ IsRow(items) /\ IsRow(told.items)
        /\ \A i \in DOMAIN items : items[i].kind = "walk" =>
             /\ items[i].role \in {"initial", "final", "standalone"}
             /\ items[i].role = "initial" => RideComes(items, i) \/ RidesAfter(D, k - 1) # {}
             /\ items[i].role = "final" => ~RideComes(items, i) /\ RidesAfter(D, k - 1) = {}
    BY <1>1 DEF WalksAtEnds
  <1>3. CASE ~IsItem(D, k)
    <2>1. Tell(D, told, k) = told
      BY <1>2, <1>3, TellAppends
    <2>2. ~IsRide(D[k])
      BY <1>3 DEF IsItem
    <2>3. RidesAfter(D, k) = RidesAfter(D, k - 1)
      BY <2>2, RidesMove
    <2> QED
      BY <1>1, <1>2, <2>1, <2>3 DEF WalksAtEnds
  <1>4. CASE IsItem(D, k)
    <2>1. PICK after : after = ItemsAfter(D, told, k)
      OBVIOUS
    <2>2. Tell(D, told, k).items = after
      BY <1>2, <1>4, <2>1, TellAppends
    <2>3. PICK n, a : n = Len(items) /\ a = Len(after)
      OBVIOUS
    <2>4. /\ IsRow(after) /\ n \in Nat /\ a \in Nat /\ n < a
          /\ DOMAIN items = 1 .. n /\ DOMAIN after = 1 .. a
          /\ \A i \in 1 .. n : after[i] = items[i]
          /\ after[a] = ItemOf(D, k)
          /\ \A i \in 1 .. a :
               n < i /\ i < a =>
                 \/ HasChange(D, k) /\ i = n + 1 /\ after[i] = Change(D, k)
                 \/ after[i] = DateOf(D[k])
      BY <1>1, <1>2, <2>1, <2>3, AfterLooks
    <2>5. \A i \in 1 .. a : i \in 1 .. n \/ (n < i /\ i < a) \/ i = a
      BY <2>4
    <2>6. a \in 1 .. a
      BY <2>4
    <2>7. ASSUME NEW i \in 1 .. a, n < i, i < a
          PROVE  after[i].kind = "date" \/ (after[i].kind = "transfer" /\ IsRide(D[k]))
      <3>1. DateOf(D[k]).kind = "date" /\ Change(D, k).kind = "transfer"
        BY DEF DateOf, Change
      <3>2. \/ HasChange(D, k) /\ after[i] = Change(D, k)
            \/ after[i] = DateOf(D[k])
        BY <2>4, <2>7
      <3> QED
        BY <3>1, <3>2 DEF HasChange
    <2>8. CASE IsRide(D[k])
      <3>1. after[a].kind = "ride"
        <4>1. after[a] = [kind |-> "ride", leg |-> D[k], isLast |-> RidesAfter(D, k) = {}]
          BY <2>4, <2>8, ItemIs
        <4> QED
          BY <4>1
      <3>2. RidesAfter(D, k - 1) # {}
        BY <2>8, RidesMove
      <3>3. ASSUME NEW i \in 1 .. a, after[i].kind = "walk"
            PROVE  /\ after[i].role \in {"initial", "final", "standalone"}
                   /\ after[i].role # "final" /\ RideComes(after, i)
        <4>1. i \in 1 .. n
          BY <2>5, <2>7, <3>1, <3>3
        <4>2. after[i] = items[i] /\ i \in DOMAIN items
          BY <2>4, <4>1
        <4>3. a \in i .. a
          BY <2>4
        <4>4. RideComes(after, i)
          BY <2>3, <3>1, <4>3 DEF RideComes
        <4> QED
          BY <1>2, <3>2, <3>3, <4>2, <4>4
      <3> QED
        BY <2>2, <2>4, <3>3 DEF WalksAtEnds
    <2>9. CASE ~IsRide(D[k])
      <3>1. after[a] = [kind |-> "walk", leg |-> D[k], role |-> RoleOfWalk(D, k)]
        BY <2>4, <2>9, ItemIs
      <3>2. after[a].kind = "walk" /\ after[a].role = RoleOfWalk(D, k)
        BY <3>1
      <3>3. RidesAfter(D, k) = RidesAfter(D, k - 1)
        BY <2>9, RidesMove
      <3>4. ASSUME NEW i \in 1 .. a, n < i PROVE after[i].kind # "ride"
        <4>1. CASE i = a
          BY <3>2, <4>1
        <4>2. CASE i # a
          <5>1. i < a
            BY <2>4, <4>2
          <5>2. after[i].kind = "date" \/ after[i].kind = "transfer"
            BY <2>7, <3>4, <5>1
          <5> QED
            BY <5>2
        <4> QED
          BY <4>1, <4>2
      <3>5. ASSUME NEW i \in 1 .. n PROVE RideComes(after, i) <=> RideComes(items, i)
        <4>1. ASSUME RideComes(after, i) PROVE RideComes(items, i)
          <5>1. PICK j \in i .. a : after[j].kind = "ride"
            BY <2>3, <4>1 DEF RideComes
          <5>2. j \in 1 .. a
            BY <2>4, <5>1
          <5>3. ~(n < j)
            BY <3>4, <5>1, <5>2
          <5>4. j \in i .. n /\ j \in 1 .. n
            BY <2>4, <5>2, <5>3
          <5>5. items[j].kind = "ride"
            BY <2>4, <5>1, <5>4
          <5> QED
            BY <2>3, <5>4, <5>5 DEF RideComes
        <4>2. ASSUME RideComes(items, i) PROVE RideComes(after, i)
          <5>1. PICK j \in i .. n : items[j].kind = "ride"
            BY <2>3, <4>2 DEF RideComes
          <5>2. j \in 1 .. n /\ j \in i .. a
            BY <2>4, <5>1
          <5>3. after[j].kind = "ride"
            BY <2>4, <5>1, <5>2
          <5> QED
            BY <2>3, <5>2, <5>3 DEF RideComes
        <4> QED
          BY <4>1, <4>2
      <3>6. ASSUME NEW i \in 1 .. a, after[i].kind = "walk"
            PROVE  /\ after[i].role \in {"initial", "final", "standalone"}
                   /\ after[i].role = "initial" => RideComes(after, i) \/ RidesAfter(D, k) # {}
                   /\ after[i].role = "final" => ~RideComes(after, i) /\ RidesAfter(D, k) = {}
        <4>1. CASE i \in 1 .. n
          <5>1. after[i] = items[i] /\ i \in DOMAIN items
            BY <2>4, <4>1
          <5>2. RideComes(after, i) <=> RideComes(items, i)
            BY <3>5, <4>1
          <5> QED
            BY <1>2, <3>3, <3>6, <5>1, <5>2
        <4>2. CASE i \notin 1 .. n
          <5>1. i = a
            BY <2>5, <2>7, <2>9, <3>6, <4>2
          <5>2. ~RideComes(after, i)
            <6>1. \A j \in a .. a : j = a
              BY <2>4
            <6> QED
              BY <2>3, <3>2, <5>1, <6>1 DEF RideComes
          <5>3. PICK role : role = RoleOfWalk(D, k)
            OBVIOUS
          <5>4. /\ role \in {"initial", "final", "standalone"}
                /\ role = "initial" => RidesAfter(D, k) # {}
                /\ role = "final" => RidesAfter(D, k) = {}
            <6>1. CASE RidesBefore(D, k) = {} /\ RidesAfter(D, k) # {}
              BY <5>3, <6>1 DEF RoleOfWalk
            <6>2. CASE RidesBefore(D, k) # {} /\ RidesAfter(D, k) = {}
              BY <5>3, <6>2 DEF RoleOfWalk
            <6>3. CASE ~(RidesBefore(D, k) = {} /\ RidesAfter(D, k) # {})
                       /\ ~(RidesBefore(D, k) # {} /\ RidesAfter(D, k) = {})
              <7>1. role = "standalone"
                BY <5>3, <6>3 DEF RoleOfWalk
              <7> QED
                BY <7>1
            <6> QED
              BY <6>1, <6>2, <6>3
          <5> QED
            BY <3>2, <5>1, <5>2, <5>3, <5>4
        <4> QED
          BY <4>1, <4>2
      <3> QED
        BY <2>2, <2>4, <3>6 DEF WalksAtEnds
    <2> QED
      BY <2>8, <2>9
  <1> QED
    BY <1>3, <1>4

-----------------------------------------------------------------------------
(* Minutes.                                                                 *)

\* Legs one after the other; a walk that takes no time stays where the leg before
\* it has come to.
AreTimed(D) ==
  /\ IsRow(D)
  /\ \A m \in DOMAIN D :
       /\ IsSpell(D[m]) /\ D[m].from.zone \in Int /\ D[m].to.zone \in Int
       /\ \A j \in DOMAIN D : m < j => D[m].end <= D[j].start
       /\ ~IsRide(D[m]) /\ D[m].minutes = 0 /\ m > 1 =>
            D[m].end = D[m - 1].end /\ D[m].to.zone = D[m - 1].to.zone

\* Items that account for v minutes.
SpendsOf(items, v) ==
  /\ IsRow(items) /\ \A i \in DOMAIN items : Spent(items[i]) \in Int
  /\ Total([i \in DOMAIN items |-> Spent(items[i])]) = v /\ v \in Int

\* No item takes no time.
LEMMA NothingIsSpent == SpendsOf(<< >>, 0)
  <1>1. [i \in DOMAIN << >> |-> Spent(<< >>[i])] = << >>
    OBVIOUS
  <1>2. PICK none : none = << >>
    OBVIOUS
  <1>3. IsRow(none) /\ DOMAIN none = {}
    BY <1>2 DEF IsRow
  <1> QED
    BY <1>1, <1>2, <1>3, TotalOfNone DEF SpendsOf

\* One more item takes what it takes.
LEMMA SpentAppends ==
  ASSUME NEW items, NEW v, SpendsOf(items, v), NEW e, Spent(e) \in Int
  PROVE  SpendsOf(Append(items, e), v + Spent(e))
  <1>1. PICK n \in Nat : n = Len(items) /\ DOMAIN items = 1 .. n
    BY DEF SpendsOf, IsRow
  <1>2. PICK more : more = Append(items, e)
    OBVIOUS
  <1>3. /\ IsRow(more) /\ DOMAIN more = 1 .. n + 1 /\ more[n + 1] = e
        /\ \A i \in 1 .. n : more[i] = items[i]
    BY <1>1, <1>2, RowAppends DEF SpendsOf
  <1>4. PICK a : a = [i \in 1 .. n |-> Spent(items[i])]
    OBVIOUS
  <1>5. \A i \in 1 .. n : Spent(items[i]) \in Int
    BY <1>1 DEF SpendsOf
  <1>6. a \in [1 .. n -> Int]
    BY <1>4, <1>5
  <1>7. a \in Seq(Int) /\ Len(a) = n
    BY <1>6
  <1>8. PICK b : b = [i \in 1 .. n + 1 |-> Spent(more[i])]
    OBVIOUS
  <1>9. PICK x : x = Spent(e)
    OBVIOUS
  <1>10. IsOneMore(b, a, n, x)
    <2>1. b = [i \in 1 .. n + 1 |-> b[i]] /\ b[n + 1] = x /\ \A i \in 1 .. n : b[i] = a[i]
      BY <1>3, <1>4, <1>8, <1>9
    <2> QED
      BY <1>7, <2>1 DEF IsOneMore
  <1>11. b = Append(a, x)
    <2>1. PICK S : S = Int
      OBVIOUS
    <2>2. a \in Seq(S) /\ x \in S
      BY <1>7, <1>9, <2>1
    <2> QED
      BY <1>10, <2>2, AppendedIs
  <1>12. Total(b) = Total(a) + x /\ Total(b) \in Int
    BY <1>7, <1>9, <1>11, TotalAppends
  <1>13. Total(a) = v /\ Total([i \in DOMAIN more |-> Spent(more[i])]) = Total(b)
    BY <1>1, <1>3, <1>4, <1>8 DEF SpendsOf
  <1>14. \A i \in 1 .. n + 1 : Spent(more[i]) \in Int
    <2>1. \A i \in 1 .. n + 1 : i \in 1 .. n \/ i = n + 1
      BY <1>1
    <2> QED
      BY <1>3, <1>5, <2>1
  <1> QED
    BY <1>2, <1>3, <1>9, <1>12, <1>13, <1>14 DEF SpendsOf

\* f is the first and l the last of some places.
AreEnds(f, l, at) == f \in at /\ l \in at /\ \A j \in at : f <= j /\ j <= l

\* The minutes from the first ride's start to the last one's end are accounted for.
Accounts(D, k, items) ==
  \E v : /\ SpendsOf(items, v)
         /\ RidesUpTo(D, k) = {} => v = 0 /\ KindPlaces(items, "ride") = {}
         /\ RidesUpTo(D, k) # {} =>
              \E f, l, p, q : /\ AreEnds(f, l, RidesUpTo(D, k)) /\ v = D[l].end - D[f].start
                              /\ AreEnds(p, q, KindPlaces(items, "ride"))
                              /\ items[p].leg = D[f] /\ items[q].leg = D[l]

\* The change before a ride takes the time since the ride before it.
LEMMA ChangeTakes ==
  ASSUME NEW D, AreTimed(D), NEW k \in 1 .. Len(D), NEW f, NEW l,
         AreEnds(f, l, RidesUpTo(D, k - 1))
  PROVE  /\ Change(D, k).kind = "transfer"
         /\ Spent(Change(D, k)) = D[k].start - D[l].end
  <1>1. RidesBefore(D, k) = RidesUpTo(D, k - 1) /\ IsRow(D)
    BY RidesMove DEF AreTimed
  <1>2. PICK U : U = RidesBefore(D, k)
    OBVIOUS
  <1>3. U \in SUBSET (1 .. k - 1) /\ l \in U /\ \A j \in U : j <= l
    BY <1>1, <1>2 DEF AreEnds, RidesUpTo
  <1>4. k \in Nat /\ DOMAIN D = 1 .. Len(D) /\ Len(D) \in Nat
    BY <1>1 DEF IsRow
  <1>5. (CHOOSE j \in U : \A i \in U : i <= j) = l
    <2> DEFINE last == CHOOSE j \in U : \A i \in U : i <= j
    <2>1. last \in U /\ \A i \in U : i <= last
      BY <1>3
    <2>2. last \in Nat /\ l \in Nat
      <3>1. \A i \in 1 .. k - 1 : i \in Nat
        BY <1>4
      <3>2. last \in U /\ l \in U
        BY <1>3, <2>1
      <3> HIDE DEF last
      <3>3. last \in 1 .. k - 1 /\ l \in 1 .. k - 1
        BY <1>3, <3>2
      <3> QED
        BY <3>1, <3>3
    <2>3. last <= l /\ l <= last
      BY <1>3, <2>1
    <2> HIDE DEF last
    <2>4. last = l
      BY <2>2, <2>3
    <2> QED
      BY <2>4 DEF last
  <1>6. Change(D, k).kind = "transfer" /\ Change(D, k).connection = AtLeast0(D[k].start - D[l].end)
    BY <1>2, <1>5 DEF Change
  <1>7. l \in DOMAIN D /\ k \in DOMAIN D /\ l < k
    BY <1>3, <1>4
  <1>8. D[l].end <= D[k].start /\ D[l].end \in Int /\ D[k].start \in Int
    BY <1>7 DEF AreTimed, IsSpell
  <1>9. AtLeast0(D[k].start - D[l].end) = D[k].start - D[l].end
    BY <1>8 DEF AtLeast0
  <1> QED
    BY <1>6, <1>9 DEF Spent

\* So it stays.
LEMMA TellAccounts ==
  ASSUME NEW D, AreTimed(D), NEW k \in 1 .. Len(D), NEW told, Accounts(D, k - 1, told.items)
  PROVE  Accounts(D, k, Tell(D, told, k).items)
  <1>1. PICK items : items = told.items
    OBVIOUS
  <1>2. PICK v : /\ SpendsOf(items, v)
                 /\ RidesUpTo(D, k - 1) = {} => v = 0 /\ KindPlaces(items, "ride") = {}
                 /\ RidesUpTo(D, k - 1) # {} =>
                      \E f, l, p, q :
                        /\ AreEnds(f, l, RidesUpTo(D, k - 1)) /\ v = D[l].end - D[f].start
                        /\ AreEnds(p, q, KindPlaces(items, "ride"))
                        /\ items[p].leg = D[f] /\ items[q].leg = D[l]
    BY <1>1 DEF Accounts
  <1>3. IsRow(items) /\ IsRow(told.items) /\ v \in Int
    BY <1>1, <1>2 DEF SpendsOf
  <1>4. IsRow(D) /\ DOMAIN D = 1 .. Len(D) /\ Len(D) \in Nat /\ k \in Nat
    BY DEF AreTimed, IsRow
  <1>5. CASE ~IsItem(D, k)
    <2>1. Tell(D, told, k) = told
      BY <1>3, <1>5, TellAppends
    <2>2. ~IsRide(D[k])
      BY <1>5 DEF IsItem
    <2>3. RidesUpTo(D, k) = RidesUpTo(D, k - 1)
      BY <1>4, <2>2, RidesMove
    <2> QED
      BY <1>1, <1>2, <2>1, <2>3 DEF Accounts
  <1>6. CASE IsItem(D, k)
    <2>1. PICK after : after = ItemsAfter(D, told, k)
      OBVIOUS
    <2>2. Tell(D, told, k).items = after
      BY <1>3, <1>6, <2>1, TellAppends
    <2>3. PICK n, a : n = Len(items) /\ a = Len(after)
      OBVIOUS
    <2>4. /\ IsRow(after) /\ n \in Nat /\ a \in Nat /\ n < a
          /\ DOMAIN items = 1 .. n /\ DOMAIN after = 1 .. a
          /\ \A i \in 1 .. n : after[i] = items[i]
          /\ after[a] = ItemOf(D, k)
          /\ \A i \in 1 .. a :
               n < i /\ i < a =>
                 \/ HasChange(D, k) /\ i = n + 1 /\ after[i] = Change(D, k)
                 \/ after[i] = DateOf(D[k])
      <3>1. items = told.items /\ IsRow(items)
        BY <1>1, <1>3
      <3>2. /\ IsRow(after) /\ Len(items) \in Nat /\ Len(after) \in Nat /\ Len(items) < Len(after)
            /\ DOMAIN items = 1 .. Len(items) /\ DOMAIN after = 1 .. Len(after)
            /\ \A i \in 1 .. Len(items) : after[i] = items[i]
            /\ after[Len(after)] = ItemOf(D, k)
            /\ \A i \in 1 .. Len(after) :
                 Len(items) < i /\ i < Len(after) =>
                   \/ HasChange(D, k) /\ i = Len(items) + 1 /\ after[i] = Change(D, k)
                   \/ after[i] = DateOf(D[k])
        BY <2>1, <3>1, AfterLooks
      <3> QED
        BY <2>3, <3>2
    <2>5. PICK mid : mid = WithChange(D, items, k)
      OBVIOUS
    <2>6. PICK dated : dated = WithDate(told.last, mid, D[k])
      OBVIOUS
    <2>7. PICK e : e = ItemOf(D, k)
      OBVIOUS
    <2>8. after = Append(dated, e)
      BY <1>1, <2>1, <2>5, <2>6, <2>7 DEF ItemsAfter
    <2>9. PICK c : c = IF HasChange(D, k) THEN Spent(Change(D, k)) ELSE 0
      OBVIOUS
    <2>10. HasChange(D, k) => RidesUpTo(D, k - 1) # {}
      BY <1>4, RidesMove DEF HasChange
    <2>11. c \in Int
      <3>1. CASE HasChange(D, k)
        <4>1. PICK f, l : AreEnds(f, l, RidesUpTo(D, k - 1))
          BY <1>2, <2>10, <3>1
        <4>2. Spent(Change(D, k)) = D[k].start - D[l].end
          BY <4>1, ChangeTakes
        <4>3. l \in 1 .. k - 1
          BY <4>1 DEF AreEnds, RidesUpTo
        <4>4. l \in DOMAIN D /\ k \in DOMAIN D
          BY <1>4, <4>3
        <4>5. D[l].end \in Int /\ D[k].start \in Int
          BY <4>4 DEF AreTimed, IsSpell
        <4> QED
          BY <2>9, <3>1, <4>2, <4>5
      <3>2. CASE ~HasChange(D, k)
        BY <2>9, <3>2
      <3> QED
        BY <3>1, <3>2
    <2>12. SpendsOf(mid, v + c)
      <3>1. CASE HasChange(D, k)
        <4>1. PICK g : g = Change(D, k)
          OBVIOUS
        <4>2. Spent(g) = c /\ mid = Append(items, g)
          BY <2>5, <2>9, <3>1, <4>1 DEF WithChange
        <4>3. SpendsOf(Append(items, g), v + Spent(g))
          BY <1>2, <2>11, <4>2, SpentAppends
        <4> QED
          BY <4>2, <4>3
      <3>2. CASE ~HasChange(D, k)
        <4>1. mid = items /\ c = 0 /\ v + c = v
          BY <1>3, <2>5, <2>9, <3>2 DEF WithChange
        <4> QED
          BY <1>2, <4>1
      <3> QED
        BY <3>1, <3>2
    <2>13. SpendsOf(dated, v + c)
      <3>1. CASE HasDate(told.last, D[k])
        <4>1. PICK g : g = DateOf(D[k])
          OBVIOUS
        <4>2. g.kind = "date"
          BY <4>1 DEF DateOf
        <4>3. Spent(g) = 0 /\ dated = Append(mid, g)
          BY <2>6, <3>1, <4>1, <4>2 DEF WithDate, Spent
        <4>4. SpendsOf(Append(mid, g), (v + c) + Spent(g))
          BY <2>12, <4>3, SpentAppends
        <4>5. (v + c) + 0 = v + c
          BY <1>3, <2>11
        <4> QED
          BY <4>3, <4>4, <4>5
      <3>2. CASE ~HasDate(told.last, D[k])
        BY <2>6, <2>12, <3>2 DEF WithDate
      <3> QED
        BY <3>1, <3>2
    <2>14. IsSpell(D[k])
      BY <1>4 DEF AreTimed
    <2>15. \A i \in 1 .. a : i \in 1 .. n \/ (n < i /\ i < a) \/ i = a
      BY <2>4
    <2>16. \A i \in 1 .. a : n < i /\ i < a => after[i].kind # "ride"
      <3>1. DateOf(D[k]).kind # "ride" /\ Change(D, k).kind # "ride"
        <4>1. DateOf(D[k]).kind = "date" /\ Change(D, k).kind = "transfer"
          BY DEF DateOf, Change
        <4> QED
          BY <4>1
      <3> QED
        BY <2>4, <3>1
    <2>17. CASE ~IsRide(D[k])
      <3>1. e = [kind |-> "walk", leg |-> D[k], role |-> RoleOfWalk(D, k)]
        BY <2>7, <2>17, ItemIs
      <3>2. e.kind = "walk"
        BY <3>1
      <3>3. Spent(e) = 0 /\ c = 0
        BY <2>9, <2>17, <3>2 DEF Spent, HasChange
      <3>4. SpendsOf(after, v)
        <4>1. SpendsOf(Append(dated, e), (v + c) + Spent(e))
          BY <2>13, <3>3, SpentAppends
        <4>2. (v + 0) + 0 = v
          BY <1>3
        <4> QED
          BY <2>8, <3>3, <4>1, <4>2
      <3>5. KindPlaces(after, "ride") = KindPlaces(items, "ride")
        <4>1. \A i \in 1 .. a : i \notin 1 .. n => after[i].kind # "ride"
          <5>1. after[a].kind # "ride"
            BY <2>4, <2>7, <3>2
          <5> QED
            BY <2>15, <2>16, <5>1
        <4>2. \A i \in 1 .. n : i \in 1 .. a
          BY <2>4
        <4> QED
          BY <2>4, <4>1, <4>2 DEF KindPlaces
      <3>6. RidesUpTo(D, k) = RidesUpTo(D, k - 1)
        BY <1>4, <2>17, RidesMove
      <3>7. \A p \in KindPlaces(items, "ride") : after[p] = items[p]
        BY <2>4 DEF KindPlaces
      <3>8. RidesUpTo(D, k) # {} =>
              \E f, l, p, q : /\ AreEnds(f, l, RidesUpTo(D, k)) /\ v = D[l].end - D[f].start
                              /\ AreEnds(p, q, KindPlaces(after, "ride"))
                              /\ after[p].leg = D[f] /\ after[q].leg = D[l]
        <4> SUFFICES ASSUME RidesUpTo(D, k) # {}
                     PROVE  \E f, l, p, q :
                              /\ AreEnds(f, l, RidesUpTo(D, k)) /\ v = D[l].end - D[f].start
                              /\ AreEnds(p, q, KindPlaces(after, "ride"))
                              /\ after[p].leg = D[f] /\ after[q].leg = D[l]
          OBVIOUS
        <4>1. PICK f, l, p, q :
                /\ AreEnds(f, l, RidesUpTo(D, k - 1)) /\ v = D[l].end - D[f].start
                /\ AreEnds(p, q, KindPlaces(items, "ride"))
                /\ items[p].leg = D[f] /\ items[q].leg = D[l]
          BY <1>2, <3>6
        <4>2. after[p] = items[p] /\ after[q] = items[q]
          BY <3>7, <4>1 DEF AreEnds
        <4> QED
          BY <3>5, <3>6, <4>1, <4>2
      <3>9. RidesUpTo(D, k) = {} => v = 0 /\ KindPlaces(after, "ride") = {}
        BY <1>2, <3>5, <3>6
      <3> QED
        BY <2>2, <3>4, <3>8, <3>9 DEF Accounts
    <2>18. CASE IsRide(D[k])
      <3>1. e = [kind |-> "ride", leg |-> D[k], isLast |-> RidesAfter(D, k) = {}]
        BY <2>7, <2>18, ItemIs
      <3>2. e.kind = "ride" /\ e.leg = D[k]
        BY <3>1
      <3>3. PICK s, t : s = D[k].start /\ t = D[k].end
        OBVIOUS
      <3>4. s \in Int /\ t \in Int /\ Spent(e) = t - s
        BY <2>14, <3>2, <3>3 DEF IsSpell, Spent
      <3>5. SpendsOf(after, (v + c) + (t - s))
        <4>1. Spent(e) \in Int
          BY <3>4
        <4>2. SpendsOf(Append(dated, e), (v + c) + Spent(e))
          BY <2>13, <4>1, SpentAppends
        <4> QED
          BY <2>8, <3>4, <4>2
      <3>6. KindPlaces(after, "ride") = KindPlaces(items, "ride") \cup {a}
        <4>1. \A i \in 1 .. a : i \notin 1 .. n => (after[i].kind = "ride" <=> i = a)
          <5>1. after[a].kind = "ride"
            BY <2>4, <2>7, <3>2
          <5>2. ~(a < a)
            BY <2>4
          <5> QED
            BY <2>15, <2>16, <5>1, <5>2
        <4>2. (\A i \in 1 .. n : i \in 1 .. a) /\ a \in 1 .. a /\ a \notin 1 .. n
          BY <2>4
        <4> QED
          BY <2>4, <4>1, <4>2 DEF KindPlaces
      <3>7. RidesUpTo(D, k) = RidesUpTo(D, k - 1) \cup {k}
        BY <1>4, <2>18, RidesMove
      <3>8. \A p \in KindPlaces(items, "ride") : p \in 1 .. n /\ after[p] = items[p]
        BY <2>4 DEF KindPlaces
      <3>9. after[a].leg = D[k]
        BY <2>4, <2>7, <3>2
      <3>10. \A j \in RidesUpTo(D, k - 1) : j \in 1 .. k - 1
        BY DEF RidesUpTo
      <3>11. CASE RidesUpTo(D, k - 1) = {}
        <4>1. v = 0 /\ KindPlaces(items, "ride") = {}
          BY <1>2, <3>11
        <4>2. c = 0
          BY <2>9, <2>10, <3>11
        <4>3. (v + c) + (t - s) = t - s
          BY <3>4, <4>1, <4>2
        <4>4. AreEnds(k, k, RidesUpTo(D, k)) /\ AreEnds(a, a, KindPlaces(after, "ride"))
          <5>1. RidesUpTo(D, k) = {k} /\ KindPlaces(after, "ride") = {a}
            BY <3>6, <3>7, <3>11, <4>1
          <5>2. k <= k /\ a <= a
            BY <1>4, <2>4
          <5> QED
            BY <5>1, <5>2 DEF AreEnds
        <4>5. RidesUpTo(D, k) # {}
          BY <3>7
        <4> QED
          BY <2>2, <3>3, <3>5, <3>9, <4>3, <4>4, <4>5 DEF Accounts
      <3>12. CASE RidesUpTo(D, k - 1) # {}
        <4>1. PICK f, l, p, q :
                /\ AreEnds(f, l, RidesUpTo(D, k - 1)) /\ v = D[l].end - D[f].start
                /\ AreEnds(p, q, KindPlaces(items, "ride"))
                /\ items[p].leg = D[f] /\ items[q].leg = D[l]
          BY <1>2, <3>12
        <4>2. HasChange(D, k)
          BY <1>4, <2>18, <3>12, RidesMove DEF HasChange
        <4>3. c = s - D[l].end
          BY <2>9, <3>3, <4>1, <4>2, ChangeTakes
        <4>4. f \in 1 .. k - 1 /\ l \in 1 .. k - 1
          BY <3>10, <4>1 DEF AreEnds
        <4>5. D[f].start \in Int /\ D[l].end \in Int
          <5>1. f \in DOMAIN D /\ l \in DOMAIN D
            BY <1>4, <4>4
          <5> QED
            BY <5>1 DEF AreTimed, IsSpell
        <4>6. (v + c) + (t - s) = t - D[f].start
          <5>1. PICK x, y : x = D[f].start /\ y = D[l].end
            OBVIOUS
          <5>2. x \in Int /\ y \in Int /\ v = y - x /\ c = s - y
            BY <4>1, <4>3, <4>5, <5>1
          <5>3. (v + c) + (t - s) = t - x
            BY <3>4, <5>2
          <5> QED
            BY <5>1, <5>3
        <4>7. AreEnds(f, k, RidesUpTo(D, k))
          <5>1. \A j \in RidesUpTo(D, k - 1) : f <= j /\ j <= k
            <6>1. \A j \in 1 .. k - 1 : j <= k
              BY <1>4
            <6> QED
              BY <3>10, <4>1, <6>1 DEF AreEnds
          <5>2. f <= k /\ k <= k /\ f \in RidesUpTo(D, k - 1)
            BY <1>4, <4>1, <4>4 DEF AreEnds
          <5> QED
            BY <3>7, <5>1, <5>2 DEF AreEnds
        <4>8. AreEnds(p, a, KindPlaces(after, "ride"))
          <5>1. \A j \in KindPlaces(items, "ride") : p <= j /\ j <= a
            <6>1. \A j \in 1 .. n : j <= a
              BY <2>4
            <6> QED
              BY <3>8, <4>1, <6>1 DEF AreEnds
          <5>2. p \in KindPlaces(items, "ride")
            BY <4>1 DEF AreEnds
          <5>3. p <= a /\ a <= a
            BY <2>4, <5>1, <5>2
          <5> QED
            BY <3>6, <5>1, <5>2, <5>3 DEF AreEnds
        <4>9. after[p].leg = D[f]
          BY <3>8, <4>1 DEF AreEnds
        <4>10. RidesUpTo(D, k) # {}
          BY <3>7
        <4>11. (v + c) + (t - s) = D[k].end - D[f].start
          BY <3>3, <4>6
        <4> QED
          BY <2>2, <3>5, <3>9, <4>7, <4>8, <4>9, <4>10, <4>11 DEF Accounts
      <3> QED
        BY <3>11, <3>12
    <2> QED
      BY <2>17, <2>18
  <1> QED
    BY <1>5, <1>6

-----------------------------------------------------------------------------
(* Rows.                                                                    *)

RowType == [day : Int, separator : BOOLEAN, until : SUBSET Int]

\* One element, and two elements.
LEMMA FewRows ==
  ASSUME NEW T, NEW r \in T
  PROVE  /\ \A s : s = <<r>> => s \in Seq(T) /\ Len(s) = 1 /\ s[1] = r
         /\ \A q \in T : \A s : s = <<r, q>> => s \in Seq(T) /\ Len(s) = 2 /\ s[1] = r /\ s[2] = q
  <1>1. \A s : s = <<r>> => s \in Seq(T) /\ Len(s) = 1 /\ s[1] = r
    OBVIOUS
  <1>2. \A q \in T : \A s : s = <<r, q>> => s \in Seq(T) /\ Len(s) = 2 /\ s[1] = r /\ s[2] = q
    OBVIOUS
  <1> QED
    BY <1>1, <1>2

\* Days are numbered.
LEMMA DayIsNumber ==
  ASSUME NEW time \in Int, NEW zone \in Int
  PROVE  Day(time, zone) \in Int
  BY TimelineAssumption DEF Day

\* The day of a row that is not the day on which the row before it is over has a
\* separator.
AreSeparated(rows) ==
  \A i \in 2 .. Len(rows) : rows[i].day \notin rows[i - 1].until => rows[i].separator

\* The rows of leg k: the first is of the day of its start, and when the last is over
\* it is the day of its end.
AreRowsOf(rows, D, k) ==
  /\ rows \in Seq(RowType) /\ Len(rows) > 0 /\ AreSeparated(rows)
  /\ rows[1].day = Day(D[k].start, D[k].from.zone)
  /\ Day(D[k].end, D[k].to.zone) \in rows[Len(rows)].until
  /\ Day(LastOf(D[k]).time, LastOf(D[k]).zone) \in rows[Len(rows)].until

\* A stop's row says on what day it is called at.
LEMMA StopTimeIs ==
  ASSUME itinerary[1].start \in Int, NEW time \in Int, NEW zone \in Int,
         NEW previous, previous.known => previous.time \in Int /\ previous.zone \in Int
  PROVE  /\ StopTime(time, zone, previous) \in RowType
         /\ StopTime(time, zone, previous).day = Day(time, zone)
         /\ StopTime(time, zone, previous).until = {Day(time, zone)}
         /\ previous.known =>
              (StopTime(time, zone, previous).separator
               <=> Day(previous.time, previous.zone) # Day(time, zone))
  <1>1. PICK d : d = Day(time, zone)
    OBVIOUS
  <1>2. d \in Int /\ Day(itinerary[1].start, zone) \in Int
    BY <1>1, DayIsNumber
  <1>3. PICK s : s = IF previous.known THEN Day(previous.time, previous.zone) # d
                     ELSE d > Day(itinerary[1].start, zone)
    OBVIOUS
  <1>4. s \in BOOLEAN
    <2>1. CASE previous.known
      BY <1>3, <2>1
    <2>2. CASE ~previous.known
      BY <1>2, <1>3, <2>2
    <2> QED
      BY <2>1, <2>2
  <1>5. StopTime(time, zone, previous) = [day |-> d, separator |-> s, until |-> {d}]
    BY <1>1, <1>3 DEF StopTime
  <1>6. PICK r : r = StopTime(time, zone, previous)
    OBVIOUS
  <1>7. r.day = d /\ r.separator = s /\ r.until = {d}
    BY <1>5, <1>6
  <1>8. r \in RowType
    BY <1>2, <1>4, <1>5, <1>6 DEF RowType
  <1>9. previous.known => (s <=> Day(previous.time, previous.zone) # d)
    BY <1>3
  <1> QED
    BY <1>1, <1>6, <1>7, <1>8, <1>9

\* The rows of a leg, before one is marked by the date in front of it.
LEMMA RowsOfLeg ==
  ASSUME itinerary[1].start \in Int, NEW D, AreTimed(D), NEW k \in 1 .. Len(D),
         NEW isLast \in BOOLEAN, NEW rows,
         rows = IF IsRide(D[k]) THEN RideRows(D[k], isLast) ELSE WalkRows(D[k])
  PROVE  AreRowsOf(rows, D, k)
  <1>1. PICK leg : leg = D[k]
    OBVIOUS
  <1>2. PICK s, e, fz, tz : s = leg.start /\ e = leg.end /\ fz = leg.from.zone /\ tz = leg.to.zone
    OBVIOUS
  <1>3. s \in Int /\ e \in Int /\ fz \in Int /\ tz \in Int
    <2>1. k \in DOMAIN D
      BY DEF AreTimed, IsRow
    <2> QED
      BY <1>1, <1>2, <2>1 DEF AreTimed, IsSpell
  <1>4. PICK d, a, b : d = Day(s, fz) /\ a = Day(e, tz) /\ b = Day(e, fz)
    OBVIOUS
  <1>5. d \in Int /\ a \in Int /\ b \in Int
    BY <1>3, <1>4, DayIsNumber
  <1>6. Day(D[k].start, D[k].from.zone) = d /\ Day(D[k].end, D[k].to.zone) = a
    BY <1>1, <1>2, <1>4
  <1>7. PICK z : z = Day(LastOf(D[k]).time, LastOf(D[k]).zone)
    OBVIOUS
  <1>8. z = IF IsRide(leg) THEN a ELSE b
    <2>1. LastOf(leg) = [known |-> TRUE, time |-> e, zone |-> IF IsRide(leg) THEN tz ELSE fz]
      BY <1>2 DEF LastOf
    <2>2. LastOf(leg).time = e /\ LastOf(leg).zone = IF IsRide(leg) THEN tz ELSE fz
      BY <2>1
    <2>3. CASE IsRide(leg)
      BY <1>1, <1>4, <1>7, <2>2, <2>3
    <2>4. CASE ~IsRide(leg)
      BY <1>1, <1>4, <1>7, <2>2, <2>4
    <2> QED
      BY <2>3, <2>4
  <1>9. CASE IsRide(leg)
    <2>1. PICK r : r = StopTime(s, fz, NoTime)
      OBVIOUS
    <2>2. r \in RowType /\ r.day = d /\ r.until = {d}
      <3>1. NoTime.known = FALSE
        BY DEF NoTime
      <3> QED
        BY <1>3, <1>4, <2>1, <3>1, StopTimeIs
    <2>3. CASE isLast
      <3>1. PICK q : q = [r EXCEPT !.until = {a}]
        OBVIOUS
      <3>2. q \in RowType /\ q.day = d /\ q.until = {a}
        <4>1. PICK sep : r = [day |-> d, separator |-> sep, until |-> {d}] /\ sep \in BOOLEAN
          BY <2>2 DEF RowType
        <4>2. q = [day |-> d, separator |-> sep, until |-> {a}]
          <5>1. PICK over, on : over = {a} /\ on = {d}
            OBVIOUS
          <5>2. r = [day |-> d, separator |-> sep, until |-> on] /\ q = [r EXCEPT !.until = over]
            BY <3>1, <4>1, <5>1
          <5>3. q = [day |-> d, separator |-> sep, until |-> over]
            BY <5>2
          <5> QED
            BY <5>1, <5>3
        <4>3. q.day = d /\ q.until = {a}
          BY <4>2
        <4>4. q \in RowType
          BY <1>5, <4>1, <4>2 DEF RowType
        <4> QED
          BY <4>3, <4>4
      <3>3. rows = <<q>>
        BY <1>1, <1>2, <1>4, <1>9, <2>1, <2>3, <3>1 DEF RideRows
      <3>4. rows \in Seq(RowType) /\ Len(rows) = 1 /\ rows[1] = q
        <4>1. q \in RowType
          BY <3>2
        <4> QED
          BY <4>1, <3>3, FewRows
      <3>5. AreSeparated(rows)
        <4>1. 2 .. 1 = {}
          OBVIOUS
        <4> QED
          BY <3>4, <4>1 DEF AreSeparated
      <3>6. a \in q.until /\ z \in q.until
        BY <1>8, <1>9, <3>2
      <3> QED
        BY <1>6, <1>7, <3>2, <3>4, <3>5, <3>6 DEF AreRowsOf
    <2>4. CASE ~isLast
      <3>1. PICK p : p = TimeAt(s, fz)
        OBVIOUS
      <3>2. p.known = TRUE /\ p.time = s /\ p.zone = fz
        BY <3>1 DEF TimeAt
      <3>3. PICK q : q = StopTime(e, tz, p)
        OBVIOUS
      <3>4. q \in RowType /\ q.day = a /\ q.until = {a} /\ (q.separator <=> d # a)
        <4>1. p.known => p.time \in Int /\ p.zone \in Int
          BY <1>3, <3>2
        <4>2. /\ q \in RowType /\ q.day = Day(e, tz) /\ q.until = {Day(e, tz)}
              /\ p.known => (q.separator <=> Day(p.time, p.zone) # Day(e, tz))
          BY <1>3, <3>3, <4>1, StopTimeIs
        <4> QED
          BY <1>4, <3>2, <4>2
      <3>5. rows = <<r, q>>
        BY <1>1, <1>2, <1>9, <2>1, <2>4, <3>1, <3>3 DEF RideRows
      <3>6. rows \in Seq(RowType) /\ Len(rows) = 2 /\ rows[1] = r /\ rows[2] = q
        <4>1. q \in RowType /\ r \in RowType
          BY <2>2, <3>4
        <4> QED
          BY <4>1, <3>5, FewRows
      <3>7. AreSeparated(rows)
        <4>1. \A i \in 2 .. 2 : i = 2 /\ i - 1 = 1
          OBVIOUS
        <4>2. q.day \notin r.until => q.separator
          BY <2>2, <3>4
        <4> QED
          BY <3>6, <4>1, <4>2 DEF AreSeparated
      <3>8. a \in q.until /\ z \in q.until
        BY <1>8, <1>9, <3>4
      <3> QED
        BY <1>6, <1>7, <2>2, <3>6, <3>7, <3>8 DEF AreRowsOf
    <2> QED
      BY <2>3, <2>4
  <1>10. CASE ~IsRide(leg)
    <2>1. PICK q : q = [day |-> d, separator |-> FALSE, until |-> {b, a}]
      OBVIOUS
    <2>2. q \in RowType /\ q.day = d /\ q.until = {b, a}
      BY <1>5, <2>1 DEF RowType
    <2>3. rows = <<q>>
      BY <1>1, <1>2, <1>4, <1>10, <2>1 DEF WalkRows
    <2>4. rows \in Seq(RowType) /\ Len(rows) = 1 /\ rows[1] = q
      <3>1. q \in RowType
        BY <2>2
      <3> QED
        BY <3>1, <2>3, FewRows
    <2>5. AreSeparated(rows)
      <3>1. 2 .. 1 = {}
        OBVIOUS
      <3> QED
        BY <2>4, <3>1 DEF AreSeparated
    <2>6. a \in q.until /\ z \in q.until
      BY <1>8, <1>10, <2>2
    <2> QED
      BY <1>6, <1>7, <2>2, <2>4, <2>5, <2>6 DEF AreRowsOf
  <1> QED
    BY <1>9, <1>10

\* The rows of a leg whose first one is marked are rows of the leg.
LEMMA MarkedRows ==
  ASSUME NEW D, NEW k, NEW rows, AreRowsOf(rows, D, k),
         NEW marked, marked = [rows EXCEPT ![1].separator = TRUE]
  PROVE  AreRowsOf(marked, D, k) /\ marked[1].separator = TRUE
  <1>1. PICK n \in Nat : n = Len(rows) /\ rows \in [1 .. n -> RowType] /\ n > 0
    BY DEF AreRowsOf
  <1>2. PICK r : r = rows[1]
    OBVIOUS
  <1>3. r \in RowType
    BY <1>1, <1>2
  <1>4. PICK q : q = [r EXCEPT !.separator = TRUE]
    OBVIOUS
  <1>5. q \in RowType /\ q.day = r.day /\ q.until = r.until /\ q.separator = TRUE
    <2>1. r = [day |-> r.day, separator |-> r.separator, until |-> r.until]
          /\ r.day \in Int /\ r.until \in SUBSET Int
      BY <1>3 DEF RowType
    <2>2. q = [day |-> r.day, separator |-> TRUE, until |-> r.until]
      BY <1>4, <2>1
    <2>3. q \in RowType
      BY <2>1, <2>2 DEF RowType
    <2> QED
      BY <2>2, <2>3
  <1>6. marked = [rows EXCEPT ![1] = q]
    BY <1>2, <1>4
  <1>7. /\ marked \in [1 .. n -> RowType] /\ marked[1] = q
        /\ \A i \in 1 .. n : i # 1 => marked[i] = rows[i]
    <2>1. q \in RowType
      BY <1>5
    <2>2. PICK T : T = RowType
      OBVIOUS
    <2>3. rows \in [1 .. n -> T] /\ q \in T /\ n > 0 /\ n \in Nat
      BY <1>1, <2>1, <2>2
    <2>4. 1 \in 1 .. n
      BY <2>3
    <2>5. marked[1] = q /\ \A i \in 1 .. n : i # 1 => marked[i] = rows[i]
      BY <1>6, <2>3, <2>4
    <2>6. marked \in [1 .. n -> T]
      BY <1>6, <2>3
    <2> QED
      BY <2>2, <2>5, <2>6
  <1>8. marked \in Seq(RowType) /\ Len(marked) = n
    BY <1>1, <1>7
  <1>9. \A i \in 1 .. n : marked[i].day = rows[i].day /\ marked[i].until = rows[i].until
    BY <1>2, <1>5, <1>7
  <1>10. AreSeparated(marked)
    <2> SUFFICES ASSUME NEW i \in 2 .. n, marked[i].day \notin marked[i - 1].until
                 PROVE  marked[i].separator
      BY <1>8 DEF AreSeparated
    <2>1. i \in 1 .. n /\ i - 1 \in 1 .. n /\ i # 1
      BY <1>1
    <2>2. rows[i].day \notin rows[i - 1].until
      BY <1>9, <2>1
    <2>3. rows[i].separator
      BY <1>1, <2>2 DEF AreRowsOf, AreSeparated
    <2> QED
      BY <1>7, <2>1, <2>3
  <1>11. 1 \in 1 .. n /\ n \in 1 .. n
    BY <1>1
  <1>12. /\ rows[1].day = Day(D[k].start, D[k].from.zone)
         /\ Day(D[k].end, D[k].to.zone) \in rows[n].until
         /\ Day(LastOf(D[k]).time, LastOf(D[k]).zone) \in rows[n].until
    BY <1>1 DEF AreRowsOf
  <1> QED
    BY <1>1, <1>5, <1>7, <1>8, <1>9, <1>10, <1>11, <1>12 DEF AreRowsOf

\* So are those of a leg's item, and the first has a separator after a date.
LEMMA RowsOfItem ==
  ASSUME itinerary[1].start \in Int, NEW D, AreTimed(D), NEW k \in 1 .. Len(D),
         NEW items, NEW i \in Nat, items[i] = ItemOf(D, k)
  PROVE  /\ AreRowsOf(RowsOf(items, i), D, k)
         /\ i > 1 /\ items[i - 1].kind = "date" => RowsOf(items, i)[1].separator
  <1>1. PICK item : item = items[i]
    OBVIOUS
  <1>2. PICK isLast : isLast = (RidesAfter(D, k) = {})
    OBVIOUS
  <1>3. isLast \in BOOLEAN
    BY <1>2
  <1>4. PICK rows : rows = IF IsRide(D[k]) THEN RideRows(D[k], isLast) ELSE WalkRows(D[k])
    OBVIOUS
  <1>5. AreRowsOf(rows, D, k)
    BY <1>3, <1>4, RowsOfLeg
  <1>6. rows # << >>
    BY <1>5 DEF AreRowsOf
  <1>7. (CASE item.kind = "ride" -> RideRows(item.leg, item.isLast)
           [] item.kind = "walk" -> WalkRows(item.leg)
           [] OTHER              -> << >>) = rows
    <2>1. CASE IsRide(D[k])
      <3>1. item = [kind |-> "ride", leg |-> D[k], isLast |-> RidesAfter(D, k) = {}]
        BY <1>1, <2>1, ItemIs
      <3>2. item.kind = "ride" /\ item.leg = D[k] /\ item.isLast = isLast
        BY <1>2, <3>1
      <3>3. rows = RideRows(D[k], isLast)
        BY <1>4, <2>1
      <3>4. RideRows(item.leg, item.isLast) = rows
        BY <3>2, <3>3
      <3> QED
        BY <3>2, <3>4
    <2>2. CASE ~IsRide(D[k])
      <3>1. item = [kind |-> "walk", leg |-> D[k], role |-> RoleOfWalk(D, k)]
        BY <1>1, <2>2, ItemIs
      <3>2. item.kind = "walk" /\ item.leg = D[k]
        BY <3>1
      <3>3. rows = WalkRows(D[k])
        BY <1>4, <2>2
      <3>4. WalkRows(item.leg) = rows
        BY <3>2, <3>3
      <3> QED
        BY <3>2, <3>4
    <2> QED
      BY <2>1, <2>2
  <1>8. RowsOf(items, i) = IF i > 1 /\ items[i - 1].kind = "date"
                           THEN [rows EXCEPT ![1].separator = TRUE] ELSE rows
    BY <1>1, <1>6, <1>7 DEF RowsOf
  <1>9. CASE i > 1 /\ items[i - 1].kind = "date"
    <2>1. PICK marked : marked = [rows EXCEPT ![1].separator = TRUE]
      OBVIOUS
    <2>2. RowsOf(items, i) = marked
      BY <1>8, <1>9, <2>1
    <2>3. AreRowsOf(marked, D, k) /\ marked[1].separator = TRUE
      BY <1>5, <2>1, MarkedRows
    <2> QED
      BY <2>2, <2>3
  <1>10. CASE ~(i > 1 /\ items[i - 1].kind = "date")
    BY <1>5, <1>8, <1>10
  <1> QED
    BY <1>9, <1>10

\* Items that are shown in some rows.
RowsAre(items, rows) ==
  /\ IsRow(items) /\ \A i \in DOMAIN items : RowsOf(items, i) \in Seq(RowType)
  /\ FlattenSeq([i \in DOMAIN items |-> RowsOf(items, i)]) = rows /\ rows \in Seq(RowType)

\* No item has no row.
LEMMA NoRows == RowsAre(<< >>, << >>)
  <1>1. [i \in DOMAIN << >> |-> RowsOf(<< >>, i)] = << >>
    OBVIOUS
  <1>2. PICK none : none = << >>
    OBVIOUS
  <1>3. /\ none \in Seq(Seq(RowType)) /\ Len(none) = 0 /\ IsRow(none) /\ none \in Seq(RowType)
        /\ DOMAIN none = {}
    BY <1>2 DEF IsRow
  <1>4. FlattenSeq(none) = Flat(none)[Len(none)]
    <2>1. PICK T : T = RowType
      OBVIOUS
    <2>2. none \in Seq(Seq(T))
      BY <1>3, <2>1
    <2> QED
      BY <2>2, FlattenTurns DEF IsFlattening
  <1>5. Flat(none)[0] = << >>
    BY <1>3, FlatTurns DEF FlatStart
  <1> QED
    BY <1>1, <1>2, <1>3, <1>4, <1>5 DEF RowsAre

\* One more item is shown in its rows behind the others.
LEMMA RowsAppend ==
  ASSUME NEW items, NEW rows, RowsAre(items, rows), NEW e, NEW w,
         w = RowsOf(Append(items, e), Len(items) + 1), w \in Seq(RowType)
  PROVE  RowsAre(Append(items, e), rows \o w)
  <1>1. PICK n \in Nat : n = Len(items) /\ DOMAIN items = 1 .. n
    BY DEF RowsAre, IsRow
  <1>2. PICK more : more = Append(items, e)
    OBVIOUS
  <1>3. /\ IsRow(more) /\ DOMAIN more = 1 .. n + 1 /\ more[n + 1] = e
        /\ \A i \in 1 .. n : more[i] = items[i]
    BY <1>1, <1>2, RowAppends DEF RowsAre
  <1>4. PICK a : a = [i \in 1 .. n |-> RowsOf(items, i)]
    OBVIOUS
  <1>5. \A i \in 1 .. n : RowsOf(items, i) \in Seq(RowType)
    BY <1>1 DEF RowsAre
  <1>6. PICK S : S = Seq(RowType)
    OBVIOUS
  <1>7. a \in Seq(S) /\ Len(a) = n
    <2>1. a \in [1 .. n -> S]
      BY <1>4, <1>5, <1>6
    <2> QED
      BY <1>1, <2>1
  <1>8. PICK b : b = [i \in 1 .. n + 1 |-> RowsOf(more, i)]
    OBVIOUS
  <1>9. ASSUME NEW i \in 1 .. n PROVE RowsOf(more, i) = RowsOf(items, i)
    <2>1. more[i] = items[i]
      BY <1>3
    <2>2. i > 1 => more[i - 1] = items[i - 1]
      <3>1. i > 1 => i - 1 \in 1 .. n
        BY <1>1
      <3> QED
        BY <1>3, <3>1
    <2>3. (i > 1 /\ more[i - 1].kind = "date") <=> (i > 1 /\ items[i - 1].kind = "date")
      BY <2>2
    <2> QED
      BY <2>1, <2>3 DEF RowsOf
  <1>10. IsOneMore(b, a, n, w)
    <2>1. b = [i \in 1 .. n + 1 |-> b[i]]
      BY <1>8
    <2>2. b[n + 1] = w
      BY <1>1, <1>2, <1>8
    <2>3. \A i \in 1 .. n : b[i] = a[i]
      BY <1>1, <1>4, <1>8, <1>9
    <2> QED
      BY <1>7, <2>1, <2>2, <2>3 DEF IsOneMore
  <1>11. b = Append(a, w)
    <2>1. w \in S /\ a \in Seq(S) /\ n \in Nat
      BY <1>1, <1>6, <1>7
    <2> QED
      BY <1>10, <2>1, AppendedIs
  <1>12. FlattenSeq(b) = FlattenSeq(a) \o w /\ FlattenSeq(b) \in Seq(RowType)
    <2>1. PICK T : T = RowType
      OBVIOUS
    <2>2. a \in Seq(Seq(T)) /\ w \in Seq(T)
      BY <1>6, <1>7, <2>1
    <2>3. FlattenSeq(Append(a, w)) = FlattenSeq(a) \o w /\ FlattenSeq(Append(a, w)) \in Seq(T)
      BY <2>2, FlattenAppends
    <2> QED
      BY <1>11, <2>1, <2>3
  <1>13. FlattenSeq(a) = rows
    BY <1>1, <1>4 DEF RowsAre
  <1>14. \A i \in 1 .. n + 1 : RowsOf(more, i) \in Seq(RowType)
    <2>1. \A i \in 1 .. n + 1 : i \in 1 .. n \/ i = n + 1
      BY <1>1
    <2> QED
      BY <1>1, <1>2, <1>5, <1>9, <2>1
  <1>15. FlattenSeq([i \in DOMAIN more |-> RowsOf(more, i)]) = rows \o w
    BY <1>3, <1>8, <1>12, <1>13
  <1> QED
    BY <1>2, <1>3, <1>12, <1>13, <1>14, <1>15 DEF RowsAre

\* Separated rows behind others, the first of which has a separator where the day
\* turns.
LEMMA SeparatedTogether ==
  ASSUME NEW v \in Seq(RowType), NEW w \in Seq(RowType), AreSeparated(v), AreSeparated(w),
         Len(v) > 0 /\ Len(w) > 0 =>
           (w[1].day \notin v[Len(v)].until => w[1].separator)
  PROVE  /\ AreSeparated(v \o w) /\ v \o w \in Seq(RowType) /\ Len(v \o w) = Len(v) + Len(w)
         /\ Len(w) > 0 => (v \o w)[Len(v) + Len(w)] = w[Len(w)]
         /\ Len(v) \in Nat /\ Len(w) \in Nat
  <1>1. PICK T : T = RowType
    OBVIOUS
  <1>2. PICK x : x = v \o w
    OBVIOUS
  <1>3. PICK n \in Nat, m \in Nat : n = Len(v) /\ m = Len(w)
    OBVIOUS
  <1>4. /\ x \in Seq(T) /\ Len(x) = n + m
        /\ \A i \in 1 .. n + m : x[i] = IF i <= n THEN v[i] ELSE w[i - n]
    BY <1>1, <1>2, <1>3, ConcatProperties
  <1>5. ASSUME NEW i \in 2 .. n + m, x[i].day \notin x[i - 1].until PROVE x[i].separator
    <2>1. i \in 1 .. n + m /\ i - 1 \in 1 .. n + m /\ i \in Nat
      BY <1>3
    <2>2. CASE i <= n
      <3>1. i \in 2 .. n /\ i - 1 <= n
        BY <1>3, <2>1, <2>2
      <3>2. x[i] = v[i] /\ x[i - 1] = v[i - 1]
        BY <1>4, <2>1, <2>2, <3>1
      <3> QED
        BY <1>3, <1>5, <3>1, <3>2 DEF AreSeparated
    <2>3. CASE i = n + 1
      <3>1. n > 0 /\ m > 0 /\ ~(i <= n) /\ i - n = 1 /\ i - 1 = n /\ n <= n
        BY <1>3, <2>3
      <3>2. x[i] = w[1] /\ x[i - 1] = v[n]
        <4>1. x[i] = w[i - n]
          BY <1>4, <2>1, <3>1
        <4>2. x[i - 1] = v[i - 1]
          BY <1>4, <2>1, <3>1
        <4> QED
          BY <3>1, <4>1, <4>2
      <3> QED
        BY <1>3, <1>5, <3>1, <3>2
    <2>4. CASE i > n + 1
      <3>1. ~(i <= n) /\ ~(i - 1 <= n) /\ (i - 1) - n = (i - n) - 1 /\ i - n \in 2 .. m
        BY <1>3, <2>1, <2>4
      <3>2. x[i] = w[i - n] /\ x[i - 1] = w[(i - 1) - n]
        BY <1>4, <2>1, <3>1
      <3>3. x[i - 1] = w[(i - n) - 1]
        BY <3>1, <3>2
      <3> QED
        BY <1>3, <1>5, <3>1, <3>2, <3>3 DEF AreSeparated
    <2>5. i <= n \/ i = n + 1 \/ i > n + 1
      BY <1>3, <2>1
    <2> QED
      BY <2>2, <2>3, <2>4, <2>5
  <1>6. m > 0 => x[n + m] = w[m]
    <2> SUFFICES ASSUME m > 0 PROVE x[n + m] = w[m]
      OBVIOUS
    <2>1. n + m \in 1 .. n + m /\ ~(n + m <= n) /\ (n + m) - n = m
      BY <1>3
    <2>2. x[n + m] = w[(n + m) - n]
      BY <1>4, <2>1
    <2> QED
      BY <2>1, <2>2
  <1>7. AreSeparated(x)
    BY <1>4, <1>5 DEF AreSeparated
  <1> QED
    BY <1>1, <1>2, <1>3, <1>4, <1>6, <1>7

\* What is shown of the first k legs is separated, and when its last row is over it is
\* the day known last, and that of the leg's end unless a walk between two rides
\* was left out.
Separates(D, k, told) ==
  \E rows : /\ RowsAre(told.items, rows) /\ AreSeparated(rows)
            /\ Len(rows) > 0 =>
                 /\ told.last.known /\ k > 0
                 /\ Day(told.last.time, told.last.zone) \in rows[Len(rows)].until
                 /\ \/ Day(D[k].end, D[k].to.zone) \in rows[Len(rows)].until
                    \/ RidesUpTo(D, k) # {} /\ RidesAfter(D, k) # {}

\* So it stays.
LEMMA TellSeparates ==
  ASSUME itinerary[1].start \in Int, NEW D, AreTimed(D), NEW k \in 1 .. Len(D), NEW told,
         Separates(D, k - 1, told)
  PROVE  Separates(D, k, Tell(D, told, k))
  <1>1. PICK items, last : items = told.items /\ last = told.last
    OBVIOUS
  <1>2. PICK rows : /\ RowsAre(items, rows) /\ AreSeparated(rows)
                    /\ Len(rows) > 0 =>
                         /\ last.known /\ k - 1 > 0
                         /\ Day(last.time, last.zone) \in rows[Len(rows)].until
                         /\ \/ Day(D[k - 1].end, D[k - 1].to.zone) \in rows[Len(rows)].until
                            \/ RidesUpTo(D, k - 1) # {} /\ RidesAfter(D, k - 1) # {}
    BY <1>1 DEF Separates
  <1>3. IsRow(items) /\ IsRow(told.items) /\ rows \in Seq(RowType) /\ Len(rows) \in Nat
    BY <1>1, <1>2 DEF RowsAre
  <1>4. IsRow(D) /\ DOMAIN D = 1 .. Len(D) /\ Len(D) \in Nat /\ k \in Nat /\ k \in DOMAIN D
    BY DEF AreTimed, IsRow
  <1>5. CASE ~IsItem(D, k)
    <2>1. Tell(D, told, k) = told
      BY <1>3, <1>5, TellAppends
    <2>2. ~IsRide(D[k])
      BY <1>5 DEF IsItem
    <2>3. RidesUpTo(D, k) = RidesUpTo(D, k - 1) /\ RidesAfter(D, k) = RidesAfter(D, k - 1)
      BY <1>4, <2>2, RidesMove
    <2>4. ASSUME Len(rows) > 0
          PROVE  /\ last.known /\ k > 0
                 /\ Day(last.time, last.zone) \in rows[Len(rows)].until
                 /\ \/ Day(D[k].end, D[k].to.zone) \in rows[Len(rows)].until
                    \/ RidesUpTo(D, k) # {} /\ RidesAfter(D, k) # {}
      <3>1. /\ last.known /\ k - 1 > 0
            /\ Day(last.time, last.zone) \in rows[Len(rows)].until
            /\ \/ Day(D[k - 1].end, D[k - 1].to.zone) \in rows[Len(rows)].until
               \/ RidesUpTo(D, k - 1) # {} /\ RidesAfter(D, k - 1) # {}
        BY <1>2, <2>4
      <3>2. k > 1 /\ k > 0
        BY <1>4, <3>1
      <3>3. CASE RidesUpTo(D, k) # {} /\ RidesAfter(D, k) # {}
        BY <3>1, <3>2, <3>3
      <3>4. CASE ~(RidesUpTo(D, k) # {} /\ RidesAfter(D, k) # {})
        <4>1. RidesBefore(D, k) = RidesUpTo(D, k)
          BY <1>4, <2>3, RidesMove
        <4>2. D[k].minutes = 0
          BY <1>5, <3>4, <4>1 DEF IsItem
        <4>3. D[k].end = D[k - 1].end /\ D[k].to.zone = D[k - 1].to.zone
          BY <1>4, <2>2, <3>2, <4>2 DEF AreTimed
        <4> QED
          BY <2>3, <3>1, <3>2, <3>4, <4>3
      <3> QED
        BY <3>3, <3>4
    <2> QED
      BY <1>1, <1>2, <2>1, <2>4 DEF Separates
  <1>6. CASE IsItem(D, k)
    <2>1. PICK mid : mid = WithChange(D, items, k)
      OBVIOUS
    <2>2. PICK dated : dated = WithDate(last, mid, D[k])
      OBVIOUS
    <2>3. PICK e : e = ItemOf(D, k)
      OBVIOUS
    <2>4. PICK after : after = Append(dated, e)
      OBVIOUS
    <2>5. Tell(D, told, k) = [items |-> after, last |-> LastOf(D[k])]
      <3>1. Tell(D, told, k) = [items |-> ItemsAfter(D, told, k), last |-> LastOf(D[k])]
        BY <1>3, <1>6, TellAppends
      <3>2. ItemsAfter(D, told, k) = after
        BY <1>1, <2>1, <2>2, <2>3, <2>4 DEF ItemsAfter
      <3> QED
        BY <3>1, <3>2
    <2>6. /\ << >> \in Seq(RowType) /\ rows \o << >> = rows
      BY <1>3
    <2>7. ASSUME NEW s, IsRow(s), NEW g, g.kind \in {"date", "transfer"}
          PROVE  RowsOf(Append(s, g), Len(s) + 1) = << >>
      <3>1. PICK more, n : more = Append(s, g) /\ n = Len(s) + 1
        OBVIOUS
      <3>2. more[n] = g
        BY <2>7, <3>1, RowAppends
      <3>3. g.kind # "ride" /\ g.kind # "walk"
        BY <2>7
      <3>4. RowsOf(more, n) = << >>
        BY <3>2, <3>3 DEF RowsOf
      <3> QED
        BY <3>1, <3>4
    <2>8. RowsAre(mid, rows)
      <3>1. CASE HasChange(D, k)
        <4>1. PICK g : g = Change(D, k)
          OBVIOUS
        <4>2. g.kind = "transfer"
          BY <4>1 DEF Change
        <4>3. RowsOf(Append(items, g), Len(items) + 1) = << >>
          BY <1>3, <2>7, <4>2
        <4>4. RowsAre(Append(items, g), rows \o << >>)
          BY <1>2, <2>6, <4>3, RowsAppend
        <4> QED
          BY <2>1, <2>6, <3>1, <4>1, <4>4 DEF WithChange
      <3>2. CASE ~HasChange(D, k)
        BY <1>2, <2>1, <3>2 DEF WithChange
      <3> QED
        BY <3>1, <3>2
    <2>9. RowsAre(dated, rows)
      <3>1. CASE HasDate(last, D[k])
        <4>1. PICK g : g = DateOf(D[k])
          OBVIOUS
        <4>2. g.kind = "date"
          BY <4>1 DEF DateOf
        <4>3. RowsOf(Append(mid, g), Len(mid) + 1) = << >>
          BY <2>7, <2>8, <4>2 DEF RowsAre
        <4>4. RowsAre(Append(mid, g), rows \o << >>)
          BY <2>6, <2>8, <4>3, RowsAppend
        <4> QED
          BY <2>2, <2>6, <3>1, <4>1, <4>4 DEF WithDate
      <3>2. CASE ~HasDate(last, D[k])
        BY <2>2, <2>8, <3>2 DEF WithDate
      <3> QED
        BY <3>1, <3>2
    <2>10. PICK d \in Nat : d = Len(dated)
      BY <2>9 DEF RowsAre, IsRow
    <2>11. after[d + 1] = e /\ \A i \in 1 .. d : after[i] = dated[i]
      <3>1. IsRow(dated)
        BY <2>9 DEF RowsAre
      <3> QED
        BY <2>4, <2>10, <3>1, RowAppends
    <2>12. PICK w : w = RowsOf(after, d + 1)
      OBVIOUS
    <2>13. /\ AreRowsOf(w, D, k)
           /\ d + 1 > 1 /\ after[(d + 1) - 1].kind = "date" => w[1].separator
      <3>1. d + 1 \in Nat /\ after[d + 1] = ItemOf(D, k)
        BY <2>3, <2>10, <2>11
      <3> QED
        BY <2>12, <3>1, RowsOfItem
    <2>14. /\ w \in Seq(RowType) /\ Len(w) > 0 /\ AreSeparated(w)
           /\ w[1].day = Day(D[k].start, D[k].from.zone)
           /\ Day(D[k].end, D[k].to.zone) \in w[Len(w)].until
           /\ Day(LastOf(D[k]).time, LastOf(D[k]).zone) \in w[Len(w)].until
      BY <2>13 DEF AreRowsOf
    <2>15. Len(rows) > 0 /\ Len(w) > 0 => (w[1].day \notin rows[Len(rows)].until => w[1].separator)
      <3> SUFFICES ASSUME Len(rows) > 0, w[1].day \notin rows[Len(rows)].until
                   PROVE  w[1].separator
        OBVIOUS
      <3>1. last.known /\ Day(last.time, last.zone) \in rows[Len(rows)].until
        BY <1>2
      <3>2. HasDate(last, D[k])
        BY <2>14, <3>1 DEF HasDate
      <3>3. dated = Append(mid, DateOf(D[k])) /\ IsRow(mid)
        BY <2>2, <2>8, <3>2 DEF WithDate, RowsAre
      <3>4. PICK g : g = DateOf(D[k])
        OBVIOUS
      <3>5. g.kind = "date"
        BY <3>4 DEF DateOf
      <3>6. d = Len(mid) + 1 /\ dated[d] = g /\ Len(mid) \in Nat
        BY <2>10, <3>3, <3>4, RowAppends
      <3>7. d \in 1 .. d /\ (d + 1) - 1 = d /\ d + 1 > 1
        BY <2>10, <3>6
      <3>8. after[(d + 1) - 1].kind = "date"
        BY <2>11, <3>5, <3>6, <3>7
      <3> QED
        BY <2>13, <3>7, <3>8
    <2>16. PICK all : all = rows \o w
      OBVIOUS
    <2>17. /\ AreSeparated(all) /\ Len(all) = Len(rows) + Len(w)
           /\ all[Len(rows) + Len(w)] = w[Len(w)]
      BY <1>2, <1>3, <2>14, <2>15, <2>16, SeparatedTogether
    <2>18. RowsAre(after, all)
      BY <2>4, <2>9, <2>10, <2>12, <2>14, <2>16, RowsAppend
    <2>19. PICK own : own = LastOf(D[k])
      OBVIOUS
    <2>20. own.known
      BY <2>19 DEF LastOf
    <2>21. PICK new : new = Tell(D, told, k)
      OBVIOUS
    <2>22. new.items = after /\ new.last = own
      BY <2>5, <2>19, <2>21
    <2>23. /\ new.last.known /\ k > 0
           /\ Day(new.last.time, new.last.zone) \in all[Len(all)].until
           /\ Day(D[k].end, D[k].to.zone) \in all[Len(all)].until
      <3>1. k > 0
        BY <1>4
      <3>2. all[Len(all)] = w[Len(w)]
        BY <2>17
      <3> QED
        BY <2>14, <2>19, <2>20, <2>22, <3>1, <3>2
    <2>24. RowsAre(new.items, all)
      BY <2>18, <2>22
    <2> QED
      BY <2>17, <2>21, <2>23, <2>24 DEF Separates
  <1> QED
    BY <1>5, <1>6

-----------------------------------------------------------------------------
(* All legs told.                                                           *)

\* What holds of the items of the first k legs.
TellsUpTo(L, h, D, s, k, told) ==
  /\ TellsOf(told.items, Range(s), AtPlaces(s, MovedUpTo(L, TailOf(h, Len(D), Len(L), k))))
  /\ CountsRides(D, k, told.items) /\ ChangesFollow(D, k, told.items)
  /\ WalksAtEnds(D, k, told.items)
  /\ AreTimed(D) /\ itinerary[1].start \in Int =>
       Accounts(D, k, told.items) /\ Separates(D, k, told)

\* It holds before the first.
LEMMA NothingTells ==
  ASSUME NEW L, IsStored(L), NEW D, NEW h, AreDisplayed(D, h, L), NEW s, s = ServicesOf(L)
  PROVE  TellsUpTo(L, h, D, s, 0, TellingStart(D))
  <1>1. PICK none, told : none = << >> /\ told = TellingStart(D)
    OBVIOUS
  <1>2. told.items = none
    BY <1>1 DEF TellingStart
  <1>3. IsRow(none) /\ DOMAIN none = {} /\ Len(none) = 0
    BY <1>1 DEF IsRow
  <1>4. TellsOf(none, Range(s), none) /\ SpendsOf(none, 0) /\ RowsAre(none, none)
    BY <1>1, NothingIsTold, NothingIsSpent, NoRows
  <1>5. MovedUpTo(L, TailOf(h, Len(D), Len(L), 0)) = {}
    <2>1. 0 < Len(D) /\ h[0 + 1] = 1
      BY DEF AreDisplayed
    <2>2. TailOf(h, Len(D), Len(L), 0) = 0
      BY <2>1 DEF TailOf
    <2>3. 1 .. 0 = {}
      OBVIOUS
    <2> QED
      BY <2>2, <2>3 DEF MovedUpTo
  <1>6. AtPlaces(s, {}) = none
    <2>1. Cardinality({}) = 0 /\ 1 .. 0 = {}
      BY FS_EmptySet
    <2>2. AtPlaces(s, {}) = [n \in {} |-> s[Places({})[n]]]
      BY <2>1 DEF AtPlaces
    <2>3. [n \in {} |-> s[Places({})[n]]] = none
      BY <1>1
    <2> QED
      BY <2>2, <2>3
  <1>7. RidesUpTo(D, 0) = {} /\ KindPlaces(none, "ride") = {} /\ KindPlaces(none, "transfer") = {}
    <2>1. 1 .. 0 = {}
      OBVIOUS
    <2> QED
      BY <1>3, <2>1 DEF RidesUpTo, KindPlaces
  <1>8. CountsRides(D, 0, none)
    <2>1. Cardinality({}) = 0 /\ AtLeast0(0 - 1) = 0
      BY FS_EmptySet DEF AtLeast0
    <2> QED
      BY <1>3, <1>7, <2>1 DEF CountsRides
  <1>9. ChangesFollow(D, 0, none) /\ WalksAtEnds(D, 0, none)
    BY <1>3, <1>7 DEF ChangesFollow, WalksAtEnds
  <1>10. Accounts(D, 0, none)
    BY <1>4, <1>7 DEF Accounts
  <1>11. AreSeparated(none)
    <2>1. 2 .. 0 = {}
      OBVIOUS
    <2> QED
      BY <1>3, <2>1 DEF AreSeparated
  <1>12. Separates(D, 0, told)
    <2>1. ~(Len(none) > 0)
      BY <1>3
    <2> QED
      BY <1>2, <1>4, <1>11, <2>1 DEF Separates
  <1>13. TellsUpTo(L, h, D, s, 0, told)
    BY <1>2, <1>4, <1>5, <1>6, <1>8, <1>9, <1>10, <1>12 DEF TellsUpTo
  <1> QED
    BY <1>1, <1>13

\* A leg more is told.
LEMMA TellsOneMore ==
  ASSUME NEW L, IsStored(L), NEW D, NEW h, AreDisplayed(D, h, L), NEW s, s = ServicesOf(L),
         NEW k \in 1 .. Len(D), NEW told, TellsUpTo(L, h, D, s, k - 1, told)
  PROVE  TellsUpTo(L, h, D, s, k, Tell(D, told, k))
  <1>1. PICK new : new = Tell(D, told, k)
    OBVIOUS
  <1>2. PICK b : b = TailOf(h, Len(D), Len(L), k)
    OBVIOUS
  <1>3. IsRow(D) /\ Len(D) \in Nat /\ k \in Nat
    BY DEF AreDisplayed, IsRow
  <1>4. TailOf(h, Len(D), Len(L), k - 1) = h[k] - 1
    <2>1. k - 1 < Len(D) /\ (k - 1) + 1 = k
      BY <1>3
    <2> QED
      BY <2>1 DEF TailOf
  <1>5. PICK T, v : T = Range(s) /\ v = AtPlaces(s, MovedUpTo(L, h[k] - 1))
    OBVIOUS
  <1>6. /\ ToldByLeg(D[k]) \in Seq(T)
        /\ AtPlaces(s, MovedUpTo(L, b)) = v \o ToldByLeg(D[k])
    <2>1. LegIsTold(L, h, D, s, k, b)
      BY <1>2, LegTells
    <2> QED
      BY <1>5, <2>1 DEF LegIsTold
  <1>7. TellsOf(told.items, T, v)
    BY <1>4, <1>5 DEF TellsUpTo
  <1>8. TellsOf(new.items, T, AtPlaces(s, MovedUpTo(L, b)))
    <2>1. TellsOf(Tell(D, told, k).items, T, v \o ToldByLeg(D[k]))
      BY <1>6, <1>7, TellTells
    <2> QED
      BY <1>1, <1>6, <2>1
  <1>9. /\ CountsRides(D, k, new.items) /\ ChangesFollow(D, k, new.items)
        /\ WalksAtEnds(D, k, new.items)
    BY <1>1, <1>3, TellCounts, TellChanges, TellWalks DEF TellsUpTo
  <1>10. ASSUME AreTimed(D), itinerary[1].start \in Int
         PROVE  Accounts(D, k, new.items) /\ Separates(D, k, new)
    <2>1. Accounts(D, k - 1, told.items) /\ Separates(D, k - 1, told)
      BY <1>10 DEF TellsUpTo
    <2> QED
      BY <1>1, <1>10, <2>1, TellAccounts, TellSeparates
  <1> QED
    BY <1>1, <1>2, <1>5, <1>8, <1>9, <1>10 DEF TellsUpTo

\* So all legs are told.
LEMMA TimelineTells ==
  ASSUME NEW L, IsStored(L), NEW D, NEW h, AreDisplayed(D, h, L), NEW s, s = ServicesOf(L)
  PROVE  TellsUpTo(L, h, D, s, Len(D), Telling(D)[Len(D)])
  <1>1. PICK c \in Nat : c = Len(D)
    BY DEF AreDisplayed, IsRow
  <1>2. PICK f : f = Telling(D)
    OBVIOUS
  <1>3. f[0] = TellingStart(D) /\ \A k \in 1 .. c : f[k] = Tell(D, f[k - 1], k)
    BY <1>1, <1>2, TellingTurns DEF TellingStep
  <1> DEFINE wrong == {k \in Nat : k <= c /\ ~TellsUpTo(L, h, D, s, k, f[k])}
  <1>4. ASSUME wrong # {} PROVE FALSE
    <2>1. PICK k \in wrong : \A m \in wrong : k <= m
      <3>1. wrong \in SUBSET Nat
        OBVIOUS
      <3> HIDE DEF wrong
      <3> QED
        BY <1>4, <3>1, LeastNumber
    <2>2. k \in Nat /\ k <= c /\ ~TellsUpTo(L, h, D, s, k, f[k])
      OBVIOUS
    <2>3. TellsUpTo(L, h, D, s, 0, f[0])
      BY <1>3, NothingTells
    <2>4. k # 0
      BY <2>2, <2>3
    <2>5. k \in 1 .. c /\ k - 1 \in Nat /\ k - 1 <= c /\ ~(k <= k - 1)
      BY <2>2, <2>4
    <2>6. TellsUpTo(L, h, D, s, k - 1, f[k - 1])
      BY <2>1, <2>5
    <2>7. PICK told : told = f[k - 1]
      OBVIOUS
    <2>8. TellsUpTo(L, h, D, s, k, Tell(D, told, k))
      BY <1>1, <2>5, <2>6, <2>7, TellsOneMore
    <2> QED
      BY <1>3, <2>2, <2>5, <2>7, <2>8
  <1> HIDE DEF wrong
  <1>5. wrong = {}
    BY <1>4
  <1>6. c <= c
    BY <1>1
  <1> QED
    BY <1>1, <1>2, <1>5, <1>6 DEF wrong

-----------------------------------------------------------------------------
(* A provider's itinerary.                                                  *)

\* What is used of an itinerary.
AreGiven(L, n) ==
  /\ n = Len(L) /\ n \in Nat /\ n > 0 /\ DOMAIN L = 1 .. n
  /\ \A i \in 1 .. n :
       /\ L[i].kind \in {"walk", "ride", "other"} /\ IsSpell(L[i])
       /\ L[i].from.zone \in Int /\ L[i].to.zone \in Int
       /\ i > 1 => L[i - 1].end <= L[i].start
       /\ L[i].kind = "walk" /\ L[i].minutes = 0 =>
            StandsStill(L[i]) /\ (i > 1 => Continues(L[i], L[i - 1]))

\* An itinerary is a stored journey.
LEMMA ItineraryIsStored ==
  ASSUME NEW L, IsItinerary(L)
  PROVE  IsStored(L) /\ AreGiven(L, Len(L))
  <1>1. L \in Seq(Range(L)) /\ L # << >>
    BY DEF IsItinerary
  <1>2. IsRow(L)
    BY <1>1 DEF IsRow
  <1>3. PICK n \in Nat : n = Len(L) /\ DOMAIN L = 1 .. n
    BY <1>1
  <1>4. n > 0
    <2>1. ASSUME n = 0 PROVE L = << >>
      BY <1>1, <1>3, <2>1
    <2> QED
      BY <1>1, <1>3, <2>1
  <1>5. ASSUME NEW i \in 1 .. n
        PROVE  /\ L[i] = [kind |-> L[i].kind, service |-> L[i].service,
                          seated |-> L[i].seated, start |-> L[i].start, end |-> L[i].end,
                          minutes |-> L[i].minutes,
                          from |-> [name |-> L[i].from.name, zone |-> L[i].from.zone],
                          to |-> [name |-> L[i].to.name, zone |-> L[i].to.zone],
                          through |-> << >>]
               /\ L[i].kind \in {"walk", "ride", "other"} /\ L[i].seated \in BOOLEAN
               /\ IsSpell(L[i]) /\ L[i].minutes \in Int
               /\ L[i].from.zone \in Int /\ L[i].to.zone \in Int
               /\ L[i].seated => L[i].kind /= "walk" /\ i > 1 /\ L[i - 1].kind /= "walk"
               /\ i > 1 => L[i - 1].end <= L[i].start
               /\ L[i].kind = "walk" /\ L[i].minutes = 0 =>
                    StandsStill(L[i]) /\ (i > 1 => Continues(L[i], L[i - 1]))
    BY <1>3, <1>5 DEF IsItinerary
  <1>6. AreGiven(L, n)
    BY <1>3, <1>4, <1>5 DEF AreGiven
  <1>7. ASSUME NEW i \in 1 .. n PROVE IsStoredLeg(L[i])
    <2>1. PICK l, ki, se, sd, st, en, mi, fr, t :
            /\ l = L[i] /\ ki = l.kind /\ se = l.service /\ sd = l.seated /\ st = l.start
            /\ en = l.end /\ mi = l.minutes
            /\ fr = [name |-> l.from.name, zone |-> l.from.zone]
            /\ t = [name |-> l.to.name, zone |-> l.to.zone]
      OBVIOUS
    <2>2. l = [kind |-> ki, service |-> se, seated |-> sd, start |-> st, end |-> en,
               minutes |-> mi, from |-> fr, to |-> t, through |-> << >>]
      BY <1>5, <2>1
    <2>3. l.from = fr /\ l.to = t
      BY <2>2
    <2>4. l = [kind |-> l.kind, service |-> l.service, seated |-> l.seated, start |-> l.start,
               end |-> l.end, minutes |-> l.minutes, from |-> l.from, to |-> l.to,
               through |-> << >>]
      BY <2>1, <2>2, <2>3
    <2>5. l.kind \in Kinds /\ l.seated \in BOOLEAN /\ l.minutes \in Int
      BY <1>5, <2>1 DEF Kinds
    <2> QED
      BY <2>1, <2>4, <2>5 DEF IsStoredLeg
  <1>8. ASSUME NEW i \in 1 .. n, L[i].seated
        PROVE  ~IsWalk(L[i]) /\ i > 1 /\ ~IsWalk(L[i - 1])
    <2>0. L[i].kind # "walk" /\ i > 1 /\ L[i - 1].kind # "walk"
      <3>1. L[i].seated => L[i].kind # "walk" /\ i > 1 /\ L[i - 1].kind # "walk"
        BY <1>5
      <3> QED
        BY <1>8, <3>1, Zenon
    <2>1. L[i].kind # "walk" /\ i > 1 /\ L[i - 1].kind # "walk" /\ i - 1 \in 1 .. n
      BY <1>3, <2>0
    <2>2. L[i].kind # "named walk" /\ L[i - 1].kind # "named walk"
      BY <1>5, <2>1
    <2> QED
      BY <2>1, <2>2 DEF IsWalk
  <1>9. IsStored(L)
    BY <1>1, <1>2, <1>3, <1>7, <1>8 DEF IsStored
  <1> QED
    BY <1>3, <1>6, <1>9

\* No leg starts before any of those before it has ended.
LEMMA LegsInOrder ==
  ASSUME NEW L, NEW n, AreGiven(L, n), NEW i \in 1 .. n, NEW j \in 1 .. n, i < j
  PROVE  L[i].end <= L[j].start
  <1>1. n \in Nat /\ i \in Nat
    BY DEF AreGiven
  <1>2. \A k \in 1 .. n : L[k].start \in Int /\ L[k].end \in Int /\ L[k].start <= L[k].end
    BY DEF AreGiven, IsSpell
  <1>3. \A k \in 1 .. n : k > 1 => L[k - 1].end <= L[k].start
    BY DEF AreGiven
  <1> DEFINE wrong == {k \in Nat : k \in 1 .. n /\ i < k /\ ~(L[i].end <= L[k].start)}
  <1>4. ASSUME wrong # {} PROVE FALSE
    <2>1. PICK k \in wrong : \A m \in wrong : k <= m
      <3>1. wrong \in SUBSET Nat
        OBVIOUS
      <3> HIDE DEF wrong
      <3> QED
        BY <1>4, <3>1, LeastNumber
    <2>2. k \in Nat /\ k \in 1 .. n /\ i < k /\ ~(L[i].end <= L[k].start)
      OBVIOUS
    <2>3. k > 1 /\ k - 1 \in 1 .. n /\ k - 1 \in Nat /\ ~(k <= k - 1)
      BY <1>1, <2>2
    <2>4. L[k - 1].end <= L[k].start
      BY <1>3, <2>2, <2>3
    <2>5. i # k - 1
      BY <2>2, <2>4
    <2>6. i < k - 1
      BY <1>1, <2>2, <2>3, <2>5
    <2>7. k - 1 \notin wrong
      BY <2>1, <2>3
    <2>8. L[i].end <= L[k - 1].start
      BY <2>3, <2>6, <2>7
    <2>9. L[i].end \in Int /\ L[k - 1].start \in Int /\ L[k - 1].end \in Int /\ L[k].start \in Int
      BY <1>2, <2>2, <2>3
    <2>10. L[k - 1].start <= L[k - 1].end
      BY <1>2, <2>3
    <2>11. L[i].end <= L[k].start
      BY <2>4, <2>8, <2>9, <2>10
    <2> QED
      BY <2>2, <2>11
  <1>5. j \in Nat /\ j \notin wrong
    BY <1>1, <1>4
  <1> QED
    BY <1>5

\* The legs of an itinerary are displayed one after the other.
LEMMA DisplayedAreTimed ==
  ASSUME NEW L, IsItinerary(L), NEW D, NEW h, AreDisplayed(D, h, L)
  PROVE  AreTimed(D)
  <1>0. PICK n, c : n = Len(L) /\ c = Len(D)
    OBVIOUS
  <1>1. IsStored(L) /\ AreGiven(L, n)
    BY <1>0, ItineraryIsStored
  <1>2. IsRow(D) /\ c \in Nat /\ DOMAIN D = 1 .. c /\ n \in Nat
    BY <1>0, <1>1 DEF AreDisplayed, AreGiven, IsRow
  <1>3. /\ h \in [1 .. c -> 1 .. n]
        /\ \A m, j \in 1 .. c : m < j => h[m] < h[j]
        /\ \A m \in 1 .. c : IsDisplayedLeg(D[m], L, h[m], TailOf(h, c, n, m))
    BY <1>0 DEF AreDisplayed
  <1>4. \A k \in 1 .. n : /\ L[k].start \in Int /\ L[k].end \in Int /\ L[k].start <= L[k].end
                          /\ L[k].from.zone \in Int /\ L[k].to.zone \in Int
    BY <1>1 DEF AreGiven, IsSpell
  <1>5. ASSUME NEW m \in 1 .. c
        PROVE  /\ TailOf(h, c, n, m) \in 1 .. n /\ h[m] <= TailOf(h, c, n, m)
               /\ IsWalk(L[h[m]]) => TailOf(h, c, n, m) = h[m]
               /\ h[m] \in 1 .. n
               /\ D[m].start = L[h[m]].start /\ D[m].from = L[h[m]].from
               /\ D[m].end = L[TailOf(h, c, n, m)].end /\ D[m].to = L[TailOf(h, c, n, m)].to
               /\ IsRide(D[m]) <=> L[h[m]].kind # "walk"
               /\ TailOf(h, c, n, m) = h[m] => D[m].minutes = L[h[m]].minutes
    <2>1. /\ TailOf(h, c, n, m) \in 1 .. n /\ h[m] <= TailOf(h, c, n, m)
          /\ IsWalk(L[h[m]]) => TailOf(h, c, n, m) = h[m]
          /\ h[m] \in 1 .. n
      BY <1>0, <1>1, SeatedWithin
    <2>2. IsDisplayedLeg(D[m], L, h[m], TailOf(h, c, n, m))
      BY <1>3
    <2> QED
      BY <2>1, <2>2 DEF IsDisplayedLeg
  <1>6. ASSUME NEW m \in 1 .. c
        PROVE  IsSpell(D[m]) /\ D[m].from.zone \in Int /\ D[m].to.zone \in Int
    <2>1. PICK a \in 1 .. n, b \in 1 .. n : a = h[m] /\ b = TailOf(h, c, n, m)
      BY <1>5
    <2>2. /\ a <= b /\ D[m].start = L[a].start /\ D[m].from = L[a].from
          /\ D[m].end = L[b].end /\ D[m].to = L[b].to
      BY <1>5, <2>1
    <2>3. L[a].start <= L[b].end
      <3>1. CASE a = b
        BY <1>4, <3>1
      <3>2. CASE a # b
        <4>1. a < b
          BY <1>2, <2>2, <3>2
        <4>2. L[a].end <= L[b].start
          BY <1>1, <4>1, LegsInOrder
        <4>3. /\ L[a].start \in Int /\ L[a].end \in Int /\ L[b].start \in Int /\ L[b].end \in Int
              /\ L[a].start <= L[a].end /\ L[b].start <= L[b].end
          BY <1>4
        <4> QED
          BY <4>2, <4>3
      <3> QED
        BY <3>1, <3>2
    <2> QED
      BY <1>4, <2>2, <2>3 DEF IsSpell
  <1>7. ASSUME NEW m \in 1 .. c, NEW j \in 1 .. c, m < j PROVE D[m].end <= D[j].start
    <2>1. m < c /\ m + 1 \in 1 .. c /\ (m + 1 = j \/ m + 1 < j)
      BY <1>2, <1>7
    <2>2. PICK a, b : a = h[m + 1] /\ b = h[j]
      OBVIOUS
    <2>3. a \in 1 .. n /\ b \in 1 .. n
      BY <1>3, <2>1, <2>2
    <2>4. a = b \/ a < b
      BY <1>3, <2>1, <2>2
    <2>5. TailOf(h, c, n, m) = a - 1
      BY <2>1, <2>2 DEF TailOf
    <2>6. a - 1 \in 1 .. n /\ a - 1 < b
      BY <1>2, <1>5, <2>3, <2>4, <2>5
    <2>7. L[a - 1].end <= L[b].start
      BY <1>1, <2>3, <2>6, LegsInOrder
    <2>8. D[m].end = L[a - 1].end /\ D[j].start = L[b].start
      BY <1>5, <2>2, <2>5
    <2> QED
      BY <2>7, <2>8
  <1>8. ASSUME NEW m \in 1 .. c, ~IsRide(D[m]), D[m].minutes = 0, m > 1
        PROVE  D[m].end = D[m - 1].end /\ D[m].to.zone = D[m - 1].to.zone
    <2>1. m - 1 \in 1 .. c /\ m - 1 < m /\ m - 1 < c /\ (m - 1) + 1 = m
      BY <1>2, <1>8
    <2>2. PICK a : a = h[m]
      OBVIOUS
    <2>3. L[a].kind = "walk" /\ a \in 1 .. n
      BY <1>5, <1>8, <2>2
    <2>4. IsWalk(L[a])
      BY <2>3 DEF IsWalk
    <2>5. TailOf(h, c, n, m) = a
      BY <1>5, <2>2, <2>4
    <2>6. L[a].minutes = 0 /\ D[m].end = L[a].end /\ D[m].to = L[a].to
      BY <1>5, <1>8, <2>2, <2>5
    <2>7. TailOf(h, c, n, m - 1) = a - 1
      BY <2>1, <2>2 DEF TailOf
    <2>8. D[m - 1].end = L[a - 1].end /\ D[m - 1].to = L[a - 1].to
      BY <1>5, <2>1, <2>7
    <2>9. a > 1
      <3>1. h[m - 1] < h[m] /\ h[m - 1] \in 1 .. n
        BY <1>3, <2>1
      <3> QED
        BY <1>2, <2>2, <2>3, <3>1
    <2>10. StandsStill(L[a]) /\ Continues(L[a], L[a - 1])
      BY <1>1, <2>3, <2>6, <2>9 DEF AreGiven
    <2> QED
      BY <2>6, <2>8, <2>10 DEF StandsStill, Continues
  <1> QED
    BY <1>2, <1>6, <1>7, <1>8 DEF AreTimed

-----------------------------------------------------------------------------
(* The timeline tells the journey.                                          *)

\* The items of a kind.
LEMMA OfKindIs ==
  ASSUME NEW items, IsRow(items), NEW kind
  PROVE  /\ OfKind(items, kind) = AtPlaces(items, KindPlaces(items, kind))
         /\ Len(OfKind(items, kind)) = Cardinality(KindPlaces(items, kind))
         /\ KindPlaces(items, kind) \in SUBSET (1 .. Len(items)) /\ Len(items) \in Nat
  <1>1. PICK at : at = KindPlaces(items, kind)
    OBVIOUS
  <1>2. OfKind(items, kind) = AtPlaces(items, at)
    BY <1>1 DEF OfKind, Where, KindPlaces
  <1>3. items \in Seq(Range(items)) /\ at \in SUBSET (DOMAIN items)
    BY <1>1 DEF IsRow, KindPlaces
  <1>4. Len(items) \in Nat /\ DOMAIN items = 1 .. Len(items)
    BY <1>3
  <1>5. Len(AtPlaces(items, at)) = Cardinality(at)
    BY <1>3, AtPlacesIsSequence
  <1> QED
    BY <1>1, <1>2, <1>3, <1>4, <1>5

\* What stands at the first and at the last of some places.
LEMMA EndsOfPlaces ==
  ASSUME NEW s, IsRow(s), NEW at \in SUBSET (1 .. Len(s)), NEW p, NEW q, AreEnds(p, q, at)
  PROVE  /\ AtPlaces(s, at)[1] = s[p] /\ AtPlaces(s, at)[Cardinality(at)] = s[q]
         /\ p \in at /\ q \in at
  <1>1. PICK n \in Nat : n = Len(s) /\ DOMAIN s = 1 .. n /\ s \in Seq(Range(s))
    BY DEF IsRow
  <1>2. PICK r : r = Places(at)
    OBVIOUS
  <1>3. /\ IsNumbering(r, at)
        /\ \A i \in 1 .. Cardinality(at) : AtPlaces(s, at)[i] = s[r[i]]
    <2>1. at \in SUBSET (DOMAIN s) /\ s \in Seq(Range(s))
      BY <1>1
    <2>2. /\ IsNumbering(Places(at), at)
          /\ \A i \in 1 .. Cardinality(at) : AtPlaces(s, at)[i] = s[Places(at)[i]]
      BY <2>1, AtPlacesIsSequence
    <2> QED
      BY <1>2, <2>2
  <1>4. PICK c \in Nat : c = Cardinality(at)
    BY <1>3 DEF IsNumbering
  <1>5. /\ r \in [1 .. c -> at] /\ \A x \in at : \E i \in 1 .. c : r[i] = x
        /\ \A i, j \in 1 .. c : i < j => r[i] < r[j]
    BY <1>3, <1>4 DEF IsNumbering
  <1>6. p \in at /\ q \in at /\ \A j \in at : p <= j /\ j <= q
    BY DEF AreEnds
  <1>7. \A i \in 1 .. c : r[i] \in at /\ r[i] \in Nat
    <2>1. \A x \in at : x \in Nat
      BY <1>1
    <2> QED
      BY <1>5, <2>1
  <1>8. PICK i \in 1 .. c, j \in 1 .. c : r[i] = p /\ r[j] = q
    BY <1>5, <1>6
  <1>9. 1 \in 1 .. c /\ c \in 1 .. c
    BY <1>4, <1>8
  <1>10. r[1] = p
    <2>1. ASSUME i # 1 PROVE FALSE
      <3>1. r[1] < r[i]
        <4>1. 1 < i
          BY <1>4, <2>1
        <4> QED
          BY <1>5, <1>9, <4>1
      <3>2. p <= r[1] /\ r[1] \in Nat /\ p \in Nat
        BY <1>6, <1>7, <1>8, <1>9
      <3> QED
        BY <1>8, <3>1, <3>2
    <2> QED
      BY <1>8, <2>1
  <1>11. r[c] = q
    <2>1. ASSUME j # c PROVE FALSE
      <3>1. r[j] < r[c]
        <4>1. j < c
          BY <1>4, <2>1
        <4> QED
          BY <1>5, <1>9, <4>1
      <3>2. r[c] <= q /\ r[c] \in Nat /\ q \in Nat
        BY <1>6, <1>7, <1>8, <1>9
      <3> QED
        BY <1>8, <3>1, <3>2
    <2> QED
      BY <1>8, <2>1
  <1> QED
    BY <1>3, <1>4, <1>6, <1>9, <1>10, <1>11

\* The legs in which a traveler takes a seat.
Boarded(L) == {i \in DOMAIN L : IsMoved(L[i]) /\ ~L[i].seated}

\* There are as many as displayed rides.
LEMMA BoardedAreRides ==
  ASSUME NEW L, IsItinerary(L), NEW D, NEW h, AreDisplayed(D, h, L)
  PROVE  Cardinality(RidesUpTo(D, Len(D))) = Cardinality(Boarded(L))
  <1>0. PICK n, c : n = Len(L) /\ c = Len(D)
    OBVIOUS
  <1>1. IsStored(L) /\ AreGiven(L, n)
    BY <1>0, ItineraryIsStored
  <1>2. c \in Nat /\ n \in Nat /\ DOMAIN L = 1 .. n
    BY <1>0, <1>1 DEF AreDisplayed, AreGiven, IsRow
  <1>3. /\ h \in [1 .. c -> 1 .. n]
        /\ \A m, j \in 1 .. c : m < j => h[m] < h[j]
        /\ \A i \in 1 .. n : ~L[i].seated => \E m \in 1 .. c : h[m] = i
        /\ \A m \in 1 .. c : ~L[h[m]].seated
        /\ \A m \in 1 .. c : IsDisplayedLeg(D[m], L, h[m], TailOf(h, c, n, m))
    BY <1>0 DEF AreDisplayed
  <1>4. ASSUME NEW m \in 1 .. c PROVE IsRide(D[m]) <=> IsMoved(L[h[m]])
    <2>1. IsRide(D[m]) <=> L[h[m]].kind # "walk"
      BY <1>3 DEF IsDisplayedLeg
    <2>2. L[h[m]].kind # "named walk"
      <3>1. h[m] \in 1 .. n
        BY <1>3
      <3> QED
        BY <1>1, <3>1 DEF AreGiven
    <2> QED
      BY <2>1, <2>2 DEF IsMoved, IsWalk
  <1> DEFINE R == RidesUpTo(D, c)
             B == Boarded(L)
             g == [m \in R |-> h[m]]
  <1>5. R \in SUBSET (1 .. c) /\ \A m \in 1 .. c : m \in R <=> IsRide(D[m])
    BY DEF RidesUpTo
  <1>6. \A i : i \in B <=> i \in 1 .. n /\ IsMoved(L[i]) /\ ~L[i].seated
    BY <1>2 DEF Boarded
  <1>7. IsFiniteSet(R)
    <2>1. IsFiniteSet(1 .. c)
      BY <1>2, FS_Interval
    <2> HIDE DEF R
    <2> QED
      BY <1>5, <2>1, FS_Subset
  <1> HIDE DEF R, B
  <1>8. \A m \in R : g[m] = h[m] /\ m \in 1 .. c
    BY <1>5
  <1>9. g \in [R -> B]
    <2>1. ASSUME NEW m \in R PROVE h[m] \in B
      <3>1. m \in 1 .. c /\ IsRide(D[m])
        BY <1>5
      <3>2. h[m] \in 1 .. n /\ ~L[h[m]].seated /\ IsMoved(L[h[m]])
        BY <1>3, <1>4, <3>1
      <3> QED
        BY <1>6, <3>2
    <2> QED
      BY <2>1
  <1> HIDE DEF g
  <1>10. \A i \in B : \E m \in R : g[m] = i
    <2>1. ASSUME NEW i \in B PROVE \E m \in R : g[m] = i
      <3>1. PICK m \in 1 .. c : h[m] = i
        BY <1>3, <1>6
      <3>2. IsMoved(L[h[m]])
        BY <1>6, <3>1
      <3>3. m \in R
        BY <1>4, <1>5, <3>2
      <3> QED
        BY <1>8, <3>1, <3>3
    <2> QED
      BY <2>1
  <1>11. \A m, j \in R : g[m] = g[j] => m = j
    <2>1. ASSUME NEW m \in R, NEW j \in R, g[m] = g[j], m # j PROVE FALSE
      <3>1. m \in 1 .. c /\ j \in 1 .. c /\ h[m] = h[j]
        BY <1>8, <2>1
      <3>2. h[m] \in 1 .. n /\ h[j] \in 1 .. n
        BY <1>3, <3>1
      <3>3. m < j \/ j < m
        BY <1>2, <2>1, <3>1
      <3>4. h[m] < h[j] \/ h[j] < h[m]
        BY <1>3, <3>1, <3>3
      <3> QED
        BY <1>2, <3>1, <3>2, <3>4
    <2> QED
      BY <2>1
  <1>12. g \in Surjection(R, B) /\ g \in Injection(R, B)
    BY <1>9, <1>10, <1>11 DEF Surjection, Injection, IsInjective
  <1>13. Cardinality(B) = Cardinality(R)
    BY <1>7, <1>12, FS_Surjection
  <1> QED
    BY <1>0, <1>13 DEF R, B

\* No leg is behind the last one.
LEMMA NothingComes ==
  ASSUME NEW D, IsRow(D)
  PROVE  RidesAfter(D, Len(D)) = {}
  <1>1. PICK c \in Nat : c = Len(D)
    BY DEF IsRow
  <1>2. c + 1 .. c = {}
    BY <1>1
  <1> QED
    BY <1>1, <1>2 DEF RidesAfter

\* The timeline of an itinerary has a ride for every service the traveler boards and
\* one change fewer, each right after a ride; rides and changes take every minute
\* from the first ride's start to the last one's end; a walk at an end of the journey
\* is shown at that end (buildTimelineItems and computeTransferBreakdown of
\* journey-itinerary-presentation.ts, for itineraries of any length).
THEOREM JourneyIsTold ==
  ASSUME IsItinerary(itinerary)
  PROVE  TimelineTellsTheJourney
  <1>1. IsStored(itinerary) /\ AreGiven(itinerary, Len(itinerary))
    BY ItineraryIsStored
  <1>2. PICK D : D = DisplayLegs(itinerary)
    OBVIOUS
  <1>3. PICK h : AreDisplayed(D, h, itinerary)
    BY <1>1, <1>2, LegsAreDisplayed
  <1>4. IsRow(D) /\ AreTimed(D)
    BY <1>3, DisplayedAreTimed DEF AreTimed
  <1>5. itinerary[1].start \in Int
    <2>1. 1 \in 1 .. Len(itinerary)
      BY <1>1 DEF AreGiven
    <2> QED
      BY <1>1, <2>1 DEF AreGiven, IsSpell
  <1>6. PICK c, told, items, s : /\ c = Len(D) /\ told = Telling(D)[Len(D)]
                                 /\ items = told.items /\ s = ServicesOf(itinerary)
    OBVIOUS
  <1>7. TellsUpTo(itinerary, h, D, s, c, told)
    BY <1>1, <1>3, <1>6, TimelineTells
  <1>8. items = buildTimelineItems(itinerary)
    BY <1>2, <1>6 DEF buildTimelineItems, TimelineOf
  <1>9. RidesAfter(D, c) = {}
    BY <1>4, <1>6, NothingComes
  <1>10. /\ CountsRides(D, c, items) /\ ChangesFollow(D, c, items) /\ WalksAtEnds(D, c, items)
         /\ Accounts(D, c, items)
    BY <1>4, <1>5, <1>6, <1>7 DEF TellsUpTo
  <1>11. IsRow(items)
    BY <1>10 DEF ChangesFollow
  <1>12. PICK rides, changes, boarded, at :
           /\ rides = OfKind(items, "ride") /\ changes = OfKind(items, "transfer")
           /\ boarded = Where(itinerary, LAMBDA l : IsMoved(l) /\ ~l.seated)
           /\ at = KindPlaces(items, "ride")
    OBVIOUS
  <1>13. /\ rides = AtPlaces(items, at) /\ Len(rides) = Cardinality(at)
         /\ at \in SUBSET (1 .. Len(items))
         /\ Len(changes) = Cardinality(KindPlaces(items, "transfer"))
    BY <1>11, <1>12, OfKindIs
  <1>14. Len(boarded) = Cardinality(Boarded(itinerary))
    <2>1. PICK b : b = Boarded(itinerary)
      OBVIOUS
    <2>2. boarded = AtPlaces(itinerary, b)
      BY <1>12, <2>1 DEF Where, Boarded
    <2>3. itinerary \in Seq(Range(itinerary)) /\ b \in SUBSET (DOMAIN itinerary)
      BY <1>1, <2>1 DEF IsStored, IsRow, Boarded
    <2>4. Len(AtPlaces(itinerary, b)) = Cardinality(b)
      BY <2>3, AtPlacesIsSequence
    <2> QED
      BY <2>1, <2>2, <2>4
  <1>15. Cardinality(RidesUpTo(D, c)) = Len(boarded)
    BY <1>3, <1>6, <1>14, BoardedAreRides
  <1>16. Len(rides) = Len(boarded) /\ Len(changes) = AtLeast0(Len(boarded) - 1)
    BY <1>10, <1>12, <1>13, <1>15 DEF CountsRides
  <1>17. \A i \in DOMAIN items : items[i].kind = "transfer" => i > 1 /\ items[i - 1].kind = "ride"
    BY <1>10 DEF ChangesFollow
  <1>18. ASSUME rides # << >>
         PROVE  Total([i \in DOMAIN items |-> Spent(items[i])])
                = rides[Len(rides)].leg.end - rides[1].leg.start
    <2>1. at # {}
      <3>1. ASSUME at = {} PROVE FALSE
        <4>1. Cardinality(at) = 0 /\ 1 .. 0 = {}
          BY <3>1, FS_EmptySet
        <4>2. rides = [i \in {} |-> items[Places(at)[i]]]
          BY <1>13, <4>1 DEF AtPlaces
        <4> QED
          BY <1>18, <4>2
      <3> QED
        BY <3>1
    <2>2. PICK v : /\ SpendsOf(items, v)
                   /\ RidesUpTo(D, c) = {} => v = 0 /\ at = {}
                   /\ RidesUpTo(D, c) # {} =>
                        \E f, l, p, q :
                          /\ AreEnds(f, l, RidesUpTo(D, c)) /\ v = D[l].end - D[f].start
                          /\ AreEnds(p, q, at) /\ items[p].leg = D[f] /\ items[q].leg = D[l]
      BY <1>10, <1>12 DEF Accounts
    <2>3. PICK f, l, p, q : /\ v = D[l].end - D[f].start /\ AreEnds(p, q, at)
                            /\ items[p].leg = D[f] /\ items[q].leg = D[l]
      BY <2>1, <2>2
    <2>4. rides[1] = items[p] /\ rides[Len(rides)] = items[q]
      BY <1>11, <1>13, <2>3, EndsOfPlaces
    <2>5. Total([i \in DOMAIN items |-> Spent(items[i])]) = v
      BY <2>2 DEF SpendsOf
    <2> QED
      BY <2>3, <2>4, <2>5
  <1>19. ASSUME NEW i \in DOMAIN items, items[i].kind = "walk", items[i].role # "standalone"
         PROVE  RideComes(items, i) <=> items[i].role = "initial"
    <2>1. /\ items[i].role \in {"initial", "final", "standalone"}
          /\ items[i].role = "initial" => RideComes(items, i)
          /\ items[i].role = "final" => ~RideComes(items, i)
      BY <1>9, <1>10, <1>19 DEF WalksAtEnds
    <2> QED
      BY <1>19, <2>1
  <1>20. \A i \in DOMAIN items :
           items[i].kind = "walk" /\ items[i].role # "standalone" =>
             ((\E j \in i .. Len(items) : items[j].kind = "ride") <=> items[i].role = "initial")
    BY <1>19 DEF RideComes
  <1> QED
    BY <1>8, <1>12, <1>16, <1>17, <1>18, <1>20 DEF TimelineTellsTheJourney

\* A row on another day than those on which the row before it was over has a
\* separator before it, for itineraries of any length (pushDateSeparatorIfNeeded of
\* journey-itinerary-presentation.ts, journey-itinerary-timeline.tsx).
THEOREM DaysAreSeparated ==
  ASSUME IsItinerary(itinerary)
  PROVE  DayTurnsAreSeparated
  <1>1. IsStored(itinerary) /\ AreGiven(itinerary, Len(itinerary))
    BY ItineraryIsStored
  <1>2. PICK D : D = DisplayLegs(itinerary)
    OBVIOUS
  <1>3. PICK h : AreDisplayed(D, h, itinerary)
    BY <1>1, <1>2, LegsAreDisplayed
  <1>4. IsRow(D) /\ AreTimed(D)
    BY <1>3, DisplayedAreTimed DEF AreTimed
  <1>5. PICK n \in Nat : n = Len(itinerary) /\ n > 0
    BY <1>1 DEF AreGiven
  <1>6. \A i \in 1 .. n : /\ itinerary[i].start \in Int /\ itinerary[i].end \in Int
                          /\ itinerary[i].from.zone \in Int /\ itinerary[i].to.zone \in Int
    BY <1>1, <1>5 DEF AreGiven, IsSpell
  <1>7. 1 \in 1 .. n /\ n \in 1 .. n
    BY <1>5
  <1>8. PICK c, told, items, s : /\ c = Len(D) /\ told = Telling(D)[Len(D)]
                                 /\ items = told.items /\ s = ServicesOf(itinerary)
    OBVIOUS
  <1>9. TellsUpTo(itinerary, h, D, s, c, told)
    BY <1>1, <1>3, <1>8, TimelineTells
  <1>10. items = buildTimelineItems(itinerary)
    BY <1>2, <1>8 DEF buildTimelineItems, TimelineOf
  <1>11. RidesAfter(D, c) = {}
    BY <1>4, <1>8, NothingComes
  <1>12. Separates(D, c, told)
    BY <1>4, <1>6, <1>7, <1>9 DEF TellsUpTo
  <1>13. PICK v : /\ RowsAre(items, v) /\ AreSeparated(v)
                  /\ Len(v) > 0 => Day(D[c].end, D[c].to.zone) \in v[Len(v)].until
    BY <1>8, <1>11, <1>12 DEF Separates
  <1>14. v \in Seq(RowType) /\ FlattenSeq([i \in DOMAIN items |-> RowsOf(items, i)]) = v
    BY <1>13 DEF RowsAre
  <1>15. PICK leg : leg = itinerary[n]
    OBVIOUS
  <1>16. D[c].end = leg.end /\ D[c].to = leg.to
    <2>1. c \in 1 .. c /\ ~(c < c)
      BY <1>3, <1>4, <1>8 DEF AreDisplayed, IsRow
    <2>2. TailOf(h, c, n, c) = n
      BY <2>1 DEF TailOf
    <2>3. IsDisplayedLeg(D[c], itinerary, h[c], TailOf(h, c, n, c))
      BY <1>3, <1>5, <1>8, <2>1 DEF AreDisplayed
    <2> QED
      BY <1>15, <2>2, <2>3 DEF IsDisplayedLeg
  <1>17. PICK r : r = Arrival
    OBVIOUS
  <1>18. PICK p : p = TimeAt(leg.start, leg.from.zone)
    OBVIOUS
  <1>19. p.known => p.time \in Int /\ p.zone \in Int
    BY <1>6, <1>7, <1>15, <1>18 DEF TimeAt
  <1>20. r = StopTime(leg.end, leg.to.zone, p)
    BY <1>5, <1>15, <1>17, <1>18 DEF Arrival
  <1>21. r \in RowType /\ r.day = Day(leg.end, leg.to.zone)
    <2>1. leg.end \in Int /\ leg.to.zone \in Int /\ itinerary[1].start \in Int
      BY <1>6, <1>7, <1>15
    <2> QED
      BY <1>19, <1>20, <2>1, StopTimeIs
  <1>22. PICK w : w = <<r>>
    OBVIOUS
  <1>23. w \in Seq(RowType) /\ Len(w) = 1 /\ w[1] = r
    BY <1>21, <1>22, FewRows
  <1>24. AreSeparated(w)
    <2>1. 2 .. 1 = {}
      OBVIOUS
    <2> QED
      BY <1>23, <2>1 DEF AreSeparated
  <1>25. Len(v) > 0 /\ Len(w) > 0 => (w[1].day \notin v[Len(v)].until => w[1].separator)
    BY <1>13, <1>16, <1>21, <1>23
  <1>26. AreSeparated(v \o w)
    BY <1>13, <1>14, <1>23, <1>24, <1>25, SeparatedTogether
  <1>27. Rows = v \o w
    BY <1>10, <1>14, <1>17, <1>22 DEF Rows
  <1> QED
    BY <1>26, <1>27 DEF AreSeparated, DayTurnsAreSeparated

-----------------------------------------------------------------------------
(* Places among places.                                                     *)

\* q is taken through the places at, to those of Q.
IsThrough(n, c, q, at, Q) ==
  /\ n \in Nat /\ c \in Nat /\ q \in [1 .. c -> 1 .. n] /\ at \in SUBSET (1 .. c)
  /\ \A i, j \in 1 .. c : i < j => q[i] < q[j]
  /\ Q = {q[i] : i \in at}

\* Then they are in the same order.
LEMMA PlacesThrough ==
  ASSUME NEW n, NEW c, NEW q, NEW at, NEW Q, IsThrough(n, c, q, at, Q)
  PROVE  /\ Cardinality(Q) = Cardinality(at) /\ Q \in SUBSET (1 .. n)
         /\ Places(Q) = [i \in 1 .. Cardinality(at) |-> q[Places(at)[i]]]
  <1>1. /\ n \in Nat /\ c \in Nat /\ q \in [1 .. c -> 1 .. n] /\ at \in SUBSET (1 .. c)
        /\ \A i, j \in 1 .. c : i < j => q[i] < q[j]
        /\ Q = {q[i] : i \in at}
    BY DEF IsThrough
  <1>2. PICK p : p = Places(at)
    OBVIOUS
  <1>3. IsNumbering(p, at)
    BY <1>1, <1>2, PlacesAreNumbered
  <1>4. PICK k \in Nat : k = Cardinality(at)
    BY <1>3 DEF IsNumbering
  <1>5. /\ p \in [1 .. k -> at] /\ \A x \in at : \E i \in 1 .. k : p[i] = x
        /\ \A i, j \in 1 .. k : i < j => p[i] < p[j]
    BY <1>3, <1>4 DEF IsNumbering
  <1>6. Q \in SUBSET (1 .. n)
    BY <1>1
  <1> DEFINE r == [i \in 1 .. k |-> q[p[i]]]
  <1>7. \A i \in 1 .. k : r[i] = q[p[i]] /\ p[i] \in at /\ p[i] \in 1 .. c
    BY <1>1, <1>5
  <1>8. r \in [1 .. k -> Q]
    BY <1>1, <1>5
  <1> HIDE DEF r
  <1>9. \A x \in Q : \E i \in 1 .. k : r[i] = x
    BY <1>1, <1>5, <1>7
  <1>10. \A i, j \in 1 .. k : i < j => r[i] < r[j]
    <2>1. ASSUME NEW i \in 1 .. k, NEW j \in 1 .. k, i < j PROVE r[i] < r[j]
      <3>1. p[i] < p[j] /\ p[i] \in 1 .. c /\ p[j] \in 1 .. c
        BY <1>5, <1>7, <2>1
      <3>2. q[p[i]] < q[p[j]]
        BY <1>1, <3>1
      <3> QED
        BY <1>7, <3>2
    <2> QED
      BY <2>1
  <1>11. Cardinality(Q) = k /\ Places(Q) = r
    BY <1>1, <1>6, <1>8, <1>9, <1>10, NumberedIs, ZenonT(60)
  <1> QED
    BY <1>2, <1>4, <1>6, <1>11 DEF r

\* What stands at some of some places is some of what stands at them.
LEMMA AmongPlaces ==
  ASSUME NEW s, IsRow(s), NEW M \in SUBSET (1 .. Len(s)), NEW Q \in SUBSET M
  PROVE  \E some \in SUBSET (DOMAIN AtPlaces(s, M)) :
           AtPlaces(s, Q) = AtPlaces(AtPlaces(s, M), some)
  <1>1. PICK n \in Nat : n = Len(s) /\ DOMAIN s = 1 .. n
    BY DEF IsRow
  <1>2. PICK p, t : p = Places(M) /\ t = AtPlaces(s, M)
    OBVIOUS
  <1>3. IsNumbering(p, M)
    BY <1>1, <1>2, PlacesAreNumbered
  <1>4. PICK c \in Nat : c = Cardinality(M)
    BY <1>3 DEF IsNumbering
  <1>5. /\ p \in [1 .. c -> M] /\ \A x \in M : \E i \in 1 .. c : p[i] = x
        /\ \A i, j \in 1 .. c : i < j => p[i] < p[j]
    BY <1>3, <1>4 DEF IsNumbering
  <1>6. t = [i \in 1 .. c |-> s[p[i]]]
    BY <1>2, <1>4 DEF AtPlaces
  <1> DEFINE some == {i \in 1 .. c : p[i] \in Q}
  <1>7. some \in SUBSET (1 .. c) /\ \A i \in 1 .. c : i \in some <=> p[i] \in Q
    OBVIOUS
  <1> HIDE DEF some
  <1>8. Q = {p[i] : i \in some}
    BY <1>5, <1>7
  <1>9. p \in [1 .. c -> 1 .. n]
    BY <1>1, <1>5
  <1>10. IsThrough(n, c, p, some, Q)
    BY <1>5, <1>7, <1>8, <1>9 DEF IsThrough
  <1>11. PICK k, r : k = Cardinality(some) /\ r = Places(some)
    OBVIOUS
  <1>12. Cardinality(Q) = k /\ Places(Q) = [i \in 1 .. k |-> p[r[i]]]
    BY <1>10, <1>11, PlacesThrough
  <1>13. AtPlaces(s, Q) = [i \in 1 .. k |-> s[p[r[i]]]]
    BY <1>12 DEF AtPlaces
  <1>14. AtPlaces(t, some) = [i \in 1 .. k |-> t[r[i]]]
    BY <1>11 DEF AtPlaces
  <1>15. \A i \in 1 .. k : r[i] \in 1 .. c
    <2>1. IsNumbering(r, some)
      BY <1>7, <1>11, PlacesAreNumbered
    <2> QED
      BY <1>7, <1>11, <2>1 DEF IsNumbering
  <1>16. \A i \in 1 .. k : t[r[i]] = s[p[r[i]]]
    BY <1>6, <1>15
  <1>17. AtPlaces(s, Q) = AtPlaces(t, some)
    BY <1>13, <1>14, <1>16
  <1>18. DOMAIN t = 1 .. c
    BY <1>6
  <1> QED
    BY <1>2, <1>7, <1>17, <1>18

\* Services of the legs at some places are at those places of the services.
LEMMA ServicesAtPlaces ==
  ASSUME NEW L, IsRow(L), NEW at \in SUBSET (1 .. Len(L))
  PROVE  ServicesOf(AtPlaces(L, at)) = AtPlaces(ServicesOf(L), at)
  <1>1. PICK n \in Nat : n = Len(L) /\ DOMAIN L = 1 .. n
    BY DEF IsRow
  <1>2. PICK p : p = Places(at)
    OBVIOUS
  <1>3. IsNumbering(p, at)
    BY <1>1, <1>2, PlacesAreNumbered
  <1>4. PICK c \in Nat : c = Cardinality(at)
    BY <1>3 DEF IsNumbering
  <1>5. \A i \in 1 .. c : p[i] \in 1 .. n
    BY <1>1, <1>3, <1>4 DEF IsNumbering
  <1>6. PICK t, s : t = AtPlaces(L, at) /\ s = ServicesOf(L)
    OBVIOUS
  <1>7. t = [i \in 1 .. c |-> L[p[i]]]
    BY <1>2, <1>4, <1>6 DEF AtPlaces
  <1>8. s = [i \in 1 .. n |-> L[i].service]
    BY <1>1, <1>6 DEF ServicesOf
  <1>9. DOMAIN t = 1 .. c
    BY <1>7
  <1>10. ServicesOf(t) = [i \in 1 .. c |-> t[i].service]
    BY <1>9 DEF ServicesOf
  <1>11. AtPlaces(s, at) = [i \in 1 .. c |-> s[p[i]]]
    BY <1>2, <1>4 DEF AtPlaces
  <1>12. ASSUME NEW i \in 1 .. c PROVE t[i].service = s[p[i]]
    <2>1. t[i] = L[p[i]]
      BY <1>7
    <2>2. s[p[i]] = L[p[i]].service
      BY <1>5, <1>8
    <2> QED
      BY <2>1, <2>2
  <1>13. ServicesOf(t) = AtPlaces(s, at)
    BY <1>10, <1>11, <1>12
  <1> QED
    BY <1>6, <1>13

\* As many as there is room for, and at least one of them, are kept.
LEMMA CappedIs ==
  ASSUME NEW s, IsRow(s), NEW M \in SUBSET (1 .. Len(s))
  PROVE  \E cut \in SUBSET M : Capped(AtPlaces(s, M)) = AtPlaces(s, cut) /\ (cut = {} <=> M = {})
  <1>1. PICK n \in Nat : n = Len(s) /\ DOMAIN s = 1 .. n
    BY DEF IsRow
  <1>2. PICK p, t : p = Places(M) /\ t = AtPlaces(s, M)
    OBVIOUS
  <1>3. IsNumbering(p, M)
    BY <1>1, <1>2, PlacesAreNumbered
  <1>4. PICK c \in Nat : c = Cardinality(M)
    BY <1>3 DEF IsNumbering
  <1>5. /\ p \in [1 .. c -> M] /\ \A i, j \in 1 .. c : i < j => p[i] < p[j]
    BY <1>3, <1>4 DEF IsNumbering
  <1>6. t = [i \in 1 .. c |-> s[p[i]]]
    BY <1>2, <1>4 DEF AtPlaces
  <1>7. IsRow(t) /\ Len(t) = c
    <2>1. M \in SUBSET (DOMAIN s)
      BY <1>1
    <2>2. IsRow(AtPlaces(s, M))
      BY <2>1, AtPlacesIsRow
    <2>3. Len(t) = c
      <3>1. s \in Seq(Range(s))
        BY DEF IsRow
      <3> QED
        BY <1>2, <1>4, <2>1, <3>1, AtPlacesIsSequence
    <2> QED
      BY <1>2, <2>2, <2>3
  <1>8. PICK m \in Nat : m = SummaryMax /\ m # 0
    BY SummaryAssumption
  <1>9. CASE ~(c > m)
    <2>1. Capped(t) = t
      BY <1>7, <1>8, <1>9 DEF Capped
    <2> QED
      BY <1>2, <2>1
  <1>10. CASE c > m
    <2>1. Capped(t) = SubSeq(t, 1, m)
      BY <1>7, <1>8, <1>10 DEF Capped
    <2>2. SubSeq(t, 1, m) = [i \in 1 .. m |-> t[i]]
      <3>1. t \in Seq(Range(t)) /\ m <= Len(t)
        BY <1>7, <1>8, <1>10 DEF IsRow
      <3>2. PICK w : w = SubSeq(t, 1, m)
        OBVIOUS
      <3>3. w \in Seq(Range(t)) /\ Len(w) = m /\ \A i \in 1 .. m : w[i] = t[i]
        <4>1. 1 \in 1 .. Len(t) + 1 /\ m \in 0 .. Len(t) /\ 1 <= m
          BY <1>7, <1>8, <1>10
        <4>2. \A i \in 1 .. m : (1 + i) - 1 = i
          OBVIOUS
        <4> QED
          BY <3>1, <3>2, <4>1, <4>2, SubSeqProperties
      <3>4. w = [i \in 1 .. m |-> w[i]]
        BY <1>8, <3>3
      <3> QED
        BY <3>2, <3>3, <3>4
    <2> DEFINE cut == {p[i] : i \in 1 .. m}
               q == [i \in 1 .. m |-> p[i]]
    <2>3. \A i \in 1 .. m : i \in 1 .. c
      BY <1>4, <1>8, <1>10
    <2>4. cut \in SUBSET M /\ q \in [1 .. m -> cut] /\ p[1] \in cut
      <3>1. 1 \in 1 .. m
        BY <1>8
      <3> QED
        BY <1>5, <2>3, <3>1
    <2>5. \A i \in 1 .. m : q[i] = p[i]
      OBVIOUS
    <2>6. \A x \in cut : \E i \in 1 .. m : q[i] = x
      OBVIOUS
    <2> HIDE DEF cut, q
    <2>7. \A i, j \in 1 .. m : i < j => q[i] < q[j]
      BY <1>5, <2>3, <2>5
    <2>8. cut \in SUBSET (1 .. n)
      BY <1>1, <2>4
    <2>9. Cardinality(cut) = m /\ Places(cut) = q
      BY <2>4, <2>6, <2>7, <2>8, NumberedIs, SMTT(30)
    <2>10. AtPlaces(s, cut) = [i \in 1 .. m |-> s[q[i]]]
      BY <2>9 DEF AtPlaces
    <2>11. \A i \in 1 .. m : t[i] = s[q[i]]
      BY <1>6, <2>3, <2>5
    <2>12. Capped(t) = AtPlaces(s, cut)
      BY <2>1, <2>2, <2>10, <2>11
    <2>13. cut # {} /\ M # {}
      BY <2>4
    <2> QED
      BY <1>2, <2>4, <2>12, <2>13
  <1> QED
    BY <1>9, <1>10

-----------------------------------------------------------------------------
(* Chips and panel.                                                         *)

\* The chips tell some of the services, and none only where there is none.
AreChips(chips, L) ==
  \E Q \in SUBSET MovedUpTo(L, Len(L)) :
    chips = AtPlaces(ServicesOf(L), Q) /\ (Q = {} <=> MovedUpTo(L, Len(L)) = {})

\* A joined leg keeps the kind and the service it begins with.
LEMMA JoinedKeeps ==
  ASSUME NEW L, NEW a, NEW b, NEW x, IsJoined(x, L, a, b)
  PROVE  x.kind = L[a].kind /\ x.service = L[a].service
  <1>1. PICK ki, se, sd, st, en, mi, fr, t, th :
          /\ x = [kind |-> ki, service |-> se, seated |-> sd, start |-> st, end |-> en,
                  minutes |-> mi, from |-> fr, to |-> t, through |-> th]
          /\ ki = L[a].kind /\ se = L[a].service
    BY DEF IsJoined
  <1> QED
    BY <1>1

\* The chips of the provider's rides, if there is one that has a name.
LEMMA RidesAreChips ==
  ASSUME NEW L, IsItinerary(L), SummaryOfItinerary(L) # << >>
  PROVE  AreChips(ServicesOf(SummaryOfItinerary(L)), L)
  <1>1. PICK n : n = Len(L)
    OBVIOUS
  <1>2. /\ IsStored(L) /\ n \in Nat /\ DOMAIN L = 1 .. n
        /\ \A i \in 1 .. n : L[i].kind \in {"walk", "ride", "other"}
    BY <1>1, ItineraryIsStored DEF AreGiven
  <1>3. PICK J : J = Joined(L)
    OBVIOUS
  <1>4. PICK h : AreJoined(J, h, L, n)
    BY <1>1, <1>2, <1>3, JoinedIs
  <1>5. PICK c \in Nat : c = Len(J) /\ DOMAIN J = 1 .. c
    BY <1>4 DEF AreJoined, IsRow
  <1>6. /\ IsRow(J) /\ h \in [1 .. c -> 1 .. n]
        /\ \A m, j \in 1 .. c : m < j => h[m] < h[j]
        /\ \A m \in 1 .. c : IsJoined(J[m], L, h[m], TailOf(h, c, n, m))
    BY <1>4, <1>5 DEF AreJoined
  <1>7. ASSUME NEW m \in 1 .. c
        PROVE  J[m].kind = L[h[m]].kind /\ J[m].service = L[h[m]].service
    <2>1. PICK x, a, b : x = J[m] /\ a = h[m] /\ b = TailOf(h, c, n, m)
      OBVIOUS
    <2>2. IsJoined(x, L, a, b)
      BY <1>6, <2>1
    <2>3. x.kind = L[a].kind /\ x.service = L[a].service
      BY <2>2, JoinedKeeps
    <2> QED
      BY <2>1, <2>3
  <1>8. PICK R : R = {m \in DOMAIN J : IsRide(J[m])}
    OBVIOUS
  <1>9. R \in SUBSET (1 .. Len(J)) /\ R \in SUBSET (1 .. c)
    BY <1>5, <1>8
  <1>10. SummaryOfItinerary(L) = Capped(AtPlaces(J, R))
    BY <1>3, <1>8 DEF SummaryOfItinerary, Where
  <1>11. PICK cut \in SUBSET R : Capped(AtPlaces(J, R)) = AtPlaces(J, cut) /\ (cut = {} <=> R = {})
    <2>1. IsRow(J) /\ R \in SUBSET (1 .. Len(J))
      BY <1>6, <1>9
    <2> QED
      BY <2>1, CappedIs, ZenonT(60)
  <1>12. cut \in SUBSET (1 .. Len(J)) /\ cut \in SUBSET (1 .. c)
    BY <1>9
  <1>13. cut # {}
    <2>1. ASSUME cut = {} PROVE FALSE
      <3>1. Cardinality(cut) = 0 /\ 1 .. 0 = {}
        BY <2>1, FS_EmptySet
      <3>2. AtPlaces(J, cut) = [i \in {} |-> J[Places(cut)[i]]]
        BY <3>1 DEF AtPlaces
      <3> QED
        BY <1>10, <1>11, <3>2
    <2> QED
      BY <2>1
  <1>14. PICK sj, s, chips : sj = ServicesOf(J) /\ s = ServicesOf(L)
                             /\ chips = ServicesOf(SummaryOfItinerary(L))
    OBVIOUS
  <1>15. chips = AtPlaces(sj, cut)
    <2>1. ServicesOf(AtPlaces(J, cut)) = AtPlaces(ServicesOf(J), cut)
      BY <1>6, <1>12, ServicesAtPlaces
    <2> QED
      BY <1>10, <1>11, <1>14, <2>1
  <1>16. sj = [m \in 1 .. c |-> J[m].service] /\ s = [i \in 1 .. n |-> L[i].service]
    BY <1>2, <1>5, <1>14 DEF ServicesOf
  <1> DEFINE Q == {h[m] : m \in cut}
  <1>17. IsThrough(n, c, h, cut, Q)
    BY <1>2, <1>5, <1>6, <1>12 DEF IsThrough
  <1>18. \A x \in Q : \E m \in cut : x = h[m]
    OBVIOUS
  <1>19. Q # {}
    BY <1>13
  <1> HIDE DEF Q
  <1>20. PICK k, r : k = Cardinality(cut) /\ r = Places(cut)
    OBVIOUS
  <1>21. Cardinality(Q) = k /\ Places(Q) = [i \in 1 .. k |-> h[r[i]]] /\ Q \in SUBSET (1 .. n)
    BY <1>17, <1>20, PlacesThrough
  <1>22. AtPlaces(s, Q) = [i \in 1 .. k |-> s[h[r[i]]]]
    BY <1>21 DEF AtPlaces
  <1>23. chips = [i \in 1 .. k |-> sj[r[i]]]
    BY <1>15, <1>20 DEF AtPlaces
  <1>24. \A i \in 1 .. k : r[i] \in 1 .. c
    <2>1. IsNumbering(r, cut)
      BY <1>5, <1>12, <1>20, PlacesAreNumbered
    <2> QED
      BY <1>12, <1>20, <2>1 DEF IsNumbering
  <1>25. ASSUME NEW i \in 1 .. k PROVE sj[r[i]] = s[h[r[i]]]
    <2>1. PICK m \in 1 .. c : m = r[i]
      BY <1>24
    <2>2. h[m] \in 1 .. n
      BY <1>6
    <2>3. sj[m] = J[m].service /\ s[h[m]] = L[h[m]].service
      BY <1>16, <2>2
    <2> QED
      BY <1>7, <2>1, <2>3
  <1>26. chips = AtPlaces(s, Q)
    BY <1>22, <1>23, <1>25
  <1>27. Q \in SUBSET MovedUpTo(L, n)
    <2>1. ASSUME NEW x \in Q PROVE x \in MovedUpTo(L, n)
      <3>1. PICK m \in cut : x = h[m]
        BY <1>18
      <3>2. m \in 1 .. c /\ IsRide(J[m])
        BY <1>8, <1>12
      <3>3. x \in 1 .. n /\ L[x].kind = J[m].kind
        BY <1>6, <1>7, <3>1, <3>2
      <3>4. L[x].kind = "ride"
        BY <1>2, <3>2, <3>3 DEF IsRide
      <3>5. IsMoved(L[x])
        BY <3>4 DEF IsMoved, IsWalk
      <3> QED
        BY <3>3, <3>5 DEF MovedUpTo
    <2> QED
      BY <2>1
  <1>28. MovedUpTo(L, n) # {}
    BY <1>19, <1>27
  <1>29. AreChips(chips, L)
    BY <1>1, <1>14, <1>19, <1>26, <1>27, <1>28 DEF AreChips
  <1> QED
    BY <1>14, <1>29

\* What is kept of the legs for the ranking.
RankingLegs(L) == [i \in DOMAIN L |-> RankingLeg(L[i])]

\* Kinds, services, times and ends are kept.
LEMMA RankedIs ==
  ASSUME NEW L, IsItinerary(L)
  PROVE  /\ IsRow(RankingLegs(L)) /\ Len(RankingLegs(L)) = Len(L)
         /\ DOMAIN RankingLegs(L) = DOMAIN L
         /\ \A i \in DOMAIN L :
              /\ RankingLegs(L)[i].kind = L[i].kind /\ RankingLegs(L)[i].service = L[i].service
              /\ RankingLegs(L)[i] =
                   [kind |-> L[i].kind, service |-> L[i].service, seated |-> FALSE,
                    start |-> L[i].start, end |-> L[i].end, minutes |-> L[i].minutes,
                    from |-> L[i].from, to |-> L[i].to, through |-> << >>]
  <1>1. PICK n : n = Len(L)
    OBVIOUS
  <1>2. IsStored(L) /\ n \in Nat /\ DOMAIN L = 1 .. n
    BY <1>1, ItineraryIsStored DEF AreGiven
  <1>3. PICK R : R = RankingLegs(L)
    OBVIOUS
  <1>4. R = [i \in 1 .. n |-> RankingLeg(L[i])]
    BY <1>2, <1>3 DEF RankingLegs
  <1>5. IsRow(R) /\ Len(R) = n /\ DOMAIN R = 1 .. n
    <2>1. R = [i \in 1 .. n |-> R[i]]
      BY <1>4
    <2> QED
      BY <1>2, <2>1, RowIsSequence
  <1>6. ASSUME NEW i \in 1 .. n
        PROVE  /\ R[i].kind = L[i].kind /\ R[i].service = L[i].service
               /\ R[i] = [kind |-> L[i].kind, service |-> L[i].service, seated |-> FALSE,
                          start |-> L[i].start, end |-> L[i].end, minutes |-> L[i].minutes,
                          from |-> L[i].from, to |-> L[i].to, through |-> << >>]
    <2>1. PICK l, ki, se, sd, st, en, mi, fr, t :
            /\ l = L[i] /\ ki = l.kind /\ se = l.service /\ sd = l.seated /\ st = l.start
            /\ en = l.end /\ mi = l.minutes /\ fr = l.from /\ t = l.to
      OBVIOUS
    <2>2. l = [kind |-> ki, service |-> se, seated |-> sd, start |-> st, end |-> en,
               minutes |-> mi, from |-> fr, to |-> t, through |-> << >>]
      BY <1>2, <2>1 DEF IsStored, IsStoredLeg
    <2>3. RankingLeg(l) = [kind |-> ki, service |-> se, seated |-> FALSE, start |-> st,
                           end |-> en, minutes |-> mi, from |-> fr, to |-> t,
                           through |-> << >>]
      <3>1. PICK no, none : no = FALSE /\ none = << >>
        OBVIOUS
      <3>2. RankingLeg(l) = [l EXCEPT !.seated = no, !.through = none]
        BY <3>1, Zenon DEF RankingLeg
      <3>3. l = [kind |-> ki, service |-> se, seated |-> sd, start |-> st, end |-> en,
                 minutes |-> mi, from |-> fr, to |-> t, through |-> none]
        BY <2>2, <3>1
      <3>4. PICK alone : alone = [l EXCEPT !.seated = no]
        OBVIOUS
      <3>5. alone = [kind |-> ki, service |-> se, seated |-> no, start |-> st, end |-> en,
                     minutes |-> mi, from |-> fr, to |-> t, through |-> none]
        BY <3>3, <3>4
      <3>6. [alone EXCEPT !.through = none]
            = [kind |-> ki, service |-> se, seated |-> no, start |-> st, end |-> en,
               minutes |-> mi, from |-> fr, to |-> t, through |-> none]
        BY <3>5
      <3>7. [l EXCEPT !.seated = no, !.through = none] = [alone EXCEPT !.through = none]
        BY <3>4, Zenon
      <3> QED
        BY <3>1, <3>2, <3>6, <3>7, Zenon
    <2>4. R[i] = RankingLeg(l)
      BY <1>4, <2>1
    <2>5. PICK x : x = R[i]
      OBVIOUS
    <2>6. x = [kind |-> ki, service |-> se, seated |-> FALSE, start |-> st,
               end |-> en, minutes |-> mi, from |-> fr, to |-> t, through |-> << >>]
      BY <2>3, <2>4, <2>5
    <2>7. x.kind = ki /\ x.service = se
      BY <2>6
    <2> QED
      BY <2>1, <2>5, <2>6, <2>7
  <1> QED
    BY <1>1, <1>2, <1>3, <1>5, <1>6

\* The chips of the ranking legs.
LEMMA RankedAreChips ==
  ASSUME NEW L, IsItinerary(L)
  PROVE  AreChips(ServicesOf(SummaryOfRankingLegs(RankingLegs(L))), L)
  <1>1. PICK n, R : n = Len(L) /\ R = RankingLegs(L)
    OBVIOUS
  <1>2. IsStored(L) /\ n \in Nat /\ DOMAIN L = 1 .. n
    BY <1>1, ItineraryIsStored DEF AreGiven
  <1>3. /\ IsRow(R) /\ Len(R) = n /\ DOMAIN R = 1 .. n
        /\ \A i \in 1 .. n : R[i].kind = L[i].kind /\ R[i].service = L[i].service
    BY <1>1, <1>2, RankedIs, ZenonT(60)
  <1>4. PICK M : M = MovedUpTo(L, n)
    OBVIOUS
  <1>5. M \in SUBSET (1 .. n) /\ M = {i \in DOMAIN R : ~IsWalk(R[i])}
    BY <1>3, <1>4 DEF MovedUpTo, IsMoved, IsWalk
  <1>6. SummaryOfRankingLegs(R) = Capped(AtPlaces(R, M))
    BY <1>5 DEF SummaryOfRankingLegs, Where
  <1>7. PICK cut \in SUBSET M : Capped(AtPlaces(R, M)) = AtPlaces(R, cut) /\ (cut = {} <=> M = {})
    <2>1. M \in SUBSET (1 .. Len(R))
      BY <1>3, <1>5
    <2> QED
      BY <1>3, <2>1, CappedIs, ZenonT(60)
  <1>8. cut \in SUBSET (1 .. Len(R))
    BY <1>3, <1>5
  <1>9. ServicesOf(AtPlaces(R, cut)) = AtPlaces(ServicesOf(R), cut)
    BY <1>3, <1>8, ServicesAtPlaces
  <1>10. ServicesOf(R) = ServicesOf(L)
    <2>1. ServicesOf(R) = [i \in 1 .. n |-> R[i].service]
      BY <1>3 DEF ServicesOf
    <2>2. ServicesOf(L) = [i \in 1 .. n |-> L[i].service]
      BY <1>2 DEF ServicesOf
    <2> QED
      BY <1>3, <2>1, <2>2
  <1>11. ServicesOf(SummaryOfRankingLegs(R)) = AtPlaces(ServicesOf(L), cut)
    BY <1>6, <1>7, <1>9, <1>10
  <1>12. AreChips(ServicesOf(SummaryOfRankingLegs(R)), L)
    BY <1>1, <1>4, <1>7, <1>11 DEF AreChips
  <1> QED
    BY <1>1, <1>12

LegOf(ki, se, sd, st, en, mi, fr, t, th) ==
  [kind |-> ki, service |-> se, seated |-> sd, start |-> st, end |-> en, minutes |-> mi,
   from |-> fr, to |-> t, through |-> th]
NamedAs(leg) == IF IsWalk(leg) THEN "named walk" ELSE "ride"
WithoutZone(stop) == [stop EXCEPT !.zone = 0]

\* A ranking leg as the panel shows it.
LEMMA ShownIs ==
  ASSUME NEW l, NEW ki, NEW se, NEW sd, NEW st, NEW en, NEW mi, NEW fr, NEW t, NEW th,
         l = LegOf(ki, se, sd, st, en, mi, fr, t, th), NEW kind, kind = NamedAs(l)
  PROVE  rankingLegToMotis(l)
         = LegOf(kind, se, sd, st, en, mi, WithoutZone(fr), WithoutZone(t), th)
  <1> USE DEF LegOf, NamedAs, WithoutZone
  <1>1. PICK a, b : a = [fr EXCEPT !.zone = 0] /\ b = [t EXCEPT !.zone = 0]
    OBVIOUS
  <1>2. l.from = fr /\ l.to = t
    OBVIOUS
  <1>3. PICK x : x = [l EXCEPT !.kind = kind]
    OBVIOUS
  <1>4. x = [kind |-> kind, service |-> se, seated |-> sd, start |-> st, end |-> en,
             minutes |-> mi, from |-> fr, to |-> t, through |-> th]
    BY <1>3
  <1>5. PICK y : y = [x EXCEPT !.from = a]
    OBVIOUS
  <1>6. y = [kind |-> kind, service |-> se, seated |-> sd, start |-> st, end |-> en,
             minutes |-> mi, from |-> a, to |-> t, through |-> th]
    BY <1>4, <1>5
  <1>7. PICK z : z = [y EXCEPT !.to = b]
    OBVIOUS
  <1>8. z = [kind |-> kind, service |-> se, seated |-> sd, start |-> st, end |-> en,
             minutes |-> mi, from |-> a, to |-> b, through |-> th]
    BY <1>6, <1>7
  <1>9. rankingLegToMotis(l) = z
    <2>1. rankingLegToMotis(l) = [[x EXCEPT !.from.zone = 0] EXCEPT !.to.zone = 0]
      BY <1>3, Zenon DEF rankingLegToMotis
    <2>2. x.from = fr
      BY <1>4
    <2>3. [x EXCEPT !.from.zone = 0] = y
      BY <1>1, <1>5, <2>2, Zenon
    <2>4. y.to = t
      BY <1>6
    <2>5. [y EXCEPT !.to.zone = 0] = z
      BY <1>1, <1>7, <2>4, Zenon
    <2> QED
      BY <2>1, <2>3, <2>5
  <1> QED
    BY <1>1, <1>8, <1>9

\* What the panel shows of ranking legs is a stored journey with the same services.
LEMMA ShownIsStored ==
  ASSUME NEW L, IsItinerary(L), NEW P, P = RankingJourneyLegs(RankingLegs(L))
  PROVE  /\ IsStored(P) /\ Len(P) = Len(L) /\ ServicesOf(P) = ServicesOf(L)
         /\ MovedUpTo(P, Len(L)) = MovedUpTo(L, Len(L))
  <1>1. PICK n, R : n = Len(L) /\ R = RankingLegs(L)
    OBVIOUS
  <1>2. IsStored(L) /\ n \in Nat /\ n > 0 /\ DOMAIN L = 1 .. n
    BY <1>1, ItineraryIsStored DEF AreGiven
  <1>3. /\ DOMAIN R = 1 .. n
        /\ \A i \in 1 .. n :
             R[i] = [kind |-> L[i].kind, service |-> L[i].service, seated |-> FALSE,
                     start |-> L[i].start, end |-> L[i].end, minutes |-> L[i].minutes,
                     from |-> L[i].from, to |-> L[i].to, through |-> << >>]
    BY <1>1, <1>2, RankedIs
  <1>4. P = [i \in 1 .. n |-> rankingLegToMotis(R[i])]
    BY <1>1, <1>3 DEF RankingJourneyLegs
  <1>5. IsRow(P) /\ Len(P) = n /\ DOMAIN P = 1 .. n
    <2>1. P = [i \in 1 .. n |-> P[i]]
      BY <1>4
    <2> QED
      BY <1>2, <2>1, RowIsSequence
  <1>6. ASSUME NEW i \in 1 .. n
        PROVE  /\ IsStoredLeg(P[i]) /\ ~P[i].seated
               /\ P[i].service = L[i].service /\ (IsWalk(P[i]) <=> IsWalk(L[i]))
    <2>1. PICK l, ki, se, no, st, en, mi, fr, t, none :
            /\ l = R[i] /\ ki = L[i].kind /\ se = L[i].service /\ st = L[i].start
            /\ en = L[i].end /\ mi = L[i].minutes /\ fr = L[i].from /\ t = L[i].to
            /\ no = FALSE /\ none = << >>
      OBVIOUS
    <2>2. l = LegOf(ki, se, no, st, en, mi, fr, t, none)
      BY <1>3, <2>1, Zenon DEF LegOf
    <2>3. PICK kind, a, b : kind = NamedAs(l) /\ a = WithoutZone(fr) /\ b = WithoutZone(t)
      OBVIOUS
    <2>4. rankingLegToMotis(l) = LegOf(kind, se, no, st, en, mi, a, b, none)
      <3>1. rankingLegToMotis(l)
            = LegOf(kind, se, no, st, en, mi, WithoutZone(fr), WithoutZone(t), none)
        BY <2>2, <2>3, ShownIs
      <3> QED
        BY <2>3, <3>1
    <2>5. PICK x : x = P[i]
      OBVIOUS
    <2>6. x = [kind |-> kind, service |-> se, seated |-> no, start |-> st, end |-> en,
               minutes |-> mi, from |-> a, to |-> b, through |-> none]
      BY <1>4, <2>1, <2>4, <2>5 DEF LegOf
    <2>7. /\ x.kind = kind /\ x.service = se /\ x.seated = no /\ x.start = st /\ x.end = en
          /\ x.minutes = mi /\ x.from = a /\ x.to = b
      BY <2>6
    <2>8. x = [kind |-> x.kind, service |-> x.service, seated |-> x.seated, start |-> x.start,
               end |-> x.end, minutes |-> x.minutes, from |-> x.from, to |-> x.to,
               through |-> << >>]
      BY <2>1, <2>6, <2>7
    <2>9. l.kind = ki
      BY <2>2 DEF LegOf
    <2>10. kind \in Kinds /\ (IsWalk(x) <=> IsWalk(L[i]))
      BY <2>1, <2>3, <2>7, <2>9 DEF Kinds, IsWalk, NamedAs
    <2>11. mi \in Int
      BY <1>2, <2>1 DEF IsStored, IsStoredLeg
    <2>12. x.seated \in BOOLEAN /\ ~x.seated
      BY <2>1, <2>7
    <2>13. IsStoredLeg(x)
      BY <2>7, <2>8, <2>10, <2>11, <2>12 DEF IsStoredLeg
    <2> QED
      BY <2>1, <2>5, <2>7, <2>10, <2>12, <2>13
  <1>7. P # << >>
    <2>1. Len(<< >>) = 0
      OBVIOUS
    <2> QED
      BY <1>2, <1>5, <2>1
  <1>8. IsStored(P)
    BY <1>5, <1>6, <1>7 DEF IsStored
  <1>9. ServicesOf(P) = ServicesOf(L)
    <2>1. ServicesOf(P) = [i \in 1 .. n |-> P[i].service]
      BY <1>5 DEF ServicesOf
    <2>2. ServicesOf(L) = [i \in 1 .. n |-> L[i].service]
      BY <1>2 DEF ServicesOf
    <2> QED
      BY <1>6, <2>1, <2>2
  <1>10. MovedUpTo(P, n) = MovedUpTo(L, n)
    BY <1>6 DEF MovedUpTo, IsMoved
  <1> QED
    BY <1>1, <1>5, <1>8, <1>9, <1>10

\* The timeline of a stored journey tells every service in which the traveler sits.
LEMMA StoredIsTold ==
  ASSUME NEW L, IsStored(L)
  PROVE  Told(buildTimelineItems(L)) = AtPlaces(ServicesOf(L), MovedUpTo(L, Len(L)))
  <1>1. PICK D : D = DisplayLegs(L)
    OBVIOUS
  <1>2. PICK h : AreDisplayed(D, h, L)
    BY <1>1, LegsAreDisplayed
  <1>3. PICK c, told, items, s, n : /\ c = Len(D) /\ told = Telling(D)[Len(D)]
                                    /\ items = told.items /\ s = ServicesOf(L) /\ n = Len(L)
    OBVIOUS
  <1>4. TellsUpTo(L, h, D, s, c, told)
    BY <1>2, <1>3, TimelineTells
  <1>5. items = buildTimelineItems(L)
    BY <1>1, <1>3 DEF buildTimelineItems, TimelineOf
  <1>6. TailOf(h, c, n, c) = n
    <2>1. ~(c < c)
      BY <1>2, <1>3 DEF AreDisplayed, IsRow
    <2> QED
      BY <2>1 DEF TailOf
  <1>7. TellsOf(items, Range(s), AtPlaces(s, MovedUpTo(L, TailOf(h, c, n, c))))
    BY <1>3, <1>4 DEF TellsUpTo
  <1>8. Told(items) = AtPlaces(s, MovedUpTo(L, n))
    BY <1>6, <1>7 DEF TellsOf
  <1> QED
    BY <1>3, <1>5, <1>8

\* Nothing is joined of nothing, so that there is no chip.
LEMMA NothingIsSummed == SummaryOfItinerary(<< >>) = << >>
  <1>1. PICK none : none = << >>
    OBVIOUS
  <1>2. IsRow(none) /\ Len(none) = 0 /\ DOMAIN none = {}
    BY <1>1 DEF IsRow
  <1>3. Joining(none)[0] = << >>
    BY <1>2, JoiningTurns DEF JoiningStart
  <1>4. Joined(none) = none
    BY <1>1, <1>2, <1>3 DEF Joined
  <1>5. Where(none, IsRide) = AtPlaces(none, {})
    <2>1. {i \in DOMAIN none : IsRide(none[i])} = {}
      BY <1>2
    <2> QED
      BY <2>1 DEF Where
  <1>6. AtPlaces(none, {}) = none
    <2>1. Cardinality({}) = 0 /\ 1 .. 0 = {}
      BY FS_EmptySet
    <2>2. AtPlaces(none, {}) = [i \in {} |-> none[Places({})[i]]]
      BY <2>1 DEF AtPlaces
    <2>3. [i \in {} |-> none[Places({})[i]]] = none
      BY <1>1
    <2> QED
      BY <2>2, <2>3
  <1>7. Capped(none) = none
    <2>1. ~(Len(none) > SummaryMax)
      BY <1>2, SummaryAssumption
    <2> QED
      BY <2>1 DEF Capped
  <1> QED
    BY <1>1, <1>4, <1>5, <1>6, <1>7 DEF SummaryOfItinerary

\* The chips of a journey are services of its panel, in their order, and are missing
\* only if it has none, in whatever form the row keeps the journey
\* (route-summary.ts, journey-leg-json.ts, motis-itinerary.ts).
THEOREM ChipsAgree ==
  ASSUME IsItinerary(itinerary), storedAs \in StoredForms
  PROVE  ChipsAndPanelAgree
  <1> SUFFICES ASSUME storedAs # "unrecognized"
               PROVE  /\ Told(buildTimelineItems(renderDetail(JourneyDetail).legs))
                         = ServicesOf(Where(itinerary, IsMoved))
                      /\ \E some \in SUBSET (DOMAIN ServicesOf(Where(itinerary, IsMoved))) :
                           buildRouteSummary = AtPlaces(ServicesOf(Where(itinerary, IsMoved)), some)
                      /\ buildRouteSummary = << >> <=> ServicesOf(Where(itinerary, IsMoved)) = << >>
                      /\ renderDetail(JourneyDetail).notice <=> storedAs \in {"spoiled", "other api"}
    BY DEF ChipsAndPanelAgree
  <1>1. PICK L, n, s, M : /\ L = itinerary /\ n = Len(L) /\ s = ServicesOf(L)
                          /\ M = MovedUpTo(L, n)
    OBVIOUS
  <1>2. IsItinerary(L) /\ IsStored(L) /\ n \in Nat /\ DOMAIN L = 1 .. n /\ L # << >>
    BY <1>1, ItineraryIsStored DEF AreGiven, IsStored
  <1>3. M \in SUBSET (1 .. Len(L)) /\ M = {i \in DOMAIN L : IsMoved(L[i])}
    BY <1>1, <1>2 DEF MovedUpTo
  <1>4. PICK seated : seated = ServicesOf(Where(L, IsMoved))
    OBVIOUS
  <1>5. seated = AtPlaces(s, M)
    <2>1. Where(L, IsMoved) = AtPlaces(L, M)
      BY <1>3 DEF Where
    <2>2. ServicesOf(AtPlaces(L, M)) = AtPlaces(ServicesOf(L), M)
      BY <1>2, <1>3, ServicesAtPlaces DEF IsStored
    <2> QED
      BY <1>1, <1>4, <2>1, <2>2
  <1>6. IsRow(s) /\ Len(s) = n
    <2>1. s = [i \in 1 .. n |-> L[i].service]
      BY <1>1, <1>2 DEF ServicesOf
    <2>2. s = [i \in 1 .. n |-> s[i]]
      BY <2>1
    <2> QED
      BY <1>2, <2>2, RowIsSequence
  <1>7. storedAs \in {"legs", "document", "spoiled", "other api", "unsendable"}
    BY DEF StoredForms, storedJourneyLegsJson
  <1>8. PICK parsed : parsed = parseStoredJourneyLegs
    OBVIOUS
  <1>9. parsed = [rankingLegs |-> RankingLegs(L),
                  itinerary |-> IF storedAs \in {"document", "unsendable"} THEN L ELSE << >>,
                  storageKind |-> IF storedAs = "legs" THEN "legs" ELSE "document"]
    <2>1. isUsableMotisItinerary /\ storedAs # "other api" <=> storedAs \in {"document", "unsendable"}
      BY <1>7 DEF isUsableMotisItinerary
    <2>2. parsed = [rankingLegs |-> RankingLegs(L),
                    itinerary |-> IF isUsableMotisItinerary /\ storedAs # "other api" THEN L
                                  ELSE << >>,
                    storageKind |-> IF storedAs \in {"legs", "unrecognized"} THEN storedAs
                                    ELSE "document"]
      BY <1>1, <1>8 DEF parseStoredJourneyLegs, RankingLegs
    <2>3. (IF storedAs \in {"legs", "unrecognized"} THEN storedAs ELSE "document")
          = IF storedAs = "legs" THEN "legs" ELSE "document"
      OBVIOUS
    <2> QED
      BY <2>1, <2>2, <2>3
  <1>10. PICK given, kind : /\ given = (IF storedAs \in {"document", "unsendable"} THEN L ELSE << >>)
                            /\ kind = IF storedAs = "legs" THEN "legs" ELSE "document"
    OBVIOUS
  <1>11. parsed.rankingLegs = RankingLegs(L) /\ parsed.itinerary = given /\ parsed.storageKind = kind
    BY <1>9, <1>10
  <1>12. PICK chips : chips = buildRouteSummary
    OBVIOUS
  <1>13. AreChips(chips, L)
    <2>1. PICK named : named = SummaryOfItinerary(given)
      OBVIOUS
    <2>2. chips = ServicesOf(IF named # << >> THEN named ELSE SummaryOfRankingLegs(RankingLegs(L)))
      BY <1>8, <1>11, <1>12, <2>1 DEF buildRouteSummary
    <2>3. CASE named # << >>
      <3>1. given # << >>
        BY <2>1, <2>3, NothingIsSummed
      <3>2. given = L
        BY <1>10, <3>1
      <3>3. SummaryOfItinerary(L) # << >>
        BY <2>1, <2>3, <3>2
      <3>4. AreChips(ServicesOf(SummaryOfItinerary(L)), L)
        BY <1>2, <3>3, RidesAreChips
      <3> QED
        BY <2>1, <2>2, <2>3, <3>2, <3>4
    <2>4. CASE named = << >>
      <3>1. AreChips(ServicesOf(SummaryOfRankingLegs(RankingLegs(L))), L)
        BY <1>2, RankedAreChips
      <3> QED
        BY <2>2, <2>4, <3>1
    <2> QED
      BY <2>3, <2>4
  <1>14. PICK Q \in SUBSET M : chips = AtPlaces(s, Q) /\ (Q = {} <=> M = {})
    BY <1>1, <1>13 DEF AreChips
  <1>15. \E some \in SUBSET (DOMAIN seated) : chips = AtPlaces(seated, some)
    <2>1. M \in SUBSET (1 .. Len(s))
      BY <1>1, <1>3, <1>6
    <2> QED
      BY <1>5, <1>6, <1>14, <2>1, AmongPlaces
  <1>16. chips = << >> <=> seated = << >>
    <2>1. ASSUME NEW at \in SUBSET (1 .. n) PROVE AtPlaces(s, at) = << >> <=> at = {}
      <3>1. PICK c : c = Cardinality(at)
        OBVIOUS
      <3>2. IsNumbering(Places(at), at)
        BY <1>2, PlacesAreNumbered
      <3>3. c \in Nat /\ \A x \in at : \E i \in 1 .. c : TRUE
        BY <3>1, <3>2 DEF IsNumbering
      <3>4. DOMAIN AtPlaces(s, at) = 1 .. c
        BY <3>1 DEF AtPlaces
      <3>5. at = {} => c = 0
        BY <3>1, FS_EmptySet
      <3>6. AtPlaces(s, at) = << >> => at = {}
        <4>1. DOMAIN << >> = {}
          OBVIOUS
        <4> QED
          BY <3>3, <3>4, <4>1
      <3>7. at = {} => AtPlaces(s, at) = << >>
        <4>1. AtPlaces(s, at) = [i \in 1 .. c |-> s[Places(at)[i]]] /\ 1 .. 0 = {}
          BY <3>1 DEF AtPlaces
        <4> QED
          BY <3>5, <4>1
      <3> QED
        BY <3>6, <3>7
    <2>2. Q \in SUBSET (1 .. n) /\ M \in SUBSET (1 .. n)
      BY <1>1, <1>3
    <2> QED
      BY <1>5, <1>14, <2>1, <2>2
  <1>17. PICK panel : panel = renderDetail(JourneyDetail)
    OBVIOUS
  <1>18. PICK P : P = RankingJourneyLegs(RankingLegs(L))
    OBVIOUS
  <1>19. panel = IF kind = "document" /\ given # << >> THEN [notice |-> FALSE, legs |-> given]
                 ELSE [notice |-> kind = "document", legs |-> P]
    <2>1. PICK source : source = IF kind = "document" THEN "provider" ELSE "legacy"
      OBVIOUS
    <2>2. JourneyDetail = [detailSource |-> source, itinerary |-> given, legs |-> RankingLegs(L)]
      BY <1>8, <1>11, <2>1 DEF JourneyDetail
    <2>3. PICK d : d = JourneyDetail
      OBVIOUS
    <2>4. d.detailSource = source /\ d.itinerary = given /\ d.legs = RankingLegs(L)
      BY <2>2, <2>3
    <2>5. panel = IF source = "provider" /\ given # << >> THEN [notice |-> FALSE, legs |-> given]
                  ELSE [notice |-> source = "provider", legs |-> P]
      BY <1>17, <1>18, <2>3, <2>4 DEF renderDetail
    <2>6. source = "provider" <=> kind = "document"
      BY <2>1
    <2> QED
      BY <2>5, <2>6
  <1>20. CASE storedAs \in {"document", "unsendable"}
    <2>1. given = L /\ kind = "document"
      BY <1>10, <1>20
    <2>2. panel = [notice |-> FALSE, legs |-> L]
      BY <1>2, <1>19, <2>1
    <2>3. panel.legs = L /\ ~panel.notice
      BY <2>2
    <2>4. Told(buildTimelineItems(L)) = AtPlaces(s, M)
      BY <1>1, <1>2, StoredIsTold
    <2>5. storedAs \notin {"spoiled", "other api"}
      BY <1>20
    <2> QED
      BY <1>1, <1>4, <1>5, <1>12, <1>15, <1>16, <1>17, <2>3, <2>4, <2>5
  <1>21. CASE storedAs \in {"legs", "spoiled", "other api"}
    <2>1. given = << >> /\ (kind = "document" <=> storedAs \in {"spoiled", "other api"})
      BY <1>10, <1>21
    <2>2. panel = [notice |-> kind = "document", legs |-> P]
      BY <1>19, <2>1
    <2>3. panel.legs = P /\ (panel.notice <=> kind = "document")
      BY <2>2
    <2>4. IsStored(P) /\ Len(P) = n /\ ServicesOf(P) = s /\ MovedUpTo(P, n) = M
      BY <1>1, <1>2, <1>18, ShownIsStored
    <2>5. Told(buildTimelineItems(P)) = AtPlaces(s, M)
      BY <2>4, StoredIsTold
    <2> QED
      BY <1>1, <1>4, <1>5, <1>12, <1>15, <1>16, <1>17, <2>1, <2>3, <2>5
  <1> QED
    BY <1>7, <1>20, <1>21

=============================================================================
