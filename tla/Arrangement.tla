------------------------------ MODULE Arrangement ------------------------------
(***************************************************************************)
(* Sequences out of sets and of other sequences, each defined by what        *)
(* stands where.                                                            *)
(***************************************************************************)
EXTENDS Integers, FiniteSets, Sequences

\* The elements of S in the order in which they come: each stands behind as many
\* as come before it.
Arranged(S, Comes(_, _)) ==
  [n \in 1 .. Cardinality(S) |->
     CHOOSE x \in S : Cardinality({y \in S : Comes(y, x)}) = n - 1]

\* What stands at some places of s.
Places(at) == Arranged(at, LAMBDA i, j : i < j)
AtPlaces(s, at) == [n \in 1 .. Cardinality(at) |-> s[Places(at)[n]]]

\* The elements of s that pass a test.
Where(s, Passes(_)) == AtPlaces(s, {i \in DOMAIN s : Passes(s[i])})
=============================================================================
