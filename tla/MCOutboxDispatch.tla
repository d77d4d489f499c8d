--------------------------- MODULE MCOutboxDispatch ---------------------------
(***************************************************************************)
(* Small instances of OutboxDispatch.                                       *)
(***************************************************************************)
EXTENDS OutboxDispatch, TLC

CONSTANTS e1, bad, d1, d2, t1, t2, t3

OneOfEach == [kind \in FaultKinds |-> 1]
NoRedisFault == [OneOfEach EXCEPT !["redis"] = 0]

ModelSymmetry == Permutations({d1, d2}) \cup Permutations({t1, t2, t3})
=============================================================================
