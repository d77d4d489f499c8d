--------------------------- MODULE MCSearchPipeline ---------------------------
(***************************************************************************)
(* Small instances of SearchPipeline for TLC: two participants, two cities, *)
(* two slots.  A behaviour contains at most the faults its run names.       *)
(***************************************************************************)
EXTENDS SearchPipeline, TLC

CONSTANTS a, b, p1, p2, s1, s2

NoFaults          == [k \in FaultKinds |-> 0]
OneCrash          == [NoFaults EXCEPT !["crash"] = 1]
OneLostLock       == [NoFaults EXCEPT !["lockLost"] = 1]
LostLockAndImport == [OneLostLock EXCEPT !["import"] = 1]
QueueFaults       == [k \in FaultKinds |->
                           IF k \in {"database", "republish", "import"} THEN 1 ELSE 0]

\* What the catalogue may answer: hubbed cities, nearest first.
OneWave  == {<<a>>, <<b>>, <<>>}
TwoWaves == {<<a, b>>, <<a>>, <<>>}

ParticipantSymmetry == Permutations({p1, p2})
ModelSymmetry == ParticipantSymmetry \cup Permutations({s1, s2})

-----------------------------------------------------------------------------
(* What the documents and comments say and the code does not do.            *)

\* "Hard cap on Transitous /plan invocations per search" (limits.ts:31) and
\* "Plan budget: 18 calls per search" (docs/candidate-generation-and-routing-
\* fanout.md).  In a run without faults every failed attempt of a routing job,
\* and every routing job that ended, called /plan once.
PlanCalls ==
  LET retried == [k \in Work |-> attempts[RoutingEvent(k)]]
      Sum[S \in SUBSET Work] ==
        IF S = {} THEN 0 ELSE LET k == CHOOSE k \in S : TRUE IN retried[k] + Sum[S \ {k}]
  IN  Sum[Work] + Cardinality({k \in Work : work[k] \in TerminalRouting})
PlanCallsWithinBudget == PlanCalls <= MaxPlanCalls
=============================================================================
