---------------------------- MODULE SearchLifecycle ----------------------------
(***************************************************************************)
(* What a reader of a meeting search may rely on.  The search is accepted   *)
(* as queued, is started once, and ends once: with a result, which appears  *)
(* together with the status and never changes afterwards, or with a failure *)
(* code and no results at all.                                              *)
(***************************************************************************)
CONSTANTS Cities, Outcomes, FailureCodes

VARIABLES status, result, recommended, results

readerVars == <<status, result, recommended, results>>

Init ==
  /\ status = "queued"
  /\ result = "none"
  /\ recommended = "none"
  /\ results = {}

Start ==
  /\ status = "queued"
  /\ status' = "running"
  /\ UNCHANGED <<result, recommended, results>>

\* Ranked results: a non-empty set of cities, one of them recommended.
Rank ==
  /\ status = "running"
  /\ status' = "completed" /\ result' = "ranked"
  /\ results' \in SUBSET Cities
  /\ recommended' \in results'

\* Completed without a city to recommend.
CompleteEmpty ==
  /\ status = "running"
  /\ status' = "completed" /\ result' \in Outcomes \ {"ranked"}
  /\ UNCHANGED <<recommended, results>>

Fail ==
  /\ status = "running"
  /\ status' = "failed" /\ result' \in FailureCodes
  /\ UNCHANGED <<recommended, results>>

Next == Start \/ Rank \/ CompleteEmpty \/ Fail

Spec == Init /\ [][Next]_readerVars
=============================================================================
