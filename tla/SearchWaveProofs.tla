---------------------------- MODULE SearchWaveProofs ----------------------------
(***************************************************************************)
(* Candidates are routed in waves: theorems about SearchPipeline that build *)
(* on those of SearchPipelineProofs, for every value of the constants.      *)
(***************************************************************************)
EXTENDS SearchPipelineProofs

(* Candidates and waves: facts about the operators.                         *)

\* The candidate rows of a ranking.
RowsOf(r) == {<<r[i], i - 1>> : i \in DOMAIN r}

\* Distinct cities under the ordinals 0, 1, 2 and so on.
Tidy(rows) ==
  /\ rows \subseteq Cities \X Nat
  /\ IsFiniteSet(rows) /\ Cardinality(rows) <= MaxCandidates
  /\ \A row, other \in rows :
       CityOf(row) = CityOf(other) \/ OrdinalOf(row) = OrdinalOf(other) => row = other
  /\ \A row \in rows : OrdinalOf(row) < Cardinality(rows)
  /\ \A i \in 0 .. (Cardinality(rows) - 1) : \E row \in rows : OrdinalOf(row) = i

\* A catalogue answer makes tidy rows.
LEMMA RankingsAreTidy ==
  ASSUME NEW r \in Rankings
  PROVE  Tidy(RowsOf(r))
<1>1. /\ r \in Seq(Cities) /\ Len(r) \in Nat /\ Len(r) <= MaxCandidates
      /\ \A i, j \in DOMAIN r : r[i] = r[j] => i = j
      /\ DOMAIN r = 1 .. Len(r)
  BY SearchPipelineAssumption
<1> DEFINE f == [i \in 1 .. Len(r) |-> <<r[i], i - 1>>]
<1>2. f \in Bijection(1 .. Len(r), RowsOf(r))
  BY <1>1 DEF RowsOf, Bijection, Injection, Surjection, IsInjective
<1>3. IsFiniteSet(RowsOf(r)) /\ Cardinality(RowsOf(r)) = Len(r)
  <2>1. IsFiniteSet(1 .. Len(r)) /\ Cardinality(1 .. Len(r)) = Len(r)
    BY <1>1, FS_Interval, SMTT(30)
  <2>2. ExistsBijection(1 .. Len(r), RowsOf(r))
    BY <1>2 DEF ExistsBijection
  <2>3. QED BY <2>1, <2>2, FS_Bijection
<1>4. RowsOf(r) \subseteq Cities \X Nat
  BY <1>1 DEF RowsOf
<1>5. \A row \in RowsOf(r) : \E i \in 1 .. Len(r) :
        row = <<r[i], i - 1>> /\ CityOf(row) = r[i] /\ OrdinalOf(row) = i - 1
  BY <1>1 DEF RowsOf, CityOf, OrdinalOf
<1>6. \A row, other \in RowsOf(r) :
        CityOf(row) = CityOf(other) \/ OrdinalOf(row) = OrdinalOf(other) => row = other
  BY <1>1, <1>5
<1>7. ASSUME NEW i \in 0 .. (Len(r) - 1) PROVE \E row \in RowsOf(r) : OrdinalOf(row) = i
  <2>1. i + 1 \in 1 .. Len(r) /\ (i + 1) - 1 = i
    BY <1>1, <1>7
  <2>2. <<r[i + 1], (i + 1) - 1>> \in RowsOf(r)
    BY <1>1, <2>1 DEF RowsOf
  <2>3. QED BY <2>1, <2>2 DEF OrdinalOf
<1>8. \A row \in RowsOf(r) : OrdinalOf(row) < Len(r)
  BY <1>1, <1>5
<1>9. QED BY <1>1, <1>3, <1>4, <1>6, <1>7, <1>8 DEF Tidy

\* No rows are tidy, too.
LEMMA NoRowsAreTidy == Tidy({})
BY FS_EmptySet, SearchPipelineAssumption DEF Tidy

\* Storing the same answer twice stores it once.
LEMMA StoredOnce ==
  ASSUME NEW r, candidates = {} \/ candidates = RowsOf(r)
  PROVE  WithCandidates(r) = RowsOf(r)
BY DEF WithCandidates, RowsOf

\* The quotient of natural numbers.
LEMMA Quotient ==
  ASSUME NEW x \in Nat, NEW d \in Nat \ {0}
  PROVE  /\ x \div d \in Nat
         /\ d * (x \div d) <= x /\ x < d * (x \div d) + d
OBVIOUS

\* A product can be divided by its factor.
LEMMA ProductQuotient ==
  ASSUME NEW y \in Nat, NEW d \in Nat \ {0}
  PROVE  (d * y) \div d = y
OBVIOUS

\* Products of natural numbers are, and grow with a factor.
LEMMA ProductGrows ==
  ASSUME NEW d \in Nat, NEW x \in Nat, NEW y \in Nat, x <= y
  PROVE  d * x \in Nat /\ d * y \in Nat /\ d * x <= d * y
<1>1. y = x + (y - x) /\ y - x \in Nat
  OBVIOUS
<1>2. d * (y - x) \in Nat /\ d * x \in Nat /\ d * y \in Nat
  BY <1>1
<1>3. d * y = d * x + d * (y - x)
  BY <1>1
<1>4. QED BY <1>2, <1>3

\* There are participants, finitely many.
LEMMA ParticipantCount ==
  Cardinality(Participants) \in Nat \ {0}
BY SearchPipelineAssumption, FS_CardinalityType

\* In tidy rows as many rows come before one as its ordinal says.
LEMMA RankIsOrdinal ==
  ASSUME NEW rows, Tidy(rows), NEW n \in Nat, NEW row \in rows, OrdinalOf(row) <= n
  PROVE  Cardinality({q \in {x \in rows : OrdinalOf(x) <= n} : OrdinalOf(q) < OrdinalOf(row)})
           = OrdinalOf(row)
<1> DEFINE before == {q \in {x \in rows : OrdinalOf(x) <= n} : OrdinalOf(q) < OrdinalOf(row)}
           o == OrdinalOf(row)
           f == [q \in before |-> OrdinalOf(q)]
<1>1. \A x \in rows : OrdinalOf(x) \in Nat
  BY DEF Tidy, OrdinalOf
<1>2. o \in Nat /\ o < Cardinality(rows) /\ Cardinality(rows) \in Nat
  BY <1>1, FS_CardinalityType DEF Tidy
<1>3. f \in Bijection(before, 0 .. (o - 1))
  <2>1. f \in [before -> 0 .. (o - 1)]
    BY <1>1, <1>2
  <2>2. \A x, y \in before : f[x] = f[y] => x = y
    BY DEF Tidy
  <2>3. \A i \in 0 .. (o - 1) : \E x \in before : f[x] = i
    <3>1. SUFFICES ASSUME NEW i \in 0 .. (o - 1)
                   PROVE  \E x \in rows : OrdinalOf(x) = i /\ x \in before
      OBVIOUS
    <3>2. i \in 0 .. (Cardinality(rows) - 1) /\ i < o /\ i <= n
      BY <1>2, <3>1
    <3>3. PICK x \in rows : OrdinalOf(x) = i
      BY <3>2 DEF Tidy
    <3>4. QED BY <3>2, <3>3
  <2>4. QED BY <2>1, <2>2, <2>3 DEF Bijection, Injection, Surjection, IsInjective
<1>4. before \subseteq rows
  OBVIOUS
<1>5. IsFiniteSet(before)
  BY <1>4, FS_Subset DEF Tidy
<1>6. Cardinality(0 .. (o - 1)) = Cardinality(before)
  BY <1>3, <1>5, FS_Bijection DEF ExistsBijection
<1>7. Cardinality(0 .. (o - 1)) = o
  BY <1>2, FS_Interval, SMTT(30)
<1>8. QED BY <1>6, <1>7

-----------------------------------------------------------------------------
(* The candidates of a search are one answer of the catalogue.              *)

\* No import changes the answer while the search is under way.
CatalogIsStable == Budget["import"] = 0

\* A second, different answer would be mixed into the rows of the first one:
\* it takes a lost lock for another answer to be read after the first is stored,
\* and an import for it to be different.
OneCatalog == LocksAreKept \/ CatalogIsStable

OneAnswer ==
  /\ candidates = {} \/ \E r \in Rankings : candidates = RowsOf(r)
  /\ \A s \in Slots : exec[s].at = "persist" =>
       candidates = {} \/ candidates = RowsOf(exec[s].answer)

\* Everything that the waves are built on.
AnswerInv == VerdictInv /\ RowsInv /\ GenerationInv /\ OneAnswer

\* With one answer, a generation stores it, or nothing new.
LEMMA PersistOnce ==
  ASSUME RowInv, OneAnswer, NEW s \in Slots, PersistCandidates(s)
  PROVE  /\ exec[s].answer \in Rankings /\ candidates' = RowsOf(exec[s].answer)
         /\ candidates = {} \/ candidates = candidates'
<1>1. exec[s].at = "persist" /\ candidates' = WithCandidates(exec[s].answer)
  BY DEF PersistCandidates, At
<1>2. candidates = {} \/ candidates = RowsOf(exec[s].answer)
  BY <1>1 DEF OneAnswer
<1>3. QED BY <1>1, <1>2, StoredOnce DEF RowInv, ExecOK

\* The rows of one answer are tidy.
LEMMA CandidatesAreTidy ==
  ASSUME OneAnswer
  PROVE  Tidy(candidates)
BY RankingsAreTidy, NoRowsAreTidy DEF OneAnswer

\* Slots that keep their locks store one answer: a generation ends with it.
LEMMA KeptAnswer ==
  ASSUME KeptInv, KeptInv', OneAnswer, [Next]_vars
  PROVE  OneAnswer'
<1>1. \A s \in Slots : exec'[s].at = "persist" => candidates' = {}
  BY DEF KeptInv, ExclusiveWork, OwnGeneration, GenerationInv, GenerationPhases
<1>2. CASE candidates' = candidates
  BY <1>1, <1>2 DEF OneAnswer
<1>3. ASSUME NEW s \in Slots, PersistCandidates(s) PROVE OneAnswer'
  BY <1>1, <1>3, PersistOnce DEF OneAnswer, KeptInv, LifecycleInv
<1>4. QED BY <1>2, <1>3, CandidateWriters

\* A slot that is about to persist has just read the catalogue, or had before.
LEMMA PersistFollowsRead ==
  ASSUME RowInv, [Next]_vars, NEW t \in Slots, exec'[t].at = "persist"
  PROVE  exec'[t] = exec[t] \/ exec'[t].answer = catalog
<1>1. CASE \A u \in Slots : exec'[u] = exec[u] \/ exec'[u].at \notin GenerationPhases
  BY <1>1 DEF GenerationPhases
<1>2. ASSUME NEW s \in Slots, GenerationStep(s) PROVE exec'[t] = exec[t] \/ exec'[t].answer = catalog
  <2>1. exec \in [Slots -> Execution]
    BY DEF RowInv, TypeOK
  <2>2. CASE t = s /\ ClaimGeneration(s)
    BY <2>1, <2>2 DEF ClaimGeneration, Goto, Execution
  <2>3. CASE t = s /\ ReadCatalog(s)
    BY <2>1, <2>3 DEF ReadCatalog, Execution
  <2>4. QED BY <1>2, <2>2, <2>3, GenerationStepExec DEF GenerationPhases
<1>3. QED BY <1>1, <1>2, GenerationWriters

\* Only an import changes the catalogue's answer, and imports are not refunded.
LEMMA CatalogWriters ==
  ASSUME TypeOK, budget["import"] = 0, [Next]_vars
  PROVE  catalog' = catalog /\ budget'["import"] = 0
<1>1. ASSUME NEW s \in Slots, Handler(s) PROVE UNCHANGED <<catalog, budget>>
  BY <1>1 DEF Handler, Kickoff, ClaimGeneration, ReadCatalog, RejectGeneration,
    PersistCandidates, ClaimWork, CheckJourneys, Reclaim, CountWork, CompletePlan, RetryPlan,
    ExhaustPlan, RefusePlan, RoutingStep, FinalizeTooEarlyOrLate, FinalizeFails,
    FinalizeNoCandidates, FinalizeExpands, FinalizeNoFeasible, FinalizeRanks, FinalizationStep,
    ExpandWave, Settle, worldVars
<1>2. ASSUME NEW kind \in FaultKinds, Spend(kind) PROVE budget'["import"] = 0 /\ kind # "import"
  BY <1>2 DEF Spend, TypeOK, FaultKinds
<1>3. Next => \/ \E s \in Slots : Handler(s)
              \/ catalog' = catalog /\ (budget' = budget \/ \E kind \in FaultKinds : Spend(kind))
              \/ Spend("import")
  BY DEF Next, DatabaseUnavailable, Crash, Deliver, RecoverStalled, LoseLock, Requeue,
    PublishAgain, ImportCatalog, worldVars, FaultKinds
<1>4. QED BY <1>1, <1>2, <1>3 DEF vars, FaultKinds

\* What a stable catalogue has answered is what it answers.
StableAnswer ==
  /\ budget["import"] = 0
  /\ candidates # {} => catalog \in Rankings /\ candidates = RowsOf(catalog)
  /\ \A s \in Slots : exec[s].at = "persist" => exec[s].answer = catalog

\* Without imports every generation reads the same answer.
LEMMA NextKeepsStableAnswer ==
  ASSUME RowInv, StableAnswer, [Next]_vars
  PROVE  StableAnswer'
<1>1. catalog' = catalog /\ budget'["import"] = 0
  BY CatalogWriters DEF RowInv, StableAnswer
<1>2. \A s \in Slots : exec'[s].at = "persist" => exec'[s].answer = catalog
  BY PersistFollowsRead DEF StableAnswer
<1>3. CASE candidates' = candidates
  BY <1>1, <1>2, <1>3 DEF StableAnswer
<1>4. ASSUME NEW s \in Slots, PersistCandidates(s) PROVE StableAnswer'
  <2>1. exec[s].answer = catalog /\ catalog \in Rankings
    BY <1>4 DEF StableAnswer, PersistCandidates, At, RowInv, ExecOK
  <2>2. candidates' = RowsOf(catalog)
    BY <1>4, <2>1, StoredOnce DEF StableAnswer, PersistCandidates
  <2>3. QED BY <1>1, <1>2, <2>1, <2>2 DEF StableAnswer
<1>5. QED BY <1>3, <1>4, CandidateWriters

\* The rows of a search are one answer of the catalogue, or none.
LEMMA AnswerInvHolds ==
  ASSUME OneCatalog
  PROVE  Spec => []AnswerInv
<1>1. Init => OneAnswer /\ RowsInv /\ GenerationInv
  BY DEF Init, OneAnswer, RowsInv, PairsWhole, RowsHaveCandidates, Work, GenerationInv,
      QueuedSearch, Idle, GenerationPhases
<1>2. CASE LocksAreKept
  <2>1. KeptInv /\ KeptInv' /\ OneAnswer /\ [Next]_vars => OneAnswer'
    BY KeptAnswer
  <2>2. Spec => []KeptInv
    BY <1>2, KeptInvHolds
  <2>3. KeptInv /\ VerdictInv /\ OneAnswer => AnswerInv
    BY DEF KeptInv, AnswerInv
  <2>4. QED BY <1>1, <2>1, <2>2, <2>3, VerdictInvHolds, PTL DEF Spec
<1>3. CASE CatalogIsStable
  <2>1. Init => StableAnswer
    BY <1>3 DEF Init, StableAnswer, CatalogIsStable, Idle
  <2>2. VerdictInv /\ RowsInv /\ GenerationInv /\ StableAnswer /\ [Next]_vars
          => RowsInv' /\ GenerationInv' /\ StableAnswer'
    BY NextKeepsRows, NextKeepsGeneration, NextKeepsStableAnswer DEF VerdictInv, LifecycleInv
  <2>3. VerdictInv /\ RowsInv /\ GenerationInv /\ StableAnswer => AnswerInv
    BY DEF AnswerInv, StableAnswer, OneAnswer
  <2>4. QED BY <1>1, <2>1, <2>2, <2>3, VerdictInvHolds, PTL DEF Spec
<1>4. QED BY <1>2, <1>3 DEF OneCatalog

-----------------------------------------------------------------------------
(* What a fan-out routes.                                                   *)

\* The plan budget is enough for every candidate (18 calls are, for at most 6
\* participants and 3 candidates).
PlanBudgetCovers == Cardinality(Participants) * MaxCandidates <= MaxPlanCalls

Routed(row) == \E p \in Participants : work[<<p, CityOf(row)>>] # "absent"

\* A fan-out up to an ordinal takes the first rows: all of them if the budget
\* covers them, at least one, and otherwise no more than it covers.
LEMMA FanOutTakesFirst ==
  ASSUME NEW rows, Tidy(rows), NEW n \in Nat
  PROVE  \E fit \in Nat \ {0} :
           /\ fit = 1 \/ Cardinality(Participants) * fit <= MaxPlanCalls
           /\ PlanBudgetCovers => \A row \in rows : OrdinalOf(row) <= n => OrdinalOf(row) < fit
           /\ \A row \in rows : CityOf(row) \in FanOutCities(rows, n)
                                  <=> OrdinalOf(row) <= n /\ OrdinalOf(row) < fit
<1> DEFINE P == Cardinality(Participants)
           wave == {row \in rows : OrdinalOf(row) <= n}
           calls == P * Cardinality(wave)
           maxRows == AtMost(calls, MaxPlanCalls)
           fit == AtLeast(1, maxRows \div P)
<1>1. P \in Nat \ {0} /\ MaxPlanCalls \in Nat /\ MaxCandidates \in Nat
  BY ParticipantCount, SearchPipelineAssumption
<1>2. IsFiniteSet(wave) /\ Cardinality(wave) \in Nat /\ Cardinality(wave) <= MaxCandidates
  <2>1. wave \in SUBSET rows
    OBVIOUS
  <2>2. IsFiniteSet(wave) /\ Cardinality(wave) <= Cardinality(rows)
    BY <2>1, FS_Subset DEF Tidy
  <2>3. Cardinality(wave) \in Nat /\ Cardinality(rows) \in Nat
    BY <2>2, FS_CardinalityType DEF Tidy
  <2>4. QED BY <1>1, <2>2, <2>3 DEF Tidy
<1>3. calls \in Nat
  BY <1>1, <1>2, ProductGrows
<1>4. maxRows \in Nat /\ maxRows <= MaxPlanCalls
  BY <1>1, <1>3 DEF AtMost
<1>5. maxRows \div P \in Nat /\ P * (maxRows \div P) <= maxRows
  BY <1>1, <1>4, Quotient
<1>6. P * (maxRows \div P) <= MaxPlanCalls
  <2>1. P * (maxRows \div P) \in Nat
    BY <1>1, <1>5, ProductGrows
  <2>2. QED BY <1>1, <1>4, <1>5, <2>1
<1>7. fit \in Nat \ {0} /\ (fit = 1 \/ P * fit <= MaxPlanCalls)
  BY <1>5, <1>6 DEF AtLeast
<1>8. \A row \in rows : CityOf(row) \in FanOutCities(rows, n)
                          <=> OrdinalOf(row) <= n /\ OrdinalOf(row) < fit
  <2>1. FanOutCities(rows, n) =
          {CityOf(row) : row \in {r \in wave :
             Cardinality({q \in wave : OrdinalOf(q) < OrdinalOf(r)}) < fit}}
    BY DEF FanOutCities
  <2>2. \A r \in wave : Cardinality({q \in wave : OrdinalOf(q) < OrdinalOf(r)}) = OrdinalOf(r)
    BY RankIsOrdinal
  <2> HIDE DEF fit
  <2>3. {r \in wave : Cardinality({q \in wave : OrdinalOf(q) < OrdinalOf(r)}) < fit}
          = {r \in wave : OrdinalOf(r) < fit}
    BY <2>2
  <2>4. FanOutCities(rows, n) = {CityOf(row) : row \in {r \in wave : OrdinalOf(r) < fit}}
    BY <2>1, <2>3
  <2>5. \A row, other \in rows : CityOf(row) = CityOf(other) => row = other
    BY DEF Tidy
  <2>6. QED BY <2>4, <2>5
<1>9. ASSUME PlanBudgetCovers, NEW row \in rows, OrdinalOf(row) <= n
      PROVE  OrdinalOf(row) < fit
  <2>1. P * Cardinality(wave) <= P * MaxCandidates
    BY <1>1, <1>2, ProductGrows
  <2>2. maxRows = P * Cardinality(wave)
    <3>1. P * MaxCandidates \in Nat /\ P * MaxCandidates <= MaxPlanCalls
      BY <1>1, <1>9, ProductGrows DEF PlanBudgetCovers
    <3>2. calls <= MaxPlanCalls
      BY <1>1, <1>3, <2>1, <3>1
    <3>3. QED BY <3>2 DEF AtMost
  <2>3. maxRows \div P = Cardinality(wave)
    BY <1>1, <1>2, <2>2, ProductQuotient
  <2>4. Cardinality({q \in wave : OrdinalOf(q) < OrdinalOf(row)}) = OrdinalOf(row)
    BY <1>9, RankIsOrdinal
  <2>5. OrdinalOf(row) < Cardinality(wave)
    <3> DEFINE before == {q \in wave : OrdinalOf(q) < OrdinalOf(row)}
    <3>1. row \in wave /\ OrdinalOf(row) \in Nat
      BY <1>9 DEF Tidy, OrdinalOf
    <3>2. before \in SUBSET wave /\ row \notin before
      BY <3>1
    <3>3. before # wave
      BY <3>1, <3>2
    <3>4. Cardinality(before) <= Cardinality(wave) /\ Cardinality(before) # Cardinality(wave)
      <4> HIDE DEF before
      <4>1. QED BY <1>2, <3>2, <3>3, FS_Subset
    <3>5. QED BY <1>2, <2>4, <3>1, <3>4
  <2>6. fit = AtLeast(1, Cardinality(wave))
    BY <2>3
  <2>7. fit >= Cardinality(wave) /\ fit \in Nat
    BY <1>2, <2>6 DEF AtLeast
  <2>8. OrdinalOf(row) \in Nat
    BY DEF Tidy, OrdinalOf
  <2> HIDE DEF fit, wave
  <2>9. QED BY <1>2, <2>5, <2>7, <2>8
<1>10. QED BY <1>7, <1>8, <1>9

\* Cutting the rows to the wave first makes no difference.
LEMMA FanOutOfWave ==
  ASSUME NEW rows, NEW n
  PROVE  FanOutCities({row \in rows : OrdinalOf(row) <= n}, n) = FanOutCities(rows, n)
<1>1. {row \in {r \in rows : OrdinalOf(r) <= n} : OrdinalOf(row) <= n}
        = {row \in rows : OrdinalOf(row) <= n}
  OBVIOUS
<1>2. QED BY <1>1 DEF FanOutCities

\* The fan-outs of the generation and of a finalization: the first rows of the
\* candidates up to the wave are routed afterwards, and those that were before.
LEMMA FanOutRoutes ==
  ASSUME TypeOK, NEW rows, NEW n \in Nat, NEW also, FanOut(rows, n, also), Tidy(candidates'),
         FanOutCities(rows, n) = FanOutCities(candidates', n)
  PROVE  \E fit \in Nat \ {0} :
           /\ fit = 1 \/ Cardinality(Participants) * fit <= MaxPlanCalls
           /\ PlanBudgetCovers =>
                \A row \in candidates' : OrdinalOf(row) <= n => OrdinalOf(row) < fit
           /\ \A row \in candidates' :
                Routed(row)' <=> Routed(row) \/ (OrdinalOf(row) <= n /\ OrdinalOf(row) < fit)
<1>1. PICK fit \in Nat \ {0} :
        /\ fit = 1 \/ Cardinality(Participants) * fit <= MaxPlanCalls
        /\ PlanBudgetCovers =>
             \A row \in candidates' : OrdinalOf(row) <= n => OrdinalOf(row) < fit
        /\ \A row \in candidates' : CityOf(row) \in FanOutCities(candidates', n)
                                 <=> OrdinalOf(row) <= n /\ OrdinalOf(row) < fit
  BY FanOutTakesFirst
<1>2. \A k \in Work : work'[k] # "absent" <=>
                        work[k] # "absent" \/ k[2] \in FanOutCities(candidates', n)
  BY DEF FanOut
<1>3. PICK p \in Participants : TRUE
  BY ParticipantCount, FS_EmptySet
<1>4. ASSUME NEW row \in candidates'
      PROVE  Routed(row)' <=> Routed(row) \/ CityOf(row) \in FanOutCities(candidates', n)
  <2>1. \A q \in Participants : <<q, CityOf(row)>> \in Work /\ <<q, CityOf(row)>>[2] = CityOf(row)
    BY DEF Tidy, Work, CityOf
  <2>2. QED BY <1>2, <1>3, <2>1 DEF Routed
<1>5. QED BY <1>1, <1>4

-----------------------------------------------------------------------------
(* Waves.                                                                   *)

\* Routed to the end, and not for every participant with success.
Infeasible(row) ==
  /\ \A p \in Participants : work[<<p, CityOf(row)>>] \in TerminalRouting
  /\ \E p \in Participants : work[<<p, CityOf(row)>>] = "no_journeys"

\* No candidate is routed before the ones in front of it.
RoutedInOrder ==
  \A row, earlier \in candidates :
    OrdinalOf(earlier) < OrdinalOf(row) /\ Routed(row) => Routed(earlier)

\* A slot expands only after it has found everything before the wave infeasible.
ExpandsAfterWave ==
  \A s \in Slots : exec[s].at = "expand" =>
    /\ candidates # {}
    /\ \A row \in candidates : OrdinalOf(row) < exec[s].wave => Infeasible(row)

WaveInv ==
  /\ RoutedInOrder
  /\ ExpandsAfterWave
  /\ WavesInOrder
  /\ search.result = "no_feasible_candidates" => candidates # {} /\ NoFeasibleIsExhaustive

\* An expansion follows the finalization that has decided on it.
LEMMA ExpandFollowsFinalization ==
  ASSUME RowInv, [Next]_vars, NEW t \in Slots, exec'[t].at = "expand"
  PROVE  \/ exec'[t] = exec[t]
         \/ /\ FinalizeExpands(t)
            /\ \E row \in Active : /\ IsTopOrdinal(OrdinalOf(row))
                                   /\ exec'[t].wave = OrdinalOf(row) + 1
<1> DEFINE Stays == exec'[t] = exec[t]
<1>1. exec \in [Slots -> Execution]
  BY DEF RowInv, TypeOK
<1>2. \A s \in Slots : \A phase : Goto(s, phase) /\ phase # "expand" => Stays
  BY <1>1 DEF Goto, Execution
<1>3. \A s \in Slots : exec' = [exec EXCEPT ![s] = Idle] => Stays
  BY <1>1 DEF Idle
<1>4. ASSUME NEW s \in Slots, FinalizeExpands(s)
      PROVE  \/ Stays
             \/ /\ FinalizeExpands(t)
                /\ \E row \in Active : /\ IsTopOrdinal(OrdinalOf(row))
                                       /\ exec'[t].wave = OrdinalOf(row) + 1
  <2>1. PICK row \in Active :
          /\ IsTopOrdinal(OrdinalOf(row))
          /\ exec' = [exec EXCEPT ![s] = [exec[s] EXCEPT !.at = "expand", !.wave = OrdinalOf(row) + 1]]
    BY <1>4 DEF FinalizeExpands
  <2>2. CASE t = s
    BY <1>1, <1>4, <2>1, <2>2 DEF Execution
  <2>3. CASE t # s
    BY <1>1, <2>1, <2>3
  <2>4. QED BY <2>2, <2>3
<1>5. ASSUME NEW s \in Slots, Handler(s), ~FinalizeExpands(s) PROVE Stays
  <2>1. CASE Settle(s) \/ RetryPlan(s)
    BY <1>3, <2>1 DEF Settle, RetryPlan, Throw
  <2>2. CASE ReadCatalog(s)
    BY <1>1, <2>2 DEF ReadCatalog, Execution
  <2>3. CASE \/ FinalizeTooEarlyOrLate(s) \/ FinalizeFails(s) \/ FinalizeNoCandidates(s)
             \/ FinalizeNoFeasible(s) \/ FinalizeRanks(s) \/ ExpandWave(s)
    BY <1>2, <2>3 DEF FinalizeTooEarlyOrLate, FinalizeFails, FinalizeNoCandidates,
      FinalizeNoFeasible, FinalizeRanks, FinalizationStep, ExpandWave
  <2>4. CASE ClaimWork(s) \/ CheckJourneys(s) \/ Reclaim(s) \/ CountWork(s) \/ ExhaustPlan(s)
             \/ RefusePlan(s) \/ \E found \in BOOLEAN : CompletePlan(s, found)
    BY <1>2, <2>4 DEF ClaimWork, CheckJourneys, Reclaim, CountWork, ExhaustPlan, RefusePlan,
      CompletePlan, RoutingStep
  <2>5. CASE Kickoff(s) \/ ClaimGeneration(s) \/ RejectGeneration(s) \/ PersistCandidates(s)
    BY <1>2, <2>5 DEF Kickoff, ClaimGeneration, RejectGeneration, PersistCandidates
  <2>6. QED BY <1>5, <2>1, <2>2, <2>3, <2>4, <2>5 DEF Handler
<1>6. ASSUME NEW s \in Slots, DatabaseUnavailable(s) \/ Crash(s) PROVE Stays
  BY <1>3, <1>6 DEF DatabaseUnavailable, Throw, Crash
<1>7. ASSUME NEW s \in Slots, NEW e \in Events, Deliver(s, e) PROVE Stays
  BY <1>1, <1>7 DEF Deliver, Idle
<1>8. Next => \/ \E s \in Slots : Handler(s) \/ DatabaseUnavailable(s) \/ Crash(s)
              \/ \E s \in Slots, e \in Events : Deliver(s, e)
              \/ exec' = exec
  BY DEF Next, RecoverStalled, LoseLock, Requeue, PublishAgain, ImportCatalog
<1>9. QED BY <1>4, <1>5, <1>6, <1>7, <1>8 DEF vars

\* The candidates of an evaluable wave without a feasible city are infeasible.
LEMMA EvaluatedWaveIsInfeasible ==
  ASSUME TypeOK, Evaluable, FeasibleCities = {}, NEW row \in Active
  PROVE  Infeasible(row)
<1>1. CityOf(row) \in ActiveCities
  BY DEF ActiveCities
<1>2. \A p \in Participants : work[<<p, CityOf(row)>>] \in {"succeeded", "no_journeys"}
  BY <1>1, EvaluableIsRouted
<1>3. CityFeasibility(CityOf(row)) # "feasible"
  BY <1>1 DEF FeasibleCities
<1>4. QED BY <1>2, <1>3 DEF CityFeasibility, Infeasible, TerminalRouting

\* Up to the highest routed ordinal every candidate is routed.
LEMMA BelowTopIsActive ==
  ASSUME Tidy(candidates), RoutedInOrder, NEW n \in Nat, IsTopOrdinal(n),
         NEW row \in candidates, OrdinalOf(row) <= n
  PROVE  row \in Active
<1>1. PICK top \in Active : OrdinalOf(top) = n
  BY DEF IsTopOrdinal
<1>2. top \in candidates /\ Routed(top)
  BY <1>1 DEF Active, Routed
<1>3. OrdinalOf(row) \in Nat
  BY DEF Tidy, OrdinalOf
<1>4. CASE OrdinalOf(row) = n
  BY <1>1, <1>2, <1>4 DEF Tidy
<1>5. CASE OrdinalOf(row) < n
  BY <1>1, <1>2, <1>5 DEF RoutedInOrder, Routed, Active
<1>6. QED BY <1>3, <1>4, <1>5

\* Infeasible stays infeasible.
LEMMA InfeasibleStays ==
  ASSUME WorkSettles, TypeOK, NEW row \in candidates, Infeasible(row)
  PROVE  Infeasible(row)'
<1>1. \A p \in Participants : <<p, CityOf(row)>> \in Work
  BY DEF TypeOK, Work, CityOf
<1>2. \A p \in Participants : work'[<<p, CityOf(row)>>] = work[<<p, CityOf(row)>>]
  BY <1>1 DEF WorkSettles, Infeasible
<1>3. QED BY <1>2 DEF Infeasible

\* A finite set of ordinals that leaves none out has a highest one: as many
\* ordinals as the set has are below its size.
LEMMA HighestOrdinal ==
  ASSUME NEW A, NEW c \in Nat, A \in SUBSET (0 .. (c - 1)), A # {},
         \A x \in A : \A i \in 0 .. x : i \in A
  PROVE  \E n \in A : \A x \in A : x <= n
<1>1. IsFiniteSet(A)
  <2>1. 0 \in Int /\ c - 1 \in Int
    OBVIOUS
  <2>2. IsFiniteSet(0 .. (c - 1))
    BY <2>1, FS_Interval
  <2>3. QED BY <2>2, FS_Subset
<1>2. PICK a \in Nat : a = Cardinality(A)
  BY <1>1, FS_CardinalityType
<1>3. ASSUME NEW x \in A, x >= a PROVE FALSE
  <2>1. x \in Nat
    OBVIOUS
  <2>2. 0 .. a \in SUBSET A
    BY <1>2, <1>3, <2>1
  <2>3. Cardinality(0 .. a) = a + 1
    BY <1>2, FS_Interval
  <2>4. Cardinality(0 .. a) <= a
    BY <1>1, <1>2, <2>2, FS_Subset
  <2>5. QED BY <1>2, <2>3, <2>4
<1>4. \A x \in A : x \in Nat /\ x < a
  BY <1>2, <1>3
<1>5. A \in SUBSET (0 .. (a - 1))
  BY <1>2, <1>4
<1>6. A = 0 .. (a - 1)
  <2>1. 0 \in Int /\ a - 1 \in Int
    OBVIOUS
  <2>2. IsFiniteSet(0 .. (a - 1)) /\ Cardinality(0 .. (a - 1)) = a
    BY <2>1, FS_Interval
  <2>3. QED BY <1>2, <1>5, <2>2, FS_Subset
<1>7. a - 1 \in A
  <2>1. PICK x \in A : x \in Nat /\ x < a
    BY <1>4
  <2>2. a - 1 \in 0 .. (a - 1)
    BY <2>1
  <2>3. QED BY <1>6, <2>2
<1>8. \A x \in A : x <= a - 1
  BY <1>2, <1>4
<1>9. QED BY <1>7, <1>8

\* Active candidates are the first ones, so one of them has the highest ordinal.
LEMMA TopExists ==
  ASSUME Tidy(candidates), RoutedInOrder, Active # {}
  PROVE  \E n \in Nat : IsTopOrdinal(n)
<1> DEFINE A == {OrdinalOf(row) : row \in Active}
<1>1. Active \subseteq candidates /\ \A row \in Active : Routed(row)
  BY DEF Active, Routed
<1>2. PICK c \in Nat : c = Cardinality(candidates)
  BY FS_CardinalityType DEF Tidy
<1>3. \A row \in candidates : OrdinalOf(row) \in 0 .. (c - 1)
  BY <1>2 DEF Tidy, OrdinalOf
<1>4. A \in SUBSET (0 .. (c - 1)) /\ A # {}
  BY <1>1, <1>3
<1>5. ASSUME NEW x \in A, NEW i \in 0 .. x PROVE i \in A
  <2>1. PICK row \in Active : OrdinalOf(row) = x
    BY <1>5
  <2>2. x \in 0 .. (c - 1)
    BY <1>4
  <2>3. i \in 0 .. (c - 1) /\ (i = x \/ i < x)
    BY <1>2, <2>2
  <2>4. PICK earlier \in candidates : OrdinalOf(earlier) = i
    BY <1>2, <2>3 DEF Tidy
  <2>5. CASE i < x
    <3>1. Routed(earlier)
      BY <1>1, <2>1, <2>4, <2>5 DEF RoutedInOrder
    <3>2. earlier \in Active
      BY <3>1 DEF Active, Routed
    <3>3. QED BY <2>4, <3>2
  <2>6. QED BY <1>5, <2>3, <2>5
<1>6. PICK n \in A : \A x \in A : x <= n
  <2> HIDE DEF A
  <2>1. QED BY <1>2, <1>4, <1>5, HighestOrdinal
<1>7. n \in Nat
  BY <1>2, <1>4
<1>8. IsTopOrdinal(n)
  BY <1>6 DEF IsTopOrdinal
<1>9. QED BY <1>7, <1>8

\* Behind the last wave every candidate is active.
LEMMA LastWaveIsWhole ==
  ASSUME Tidy(candidates), RoutedInOrder, NEW n \in Nat, IsTopOrdinal(n), ~CanExpandFrom(n),
         NEW row \in candidates
  PROVE  row \in Active
<1>1. OrdinalOf(row) \in Nat /\ OrdinalOf(row) < Cardinality(candidates)
      /\ Cardinality(candidates) \in Nat /\ Cardinality(candidates) <= MaxCandidates
      /\ MaxCandidates \in Nat
  BY FS_CardinalityType, SearchPipelineAssumption DEF Tidy, OrdinalOf
<1>2. OrdinalOf(row) <= n
  BY <1>1 DEF CanExpandFrom
<1>3. QED BY <1>2, BelowTopIsActive

\* The expansion that a finalization decides on comes after its wave.
LEMMA ExpansionIsDue ==
  ASSUME AnswerInv, WaveInv, NEW t \in Slots, FinalizeExpands(t),
         NEW n \in Nat, IsTopOrdinal(n), NEW row \in candidates, OrdinalOf(row) < n + 1
  PROVE  candidates # {} /\ Infeasible(row)
<1>1. OrdinalOf(row) <= n
  <2>1. OrdinalOf(row) \in Nat
    BY CandidatesAreTidy DEF AnswerInv, Tidy, OrdinalOf
  <2>2. QED BY <2>1
<1>2. row \in Active
  BY <1>1, BelowTopIsActive, CandidatesAreTidy DEF AnswerInv, WaveInv
<1>3. QED
  BY <1>2, EvaluatedWaveIsInfeasible
    DEF FinalizeExpands, AnswerInv, VerdictInv, LifecycleInv, RowInv, TypeOK

\* Steps that route no new row.
LEMMA OtherStepsKeepWaves ==
  ASSUME AnswerInv, WaveInv, [Next]_vars, candidates' = candidates,
         \A k \in Work : work'[k] = "absent" <=> work[k] = "absent"
  PROVE  RoutedInOrder' /\ ExpandsAfterWave' /\ WavesInOrder'
<1>1. TypeOK /\ RowInv /\ Tidy(candidates)
  BY CandidatesAreTidy DEF AnswerInv, VerdictInv, LifecycleInv, RowInv
<1>2. \A row \in candidates : Routed(row)' <=> Routed(row)
  BY <1>1 DEF TypeOK, Routed, Work, CityOf
<1>3. \A row \in candidates : Infeasible(row) => Infeasible(row)'
  BY <1>1, NextSettlesWork, InfeasibleStays
<1>4. RoutedInOrder'
  BY <1>2 DEF WaveInv, RoutedInOrder
<1>5. WavesInOrder'
  BY <1>2, <1>3 DEF WaveInv, WavesInOrder, Routed, Infeasible
<1>6. ASSUME NEW t \in Slots, exec'[t].at = "expand"
      PROVE  /\ candidates' # {}
             /\ \A row \in candidates' : OrdinalOf(row) < exec'[t].wave => Infeasible(row)'
  <2>1. CASE exec'[t] = exec[t]
    BY <1>3, <1>6, <2>1 DEF WaveInv, ExpandsAfterWave
  <2>2. ASSUME FinalizeExpands(t), NEW top \in Active, IsTopOrdinal(OrdinalOf(top)),
               exec'[t].wave = OrdinalOf(top) + 1
        PROVE  /\ candidates' # {}
               /\ \A row \in candidates' : OrdinalOf(row) < exec'[t].wave => Infeasible(row)'
    <3>1. top \in candidates /\ OrdinalOf(top) \in Nat
      BY <1>1, <2>2 DEF Active, TypeOK, OrdinalOf
    <3>2. QED BY <1>3, <2>2, <3>1, ExpansionIsDue
  <2>3. QED BY <1>1, <1>6, <2>1, <2>2, ExpandFollowsFinalization
<1>7. QED BY <1>4, <1>5, <1>6 DEF ExpandsAfterWave

\* The generation routes the first wave, of one answer.
LEMMA PersistKeepsWaves ==
  ASSUME AnswerInv, AnswerInv', WaveInv, [Next]_vars, NEW s \in Slots, PersistCandidates(s)
  PROVE  RoutedInOrder' /\ ExpandsAfterWave' /\ WavesInOrder'
<1>1. TypeOK /\ RowInv /\ Tidy(candidates')
  <2>1. OneAnswer'
    BY DEF AnswerInv
  <2>2. Tidy(candidates)'
    BY <2>1, CandidatesAreTidy, RankingsAreTidy, NoRowsAreTidy DEF OneAnswer
  <2>3. QED BY <2>2 DEF AnswerInv, VerdictInv, LifecycleInv, RowInv
<1>2. candidates = {} \/ candidates = candidates'
  BY <1>1, PersistOnce DEF AnswerInv
<1> DEFINE n == InitialCandidates - 1
<1>3. n \in Nat
  BY SearchPipelineAssumption
<1>4. PICK fit \in Nat \ {0} : \A row \in candidates' :
        Routed(row)' <=> Routed(row) \/ (OrdinalOf(row) <= n /\ OrdinalOf(row) < fit)
  BY <1>1, <1>3, FanOutRoutes DEF PersistCandidates
<1>5. ASSUME NEW row \in candidates', Routed(row) PROVE candidates = candidates'
  <2>1. PICK p \in Participants : work[<<p, CityOf(row)>>] # "absent"
    BY <1>5 DEF Routed
  <2>2. <<p, CityOf(row)>> \in Work
    BY <1>1 DEF Tidy, Work, CityOf
  <2>3. candidates # {}
    BY <2>1, <2>2 DEF AnswerInv, RowsInv, RowsHaveCandidates
  <2>4. QED BY <1>2, <2>3
<1>6. \A row \in candidates' : OrdinalOf(row) \in Nat
  BY <1>1 DEF Tidy, OrdinalOf
<1>7. \A row \in candidates : Infeasible(row) => Infeasible(row)'
  BY <1>1, NextSettlesWork, InfeasibleStays
<1>8. RoutedInOrder'
  <2>1. SUFFICES ASSUME NEW row \in candidates', NEW earlier \in candidates',
                        OrdinalOf(earlier) < OrdinalOf(row), Routed(row)'
                 PROVE  Routed(earlier)'
    BY DEF RoutedInOrder
  <2>2. CASE Routed(row)
    BY <1>4, <1>5, <2>1, <2>2 DEF WaveInv, RoutedInOrder
  <2>3. CASE OrdinalOf(row) <= n /\ OrdinalOf(row) < fit
    BY <1>3, <1>4, <1>6, <2>1, <2>3
  <2>4. QED BY <1>4, <2>1, <2>2, <2>3
<1>9. WavesInOrder'
  <2>1. SUFFICES ASSUME NEW row \in candidates', NEW earlier \in candidates',
                        OrdinalOf(earlier) < OrdinalOf(row),
                        OrdinalOf(row) >= InitialCandidates, Routed(row)'
                 PROVE  Infeasible(earlier)'
    BY DEF WavesInOrder, Routed, Infeasible
  <2>2. Routed(row)
    BY <1>3, <1>4, <1>6, <2>1, SearchPipelineAssumption
  <2>3. candidates = candidates'
    BY <1>5, <2>2
  <2>4. Infeasible(earlier)
    BY <2>1, <2>2, <2>3 DEF WaveInv, WavesInOrder, Routed, Infeasible
  <2>5. QED BY <1>7, <2>3, <2>4
<1>10. ExpandsAfterWave'
  <2>1. ASSUME NEW t \in Slots, exec'[t].at = "expand" PROVE exec'[t] = exec[t]
    BY <1>1, <2>1 DEF PersistCandidates, Goto, RowInv, TypeOK, Execution
  <2>2. QED BY <1>2, <1>7, <2>1 DEF WaveInv, ExpandsAfterWave
<1>11. QED BY <1>8, <1>9, <1>10

\* An expansion routes the next wave, after what comes before it.
LEMMA ExpandKeepsWaves ==
  ASSUME AnswerInv, WaveInv, [Next]_vars, NEW s \in Slots, ExpandWave(s)
  PROVE  RoutedInOrder' /\ ExpandsAfterWave' /\ WavesInOrder'
<1>1. TypeOK /\ RowInv /\ Tidy(candidates) /\ candidates' = candidates
  BY CandidatesAreTidy DEF AnswerInv, VerdictInv, LifecycleInv, RowInv, ExpandWave
<1> DEFINE n == exec[s].wave
<1>2. n \in Nat /\ exec[s].at = "expand"
  BY <1>1 DEF TypeOK, Execution, ExpandWave, At
<1>3. PICK fit \in Nat \ {0} : \A row \in candidates :
        Routed(row)' <=> Routed(row) \/ (OrdinalOf(row) <= n /\ OrdinalOf(row) < fit)
  BY <1>1, <1>2, FanOutRoutes, FanOutOfWave DEF ExpandWave
<1>4. \A row \in candidates : OrdinalOf(row) \in Nat
  BY <1>1 DEF Tidy, OrdinalOf
<1>5. \A row \in candidates : Infeasible(row) => Infeasible(row)'
  BY <1>1, NextSettlesWork, InfeasibleStays
<1>6. RoutedInOrder'
  <2>1. SUFFICES ASSUME NEW row \in candidates, NEW earlier \in candidates,
                        OrdinalOf(earlier) < OrdinalOf(row), Routed(row)'
                 PROVE  Routed(earlier)'
    BY <1>1 DEF RoutedInOrder
  <2>2. CASE Routed(row)
    BY <1>3, <2>1, <2>2 DEF WaveInv, RoutedInOrder
  <2>3. CASE OrdinalOf(row) <= n /\ OrdinalOf(row) < fit
    BY <1>2, <1>3, <1>4, <2>1, <2>3
  <2>4. QED BY <1>3, <2>1, <2>2, <2>3
<1>7. WavesInOrder'
  <2>1. SUFFICES ASSUME NEW row \in candidates, NEW earlier \in candidates,
                        OrdinalOf(earlier) < OrdinalOf(row),
                        OrdinalOf(row) >= InitialCandidates, Routed(row)'
                 PROVE  Infeasible(earlier)'
    BY <1>1 DEF WavesInOrder, Routed, Infeasible
  <2>2. CASE Routed(row)
    BY <1>5, <2>1, <2>2 DEF WaveInv, WavesInOrder, Routed, Infeasible
  <2>3. CASE OrdinalOf(row) <= n
    <3>1. OrdinalOf(earlier) < n
      BY <1>2, <1>4, <2>1, <2>3
    <3>2. QED BY <1>2, <1>5, <3>1 DEF WaveInv, ExpandsAfterWave
  <2>4. QED BY <1>3, <2>1, <2>2, <2>3
<1>8. ExpandsAfterWave'
  <2>1. ASSUME NEW t \in Slots, exec'[t].at = "expand" PROVE exec'[t] = exec[t]
    BY <1>1, <2>1 DEF ExpandWave, Goto, RowInv, TypeOK, Execution
  <2>2. QED BY <1>1, <1>5, <2>1 DEF WaveInv, ExpandsAfterWave
<1>9. QED BY <1>6, <1>7, <1>8

\* "No feasible candidates" is said when every candidate is infeasible.
LEMMA NoFeasibleIsTheLastWord ==
  ASSUME AnswerInv, WaveInv, NEW s \in Slots, FinalizeNoFeasible(s), NEW row \in candidates
  PROVE  Infeasible(row)
<1>1. Tidy(candidates) /\ RoutedInOrder /\ Evaluable /\ FeasibleCities = {} /\ Active # {}
  BY CandidatesAreTidy DEF AnswerInv, WaveInv, FinalizeNoFeasible, Evaluable, WaveReady
<1>2. PICK n \in Nat : IsTopOrdinal(n)
  BY <1>1, TopExists
<1>3. ~CanExpandFrom(n)
  BY <1>2 DEF FinalizeNoFeasible, IsTopOrdinal
<1>4. row \in Active
  BY <1>1, <1>2, <1>3, LastWaveIsWhole
<1>5. QED
  BY <1>1, <1>4, EvaluatedWaveIsInfeasible DEF AnswerInv, VerdictInv, LifecycleInv, RowInv

\* The waves stay in order, and the verdict about them stays true.
LEMMA NextKeepsWaves ==
  ASSUME AnswerInv, AnswerInv', WaveInv, [Next]_vars
  PROVE  WaveInv'
<1>1. RoutedInOrder' /\ ExpandsAfterWave' /\ WavesInOrder'
  <2>1. ASSUME NEW s \in Slots, PersistCandidates(s)
        PROVE  RoutedInOrder' /\ ExpandsAfterWave' /\ WavesInOrder'
    BY <2>1, PersistKeepsWaves
  <2>2. ASSUME NEW s \in Slots, ExpandWave(s)
        PROVE  RoutedInOrder' /\ ExpandsAfterWave' /\ WavesInOrder'
    BY <2>2, ExpandKeepsWaves
  <2>3. QED
    BY <2>1, <2>2, OtherStepsKeepWaves, CandidateWriters, RowCreators
      DEF AnswerInv, VerdictInv, LifecycleInv
<1>2. TypeOK /\ WorkSettles
  BY NextSettlesWork DEF AnswerInv, VerdictInv, LifecycleInv, RowInv
<1>3. \A row \in candidates : Infeasible(row) => Infeasible(row)'
  BY <1>2, InfeasibleStays
<1> DEFINE Last == candidates # {} /\ \A row \in candidates : Infeasible(row)
<1>4. (search.result = "no_feasible_candidates" => candidates # {} /\ NoFeasibleIsExhaustive)
        <=> (search.result = "no_feasible_candidates" => Last)
  BY DEF NoFeasibleIsExhaustive, Infeasible
<1>5. candidates # {} => candidates' = candidates
  BY CandidateWriters, PersistOnce DEF AnswerInv, VerdictInv, LifecycleInv
<1>6. Last => Last'
  BY <1>3, <1>5
<1>7. search'.result = "no_feasible_candidates" => Last'
  <2>1. CASE UNCHANGED <<search, rankings>>
    BY <1>4, <1>6, <2>1 DEF WaveInv
  <2>2. CASE search' = RunningSearch
    BY <2>2 DEF RunningSearch
  <2>3. ASSUME NEW s \in Slots,
               FinalizeFails(s) \/ FinalizeNoCandidates(s) \/ FinalizeRanks(s)
        PROVE  search'.result # "no_feasible_candidates"
    BY <2>3 DEF FinalizeFails, FailureReasons, FailureCodes, Failed, FinalizeNoCandidates,
      FinalizeRanks, Completed
  <2>4. ASSUME NEW s \in Slots, FinalizeNoFeasible(s) PROVE Last'
    <3>1. candidates # {}
      BY <2>4 DEF FinalizeNoFeasible, Evaluable, WaveReady
    <3>2. QED BY <1>6, <2>4, <3>1, NoFeasibleIsTheLastWord
  <2>5. QED BY <2>1, <2>2, <2>3, <2>4, ResultWriters
<1>8. (search'.result = "no_feasible_candidates" => candidates' # {} /\ NoFeasibleIsExhaustive')
  BY <1>7 DEF NoFeasibleIsExhaustive, Infeasible
<1>9. QED BY <1>1, <1>8 DEF WaveInv

\* The invariant of the waves.
LEMMA WaveInvHolds ==
  ASSUME OneCatalog
  PROVE  Spec => [](AnswerInv /\ WaveInv)
<1>1. Init => WaveInv
  BY DEF Init, WaveInv, RoutedInOrder, ExpandsAfterWave, WavesInOrder, Idle, QueuedSearch
<1>2. AnswerInv /\ AnswerInv' /\ WaveInv /\ [Next]_vars => WaveInv'
  BY NextKeepsWaves
<1>3. Spec => []AnswerInv
  BY AnswerInvHolds
<1>4. QED BY <1>1, <1>2, <1>3, PTL DEF Spec

\* A later wave is routed only after every earlier candidate was routed to the
\* end and found infeasible, also when several finalizations expand at once,
\* crash in between, or are delivered again.
THEOREM WavesStayInOrder ==
  ASSUME OneCatalog
  PROVE  Spec => []WavesInOrder
<1>1. AnswerInv /\ WaveInv => WavesInOrder
  BY DEF WaveInv
<1>2. QED BY <1>1, WaveInvHolds, PTL

\* A search that ends with "no feasible candidates" has routed all of its
\* candidates, and none can be reached by everybody.
THEOREM NoFeasibleIsTheTruth ==
  ASSUME OneCatalog
  PROVE  Spec => []NoFeasibleIsExhaustive
<1>1. AnswerInv /\ WaveInv => NoFeasibleIsExhaustive
  BY DEF WaveInv, NoFeasibleIsExhaustive
<1>2. QED BY <1>1, WaveInvHolds, PTL

-----------------------------------------------------------------------------
(* The plan budget.                                                         *)

\* One candidate can always be routed (the code allows 6 participants and 18
\* plan calls).
OneRowFits == Cardinality(Participants) <= MaxPlanCalls

\* A candidate is routed when the budget covers it and those in front of it.
RoutedWithinBudget ==
  \A row \in candidates : Routed(row) =>
    Cardinality(Participants) * (OrdinalOf(row) + 1) <= MaxPlanCalls

\* A fan-out stops at the budget.
LEMMA FanOutKeepsBudget ==
  ASSUME TypeOK, OneRowFits, RoutedWithinBudget, Tidy(candidates'), NEW rows, NEW n \in Nat,
         NEW also, FanOut(rows, n, also), FanOutCities(rows, n) = FanOutCities(candidates', n),
         \A row \in candidates' : Routed(row) => row \in candidates
  PROVE  RoutedWithinBudget'
<1> DEFINE P == Cardinality(Participants)
<1>1. P \in Nat \ {0} /\ P <= MaxPlanCalls /\ MaxPlanCalls \in Nat
  BY ParticipantCount, SearchPipelineAssumption DEF OneRowFits
<1>2. PICK fit \in Nat \ {0} :
        /\ fit = 1 \/ P * fit <= MaxPlanCalls
        /\ \A row \in candidates' :
             Routed(row)' <=> Routed(row) \/ (OrdinalOf(row) <= n /\ OrdinalOf(row) < fit)
  BY FanOutRoutes
<1>3. ASSUME NEW row \in candidates', Routed(row)'
      PROVE  P * (OrdinalOf(row) + 1) <= MaxPlanCalls
  <2>1. OrdinalOf(row) \in Nat
    BY DEF Tidy, OrdinalOf
  <2>2. CASE Routed(row)
    BY <2>2 DEF RoutedWithinBudget
  <2>3. CASE OrdinalOf(row) < fit
    <3>1. OrdinalOf(row) + 1 <= fit /\ OrdinalOf(row) + 1 \in Nat
      BY <2>1, <2>3
    <3>2. P * (OrdinalOf(row) + 1) \in Nat /\ P * fit \in Nat
          /\ P * (OrdinalOf(row) + 1) <= P * fit
      BY <1>1, <3>1, ProductGrows
    <3>3. P * fit <= MaxPlanCalls
      BY <1>1, <1>2
    <3>4. QED BY <1>1, <3>2, <3>3
  <2>4. QED BY <1>2, <1>3, <2>2, <2>3
<1>4. QED BY <1>3 DEF RoutedWithinBudget

\* So every step keeps to the budget.
LEMMA NextKeepsBudget ==
  ASSUME OneRowFits, AnswerInv, AnswerInv', RoutedWithinBudget, [Next]_vars
  PROVE  RoutedWithinBudget'
<1>1. TypeOK /\ RowInv /\ Tidy(candidates)
  BY CandidatesAreTidy DEF AnswerInv, VerdictInv, LifecycleInv, RowInv
<1>2. Tidy(candidates')
  BY RankingsAreTidy, NoRowsAreTidy DEF AnswerInv, OneAnswer
<1>3. ASSUME NEW s \in Slots, PersistCandidates(s) PROVE RoutedWithinBudget'
  <2>1. candidates = {} \/ candidates = candidates'
    BY <1>1, <1>3, PersistOnce DEF AnswerInv
  <2>2. ASSUME NEW row \in candidates', Routed(row) PROVE row \in candidates
    <3>1. PICK p \in Participants : work[<<p, CityOf(row)>>] # "absent"
      BY <2>2 DEF Routed
    <3>2. <<p, CityOf(row)>> \in Work
      BY <1>2 DEF Tidy, Work, CityOf
    <3>3. candidates # {}
      BY <3>1, <3>2 DEF AnswerInv, RowsInv, RowsHaveCandidates
    <3>4. QED BY <2>1, <3>3
  <2>3. InitialCandidates - 1 \in Nat
    BY SearchPipelineAssumption
  <2>4. QED BY <1>1, <1>2, <1>3, <2>2, <2>3, FanOutKeepsBudget DEF PersistCandidates
<1>4. ASSUME NEW s \in Slots, ExpandWave(s) PROVE RoutedWithinBudget'
  <2>1. exec[s].wave \in Nat /\ candidates' = candidates
    BY <1>1, <1>4 DEF TypeOK, Execution, ExpandWave
  <2>2. QED BY <1>1, <1>2, <1>4, <2>1, FanOutKeepsBudget, FanOutOfWave DEF ExpandWave
<1>5. CASE /\ \A k \in Work : work'[k] = "absent" <=> work[k] = "absent"
           /\ candidates' = candidates
  <2>1. \A row \in candidates : Routed(row)' <=> Routed(row)
    BY <1>1, <1>5 DEF TypeOK, Routed, Work, CityOf
  <2>2. QED BY <1>5, <2>1 DEF RoutedWithinBudget
<1>6. QED BY <1>1, <1>3, <1>4, <1>5, CandidateWriters, RowCreators

\* As many active candidates as the highest of their ordinals says, and as many
\* rows as they have pairs.
LEMMA ActiveRowsWithinBudget ==
  ASSUME AnswerInv, RoutedInOrder, RoutedWithinBudget
  PROVE  WorkWithinBudget
<1> DEFINE P == Cardinality(Participants)
<1>1. TypeOK /\ Tidy(candidates) /\ P \in Nat \ {0} /\ MaxPlanCalls \in Nat
  BY CandidatesAreTidy, ParticipantCount, SearchPipelineAssumption
    DEF AnswerInv, VerdictInv, LifecycleInv, RowInv
<1>2. \A k \in WorkRows : k \in Work /\ \E row \in Active : CityOf(row) = k[2]
  <2>1. SUFFICES ASSUME NEW k \in WorkRows
                 PROVE  k \in Work /\ \E row \in Active : CityOf(row) = k[2]
    OBVIOUS
  <2>2. k \in Work /\ work[k] # "absent"
    BY DEF WorkRows
  <2>3. PICK row \in candidates : CityOf(row) = k[2]
    BY <2>2 DEF AnswerInv, RowsInv, RowsHaveCandidates
  <2>4. k = <<k[1], CityOf(row)>> /\ k[1] \in Participants
    BY <2>2, <2>3 DEF Work
  <2>5. row \in Active
    BY <2>2, <2>4 DEF Active
  <2>6. QED BY <2>2, <2>3, <2>5
<1>3. CASE Active = {}
  <2>1. WorkRows = {}
    BY <1>2, <1>3
  <2>2. QED BY <1>1, <2>1, FS_EmptySet DEF WorkWithinBudget
<1>4. CASE Active # {}
  <2>1. PICK n \in Nat : IsTopOrdinal(n)
    BY <1>1, <1>4, TopExists
  <2>2. P * (n + 1) <= MaxPlanCalls
    BY <2>1 DEF IsTopOrdinal, Active, Routed, RoutedWithinBudget
  <2>3. IsFiniteSet(Active) /\ Cardinality(Active) <= n + 1 /\ Cardinality(Active) \in Nat
    <3> DEFINE f == [row \in Active |-> OrdinalOf(row)]
    <3>1. \A row \in Active : OrdinalOf(row) \in 0 .. n
      BY <1>1, <2>1, SMTT(30) DEF IsTopOrdinal, Active, Tidy, OrdinalOf
    <3>2. \A row, other \in Active : OrdinalOf(row) = OrdinalOf(other) => row = other
      BY <1>1 DEF Active, Tidy
    <3>3. f \in Injection(Active, 0 .. n)
      BY <3>1, <3>2 DEF Injection, IsInjective
    <3>4. 0 \in Int /\ n \in Int
      OBVIOUS
    <3>5. IsFiniteSet(0 .. n) /\ Cardinality(0 .. n) = n + 1
      BY <3>4, FS_Interval
    <3> HIDE DEF f
    <3>6. QED BY <3>3, <3>5, FS_Injection, FS_CardinalityType
  <2>4. IsFiniteSet(Participants \X Active)
        /\ Cardinality(Participants \X Active) = P * Cardinality(Active)
    BY <2>3, FS_Product, SearchPipelineAssumption
  <2> DEFINE Pairs == {<<pair[1], CityOf(pair[2])>> : pair \in Participants \X Active}
             g == [pair \in Participants \X Active |-> <<pair[1], CityOf(pair[2])>>]
  <2>5. g \in Surjection(Participants \X Active, Pairs)
    BY DEF Surjection
  <2>6. IsFiniteSet(Pairs) /\ Cardinality(Pairs) <= P * Cardinality(Active)
    <3> HIDE DEF g, Pairs
    <3>1. QED BY <2>4, <2>5, FS_Surjection
  <2>7. WorkRows \in SUBSET Pairs
    <3>1. SUFFICES ASSUME NEW k \in WorkRows PROVE k \in Pairs
      OBVIOUS
    <3>2. PICK row \in Active : CityOf(row) = k[2]
      BY <1>2
    <3>3. k[1] \in Participants /\ k = <<k[1], CityOf(row)>>
      BY <1>2, <3>2 DEF Work
    <3>4. <<k[1], row>> \in Participants \X Active
      BY <3>3
    <3>5. QED BY <3>3, <3>4
  <2>8. Cardinality(WorkRows) <= Cardinality(Pairs)
        /\ Cardinality(WorkRows) \in Nat /\ Cardinality(Pairs) \in Nat
    <3> HIDE DEF Pairs
    <3>1. QED BY <2>6, <2>7, FS_Subset, FS_CardinalityType
  <2>9. P * Cardinality(Active) <= P * (n + 1)
        /\ P * Cardinality(Active) \in Nat /\ P * (n + 1) \in Nat
    BY <1>1, <2>3, ProductGrows
  <2> HIDE DEF Pairs, P
  <2>10. QED BY <1>1, <2>2, <2>6, <2>8, <2>9 DEF WorkWithinBudget
<1>5. QED BY <1>3, <1>4

\* The waves never create more routing work than the plan budget allows, so the
\* budget check of the routing handler never gives work up.
THEOREM WavesStayWithinBudget ==
  ASSUME OneCatalog, OneRowFits
  PROVE  Spec => []WorkWithinBudget
<1>1. Init => RoutedWithinBudget
  BY DEF Init, RoutedWithinBudget
<1>2. AnswerInv /\ AnswerInv' /\ RoutedWithinBudget /\ [Next]_vars => RoutedWithinBudget'
  BY NextKeepsBudget
<1>3. Spec => [](AnswerInv /\ WaveInv)
  BY WaveInvHolds
<1>4. AnswerInv /\ WaveInv /\ RoutedWithinBudget => WorkWithinBudget
  BY ActiveRowsWithinBudget DEF WaveInv
<1>5. QED BY <1>1, <1>2, <1>3, <1>4, PTL DEF Spec

-----------------------------------------------------------------------------
(* Retries.                                                                 *)

\* A job whose owner has died: the stalled-job check will find it.
Abandoned(e) ==
  jobState[e] = "active" /\ \A s \in Slots : ~(owner[e] = s /\ IsHandling(s, e))

\* The faults of a behaviour are fewer than what a job survives.  With more, a
\* finalization can fail for good while the search is running, and the recovery
\* of the pipeline has to find it.
FaultsWithinRetries ==
  /\ Budget["database"] < MaxAttempts
  /\ Budget["crash"] + Budget["lockLost"] <= MaxStalls

\* What a finalization job has gone through was paid for by a fault, the death
\* of its owner in advance.
RetriesArePaid ==
  \A e \in FinalizationEvents :
    /\ attempts[e] + budget["database"] <= Budget["database"]
    /\ stalls[e] + (IF Abandoned(e) THEN 1 ELSE 0) + budget["crash"] + budget["lockLost"]
         <= Budget["crash"] + Budget["lockLost"]

\* Finalization events are events, and no routing events.
LEMMA FinalizationEventsAreEvents ==
  ASSUME NEW e \in FinalizationEvents
  PROVE  e \in Events /\ e \notin RoutingEvents /\ e # KickoffEvent /\ e # CandidatesEvent
BY DEF FinalizationEvents, Events, RoutingEvents, GenerationFinal, KickoffEvent, CandidatesEvent

\* A spent fault is one of its kind less.
LEMMA SpentOne ==
  ASSUME TypeOK, NEW kind \in FaultKinds, Spend(kind)
  PROVE  /\ budget[kind] \in Nat /\ budget[kind] > 0 /\ budget'[kind] = budget[kind] - 1
         /\ \A other \in FaultKinds \ {kind} : budget'[other] = budget[other]
BY DEF TypeOK, Spend

\* The numbers that are compared are natural.
LEMMA CountsAreNatural ==
  ASSUME TypeOK, NEW e \in Events
  PROVE  /\ attempts[e] \in Nat /\ stalls[e] \in Nat
         /\ budget["database"] \in Nat /\ budget["crash"] \in Nat /\ budget["lockLost"] \in Nat
         /\ Budget["database"] \in Nat /\ Budget["crash"] \in Nat /\ Budget["lockLost"] \in Nat
BY SearchPipelineAssumption DEF TypeOK, FaultKinds

\* A handler that proceeds abandons no job and takes none over.
LEMMA ProceedsAbandons ==
  ASSUME RowInv, NEW s \in Slots, Proceeds(s), NEW e \in Events
  PROVE  Abandoned(e)' <=> Abandoned(e)
<1>1. jobState'[e] = "active" <=> jobState[e] = "active"
  BY DEF Proceeds
<1>2. \A t \in Slots : IsHandling(t, e)' <=> IsHandling(t, e)
  BY DEF Proceeds, IsHandling, At
<1>3. owner' = owner
  BY DEF Proceeds
<1>4. QED BY <1>1, <1>2, <1>3 DEF Abandoned

\* Neither does one that ends.
LEMMA EndAbandons ==
  ASSUME RowInv, NEW s \in Slots, Settle(s) \/ Throw(s), NEW e \in Events, Abandoned(e)'
  PROVE  Abandoned(e) /\ jobState'[e] = jobState[e] /\ owner'[e] = owner[e]
<1>1. exec' = [exec EXCEPT ![s] = Idle]
  BY DEF Settle, Throw
<1>2. CASE e = exec[s].event /\ HoldsLock(s)
  BY <1>2 DEF RowInv, TypeOK, Settle, Throw, Close, Abandoned
<1>3. CASE ~(e = exec[s].event /\ HoldsLock(s))
  <2>1. jobState'[e] = jobState[e] /\ owner'[e] = owner[e]
    BY <1>3 DEF RowInv, TypeOK, Settle, Throw, Close
  <2>2. \A t \in Slots \ {s} : IsHandling(t, e)' <=> IsHandling(t, e)
    BY <1>1 DEF RowInv, TypeOK, IsHandling, At
  <2>3. jobState[e] = "active" /\ owner[e] = s => ~IsHandling(s, e)
    BY <1>3 DEF IsHandling, HoldsLock
  <2>4. QED BY <2>1, <2>2, <2>3 DEF Abandoned
<1>4. QED BY <1>2, <1>3

\* Every retry is paid for.
LEMMA NextPaysRetries ==
  ASSUME RowInv, RetriesArePaid, [Next]_vars
  PROVE  RetriesArePaid'
<1> USE DEF RowInv
<1>0. SUFFICES ASSUME NEW e \in FinalizationEvents
      PROVE  /\ attempts'[e] + budget'["database"] <= Budget["database"]
             /\ stalls'[e] + (IF Abandoned(e)' THEN 1 ELSE 0) + budget'["crash"]
                  + budget'["lockLost"] <= Budget["crash"] + Budget["lockLost"]
  BY DEF RetriesArePaid
<1> DEFINE Paid == /\ attempts'[e] + budget'["database"] <= Budget["database"]
                   /\ stalls'[e] + (IF Abandoned(e)' THEN 1 ELSE 0) + budget'["crash"]
                        + budget'["lockLost"] <= Budget["crash"] + Budget["lockLost"]
<1>1. /\ e \in Events /\ e \notin RoutingEvents
      /\ attempts[e] \in Nat /\ stalls[e] \in Nat
      /\ budget["database"] \in Nat /\ budget["crash"] \in Nat /\ budget["lockLost"] \in Nat
      /\ Budget["database"] \in Nat /\ Budget["crash"] \in Nat /\ Budget["lockLost"] \in Nat
      /\ attempts[e] + budget["database"] <= Budget["database"]
      /\ stalls[e] + (IF Abandoned(e) THEN 1 ELSE 0) + budget["crash"] + budget["lockLost"]
           <= Budget["crash"] + Budget["lockLost"]
  BY FinalizationEventsAreEvents, CountsAreNatural DEF RetriesArePaid
<1>2. CASE /\ attempts'[e] = attempts[e] /\ stalls'[e] = stalls[e]
           /\ budget'["database"] <= budget["database"] /\ budget'["crash"] <= budget["crash"]
           /\ budget'["lockLost"] <= budget["lockLost"]
           /\ budget' \in [FaultKinds -> Nat]
           /\ Abandoned(e)' => Abandoned(e)
  BY <1>1, <1>2 DEF FaultKinds
<1>3. ASSUME NEW s \in Slots, Proceeds(s) PROVE Paid
  BY <1>1, <1>2, <1>3, ProceedsAbandons DEF Proceeds, TypeOK
<1>4. ASSUME NEW s \in Slots, Settle(s) PROVE Paid
  <2>1. attempts' = attempts /\ stalls' = stalls /\ budget' = budget
    BY <1>4 DEF Settle, worldVars
  <2>2. Abandoned(e)' => Abandoned(e)
    BY <1>1, <1>4, EndAbandons
  <2>3. QED BY <1>1, <1>2, <2>1, <2>2 DEF TypeOK
<1>5. ASSUME NEW s \in Slots, RetryPlan(s) PROVE Paid
  <2>1. exec[s].event \in RoutingEvents /\ Throw(s) /\ budget' = budget
    BY <1>5 DEF RetryPlan, ExecOK, At, worldVars
  <2>2. attempts'[e] = attempts[e] /\ stalls'[e] = stalls[e]
    BY <1>1, <2>1 DEF Throw, TypeOK
  <2>3. QED BY <1>1, <1>2, <2>1, <2>2, EndAbandons DEF TypeOK
<1>6. ASSUME NEW s \in Slots, Handler(s) PROVE Paid
  BY <1>3, <1>4, <1>5, <1>6, HandlerProceeds
<1>7. ASSUME NEW s \in Slots, DatabaseUnavailable(s) PROVE Paid
  <2>1. /\ budget["database"] > 0 /\ budget'["database"] = budget["database"] - 1
        /\ budget'["crash"] = budget["crash"] /\ budget'["lockLost"] = budget["lockLost"]
    BY <1>7, SpentOne DEF DatabaseUnavailable, FaultKinds
  <2>2. Throw(s) /\ stalls'[e] = stalls[e] /\ attempts'[e] \in {attempts[e], attempts[e] + 1}
    BY <1>1, <1>7 DEF DatabaseUnavailable, Throw, TypeOK
  <2>3. Abandoned(e)' => Abandoned(e)
    BY <1>1, <2>2, EndAbandons
  <2>4. QED BY <1>1, <2>1, <2>2, <2>3
<1>8. ASSUME NEW s \in Slots, Crash(s) PROVE Paid
  <2>1. /\ budget["crash"] > 0 /\ budget'["crash"] = budget["crash"] - 1
        /\ budget'["database"] = budget["database"] /\ budget'["lockLost"] = budget["lockLost"]
    BY <1>8, SpentOne DEF Crash, FaultKinds
  <2>2. attempts'[e] = attempts[e] /\ stalls'[e] = stalls[e]
    BY <1>8 DEF Crash, jobVars
  <2>3. QED BY <1>1, <2>1, <2>2
<1>9. ASSUME NEW s \in Slots, NEW job \in Events, Deliver(s, job) PROVE Paid
  <2>1. exec[s].at = "idle" /\ \A t \in Slots \ {s} : exec'[t] = exec[t]
    BY <1>9 DEF Deliver, At, TypeOK
  <2>2. Abandoned(e)' => Abandoned(e)
    <3>1. CASE job = e
      <4>1. owner'[e] = s /\ IsHandling(s, e)'
        BY <1>1, <1>9, <3>1 DEF Deliver, TypeOK, IsHandling, At, Idle
      <4>2. QED BY <4>1 DEF Abandoned
    <3>2. CASE job # e
      <4>1. jobState'[e] = jobState[e] /\ owner'[e] = owner[e]
        BY <1>1, <1>9, <3>2 DEF Deliver, TypeOK
      <4>2. QED BY <2>1, <4>1 DEF Abandoned, IsHandling, At
    <3>3. QED BY <3>1, <3>2
  <2>3. QED BY <1>1, <1>2, <1>9, <2>2 DEF Deliver, worldVars, TypeOK
<1>10. ASSUME NEW job \in Events, RecoverStalled(job) PROVE Paid
  <2>1. CASE job = e
    <3>1. Abandoned(e) /\ stalls'[e] = stalls[e] + 1 /\ jobState'[e] # "active"
      BY <1>1, <1>10, <2>1 DEF RecoverStalled, Requeue, Close, Abandoned, TypeOK
    <3>2. attempts' = attempts /\ budget' = budget
      BY <1>10 DEF RecoverStalled, Requeue
    <3>3. QED BY <1>1, <3>1, <3>2 DEF Abandoned
  <2>2. CASE job # e
    <3>1. /\ jobState'[e] = jobState[e] /\ owner'[e] = owner[e] /\ stalls'[e] = stalls[e]
          /\ attempts' = attempts /\ budget' = budget /\ exec' = exec
      BY <1>1, <1>10, <2>2 DEF RecoverStalled, Requeue, Close, TypeOK
    <3>2. QED BY <1>1, <1>2, <3>1 DEF Abandoned, IsHandling, At, TypeOK
  <2>3. QED BY <2>1, <2>2
<1>11. ASSUME NEW job \in Events, LoseLock(job) PROVE Paid
  <2>1. /\ budget["lockLost"] > 0 /\ budget'["lockLost"] = budget["lockLost"] - 1
        /\ budget'["database"] = budget["database"] /\ budget'["crash"] = budget["crash"]
    BY <1>11, SpentOne DEF LoseLock, FaultKinds
  <2>2. CASE job = e
    <3>1. stalls'[e] = stalls[e] + 1 /\ jobState'[e] # "active" /\ attempts' = attempts
      BY <1>1, <1>11, <2>2 DEF LoseLock, Requeue, Close, TypeOK
    <3>2. QED BY <1>1, <2>1, <3>1 DEF Abandoned
  <2>3. CASE job # e
    <3>1. /\ jobState'[e] = jobState[e] /\ owner'[e] = owner[e] /\ stalls'[e] = stalls[e]
          /\ attempts' = attempts /\ exec' = exec
      BY <1>1, <1>11, <2>3 DEF LoseLock, Requeue, Close, TypeOK
    <3>2. Abandoned(e)' => Abandoned(e)
      BY <3>1 DEF Abandoned, IsHandling, At
    <3>3. QED BY <1>1, <2>1, <3>1, <3>2
  <2>4. QED BY <2>2, <2>3
<1>12. ASSUME NEW job \in Events, PublishAgain(job) PROVE Paid
  <2>1. /\ budget'["database"] = budget["database"] /\ budget'["crash"] = budget["crash"]
        /\ budget'["lockLost"] = budget["lockLost"] /\ exec' = exec /\ owner' = owner
    BY <1>12, SpentOne DEF PublishAgain, FaultKinds
  <2>2. attempts'[e] \in {0, attempts[e]} /\ stalls'[e] \in {0, stalls[e]}
    BY <1>1, <1>12 DEF PublishAgain, TypeOK
  <2>3. Abandoned(e)' => Abandoned(e)
    BY <1>1, <1>12, <2>1 DEF PublishAgain, Abandoned, IsHandling, At, TypeOK
  <2>4. QED BY <1>1, <2>1, <2>2, <2>3
<1>13. CASE ImportCatalog
  <2>1. /\ budget'["database"] = budget["database"] /\ budget'["crash"] = budget["crash"]
        /\ budget'["lockLost"] = budget["lockLost"]
    BY <1>13, SpentOne DEF ImportCatalog, FaultKinds
  <2>2. UNCHANGED <<jobState, jobVars, exec>>
    BY <1>13 DEF ImportCatalog
  <2>3. QED BY <1>1, <2>1, <2>2 DEF Abandoned, IsHandling, At, jobVars
<1>14. CASE UNCHANGED vars
  BY <1>1, <1>14 DEF vars, Abandoned, IsHandling, At
<1>15. QED
  BY <1>6, <1>7, <1>8, <1>9, <1>10, <1>11, <1>12, <1>13, <1>14 DEF Next

-----------------------------------------------------------------------------
(* Events follow the rows they are about.                                   *)

\* The steps in which a routing handler may end its row.
RoutingEnd(s) ==
  \/ Reclaim(s) \/ CountWork(s) \/ ExhaustPlan(s) \/ RefusePlan(s)
  \/ \E found \in BOOLEAN : CompletePlan(s, found)

GenerationVerdicts == {"succeeded", "failed_permanent"}

\* A routing event has its row, a finalization event the end that it announces.
EventsFollowRows ==
  /\ search.status # "queued" => generation # "absent"
  /\ \A s \in Slots : exec[s].at # "idle" => jobState[exec[s].event] # "none"
  /\ \A k \in Work : jobState[RoutingEvent(k)] # "none" => work[k] # "absent"
  /\ \A k \in Work : jobState[WorkFinal(k)] # "none" => work[k] \in TerminalRouting
  /\ jobState[GenerationFinal] # "none" => generation \in GenerationVerdicts

\* An event that exists goes on to exist.
LEMMA EventsStay ==
  ASSUME RowInv, [Next]_vars, NEW e \in Events, jobState[e] # "none"
  PROVE  jobState'[e] # "none"
<1> USE DEF RowInv, TypeOK
<1>1. ASSUME NEW s \in Slots, Settle(s) \/ Throw(s) PROVE jobState'[e] # "none"
  BY <1>1 DEF Settle, Throw, Close
<1>2. ASSUME NEW s \in Slots, Handler(s) PROVE jobState'[e] # "none"
  BY <1>1, <1>2, HandlerProceeds DEF Proceeds, RetryPlan
<1>3. ASSUME NEW s \in Slots, NEW job \in Events, Deliver(s, job) PROVE jobState'[e] # "none"
  BY <1>3 DEF Deliver
<1>4. ASSUME NEW job \in Events, RecoverStalled(job) \/ LoseLock(job) PROVE jobState'[e] # "none"
  BY <1>4 DEF RecoverStalled, LoseLock, Requeue, Close
<1>5. ASSUME NEW job \in Events, PublishAgain(job) PROVE jobState'[e] # "none"
  BY <1>5 DEF PublishAgain
<1>6. QED
  BY <1>1, <1>2, <1>3, <1>4, <1>5 DEF Next, DatabaseUnavailable, Crash, ImportCatalog, vars

\* Who creates which event.
LEMMA EventCreators ==
  ASSUME RowInv, [Next]_vars, NEW e \in Events, jobState[e] = "none", jobState'[e] # "none"
  PROVE  \E s \in Slots :
           \/ Kickoff(s) /\ e = CandidatesEvent
           \/ RejectGeneration(s) /\ e = GenerationFinal
           \/ /\ PersistCandidates(s) \/ ExpandWave(s)
              /\ \/ e = GenerationFinal /\ PersistCandidates(s)
                 \/ \E k \in Work : e = RoutingEvent(k) /\ work'[k] = "pending"
           \/ RoutingEnd(s) /\ e = WorkFinal(Routing(s))
<1> USE DEF RowInv, TypeOK
<1>1. \A E : Enqueue(E) => e \in E
  BY DEF Enqueue
<1>2. ASSUME NEW s \in Slots, Settle(s) \/ Throw(s) PROVE FALSE
  BY <1>2 DEF Settle, Throw, Close, HoldsLock
<1>3. ASSUME NEW s \in Slots, PersistCandidates(s) \/ ExpandWave(s)
      PROVE  \/ e = GenerationFinal /\ PersistCandidates(s)
             \/ \E k \in Work : e = RoutingEvent(k) /\ work'[k] = "pending"
  <2>1. PICK rows, n, also : FanOut(rows, n, also) /\ (also = {} \/ (also = {GenerationFinal}
                                                                     /\ PersistCandidates(s)))
    BY <1>3 DEF PersistCandidates, ExpandWave
  <2>2. e \in also \/ \E k \in Work : e = RoutingEvent(k) /\ work'[k] = "pending"
    BY <1>1, <2>1 DEF FanOut
  <2>3. QED BY <2>1, <2>2
<1>4. ASSUME NEW s \in Slots, RoutingEnd(s) PROVE e = WorkFinal(Routing(s))
  BY <1>1, <1>4 DEF RoutingEnd, Reclaim, CountWork, ExhaustPlan, RefusePlan, CompletePlan,
    CompleteWork, ExhaustWork
<1>5. ASSUME NEW s \in Slots, Kickoff(s) PROVE e = CandidatesEvent
  BY <1>1, <1>5 DEF Kickoff
<1>6. ASSUME NEW s \in Slots, RejectGeneration(s) PROVE e = GenerationFinal
  BY <1>1, <1>6 DEF RejectGeneration
<1>7. ASSUME NEW s \in Slots, Handler(s)
      PROVE  \/ Kickoff(s) \/ RejectGeneration(s) \/ PersistCandidates(s) \/ ExpandWave(s)
             \/ RoutingEnd(s)
  BY <1>2, <1>7 DEF Handler, RoutingEnd, ClaimGeneration, ReadCatalog, ClaimWork, CheckJourneys,
    RetryPlan, FinalizeTooEarlyOrLate, FinalizeFails, FinalizeNoCandidates, FinalizeExpands,
    FinalizeNoFeasible, FinalizeRanks, FinalizationStep
<1>8. ASSUME NEW s \in Slots, NEW job \in Events, Deliver(s, job) PROVE FALSE
  BY <1>8 DEF Deliver
<1>9. ASSUME NEW job \in Events, RecoverStalled(job) \/ LoseLock(job) PROVE FALSE
  BY <1>9 DEF RecoverStalled, LoseLock, Requeue, Close
<1>10. ASSUME NEW job \in Events, PublishAgain(job) PROVE FALSE
  BY <1>10 DEF PublishAgain
<1>11. \E s \in Slots : Handler(s)
  BY <1>2, <1>8, <1>9, <1>10 DEF Next, DatabaseUnavailable, Crash, ImportCatalog, vars
<1>12. QED BY <1>3, <1>4, <1>5, <1>6, <1>7, <1>11

\* A row that exists goes on to exist.
LEMMA RowsStay ==
  ASSUME RowInv, [Next]_vars, NEW k \in Work, work[k] # "absent"
  PROVE  work'[k] # "absent"
<1>1. ASSUME NEW s \in Slots, PersistCandidates(s) \/ ExpandWave(s) PROVE work'[k] # "absent"
  BY <1>1, FanOutRows DEF PersistCandidates, ExpandWave, RowInv
<1>2. QED BY <1>1, RowCreators

\* A search that has started has a generation.
LEMMA StartedHasGeneration ==
  ASSUME [Next]_vars, search.status # "queued" => generation # "absent"
  PROVE  search'.status # "queued" => generation' # "absent"
<1>1. ASSUME NEW s \in Slots, Handler(s)
      PROVE  search'.status # "queued" => generation' # "absent"
  <2>1. CASE Kickoff(s) \/ ClaimGeneration(s) \/ RejectGeneration(s) \/ PersistCandidates(s)
    BY <2>1 DEF Kickoff, ClaimGeneration, RejectGeneration, PersistCandidates, searchVars
  <2>2. CASE \/ FinalizeTooEarlyOrLate(s) \/ FinalizeFails(s) \/ FinalizeNoCandidates(s)
             \/ FinalizeExpands(s) \/ FinalizeNoFeasible(s) \/ FinalizeRanks(s)
    BY <2>2 DEF FinalizeTooEarlyOrLate, FinalizeFails, FailureReasons, FinalizeNoCandidates,
      FinalizeExpands, FinalizeNoFeasible, FinalizeRanks, FinalizationStep, Evaluable, WaveReady,
      Judging, searchVars, rowVars
  <2>3. CASE \/ ReadCatalog(s) \/ ClaimWork(s) \/ CheckJourneys(s) \/ RoutingEnd(s)
             \/ RetryPlan(s) \/ ExpandWave(s) \/ Settle(s)
    BY <2>3 DEF ReadCatalog, ClaimWork, CheckJourneys, RoutingEnd, Reclaim, CountWork,
      ExhaustPlan, RefusePlan, CompletePlan, RoutingStep, RetryPlan, Throw, ExpandWave, Settle,
      searchVars, rowVars
  <2>4. QED BY <1>1, <2>1, <2>2, <2>3 DEF Handler, RoutingEnd
<1>2. Next => (\E s \in Slots : Handler(s)) \/ UNCHANGED <<search, generation>>
  BY DEF Next, DatabaseUnavailable, Throw, Crash, Deliver, RecoverStalled, LoseLock, Requeue,
    PublishAgain, ImportCatalog, searchVars, rowVars
<1>3. QED BY <1>1, <1>2 DEF vars

\* What a slot executes is what it was executing, or has just been delivered.
LEMMA ExecutionsStay ==
  ASSUME RowInv, [Next]_vars, NEW t \in Slots, exec'[t].at # "idle"
  PROVE  \/ exec[t].at # "idle" /\ exec'[t].event = exec[t].event
         \/ \E e \in Events : Deliver(t, e) /\ exec'[t].event = e /\ jobState'[e] = "active"
<1> USE DEF RowInv, TypeOK
<1>1. ASSUME NEW s \in Slots, exec' = [exec EXCEPT ![s] = Idle]
      PROVE  exec[t].at # "idle" /\ exec'[t].event = exec[t].event
  BY <1>1 DEF Idle
<1>2. ASSUME NEW s \in Slots, Proceeds(s)
      PROVE  exec[t].at # "idle" /\ exec'[t].event = exec[t].event
  BY <1>2 DEF Proceeds
<1>3. ASSUME NEW s \in Slots, Handler(s)
      PROVE  exec[t].at # "idle" /\ exec'[t].event = exec[t].event
  BY <1>1, <1>2, <1>3, HandlerProceeds DEF Settle, RetryPlan, Throw
<1>4. ASSUME NEW s \in Slots, NEW e \in Events, Deliver(s, e)
      PROVE  \/ exec[t].at # "idle" /\ exec'[t].event = exec[t].event
             \/ Deliver(t, e) /\ exec'[t].event = e /\ jobState'[e] = "active"
  <2>1. exec' = [exec EXCEPT ![s] = [Idle EXCEPT !.at = "start", !.event = e,
                                                  !.attempt = attempts[e]]]
        /\ jobState' = [jobState EXCEPT ![e] = "active"]
    BY <1>4 DEF Deliver
  <2>2. exec'[s].event = e /\ jobState'[e] = "active"
    BY <2>1 DEF Idle
  <2>3. QED BY <1>4, <2>1, <2>2
<1>5. QED
  BY <1>1, <1>3, <1>4 DEF Next, DatabaseUnavailable, Throw, Crash, RecoverStalled, LoseLock,
    Requeue, PublishAgain, ImportCatalog, vars

\* The names of the events tell them apart.
LEMMA EventNames ==
  /\ CandidatesEvent \in Events /\ GenerationFinal \in FinalizationEvents
  /\ \A k \in Work : RoutingEvent(k) \in RoutingEvents /\ RoutingEvent(k) \in Events
                     /\ WorkFinal(k) \in FinalizationEvents
  /\ \A e \in RoutingEvents : e = RoutingEvent(e.work)
  /\ \A k, q \in Work : /\ WorkFinal(k) = WorkFinal(q) => k = q
                        /\ RoutingEvent(k) = RoutingEvent(q) => k = q
                        /\ RoutingEvent(k) # WorkFinal(q)
  /\ \A k \in Work : /\ WorkFinal(k) # GenerationFinal /\ WorkFinal(k) # CandidatesEvent
                     /\ RoutingEvent(k) # GenerationFinal /\ RoutingEvent(k) # CandidatesEvent
  /\ GenerationFinal # CandidatesEvent
BY DEF Events, FinalizationEvents, RoutingEvents, GenerationFinal, CandidatesEvent, RoutingEvent,
  WorkFinal

\* A routing handler's row is there, and after its last step it is terminal.
LEMMA RoutingEndsRow ==
  ASSUME RowInv, EventsFollowRows, NEW s \in Slots, RoutingEnd(s)
  PROVE  /\ Routing(s) \in Work /\ work[Routing(s)] # "absent"
         /\ work'[Routing(s)] \in TerminalRouting \/ UNCHANGED <<work, jobState>>
         /\ \A k \in Work \ {Routing(s)} : work'[k] = work[k]
<1>1. exec[s].at # "idle" /\ exec[s].event \in RoutingEvents
  BY DEF RowInv, ExecOK, RoutingEnd, Reclaim, CountWork, ExhaustPlan, RefusePlan, CompletePlan, At
<1>2. Routing(s) \in Work /\ exec[s].event = RoutingEvent(Routing(s))
  BY <1>1, RoutingType, EventNames DEF RowInv, Routing
<1>3. work[Routing(s)] # "absent"
  BY <1>1, <1>2 DEF EventsFollowRows
<1>4. work \in [Work -> RoutingStatus]
  BY DEF RowInv, TypeOK
<1>5. ASSUME NEW status \in TerminalRouting,
             work' = IF IsOpen(Routing(s)) THEN [work EXCEPT ![Routing(s)] = status] ELSE work
      PROVE  work'[Routing(s)] \in TerminalRouting
             /\ \A k \in Work \ {Routing(s)} : work'[k] = work[k]
  BY <1>2, <1>3, <1>4, <1>5 DEF IsOpen, RoutingStatus, OpenStatus
<1>6. \/ UNCHANGED <<work, jobState>>
      \/ \E status \in TerminalRouting :
           work' = IF IsOpen(Routing(s)) THEN [work EXCEPT ![Routing(s)] = status] ELSE work
  BY DEF RoutingEnd, Reclaim, CountWork, ExhaustPlan, RefusePlan, CompletePlan, CompleteWork,
    ExhaustWork, TerminalRouting
<1>7. QED BY <1>2, <1>3, <1>5, <1>6

\* A generation that has a verdict keeps one.
LEMMA VerdictStaysVerdict ==
  ASSUME RowInv, GenerationInv, [Next]_vars, generation \in GenerationVerdicts
  PROVE  generation' \in GenerationVerdicts
<1>1. ASSUME NEW s \in Slots, GenerationStep(s) PROVE generation' \in GenerationVerdicts
  BY <1>1 DEF GenerationStep, Kickoff, MayKickoff, ClaimGeneration, ReadCatalog, RejectGeneration,
    PersistCandidates, GenerationInv, GenerationVerdicts, rowVars
<1>2. QED BY <1>1, GenerationWriters

\* Events go on following their rows.
LEMMA NextKeepsEvents ==
  ASSUME RowInv, GenerationInv, EventsFollowRows, [Next]_vars
  PROVE  EventsFollowRows'
<1>1. search'.status # "queued" => generation' # "absent"
  BY StartedHasGeneration DEF EventsFollowRows
<1>2. ASSUME NEW t \in Slots, exec'[t].at # "idle" PROVE jobState'[exec'[t].event] # "none"
  <2>1. CASE exec[t].at # "idle" /\ exec'[t].event = exec[t].event
    BY <2>1, EventsStay DEF EventsFollowRows, RowInv, ExecOK
  <2>2. QED BY <1>2, <2>1, ExecutionsStay
<1>3. ASSUME NEW k \in Work, jobState'[RoutingEvent(k)] # "none" PROVE work'[k] # "absent"
  <2>1. CASE jobState[RoutingEvent(k)] # "none"
    BY <2>1, RowsStay DEF EventsFollowRows
  <2>2. CASE jobState[RoutingEvent(k)] = "none"
    <3>1. RoutingEvent(k) \in Events
      BY EventNames
    <3>2. PICK s \in Slots :
            \/ Kickoff(s) /\ RoutingEvent(k) = CandidatesEvent
            \/ RejectGeneration(s) /\ RoutingEvent(k) = GenerationFinal
            \/ /\ PersistCandidates(s) \/ ExpandWave(s)
               /\ \/ RoutingEvent(k) = GenerationFinal /\ PersistCandidates(s)
                  \/ \E q \in Work : RoutingEvent(k) = RoutingEvent(q) /\ work'[q] = "pending"
            \/ RoutingEnd(s) /\ RoutingEvent(k) = WorkFinal(Routing(s))
      BY <1>3, <2>2, <3>1, EventCreators
    <3>3. RoutingEnd(s) => Routing(s) \in Work
      BY RoutingEndsRow
    <3>4. QED BY <3>2, <3>3, EventNames
  <2>3. QED BY <2>1, <2>2
<1>4. ASSUME NEW k \in Work, jobState'[WorkFinal(k)] # "none" PROVE work'[k] \in TerminalRouting
  <2>1. CASE jobState[WorkFinal(k)] # "none"
    BY <2>1, NextSettlesWork DEF EventsFollowRows, WorkSettles
  <2>2. CASE jobState[WorkFinal(k)] = "none"
    <3>1. WorkFinal(k) \in Events
      BY EventNames, FinalizationEventsAreEvents
    <3>2. PICK s \in Slots : RoutingEnd(s) /\ WorkFinal(k) = WorkFinal(Routing(s))
      BY <1>4, <2>2, <3>1, EventCreators, EventNames
    <3>3. Routing(s) = k /\ (work'[k] \in TerminalRouting \/ UNCHANGED <<work, jobState>>)
      BY <3>2, RoutingEndsRow, EventNames
    <3>4. QED BY <1>4, <2>2, <3>3
  <2>3. QED BY <2>1, <2>2
<1>5. ASSUME jobState'[GenerationFinal] # "none" PROVE generation' \in GenerationVerdicts
  <2>1. CASE jobState[GenerationFinal] # "none"
    BY <2>1, VerdictStaysVerdict DEF EventsFollowRows
  <2>2. CASE jobState[GenerationFinal] = "none"
    <3>1. GenerationFinal \in Events
      BY EventNames, FinalizationEventsAreEvents
    <3>2. PICK s \in Slots :
            \/ Kickoff(s) /\ GenerationFinal = CandidatesEvent
            \/ RejectGeneration(s)
            \/ PersistCandidates(s)
            \/ \E q \in Work : GenerationFinal = RoutingEvent(q)
            \/ RoutingEnd(s) /\ GenerationFinal = WorkFinal(Routing(s))
      BY <1>5, <2>2, <3>1, EventCreators
    <3>3. RoutingEnd(s) => Routing(s) \in Work
      BY RoutingEndsRow
    <3>4. RejectGeneration(s) \/ PersistCandidates(s)
      BY <3>2, <3>3, EventNames
    <3>5. CASE RejectGeneration(s)
      <4>1. generation \notin {"absent", "pending"} /\ generation \in GenerationStatus
        BY <3>5 DEF RejectGeneration, At, GenerationInv, GenerationPhases, RowInv, TypeOK
      <4>2. QED
        BY <3>5, <4>1 DEF RejectGeneration, GenerationStatus, OpenStatus, GenerationVerdicts
    <3>6. CASE PersistCandidates(s)
      BY <3>6 DEF PersistCandidates, GenerationVerdicts
    <3>7. QED BY <3>4, <3>5, <3>6
  <2>3. QED BY <2>1, <2>2
<1>6. QED BY <1>1, <1>2, <1>3, <1>4, <1>5 DEF EventsFollowRows, RoutingEvent, WorkFinal, GenerationFinal

-----------------------------------------------------------------------------
(* No lost wake-up.                                                         *)

\* The wave that a slot is about to fan out has a candidate left to route.
Useful(s) == \E row \in candidates : OrdinalOf(row) <= exec[s].wave /\ ~Routed(row)

\* A slot that will still look at the search, or is about to extend it.
Hopeful(s, e) ==
  /\ jobState[e] = "active" /\ owner[e] = s /\ exec[s].event = e
  /\ At(s, "start") \/ (At(s, "expand") /\ Useful(s))

\* A finalization that the search can wait for.
Fresh(e) == jobState[e] = "waiting" \/ Abandoned(e) \/ \E s \in Slots : Hopeful(s, e)

\* A running search in which nothing is generated or routed.
Quiet == search.status = "running" /\ generation \notin OpenStatus /\ WaveTerminal

\* FinalizationPending as an invariant of the steps: not any finalization is
\* enough, it must be one that has not looked at the search yet.
WakeupInv ==
  /\ candidates # {} => Active # {}
  /\ Quiet => \E e \in FinalizationEvents : Fresh(e)

\* A row appears as pending.
LEMMA RowsAppearPending ==
  ASSUME RowInv, [Next]_vars, NEW k \in Work, work[k] = "absent", work'[k] # "absent"
  PROVE  work'[k] = "pending"
<1>1. ASSUME NEW s \in Slots, PersistCandidates(s) \/ ExpandWave(s) PROVE work'[k] = "pending"
  BY <1>1, FanOutRows DEF PersistCandidates, ExpandWave, RowInv
<1>2. QED BY <1>1, RowCreators

\* So a candidate that becomes routed opens the wave.
LEMMA RoutingOpensWave ==
  ASSUME RowInv, [Next]_vars, NEW row, CityOf(row) \in Cities, ~Routed(row), Routed(row)'
  PROVE  ~WaveTerminal'
<1>1. PICK p \in Participants : work'[<<p, CityOf(row)>>] # "absent"
  BY DEF Routed
<1>2. <<p, CityOf(row)>> \in Work /\ work[<<p, CityOf(row)>>] = "absent"
  BY DEF Routed, Work
<1>3. work'[<<p, CityOf(row)>>] = "pending"
  BY <1>1, <1>2, RowsAppearPending
<1>4. QED BY <1>2, <1>3 DEF WaveTerminal, WorkRows, TerminalRouting

\* The first candidate is routed with the generation's transaction.
LEMMA FirstIsRouted ==
  ASSUME AnswerInv, AnswerInv', NEW s \in Slots, PersistCandidates(s), candidates' # {}
  PROVE  \E row \in candidates' : Routed(row)'
<1>1. TypeOK /\ Tidy(candidates')
  BY RankingsAreTidy, NoRowsAreTidy
    DEF AnswerInv, OneAnswer, VerdictInv, LifecycleInv, RowInv
<1>2. InitialCandidates - 1 \in Nat
  BY SearchPipelineAssumption
<1>3. PICK fit \in Nat \ {0} : \A row \in candidates' :
        Routed(row)' <=> Routed(row) \/ (OrdinalOf(row) <= InitialCandidates - 1
                                          /\ OrdinalOf(row) < fit)
  BY <1>1, <1>2, FanOutRoutes DEF PersistCandidates
<1>4. Cardinality(candidates') \in Nat /\ Cardinality(candidates') # 0
  BY <1>1, FS_CardinalityType, FS_EmptySet DEF Tidy
<1>5. PICK row \in candidates' : OrdinalOf(row) = 0
  BY <1>1, <1>4 DEF Tidy
<1>6. QED BY <1>2, <1>3, <1>5

\* So there is always an active candidate when there is one at all.
LEMMA NextKeepsActive ==
  ASSUME AnswerInv, AnswerInv', [Next]_vars, candidates # {} => Active # {}
  PROVE  candidates' # {} => Active' # {}
<1>1. RowInv /\ TypeOK
  BY DEF AnswerInv, VerdictInv, LifecycleInv, RowInv
<1>2. CASE candidates # {}
  <2>1. PICK row \in candidates, p \in Participants : work[<<p, CityOf(row)>>] # "absent"
    BY <1>2 DEF Active
  <2>2. <<p, CityOf(row)>> \in Work /\ row \in candidates'
    BY <1>1, CandidatesStay DEF TypeOK, Work, CityOf
  <2>3. work'[<<p, CityOf(row)>>] # "absent"
    BY <1>1, <2>1, <2>2, RowsStay
  <2>4. QED BY <2>2, <2>3 DEF Active
<1>3. CASE candidates = {}
  <2>1. ASSUME NEW s \in Slots, PersistCandidates(s), candidates' # {} PROVE Active' # {}
    BY <2>1, FirstIsRouted DEF Routed, Active
  <2>2. QED BY <1>3, <2>1, CandidateWriters
<1>4. QED BY <1>2, <1>3

\* The end of a routing row schedules its finalization.
LEMMA RowEndIsAnnounced ==
  ASSUME RowInv, EventsFollowRows, [Next]_vars, NEW k \in WorkRows,
         work[k] \notin TerminalRouting, work'[k] \in TerminalRouting
  PROVE  jobState'[WorkFinal(k)] = "waiting"
<1>1. k \in Work /\ work[k] # "absent" /\ jobState[WorkFinal(k)] = "none"
      /\ WorkFinal(k) \in Events /\ work \in [Work -> RoutingStatus]
  BY EventNames, FinalizationEventsAreEvents DEF WorkRows, EventsFollowRows, RowInv, TypeOK
<1>2. ASSUME NEW s \in Slots, RoutingEnd(s) PROVE jobState'[WorkFinal(k)] = "waiting"
  <2>1. Routing(s) = k
    BY <1>1, <1>2, RoutingEndsRow
  <2>2. Enqueue({WorkFinal(k)}) \/ work' = work
    BY <1>2, <2>1 DEF RoutingEnd, Reclaim, CountWork, ExhaustPlan, RefusePlan, CompletePlan,
      CompleteWork, ExhaustWork
  <2>3. QED BY <1>1, <2>2 DEF Enqueue
<1>3. ASSUME NEW s \in Slots, Handler(s), ~RoutingEnd(s) PROVE FALSE
  <2>1. CASE PersistCandidates(s) \/ ExpandWave(s)
    BY <1>1, <2>1, FanOutRows DEF PersistCandidates, ExpandWave, RowInv
  <2>2. CASE ClaimWork(s)
    BY <1>1, <2>2, RoutingType DEF ClaimWork, RowInv, TerminalRouting
  <2>3. CASE work' = work
    BY <2>3
  <2>4. QED
    BY <1>3, <2>1, <2>2, <2>3 DEF Handler, RoutingEnd, Kickoff, ClaimGeneration, ReadCatalog,
      RejectGeneration, CheckJourneys, RetryPlan, Throw, FinalizeTooEarlyOrLate, FinalizeFails,
      FinalizeNoCandidates, FinalizeExpands, FinalizeNoFeasible, FinalizeRanks,
      FinalizationStep, Settle, rowVars
<1>4. Next => (\E s \in Slots : Handler(s)) \/ work' = work
  BY DEF Next, DatabaseUnavailable, Throw, Crash, Deliver, RecoverStalled, LoseLock, Requeue,
    PublishAgain, ImportCatalog, rowVars
<1>5. QED BY <1>2, <1>3, <1>4 DEF vars

\* So does the end of a generation, unless it has opened a wave.
LEMMA GenerationEndIsAnnounced ==
  ASSUME AnswerInv, AnswerInv', EventsFollowRows, [Next]_vars,
         generation \in OpenStatus, generation' \notin OpenStatus
  PROVE  jobState'[GenerationFinal] = "waiting" \/ ~WaveTerminal'
<1>1. RowInv /\ TypeOK /\ GenerationInv /\ Tidy(candidates')
  BY RankingsAreTidy, NoRowsAreTidy
    DEF AnswerInv, OneAnswer, VerdictInv, LifecycleInv, RowInv
<1>2. jobState[GenerationFinal] = "none" /\ GenerationFinal \in Events
  BY EventNames, FinalizationEventsAreEvents DEF EventsFollowRows, OpenStatus, GenerationVerdicts
<1>3. ASSUME NEW s \in Slots, RejectGeneration(s) PROVE jobState'[GenerationFinal] = "waiting"
  BY <1>2, <1>3 DEF RejectGeneration, Enqueue
<1>4. ASSUME NEW s \in Slots, PersistCandidates(s)
      PROVE  jobState'[GenerationFinal] = "waiting" \/ ~WaveTerminal'
  <2>1. CASE candidates' = {}
    BY <1>2, <1>4, <2>1 DEF PersistCandidates, FanOut, Enqueue
  <2>2. CASE candidates' # {}
    <3>1. PICK row \in candidates' : Routed(row)'
      BY <1>4, <2>2, FirstIsRouted
    <3>2. candidates = {} /\ CityOf(row) \in Cities
      BY <1>1 DEF GenerationInv, OpenStatus, Tidy, CityOf
    <3>3. ~Routed(row)
      BY <3>2 DEF AnswerInv, RowsInv, RowsHaveCandidates, Routed, Work
    <3>4. QED BY <1>1, <3>1, <3>2, <3>3, RoutingOpensWave
  <2>3. QED BY <2>1, <2>2
<1>5. ASSUME NEW s \in Slots, Kickoff(s) \/ ClaimGeneration(s) \/ ReadCatalog(s) PROVE FALSE
  BY <1>5 DEF Kickoff, ClaimGeneration, ReadCatalog, OpenStatus, rowVars
<1>6. QED BY <1>1, <1>3, <1>4, <1>5, GenerationWriters DEF GenerationStep

\* A step of one slot that leaves a job alone leaves it fresh, unless that slot
\* was its hope.
LEMMA FreshUnlessTouched ==
  ASSUME NEW s \in Slots, NEW e \in FinalizationEvents, Fresh(e),
         jobState'[e] = jobState[e], owner'[e] = owner[e],
         \A t \in Slots \ {s} : exec'[t] = exec[t] /\ (Useful(t) => Useful(t)'),
         Abandoned(e) /\ owner[e] = s => ~IsHandling(s, e)',
         Hopeful(s, e) => Fresh(e)'
  PROVE  Fresh(e)'
<1>1. CASE jobState[e] = "waiting"
  BY <1>1 DEF Fresh
<1>2. CASE Abandoned(e)
  <2>1. \A t \in Slots \ {s} : IsHandling(t, e)' <=> IsHandling(t, e)
    BY DEF IsHandling, At
  <2>2. Abandoned(e)'
    BY <1>2, <2>1 DEF Abandoned
  <2>3. QED BY <2>2 DEF Fresh
<1>3. ASSUME NEW t \in Slots \ {s}, Hopeful(t, e) PROVE Fresh(e)'
  <2>1. Hopeful(t, e)'
    BY <1>3 DEF Hopeful, At
  <2>2. QED BY <2>1 DEF Fresh
<1>4. QED BY <1>1, <1>2, <1>3 DEF Fresh

\* What is useful stays so while rows and candidates stay.
LEMMA UsefulStays ==
  ASSUME NEW t \in Slots, exec'[t] = exec[t], UNCHANGED <<candidates, work>>, Useful(t)
  PROVE  Useful(t)'
BY DEF Useful, Routed

\* A handler that ends was not the hope of a job; one that throws gives the job
\* back, because its retries are paid.
LEMMA EndKeepsFresh ==
  ASSUME RowInv, FaultsWithinRetries, NEW e \in FinalizationEvents, Fresh(e),
         NEW s \in Slots, UNCHANGED <<candidates, work>>,
         \/ Settle(s)
         \/ Throw(s) /\ (exec[s].event = e => attempts[e] + 1 < MaxAttempts)
  PROVE  Fresh(e)'
<1>1. exec' = [exec EXCEPT ![s] = Idle] /\ e \in Events
  BY FinalizationEventsAreEvents DEF Settle, Throw
<1>2. \A t \in Slots \ {s} : exec'[t] = exec[t] /\ (Useful(t) => Useful(t)')
  BY <1>1, UsefulStays DEF RowInv, TypeOK
<1>3. ~IsHandling(s, e)'
  BY <1>1 DEF RowInv, TypeOK, IsHandling, At, Idle
<1>4. CASE Throw(s) /\ exec[s].event = e /\ HoldsLock(s)
  <2>1. jobState'[e] = "waiting"
    BY <1>1, <1>4 DEF Throw, Close, RowInv, TypeOK, Settle
  <2>2. QED BY <2>1 DEF Fresh
<1>5. CASE ~(exec[s].event = e /\ HoldsLock(s))
  <2>1. jobState'[e] = jobState[e] /\ owner'[e] = owner[e]
    BY <1>1, <1>5 DEF Settle, Throw, Close, RowInv, TypeOK
  <2>2. ~Hopeful(s, e)
    BY <1>5 DEF Hopeful, HoldsLock
  <2>3. QED BY <1>2, <1>3, <2>1, <2>2, FreshUnlessTouched
<1>6. CASE Settle(s) /\ exec[s].event = e /\ HoldsLock(s)
  <2>1. jobState[e] = "active" /\ owner[e] = s /\ IsHandling(s, e)
    BY <1>6 DEF HoldsLock, IsHandling, At, Settle
  <2>2. ~Hopeful(s, e)
    BY <1>6 DEF Settle, Hopeful, At
  <2>3. ASSUME NEW t \in Slots, Hopeful(t, e) PROVE FALSE
    BY <2>1, <2>2, <2>3 DEF Hopeful
  <2>4. QED BY <2>1, <2>3 DEF Fresh, Abandoned
<1>7. QED BY <1>4, <1>5, <1>6

\* A job that has to be delivered again can be.
LEMMA RetriesAreLeft ==
  ASSUME RowInv, FaultsWithinRetries, RetriesArePaid, NEW e \in FinalizationEvents
  PROVE  /\ budget["database"] > 0 => attempts[e] + 1 < MaxAttempts
         /\ Abandoned(e) \/ budget["lockLost"] > 0 => stalls[e] < MaxStalls
<1>1. /\ attempts[e] \in Nat /\ stalls[e] \in Nat
      /\ budget["database"] \in Nat /\ budget["crash"] \in Nat /\ budget["lockLost"] \in Nat
      /\ Budget["database"] \in Nat /\ Budget["crash"] \in Nat /\ Budget["lockLost"] \in Nat
      /\ MaxAttempts \in Nat /\ MaxStalls \in Nat
  BY CountsAreNatural, FinalizationEventsAreEvents, SearchPipelineAssumption DEF RowInv
<1>2. /\ attempts[e] + budget["database"] <= Budget["database"]
      /\ stalls[e] + (IF Abandoned(e) THEN 1 ELSE 0) + budget["crash"] + budget["lockLost"]
           <= Budget["crash"] + Budget["lockLost"]
      /\ Budget["database"] < MaxAttempts
      /\ Budget["crash"] + Budget["lockLost"] <= MaxStalls
  BY DEF RetriesArePaid, FaultsWithinRetries
<1>3. budget["database"] > 0 => attempts[e] + 1 < MaxAttempts
  BY <1>1, <1>2
<1>4. Abandoned(e) => stalls[e] < MaxStalls
  BY <1>1, <1>2
<1>5. budget["lockLost"] > 0 => stalls[e] < MaxStalls
  BY <1>1, <1>2
<1>6. QED BY <1>3, <1>4, <1>5

\* The queue never loses a fresh finalization.
LEMMA QueueKeepsFresh ==
  ASSUME RowInv, FaultsWithinRetries, RetriesArePaid, NEW e \in FinalizationEvents, Fresh(e),
         \/ \E s \in Slots : Settle(s) \/ RetryPlan(s) \/ DatabaseUnavailable(s) \/ Crash(s)
         \/ \E s \in Slots, job \in Events : Deliver(s, job)
         \/ \E job \in Events : RecoverStalled(job) \/ LoseLock(job) \/ PublishAgain(job)
         \/ ImportCatalog \/ UNCHANGED vars
  PROVE  Fresh(e)'
<1> USE DEF RowInv, TypeOK
<1>1. e \in Events /\ e \notin RoutingEvents
  BY FinalizationEventsAreEvents
<1>2. ASSUME NEW s \in Slots, Settle(s) \/ RetryPlan(s) \/ DatabaseUnavailable(s) PROVE Fresh(e)'
  <2>1. UNCHANGED <<candidates, work>>
    BY <1>2 DEF Settle, RetryPlan, DatabaseUnavailable, Throw, rowVars
  <2>2. CASE Settle(s)
    BY <2>1, <2>2, EndKeepsFresh
  <2>3. CASE RetryPlan(s)
    <3>1. exec[s].event # e /\ Throw(s)
      BY <1>1, <2>3 DEF RetryPlan, ExecOK, At
    <3>2. QED BY <2>1, <3>1, EndKeepsFresh
  <2>4. CASE DatabaseUnavailable(s)
    <3>1. Throw(s) /\ attempts[e] + 1 < MaxAttempts
      BY <2>4, RetriesAreLeft DEF DatabaseUnavailable, Spend
    <3>2. QED BY <2>1, <3>1, EndKeepsFresh
  <2>5. QED BY <1>2, <2>2, <2>3, <2>4
<1>3. ASSUME NEW s \in Slots, Crash(s) PROVE Fresh(e)'
  <2>1. exec' = [exec EXCEPT ![s] = Idle] /\ UNCHANGED <<jobState, owner, candidates, work>>
    BY <1>3 DEF Crash, rowVars, jobVars
  <2>2. \A t \in Slots \ {s} : exec'[t] = exec[t] /\ (Useful(t) => Useful(t)')
    BY <2>1, UsefulStays
  <2>3. ~IsHandling(s, e)'
    BY <2>1 DEF IsHandling, At, Idle
  <2>4. ASSUME Hopeful(s, e) PROVE Fresh(e)'
    <3>1. Abandoned(e)'
      BY <2>1, <2>3, <2>4 DEF Hopeful, Abandoned
    <3>2. QED BY <3>1 DEF Fresh
  <2>5. QED BY <2>1, <2>2, <2>3, <2>4, FreshUnlessTouched
<1>4. ASSUME NEW s \in Slots, NEW job \in Events, Deliver(s, job) PROVE Fresh(e)'
  <2>1. /\ exec[s].at = "idle" /\ UNCHANGED <<candidates, work>>
        /\ exec' = [exec EXCEPT ![s] = [Idle EXCEPT !.at = "start", !.event = job,
                                                    !.attempt = attempts[job]]]
    BY <1>4 DEF Deliver, At, rowVars
  <2>2. exec'[s].at = "start" /\ exec'[s].event = job
    BY <2>1 DEF Idle
  <2>3. CASE job = e
    <3>1. jobState'[e] = "active" /\ owner'[e] = s
      BY <1>1, <1>4, <2>3 DEF Deliver
    <3>2. Hopeful(s, e)'
      BY <2>2, <2>3, <3>1 DEF Hopeful, At
    <3>3. QED BY <3>2 DEF Fresh
  <2>4. CASE job # e
    <3>1. jobState'[e] = jobState[e] /\ owner'[e] = owner[e]
      BY <1>1, <1>4, <2>4 DEF Deliver
    <3>2. \A t \in Slots \ {s} : exec'[t] = exec[t] /\ (Useful(t) => Useful(t)')
      BY <2>1, UsefulStays
    <3>3. ~IsHandling(s, e)' /\ ~Hopeful(s, e)
      BY <2>1, <2>2, <2>4 DEF IsHandling, Hopeful, At
    <3>4. QED BY <3>1, <3>2, <3>3, FreshUnlessTouched
  <2>5. QED BY <2>3, <2>4
<1>5. ASSUME jobState'[e] = jobState[e], owner'[e] = owner[e], UNCHANGED <<exec, candidates, work>>
      PROVE  Fresh(e)'
  BY <1>5 DEF Fresh, Abandoned, IsHandling, At, Hopeful, Useful, Routed
<1>6. ASSUME NEW job \in Events, RecoverStalled(job) \/ LoseLock(job) PROVE Fresh(e)'
  <2>1. Requeue(job) /\ UNCHANGED <<exec, candidates, work>>
    BY <1>6 DEF RecoverStalled, LoseLock, Requeue, rowVars
  <2>2. CASE job = e
    <3>1. Abandoned(e) \/ budget["lockLost"] > 0
      BY <1>6, <2>2 DEF RecoverStalled, LoseLock, Requeue, Spend, Abandoned
    <3>2. stalls[e] < MaxStalls
      BY <3>1, RetriesAreLeft
    <3>3. jobState'[e] = "waiting"
      BY <1>1, <2>1, <2>2, <3>2 DEF Requeue, Close
    <3>4. QED BY <3>3 DEF Fresh
  <2>3. CASE job # e
    BY <1>1, <1>5, <2>1, <2>3 DEF Requeue, Close
  <2>4. QED BY <2>2, <2>3
<1>7. ASSUME NEW job \in Events, PublishAgain(job) PROVE Fresh(e)'
  <2>1. job # e
    BY <1>7 DEF PublishAgain, Fresh, Abandoned, Hopeful
  <2>2. QED BY <1>1, <1>5, <1>7, <2>1 DEF PublishAgain, rowVars
<1>8. ASSUME ImportCatalog \/ UNCHANGED vars PROVE Fresh(e)'
  BY <1>5, <1>8 DEF ImportCatalog, vars, rowVars, jobVars
<1>9. QED BY <1>2, <1>3, <1>4, <1>6, <1>7, <1>8

\* What a slot can still route, it can until a wave is open again.
LEMMA UsefulUntilOpen ==
  ASSUME AnswerInv, [Next]_vars, WaveTerminal', NEW t \in Slots, exec'[t] = exec[t], Useful(t)
  PROVE  Useful(t)'
<1>1. RowInv /\ TypeOK
  BY DEF AnswerInv, VerdictInv, LifecycleInv, RowInv
<1>2. PICK row \in candidates : OrdinalOf(row) <= exec[t].wave /\ ~Routed(row)
  BY DEF Useful
<1>3. row \in candidates' /\ CityOf(row) \in Cities
  BY <1>1, CandidatesStay DEF TypeOK, CityOf
<1>4. ~Routed(row)'
  BY <1>1, <1>2, <1>3, RoutingOpensWave
<1>5. QED BY <1>2, <1>3, <1>4 DEF Useful

\* A finalization that expands leaves its slot with a candidate to route: the one
\* behind the highest routed ordinal.
LEMMA NextWaveIsUseful ==
  ASSUME AnswerInv, NEW s \in Slots, FinalizeExpands(s)
  PROVE  exec'[s].at = "expand" /\ Useful(s)'
<1>1. TypeOK /\ Tidy(candidates)
  BY CandidatesAreTidy DEF AnswerInv, VerdictInv, LifecycleInv, RowInv
<1>2. PICK top \in Active :
        /\ IsTopOrdinal(OrdinalOf(top)) /\ CanExpandFrom(OrdinalOf(top))
        /\ exec' = [exec EXCEPT ![s] = [exec[s] EXCEPT !.at = "expand", !.wave = OrdinalOf(top) + 1]]
  BY DEF FinalizeExpands
<1>3. OrdinalOf(top) \in Nat /\ Cardinality(candidates) \in Nat
  BY <1>1, FS_CardinalityType DEF Active, Tidy, OrdinalOf
<1>4. OrdinalOf(top) + 1 \in 0 .. (Cardinality(candidates) - 1)
  BY <1>2, <1>3 DEF CanExpandFrom
<1>5. PICK row \in candidates : OrdinalOf(row) = OrdinalOf(top) + 1
  BY <1>1, <1>4 DEF Tidy
<1>6. ~Routed(row)
  <2>1. row \notin Active
    BY <1>2, <1>3, <1>5 DEF IsTopOrdinal
  <2>2. QED BY <2>1 DEF Active, Routed
<1>7. exec'[s].at = "expand" /\ exec'[s].wave = OrdinalOf(top) + 1
  BY <1>1, <1>2 DEF TypeOK, Execution
<1>8. candidates' = candidates /\ work' = work
  BY DEF FinalizeExpands, rowVars
<1>9. OrdinalOf(row) <= exec'[s].wave /\ ~Routed(row)'
  BY <1>3, <1>5, <1>6, <1>7, <1>8 DEF Routed
<1>10. QED BY <1>7, <1>8, <1>9 DEF Useful

\* A useful expansion opens a wave, when the plan budget leaves nothing out.
LEMMA UsefulExpansionOpens ==
  ASSUME AnswerInv, PlanBudgetCovers, [Next]_vars, NEW s \in Slots, ExpandWave(s), Useful(s)
  PROVE  ~WaveTerminal'
<1>1. RowInv /\ TypeOK /\ Tidy(candidates)
  BY CandidatesAreTidy DEF AnswerInv, VerdictInv, LifecycleInv, RowInv
<1>2. PICK row \in candidates : OrdinalOf(row) <= exec[s].wave /\ ~Routed(row)
  BY DEF Useful
<1>3. candidates' = candidates /\ exec[s].wave \in Nat /\ CityOf(row) \in Cities
  BY <1>1 DEF ExpandWave, TypeOK, Execution, CityOf
<1>4. FanOut({r \in candidates : OrdinalOf(r) <= exec[s].wave}, exec[s].wave, {})
  BY DEF ExpandWave
<1>5. FanOutCities({r \in candidates : OrdinalOf(r) <= exec[s].wave}, exec[s].wave)
        = FanOutCities(candidates', exec[s].wave)
  BY <1>3, FanOutOfWave
<1>6. Tidy(candidates')
  BY <1>1, <1>3
<1>7. Routed(row)'
  BY <1>1, <1>2, <1>3, <1>4, <1>5, <1>6, FanOutRoutes
<1>8. QED BY <1>1, <1>2, <1>3, <1>7, RoutingOpensWave

\* A finalization that looks at a quiet search ends it, or extends it.
LEMMA QuietIsJudged ==
  ASSUME Quiet, candidates # {} => Active # {},
         NEW s \in Slots, Handler(s), At(s, "start"), exec[s].event \in FinalizationEvents
  PROVE  FinalizeExpands(s) \/ search'.status # "running"
<1>1. exec[s].event \notin RoutingEvents /\ exec[s].event # KickoffEvent
      /\ exec[s].event # CandidatesEvent
  BY FinalizationEventsAreEvents
<1>2. \/ FinalizeTooEarlyOrLate(s) \/ FinalizeFails(s) \/ FinalizeNoCandidates(s)
      \/ FinalizeExpands(s) \/ FinalizeNoFeasible(s) \/ FinalizeRanks(s)
  BY <1>1 DEF Handler, At, Kickoff, ClaimGeneration, ReadCatalog, RejectGeneration,
    PersistCandidates, ClaimWork, CheckJourneys, Reclaim, CountWork, CompletePlan, RetryPlan,
    ExhaustPlan, RefusePlan, ExpandWave, Settle
<1>3. ~FinalizeTooEarlyOrLate(s)
  BY DEF Quiet, FinalizeTooEarlyOrLate
<1>4. FinalizeFails(s) \/ FinalizeNoCandidates(s) \/ FinalizeNoFeasible(s) \/ FinalizeRanks(s)
        => search'.status # "running"
  BY DEF FinalizeFails, Failed, FinalizeNoCandidates, FinalizeNoFeasible, FinalizeRanks, Completed
<1>5. QED BY <1>2, <1>3, <1>4

\* So a fresh finalization stays one while the search stays quiet.
LEMMA HandlerKeepsFresh ==
  ASSUME AnswerInv, PlanBudgetCovers, candidates # {} => Active # {}, Quiet, Quiet',
         NEW e \in FinalizationEvents, Fresh(e),
         NEW s \in Slots, Handler(s), Proceeds(s), [Next]_vars
  PROVE  Fresh(e)'
<1>1. RowInv /\ TypeOK /\ e \in Events
  BY FinalizationEventsAreEvents DEF AnswerInv, VerdictInv, LifecycleInv, RowInv
<1>2. jobState[e] # "none"
  BY DEF Fresh, Abandoned, Hopeful
<1>3. jobState'[e] = jobState[e] /\ owner'[e] = owner[e]
  BY <1>1, <1>2 DEF Proceeds
<1>4. \A t \in Slots \ {s} : exec'[t] = exec[t] /\ (Useful(t) => Useful(t)')
  BY UsefulUntilOpen DEF Proceeds, Quiet
<1>5. Abandoned(e) /\ owner[e] = s => ~IsHandling(s, e)'
  BY <1>1, <1>3, ProceedsAbandons DEF Abandoned
<1>6. ASSUME Hopeful(s, e) PROVE Fresh(e)'
  <2>1. jobState[e] = "active" /\ owner[e] = s /\ exec[s].event = e
    BY <1>6 DEF Hopeful
  <2>2. CASE At(s, "start")
    <3>1. FinalizeExpands(s)
      BY <2>1, <2>2, QuietIsJudged DEF Quiet
    <3>2. exec'[s].at = "expand" /\ Useful(s)'
      BY <3>1, NextWaveIsUseful
    <3>3. exec'[s].event = e
      BY <2>1 DEF Proceeds
    <3>4. Hopeful(s, e)'
      BY <1>3, <2>1, <3>2, <3>3 DEF Hopeful, At
    <3>5. QED BY <3>4 DEF Fresh
  <2>3. CASE At(s, "expand") /\ Useful(s)
    <3>1. ExpandWave(s)
      BY <2>3 DEF Handler, At, Kickoff, ClaimGeneration, ReadCatalog, RejectGeneration,
        PersistCandidates, ClaimWork, CheckJourneys, Reclaim, CountWork, CompletePlan, RetryPlan,
        ExhaustPlan, RefusePlan, FinalizeTooEarlyOrLate, FinalizeFails, FinalizeNoCandidates,
        FinalizeExpands, FinalizeNoFeasible, FinalizeRanks, InFinalization, Settle
    <3>2. ~WaveTerminal'
      BY <2>3, <3>1, UsefulExpansionOpens
    <3>3. QED BY <3>2 DEF Quiet
  <2>4. QED BY <1>6, <2>2, <2>3 DEF Hopeful
<1>7. QED BY <1>3, <1>4, <1>5, <1>6, FreshUnlessTouched

\* A search starts together with its generation.
LEMMA StartOpensGeneration ==
  ASSUME [Next]_vars, search.status # "running", search'.status = "running"
  PROVE  generation' \in OpenStatus
<1>1. ASSUME NEW s \in Slots, Handler(s), search' # search
      PROVE  \/ Kickoff(s)
             \/ FinalizeFails(s) \/ FinalizeNoCandidates(s) \/ FinalizeNoFeasible(s) \/ FinalizeRanks(s)
  BY <1>1 DEF Handler, ClaimGeneration, ReadCatalog, RejectGeneration, PersistCandidates,
    ClaimWork, CheckJourneys, Reclaim, CountWork, CompletePlan, RetryPlan, Throw, ExhaustPlan,
    RefusePlan, RoutingStep, FinalizeTooEarlyOrLate, FinalizeExpands, ExpandWave, Settle, searchVars
<1>2. \A s \in Slots :
        FinalizeFails(s) \/ FinalizeNoCandidates(s) \/ FinalizeNoFeasible(s) \/ FinalizeRanks(s)
          => search'.status # "running"
  BY DEF FinalizeFails, Failed, FinalizeNoCandidates, FinalizeNoFeasible, FinalizeRanks, Completed
<1>3. Next => (\E s \in Slots : Handler(s)) \/ search' = search
  BY DEF Next, DatabaseUnavailable, Throw, Crash, Deliver, RecoverStalled, LoseLock, Requeue,
    PublishAgain, ImportCatalog, searchVars
<1>4. PICK s \in Slots : Kickoff(s)
  BY <1>1, <1>2, <1>3 DEF vars
<1>5. QED BY <1>4 DEF Kickoff, OpenStatus

\* A search becomes quiet with a finalization to wait for.
LEMMA QuietIsAnnounced ==
  ASSUME AnswerInv, AnswerInv', EventsFollowRows, [Next]_vars, ~Quiet, Quiet'
  PROVE  \E e \in FinalizationEvents : jobState'[e] = "waiting"
<1>1. RowInv
  BY DEF AnswerInv, VerdictInv, LifecycleInv
<1>2. search.status = "running"
  BY StartOpensGeneration DEF Quiet
<1>3. CASE generation \in OpenStatus
  <2>1. jobState'[GenerationFinal] = "waiting"
    BY <1>3, GenerationEndIsAnnounced DEF Quiet
  <2>2. QED BY <2>1, EventNames
<1>4. CASE ~WaveTerminal
  <2>1. PICK k \in WorkRows : work[k] \notin TerminalRouting
    BY <1>4 DEF WaveTerminal
  <2>2. k \in Work /\ work'[k] # "absent"
    BY <1>1, <2>1, RowsStay DEF WorkRows
  <2>3. work'[k] \in TerminalRouting
    BY <2>2 DEF Quiet, WaveTerminal, WorkRows
  <2>4. jobState'[WorkFinal(k)] = "waiting"
    BY <1>1, <2>1, <2>3, RowEndIsAnnounced
  <2>5. QED BY <2>2, <2>4, EventNames
<1>5. QED BY <1>2, <1>3, <1>4 DEF Quiet

\* No step loses the wake-up.
LEMMA NextKeepsWakeup ==
  ASSUME AnswerInv, AnswerInv', PlanBudgetCovers, FaultsWithinRetries, RetriesArePaid,
         EventsFollowRows, WakeupInv, [Next]_vars
  PROVE  WakeupInv'
<1>1. RowInv /\ TypeOK
  BY DEF AnswerInv, VerdictInv, LifecycleInv, RowInv
<1>2. candidates' # {} => Active' # {}
  BY NextKeepsActive DEF WakeupInv
<1>3. ASSUME Quiet' PROVE \E e \in FinalizationEvents : Fresh(e)'
  <2>1. CASE ~Quiet
    <3>1. PICK e \in FinalizationEvents : jobState'[e] = "waiting"
      BY <1>3, <2>1, QuietIsAnnounced
    <3>2. QED BY <3>1 DEF Fresh
  <2>2. CASE Quiet
    <3>1. PICK e \in FinalizationEvents : Fresh(e)
      BY <2>2 DEF WakeupInv
    <3>2. ASSUME NEW s \in Slots, Handler(s), Proceeds(s) PROVE Fresh(e)'
      BY <1>3, <2>2, <3>1, <3>2, HandlerKeepsFresh DEF WakeupInv
    <3>3. ASSUME NEW s \in Slots, Settle(s) \/ RetryPlan(s) \/ DatabaseUnavailable(s) \/ Crash(s)
          PROVE  Fresh(e)'
      BY <1>1, <3>1, <3>3, QueueKeepsFresh
    <3>4. ASSUME NEW s \in Slots, NEW job \in Events, Deliver(s, job) PROVE Fresh(e)'
      BY <1>1, <3>1, <3>4, QueueKeepsFresh
    <3>5. ASSUME NEW job \in Events, RecoverStalled(job) \/ LoseLock(job) \/ PublishAgain(job)
          PROVE  Fresh(e)'
      BY <1>1, <3>1, <3>5, QueueKeepsFresh
    <3>6. CASE ImportCatalog \/ UNCHANGED vars
      BY <1>1, <3>1, <3>6, QueueKeepsFresh
    <3>7. ASSUME NEW s \in Slots, Handler(s) PROVE Fresh(e)'
      BY <1>1, <3>2, <3>3, <3>7, HandlerProceeds
    <3>8. CASE Next
      BY <3>3, <3>4, <3>5, <3>6, <3>7, <3>8 DEF Next
    <3>9. QED BY <3>6, <3>8
  <2>3. QED BY <2>1, <2>2
<1>4. QED BY <1>2, <1>3 DEF WakeupInv

\* No lost wake-up: while a running search has nothing left to route or to
\* generate, a finalization is still to be delivered or is being handled.  It
\* holds for a catalogue that gives one answer, a plan budget that covers every
\* candidate and no more faults than a job survives; the last two are what the
\* limits of the code and of BullMQ promise.
THEOREM NoLostWakeup ==
  ASSUME OneCatalog, PlanBudgetCovers, FaultsWithinRetries
  PROVE  Spec => []FinalizationPending
<1>1. Init => RetriesArePaid
  <2>1. ASSUME Init, NEW e \in FinalizationEvents
        PROVE  /\ attempts[e] = 0 /\ stalls[e] = 0 /\ ~Abandoned(e) /\ budget = Budget
    BY <2>1, FinalizationEventsAreEvents DEF Init, Abandoned
  <2>2. Budget["database"] \in Nat /\ Budget["crash"] \in Nat /\ Budget["lockLost"] \in Nat
    BY SearchPipelineAssumption DEF FaultKinds
  <2>3. QED BY <2>1, <2>2 DEF RetriesArePaid
<1>2. Init => EventsFollowRows
  <2>1. \A k \in Work : RoutingEvent(k) \in Events /\ RoutingEvent(k) # KickoffEvent
                        /\ WorkFinal(k) \in Events /\ WorkFinal(k) # KickoffEvent
    BY EventNames, FinalizationEventsAreEvents DEF RoutingEvent, KickoffEvent
  <2>2. GenerationFinal \in Events /\ GenerationFinal # KickoffEvent
    BY EventNames, FinalizationEventsAreEvents
  <2>3. QED BY <2>1, <2>2 DEF Init, EventsFollowRows, QueuedSearch, Idle
<1>3. Init => WakeupInv
  BY DEF Init, WakeupInv, Quiet, QueuedSearch
<1>4. AnswerInv /\ RetriesArePaid /\ EventsFollowRows /\ [Next]_vars
        => RetriesArePaid' /\ EventsFollowRows'
  BY NextPaysRetries, NextKeepsEvents DEF AnswerInv, VerdictInv, LifecycleInv
<1>5. AnswerInv /\ AnswerInv' /\ RetriesArePaid /\ EventsFollowRows /\ WakeupInv /\ [Next]_vars
        => WakeupInv'
  BY NextKeepsWakeup
<1>6. Spec => []AnswerInv
  BY AnswerInvHolds
<1>7. WakeupInv => FinalizationPending
  BY DEF WakeupInv, Quiet, FinalizationPending, Fresh, Abandoned, Hopeful, Live
<1>8. QED BY <1>1, <1>2, <1>3, <1>4, <1>5, <1>6, <1>7, PTL DEF Spec
=============================================================================
