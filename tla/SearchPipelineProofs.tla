------------------------- MODULE SearchPipelineProofs -------------------------
(***************************************************************************)
(* Theorems about SearchPipeline, for every value of its constants.         *)
(***************************************************************************)
EXTENDS SearchPipeline, FiniteSetTheorems, TLAPS

\* What a slot is executing determines what it may rely on: the phases of a
\* routing handler belong to a routing event, a generation is persisted from a
\* ranking, and a row is reclaimed because its journeys are there.
ExecOK ==
  \A s \in Slots :
    /\ exec[s].at # "idle" => exec[s].event \in Events
    /\ exec[s].at \in {"check", "reclaim", "count", "plan"} => exec[s].event \in RoutingEvents
    /\ exec[s].at = "persist" => exec[s].answer \in Rankings
    /\ exec[s].at = "reclaim" => Routing(s) \in journeys

\* The inductive invariant behind the first theorems.
RowInv == TypeOK /\ ExecOK /\ SucceededHasJourneys

-----------------------------------------------------------------------------

\* A queued search has no rows and no executions.
LEMMA InitRowInv == Init => RowInv
BY SearchPipelineAssumption DEF Init, RowInv, TypeOK, ExecOK, SucceededHasJourneys, QueuedSearch, SearchStatus,
  GenerationStatus, RoutingStatus, Feasibility, Idle, Execution, Phases, Answers,
  Events, NoEvent

\* An outbox insert leaves every job in one of the five states.
LEMMA EnqueueType ==
  ASSUME NEW E, Enqueue(E), TypeOK
  PROVE  jobState' \in [Events -> {"none", "waiting", "active", "completed", "failed"}]
BY DEF Enqueue, TypeOK

\* A routing event names a routing work row.
LEMMA RoutingType ==
  ASSUME NEW s \in Slots, TypeOK, exec[s].event \in RoutingEvents
  PROVE  Routing(s) \in Work
BY DEF Routing, RoutingEvents

\* A handler that goes on to a phase is still in a well-formed execution.
LEMMA GotoType ==
  ASSUME NEW s \in Slots, NEW phase \in Phases, TypeOK, Goto(s, phase)
  PROVE  exec' \in [Slots -> Execution]
BY DEF Goto, TypeOK, Execution

\* A step of the routing handler that leaves its rows in their types.
LEMMA RoutingStepType ==
  ASSUME NEW s \in Slots, NEW phase \in Phases, TypeOK, RoutingStep(s, phase),
         work' \in [Work -> RoutingStatus], journeys' \in SUBSET Work,
         jobState' \in [Events -> {"none", "waiting", "active", "completed", "failed"}]
  PROVE  TypeOK'
<1>1. exec' \in [Slots -> Execution]
  BY GotoType DEF RoutingStep
<1>2. QED
  BY <1>1 DEF TypeOK, RoutingStep, searchVars, jobVars, worldVars

\* tryKickoff writes the search and the generation only.
LEMMA KickoffKeepsRowInv ==
  ASSUME NEW s \in Slots, RowInv, Kickoff(s)
  PROVE  RowInv'
<1>1. TypeOK'
  <2>1. TypeOK /\ exec' \in [Slots -> Execution]
    BY GotoType DEF RowInv, Kickoff, Phases
  <2>2. UNCHANGED <<candidates, work, journeys, evaluation, rankings>> /\ UNCHANGED jobVars
          /\ UNCHANGED worldVars
    BY DEF Kickoff
  <2>3. search' \in [status : SearchStatus, result : Outcomes \cup FailureCodes \cup {"none"},
                     city : Cities \cup {"none"}]
    BY <2>1 DEF TypeOK, Kickoff, RunningSearch, SearchStatus
  <2>4. generation' \in GenerationStatus
    BY <2>1 DEF TypeOK, Kickoff, GenerationStatus
  <2>5. jobState' \in [Events -> {"none", "waiting", "active", "completed", "failed"}]
    BY <2>1, EnqueueType DEF TypeOK, Kickoff
  <2>. QED
    BY <2>1, <2>2, <2>3, <2>4, <2>5 DEF TypeOK, jobVars, worldVars
<1>2. ExecOK'
  BY DEF RowInv, TypeOK, ExecOK, Kickoff, Goto, At, Routing, Execution
<1>3. SucceededHasJourneys'
  BY DEF RowInv, SucceededHasJourneys, Kickoff
<1>4. QED BY <1>1, <1>2, <1>3 DEF RowInv

\* Claiming a generation leads to reading the catalogue, or to nothing.
LEMMA ClaimGenerationKeepsRowInv ==
  ASSUME NEW s \in Slots, RowInv, ClaimGeneration(s)
  PROVE  RowInv'
<1>1. TypeOK'
  BY DEF RowInv, TypeOK, ClaimGeneration, GenerationStatus,
    Goto, Execution, Phases, searchVars, jobVars, worldVars
<1>2. ExecOK'
  BY DEF RowInv, TypeOK, ExecOK, ClaimGeneration, Goto, At, Routing, Execution
<1>3. SucceededHasJourneys'
  BY DEF RowInv, SucceededHasJourneys, ClaimGeneration
<1>4. QED BY <1>1, <1>2, <1>3 DEF RowInv

\* A slot that goes on to persist has read a ranking, not NotReady.
LEMMA ReadCatalogKeepsRowInv ==
  ASSUME NEW s \in Slots, RowInv, ReadCatalog(s)
  PROVE  RowInv'
<1>1. TypeOK'
  <2>1. exec \in [Slots -> Execution] /\ catalog \in Answers
    BY DEF RowInv, TypeOK
  <2>2. exec' \in [Slots -> Execution]
    BY <2>1, ZenonT(60) DEF ReadCatalog, Execution, Phases
  <2>3. QED BY <2>2 DEF RowInv, TypeOK, ReadCatalog, searchVars, rowVars, jobVars, worldVars
<1>2. ExecOK'
  BY DEF RowInv, TypeOK, ExecOK, ReadCatalog, At, Routing, Execution, Answers, rowVars
<1>3. SucceededHasJourneys'
  BY DEF RowInv, SucceededHasJourneys, ReadCatalog, rowVars
<1>4. QED BY <1>1, <1>2, <1>3 DEF RowInv

\* Rejecting a generation touches no routing work.
LEMMA RejectGenerationKeepsRowInv ==
  ASSUME NEW s \in Slots, RowInv, RejectGeneration(s)
  PROVE  RowInv'
<1>1. TypeOK'
  BY EnqueueType DEF RowInv, TypeOK, RejectGeneration, GenerationStatus,
    Goto, Execution, Phases, searchVars, jobVars, worldVars
<1>2. ExecOK'
  BY DEF RowInv, TypeOK, ExecOK, RejectGeneration, Goto, At, Routing, Execution
<1>3. SucceededHasJourneys'
  BY DEF RowInv, SucceededHasJourneys, RejectGeneration
<1>4. QED BY <1>1, <1>2, <1>3 DEF RowInv

\* Claiming opens a row at most, and only for a routing event.
LEMMA ClaimWorkKeepsRowInv ==
  ASSUME NEW s \in Slots, RowInv, ClaimWork(s)
  PROVE  RowInv'
<1>1. TypeOK'
  BY RoutingType DEF RowInv, TypeOK, ClaimWork, RoutingStatus, OpenStatus,
    Goto, Execution, Phases, searchVars, jobVars, worldVars
<1>2. ExecOK'
  BY DEF RowInv, TypeOK, ExecOK, ClaimWork, Goto, At, Routing, Execution
<1>3. SucceededHasJourneys'
  BY DEF RowInv, SucceededHasJourneys, ClaimWork
<1>4. QED BY <1>1, <1>2, <1>3 DEF RowInv

\* A slot that goes on to reclaim has seen journeys.
LEMMA CheckJourneysKeepsRowInv ==
  ASSUME NEW s \in Slots, RowInv, CheckJourneys(s)
  PROVE  RowInv'
<1>1. TypeOK'
  BY DEF RowInv, TypeOK, CheckJourneys, Goto, Execution, Phases,
    searchVars, rowVars, jobVars, worldVars
<1>2. ExecOK'
  BY DEF RowInv, TypeOK, ExecOK, CheckJourneys, Goto, At, Routing, Execution, rowVars
<1>3. SucceededHasJourneys'
  BY DEF RowInv, SucceededHasJourneys, CheckJourneys, rowVars
<1>4. QED BY <1>1, <1>2, <1>3 DEF RowInv

\* Completing a row as succeeded is sound if journeys come with it or are there.
LEMMA CompleteWorkRows ==
  ASSUME NEW k \in Work, NEW status \in {"succeeded", "no_journeys"}, NEW found \in BOOLEAN,
         TypeOK, SucceededHasJourneys, CompleteWork(k, status, found),
         status = "succeeded" => found \/ k \in journeys
  PROVE  /\ work' \in [Work -> RoutingStatus]
         /\ journeys \subseteq journeys' /\ journeys' \in SUBSET Work
         /\ jobState' \in [Events -> {"none", "waiting", "active", "completed", "failed"}]
         /\ SucceededHasJourneys'
BY EnqueueType DEF CompleteWork, TypeOK, SucceededHasJourneys, RoutingStatus, TerminalRouting

\* Giving a row up makes no row succeeded.
LEMMA ExhaustWorkRows ==
  ASSUME NEW k \in Work, TypeOK, SucceededHasJourneys, ExhaustWork(k)
  PROVE  /\ work' \in [Work -> RoutingStatus]
         /\ journeys' = journeys
         /\ jobState' \in [Events -> {"none", "waiting", "active", "completed", "failed"}]
         /\ SucceededHasJourneys'
BY EnqueueType DEF ExhaustWork, TypeOK, SucceededHasJourneys, RoutingStatus, TerminalRouting

\* A reclaimed row is completed without inserting: ExecOK says the journeys are there.
LEMMA ReclaimKeepsRowInv ==
  ASSUME NEW s \in Slots, RowInv, Reclaim(s)
  PROVE  RowInv'
<1>1. Routing(s) \in Work
  BY RoutingType DEF RowInv, ExecOK, Reclaim, At
<1>2. /\ work' \in [Work -> RoutingStatus]
      /\ journeys \subseteq journeys' /\ journeys' \in SUBSET Work
      /\ jobState' \in [Events -> {"none", "waiting", "active", "completed", "failed"}]
      /\ SucceededHasJourneys'
  BY <1>1, CompleteWorkRows DEF RowInv, Reclaim, ExecOK, At
<1>3. TypeOK'
  <2>1. TypeOK /\ RoutingStep(s, "return") /\ "return" \in Phases
    BY DEF RowInv, Reclaim, Phases
  <2>2. QED BY <1>2, <2>1, RoutingStepType
<1>4. ExecOK'
  BY <1>2 DEF RowInv, TypeOK, ExecOK, Reclaim, RoutingStep, Goto, At, Routing, Execution
<1>5. QED BY <1>2, <1>3, <1>4 DEF RowInv

\* The budget check goes on to the plan, or gives the row up.
LEMMA CountWorkKeepsRowInv ==
  ASSUME NEW s \in Slots, RowInv, CountWork(s)
  PROVE  RowInv'
<1>1. Routing(s) \in Work
  BY RoutingType DEF RowInv, ExecOK, CountWork, At
<1>2. /\ work' \in [Work -> RoutingStatus]
      /\ journeys \subseteq journeys' /\ journeys' \in SUBSET Work
      /\ jobState' \in [Events -> {"none", "waiting", "active", "completed", "failed"}]
      /\ SucceededHasJourneys'
  BY <1>1, ExhaustWorkRows DEF RowInv, CountWork, TypeOK, SucceededHasJourneys
<1>3. TypeOK'
  <2>1. TypeOK /\ "return" \in Phases /\ "plan" \in Phases
    BY DEF RowInv, Phases
  <2>2. RoutingStep(s, "return") \/ RoutingStep(s, "plan")
    BY DEF CountWork
  <2>3. QED BY <1>2, <2>1, <2>2, RoutingStepType
<1>4. ExecOK'
  BY <1>2 DEF RowInv, TypeOK, ExecOK, CountWork, RoutingStep, Goto, At, Routing, Execution
<1>5. QED BY <1>2, <1>3, <1>4 DEF RowInv

\* A planned row is succeeded only together with its journeys.
LEMMA CompletePlanKeepsRowInv ==
  ASSUME NEW s \in Slots, NEW found \in BOOLEAN, RowInv, CompletePlan(s, found)
  PROVE  RowInv'
<1>1. Routing(s) \in Work
  BY RoutingType DEF RowInv, ExecOK, CompletePlan, At
<1>2. /\ work' \in [Work -> RoutingStatus]
      /\ journeys \subseteq journeys' /\ journeys' \in SUBSET Work
      /\ jobState' \in [Events -> {"none", "waiting", "active", "completed", "failed"}]
      /\ SucceededHasJourneys'
  BY <1>1, CompleteWorkRows DEF RowInv, CompletePlan
<1>3. TypeOK'
  <2>1. TypeOK /\ RoutingStep(s, "return") /\ "return" \in Phases
    BY DEF RowInv, CompletePlan, Phases
  <2>2. QED BY <1>2, <2>1, RoutingStepType
<1>4. ExecOK'
  BY <1>2 DEF RowInv, TypeOK, ExecOK, CompletePlan, RoutingStep, Goto, At, Routing, Execution
<1>5. QED BY <1>2, <1>3, <1>4 DEF RowInv

\* The last retryable error gives the row up.
LEMMA ExhaustPlanKeepsRowInv ==
  ASSUME NEW s \in Slots, RowInv, ExhaustPlan(s)
  PROVE  RowInv'
<1>1. Routing(s) \in Work
  BY RoutingType DEF RowInv, ExecOK, ExhaustPlan, At
<1>2. /\ work' \in [Work -> RoutingStatus]
      /\ journeys \subseteq journeys' /\ journeys' \in SUBSET Work
      /\ jobState' \in [Events -> {"none", "waiting", "active", "completed", "failed"}]
      /\ SucceededHasJourneys'
  BY <1>1, ExhaustWorkRows DEF RowInv, ExhaustPlan, TypeOK
<1>3. TypeOK'
  <2>1. TypeOK /\ RoutingStep(s, "return") /\ "return" \in Phases
    BY DEF RowInv, ExhaustPlan, Phases
  <2>2. QED BY <1>2, <2>1, RoutingStepType
<1>4. ExecOK'
  BY <1>2 DEF RowInv, TypeOK, ExecOK, ExhaustPlan, RoutingStep, Goto, At, Routing, Execution
<1>5. QED BY <1>2, <1>3, <1>4 DEF RowInv

\* So does a permanent error.
LEMMA RefusePlanKeepsRowInv ==
  ASSUME NEW s \in Slots, RowInv, RefusePlan(s)
  PROVE  RowInv'
<1>1. Routing(s) \in Work
  BY RoutingType DEF RowInv, ExecOK, RefusePlan, At
<1>2. /\ work' \in [Work -> RoutingStatus]
      /\ journeys \subseteq journeys' /\ journeys' \in SUBSET Work
      /\ jobState' \in [Events -> {"none", "waiting", "active", "completed", "failed"}]
      /\ SucceededHasJourneys'
  BY <1>1, ExhaustWorkRows DEF RowInv, RefusePlan, TypeOK
<1>3. TypeOK'
  <2>1. TypeOK /\ RoutingStep(s, "unrecoverable") /\ "unrecoverable" \in Phases
    BY DEF RowInv, RefusePlan, Phases
  <2>2. QED BY <1>2, <2>1, RoutingStepType
<1>4. ExecOK'
  BY <1>2 DEF RowInv, TypeOK, ExecOK, RefusePlan, RoutingStep, Goto, At, Routing, Execution
<1>5. QED BY <1>2, <1>3, <1>4 DEF RowInv

\* A fan-out turns absent rows into pending ones and changes no other.
LEMMA FanOutRows ==
  ASSUME NEW rows, NEW n, NEW also, TypeOK, FanOut(rows, n, also)
  PROVE  /\ work' \in [Work -> RoutingStatus]
         /\ \A k \in Work : work'[k] = work[k] \/ (work[k] = "absent" /\ work'[k] = "pending")
         /\ jobState' \in [Events -> {"none", "waiting", "active", "completed", "failed"}]
<1>1. /\ work' \in [Work -> RoutingStatus]
      /\ \A k \in Work : work'[k] = work[k] \/ (work[k] = "absent" /\ work'[k] = "pending")
  BY DEF FanOut, TypeOK, RoutingStatus, OpenStatus
<1>2. jobState' \in [Events -> {"none", "waiting", "active", "completed", "failed"}]
  BY DEF FanOut, Enqueue, TypeOK
<1>3. QED BY <1>1, <1>2

\* Stored candidates are cities with natural ordinals.
LEMMA WithCandidatesType ==
  ASSUME NEW cities \in Seq(Cities), candidates \in SUBSET (Cities \X Nat)
  PROVE  WithCandidates(cities) \in SUBSET (Cities \X Nat)
BY DEF WithCandidates

\* Persisting candidates creates pending work only.
LEMMA PersistCandidatesKeepsRowInv ==
  ASSUME NEW s \in Slots, RowInv, PersistCandidates(s)
  PROVE  RowInv'
<1>1. exec[s].answer \in Seq(Cities)
  BY SearchPipelineAssumption DEF RowInv, ExecOK, PersistCandidates, At
<1>2. candidates' \in SUBSET (Cities \X Nat)
  BY <1>1, WithCandidatesType DEF RowInv, TypeOK, PersistCandidates
<1>3. /\ work' \in [Work -> RoutingStatus]
      /\ \A k \in Work : work'[k] = work[k] \/ (work[k] = "absent" /\ work'[k] = "pending")
      /\ jobState' \in [Events -> {"none", "waiting", "active", "completed", "failed"}]
  BY FanOutRows DEF RowInv, PersistCandidates
<1>4. TypeOK'
  <2>1. exec' \in [Slots -> Execution]
    BY DEF RowInv, TypeOK, PersistCandidates, Goto, Execution, Phases
  <2>2. QED
    BY <1>2, <1>3, <2>1 DEF RowInv, TypeOK, PersistCandidates, GenerationStatus,
      searchVars, jobVars, worldVars
<1>5. ExecOK'
  BY DEF RowInv, TypeOK, ExecOK, PersistCandidates, Goto, At, Routing, Execution
<1>6. SucceededHasJourneys'
  BY <1>3 DEF RowInv, SucceededHasJourneys, PersistCandidates
<1>7. QED BY <1>4, <1>5, <1>6 DEF RowInv

\* So does the expansion to the next wave.
LEMMA ExpandWaveKeepsRowInv ==
  ASSUME NEW s \in Slots, RowInv, ExpandWave(s)
  PROVE  RowInv'
<1>1. /\ work' \in [Work -> RoutingStatus]
      /\ \A k \in Work : work'[k] = work[k] \/ (work[k] = "absent" /\ work'[k] = "pending")
      /\ jobState' \in [Events -> {"none", "waiting", "active", "completed", "failed"}]
  BY FanOutRows DEF RowInv, ExpandWave
<1>2. TypeOK'
  <2>1. exec' \in [Slots -> Execution]
    BY DEF RowInv, TypeOK, ExpandWave, Goto, Execution, Phases
  <2>2. QED BY <1>1, <2>1 DEF RowInv, TypeOK, ExpandWave, searchVars, jobVars, worldVars
<1>3. ExecOK'
  BY DEF RowInv, TypeOK, ExecOK, ExpandWave, Goto, At, Routing, Execution
<1>4. SucceededHasJourneys'
  BY <1>1 DEF RowInv, SucceededHasJourneys, ExpandWave
<1>5. QED BY <1>2, <1>3, <1>4 DEF RowInv

-----------------------------------------------------------------------------
(* Steps that change none of the rows ExecOK and SucceededHasJourneys speak *)
(* of, and leave every slot where it was or idle.                           *)

\* An idle slot is a well-formed execution.
LEMMA IdleExecution == Idle \in Execution
BY DEF Idle, Execution, Phases, Events, NoEvent, Answers

\* Steps of the queue that free slots and leave rows alone keep the invariant.
LEMMA QueueStepKeepsRowInv ==
  ASSUME RowInv, UNCHANGED <<searchVars, rowVars>>,
         \A s \in Slots : exec'[s] = exec[s] \/ exec'[s] = Idle,
         exec' \in [Slots -> Execution],
         jobState' \in [Events -> {"none", "waiting", "active", "completed", "failed"}],
         owner' \in [Events -> Slots \cup {NoSlot}],
         attempts' \in [Events -> Nat], stalls' \in [Events -> Nat],
         catalog' \in Answers, budget' \in [FaultKinds -> Nat]
  PROVE  RowInv'
<1>1. TypeOK'
  BY DEF RowInv, TypeOK, searchVars, rowVars
<1>2. ExecOK'
  BY DEF RowInv, ExecOK, Idle, Routing, rowVars
<1>3. SucceededHasJourneys'
  BY DEF RowInv, SucceededHasJourneys, rowVars
<1>4. QED BY <1>1, <1>2, <1>3 DEF RowInv

\* A handler that is done frees its slot.
LEMMA SettleKeepsRowInv ==
  ASSUME NEW s \in Slots, RowInv, Settle(s)
  PROVE  RowInv'
BY QueueStepKeepsRowInv, IdleExecution DEF RowInv, TypeOK, Settle, Close, worldVars

\* A handler that throws frees its slot.
LEMMA ThrowKeepsRowInv ==
  ASSUME NEW s \in Slots, RowInv, Throw(s), catalog' = catalog, budget' \in [FaultKinds -> Nat]
  PROVE  RowInv'
BY QueueStepKeepsRowInv, IdleExecution DEF RowInv, TypeOK, Throw, Close

\* A fault that was available leaves a natural number of them.
LEMMA SpendType ==
  ASSUME NEW kind \in FaultKinds, TypeOK, Spend(kind)
  PROVE  budget' \in [FaultKinds -> Nat]
BY DEF Spend, TypeOK

\* A crash frees a slot; the rows stay.
LEMMA CrashKeepsRowInv ==
  ASSUME NEW s \in Slots, RowInv, Crash(s)
  PROVE  RowInv'
BY QueueStepKeepsRowInv, IdleExecution, SpendType DEF RowInv, TypeOK, FaultKinds, Crash, jobVars

\* A stalled job is queued again, whoever still executes it.
LEMMA RequeueKeepsRowInv ==
  ASSUME NEW e \in Events, RowInv, Requeue(e), budget' \in [FaultKinds -> Nat]
  PROVE  RowInv'
BY QueueStepKeepsRowInv DEF RowInv, TypeOK, Requeue, Close

\* A second publication resets the job and nothing else.
LEMMA PublishAgainKeepsRowInv ==
  ASSUME NEW e \in Events, RowInv, PublishAgain(e)
  PROVE  RowInv'
BY QueueStepKeepsRowInv, SpendType DEF RowInv, TypeOK, FaultKinds, PublishAgain

\* An import changes the catalogue's answer; what slots have read stays.
LEMMA ImportCatalogKeepsRowInv ==
  ASSUME RowInv, ImportCatalog
  PROVE  RowInv'
BY QueueStepKeepsRowInv, SpendType DEF RowInv, TypeOK, FaultKinds, ImportCatalog, jobVars

\* A delivery starts an execution of an event at its first phase.
LEMMA DeliverKeepsRowInv ==
  ASSUME NEW s \in Slots, NEW e \in Events, RowInv, Deliver(s, e)
  PROVE  RowInv'
<1>1. exec' \in [Slots -> Execution]
  <2>1. [Idle EXCEPT !.at = "start", !.event = e, !.attempt = attempts[e]] \in Execution
    BY IdleExecution DEF RowInv, TypeOK, Execution, Phases
  <2>2. QED BY <2>1 DEF RowInv, TypeOK, Deliver
<1>2. TypeOK'
  BY <1>1 DEF RowInv, TypeOK, Deliver, searchVars, rowVars, worldVars
<1>3. ExecOK'
  BY DEF RowInv, TypeOK, ExecOK, Deliver, Idle, Routing, rowVars
<1>4. SucceededHasJourneys'
  BY DEF RowInv, SucceededHasJourneys, Deliver, rowVars
<1>5. QED BY <1>2, <1>3, <1>4 DEF RowInv

-----------------------------------------------------------------------------
(* Finalization.                                                            *)

\* Feasible cities are cities.
LEMMA FeasibleCitiesType ==
  TypeOK => FeasibleCities \in SUBSET Cities
BY DEF TypeOK, FeasibleCities, ActiveCities, Active, CityOf

\* Evaluations keep their type.
LEMMA EvaluateType ==
  ASSUME TypeOK, Evaluate
  PROVE  evaluation' \in [Cities -> Feasibility]
BY DEF TypeOK, Evaluate, CityFeasibility, Feasibility

\* What every finalization step has in common.
LEMMA FinalizationKeepsRowInv ==
  ASSUME NEW s \in Slots, RowInv, UNCHANGED <<rowVars, jobState, jobVars, worldVars>>,
         exec' \in [Slots -> Execution],
         \A t \in Slots : exec'[t] = exec[t] \/ (exec'[t].event = exec[t].event
                                                  /\ exec[t].event \in Events
                                                  /\ exec'[t].at \in {"return", "expand"}),
         search' \in [status : SearchStatus, result : Outcomes \cup FailureCodes \cup {"none"},
                      city : Cities \cup {"none"}],
         evaluation' \in [Cities -> Feasibility],
         rankings' \in SUBSET Cities
  PROVE  RowInv'
<1>1. TypeOK'
  BY DEF RowInv, TypeOK, rowVars, jobVars, worldVars
<1>2. ExecOK'
  BY DEF RowInv, ExecOK, Routing, rowVars
<1>3. SucceededHasJourneys'
  BY DEF RowInv, SucceededHasJourneys, rowVars
<1>4. QED BY <1>1, <1>2, <1>3 DEF RowInv

\* The transactions of a finalization lead to "return" and touch no routing work.
LEMMA FinalizationStepExec ==
  ASSUME NEW s \in Slots, RowInv, InFinalization(s), FinalizationStep(s, "return")
  PROVE  /\ exec' \in [Slots -> Execution]
         /\ \A t \in Slots : exec'[t] = exec[t] \/ (exec'[t].event = exec[t].event
                                                     /\ exec[t].event \in Events
                                                     /\ exec'[t].at \in {"return", "expand"})
         /\ UNCHANGED <<rowVars, jobState, jobVars, worldVars>>
BY DEF RowInv, TypeOK, ExecOK, InFinalization, FinalizationStep, Goto, At, Execution, Phases

\* already_terminal and not_ready write nothing.
LEMMA FinalizeTooEarlyOrLateKeepsRowInv ==
  ASSUME NEW s \in Slots, RowInv, FinalizeTooEarlyOrLate(s)
  PROVE  RowInv'
BY FinalizationStepExec, FinalizationKeepsRowInv
  DEF RowInv, TypeOK, FinalizeTooEarlyOrLate, searchVars

\* A failure writes the search row.
LEMMA FinalizeFailsKeepsRowInv ==
  ASSUME NEW s \in Slots, RowInv, FinalizeFails(s)
  PROVE  RowInv'
<1>1. search' \in [status : SearchStatus, result : Outcomes \cup FailureCodes \cup {"none"},
                   city : Cities \cup {"none"}]
  BY DEF FinalizeFails, FailureReasons, Failed, SearchStatus
<1>2. QED
  BY <1>1, FinalizationStepExec, FinalizationKeepsRowInv DEF RowInv, TypeOK, FinalizeFails

\* So does a completion without candidates.
LEMMA FinalizeNoCandidatesKeepsRowInv ==
  ASSUME NEW s \in Slots, RowInv, FinalizeNoCandidates(s)
  PROVE  RowInv'
<1>1. search' \in [status : SearchStatus, result : Outcomes \cup FailureCodes \cup {"none"},
                   city : Cities \cup {"none"}]
  BY DEF FinalizeNoCandidates, Completed, Outcomes, SearchStatus
<1>2. QED
  BY <1>1, FinalizationStepExec, FinalizationKeepsRowInv DEF RowInv, TypeOK, FinalizeNoCandidates

\* Without a feasible candidate, evaluations are written as well.
LEMMA FinalizeNoFeasibleKeepsRowInv ==
  ASSUME NEW s \in Slots, RowInv, FinalizeNoFeasible(s)
  PROVE  RowInv'
<1>1. search' \in [status : SearchStatus, result : Outcomes \cup FailureCodes \cup {"none"},
                   city : Cities \cup {"none"}]
  BY DEF FinalizeNoFeasible, Completed, Outcomes, SearchStatus
<1>2. evaluation' \in [Cities -> Feasibility]
  BY EvaluateType DEF RowInv, FinalizeNoFeasible
<1>3. QED
  BY <1>1, <1>2, FinalizationStepExec, FinalizationKeepsRowInv
    DEF RowInv, TypeOK, FinalizeNoFeasible

\* A ranking recommends one of the cities it ranks.
LEMMA FinalizeRanksKeepsRowInv ==
  ASSUME NEW s \in Slots, RowInv, FinalizeRanks(s)
  PROVE  RowInv'
<1>1. search' \in [status : SearchStatus, result : Outcomes \cup FailureCodes \cup {"none"},
                   city : Cities \cup {"none"}]
  BY FeasibleCitiesType DEF RowInv, FinalizeRanks, Completed, Outcomes, SearchStatus
<1>2. evaluation' \in [Cities -> Feasibility] /\ rankings' \in SUBSET Cities
  BY EvaluateType, FeasibleCitiesType DEF RowInv, FinalizeRanks
<1>3. QED
  BY <1>1, <1>2, FinalizationStepExec, FinalizationKeepsRowInv DEF RowInv, FinalizeRanks

\* The decision to expand keeps the next wave as a natural number.
LEMMA FinalizeExpandsKeepsRowInv ==
  ASSUME NEW s \in Slots, RowInv, FinalizeExpands(s)
  PROVE  RowInv'
<1>1. PICK n \in Nat : exec' = [exec EXCEPT ![s] = [@ EXCEPT !.at = "expand", !.wave = n + 1]]
  BY DEF RowInv, TypeOK, FinalizeExpands, Active, OrdinalOf
<1>2. exec' \in [Slots -> Execution]
  <2>1. exec \in [Slots -> Execution]
    BY DEF RowInv, TypeOK
  <2>2. exec[s] \in Execution /\ n + 1 \in Nat /\ "expand" \in Phases
    BY <2>1 DEF Phases
  <2>3. [exec[s] EXCEPT !.at = "expand", !.wave = n + 1] \in Execution
    BY <2>2 DEF Execution
  <2>4. QED BY <1>1, <2>1, <2>3
<1>3. \A t \in Slots : exec'[t] = exec[t] \/ (exec'[t].event = exec[t].event
                                               /\ exec[t].event \in Events
                                               /\ exec'[t].at \in {"return", "expand"})
  <2>1. exec \in [Slots -> Execution] /\ exec[s].event \in Events
    BY DEF RowInv, TypeOK, ExecOK, FinalizeExpands, InFinalization, At
  <2>2. QED BY <1>1, <2>1 DEF Execution
<1>4. evaluation' \in [Cities -> Feasibility]
  BY EvaluateType DEF RowInv, FinalizeExpands
<1>5. QED
  BY <1>2, <1>3, <1>4, FinalizationKeepsRowInv DEF RowInv, TypeOK, FinalizeExpands

-----------------------------------------------------------------------------
(* The invariant, and the theorems it proves.                               *)

\* Every step of a handler keeps the invariant.
LEMMA HandlerKeepsRowInv ==
  ASSUME NEW s \in Slots, RowInv, Handler(s)
  PROVE  RowInv'
<1>1. CASE Kickoff(s)              BY <1>1, KickoffKeepsRowInv
<1>2. CASE ClaimGeneration(s)      BY <1>2, ClaimGenerationKeepsRowInv
<1>3. CASE ReadCatalog(s)          BY <1>3, ReadCatalogKeepsRowInv
<1>4. CASE RejectGeneration(s)     BY <1>4, RejectGenerationKeepsRowInv
<1>5. CASE PersistCandidates(s)    BY <1>5, PersistCandidatesKeepsRowInv
<1>6. CASE ClaimWork(s)            BY <1>6, ClaimWorkKeepsRowInv
<1>7. CASE CheckJourneys(s)        BY <1>7, CheckJourneysKeepsRowInv
<1>8. CASE Reclaim(s)              BY <1>8, ReclaimKeepsRowInv
<1>9. CASE CountWork(s)            BY <1>9, CountWorkKeepsRowInv
<1>10. ASSUME NEW found \in BOOLEAN, CompletePlan(s, found) PROVE RowInv'
  BY <1>10, CompletePlanKeepsRowInv
<1>11. CASE RetryPlan(s)
  BY <1>11, ThrowKeepsRowInv DEF RetryPlan, RowInv, TypeOK, worldVars
<1>12. CASE ExhaustPlan(s)         BY <1>12, ExhaustPlanKeepsRowInv
<1>13. CASE RefusePlan(s)          BY <1>13, RefusePlanKeepsRowInv
<1>14. CASE FinalizeTooEarlyOrLate(s) BY <1>14, FinalizeTooEarlyOrLateKeepsRowInv
<1>15. CASE FinalizeFails(s)       BY <1>15, FinalizeFailsKeepsRowInv
<1>16. CASE FinalizeNoCandidates(s) BY <1>16, FinalizeNoCandidatesKeepsRowInv
<1>17. CASE FinalizeExpands(s)     BY <1>17, FinalizeExpandsKeepsRowInv
<1>18. CASE FinalizeNoFeasible(s)  BY <1>18, FinalizeNoFeasibleKeepsRowInv
<1>19. CASE FinalizeRanks(s)       BY <1>19, FinalizeRanksKeepsRowInv
<1>20. CASE ExpandWave(s)          BY <1>20, ExpandWaveKeepsRowInv
<1>21. CASE Settle(s)              BY <1>21, SettleKeepsRowInv
<1>22. QED
  BY <1>1, <1>2, <1>3, <1>4, <1>5, <1>6, <1>7, <1>8, <1>9, <1>10, <1>11, <1>12, <1>13, <1>14,
    <1>15, <1>16, <1>17, <1>18, <1>19, <1>20, <1>21 DEF Handler

\* RowInv is inductive.
LEMMA NextKeepsRowInv == RowInv /\ [Next]_vars => RowInv'
<1> SUFFICES ASSUME RowInv, [Next]_vars PROVE RowInv'
  OBVIOUS
<1>1. ASSUME NEW s \in Slots, Handler(s) PROVE RowInv'
  BY <1>1, HandlerKeepsRowInv
<1>2. ASSUME NEW s \in Slots, DatabaseUnavailable(s) PROVE RowInv'
  BY <1>2, ThrowKeepsRowInv, SpendType DEF DatabaseUnavailable, RowInv, FaultKinds
<1>3. ASSUME NEW s \in Slots, Crash(s) PROVE RowInv'
  BY <1>3, CrashKeepsRowInv
<1>4. ASSUME NEW s \in Slots, NEW e \in Events, Deliver(s, e) PROVE RowInv'
  BY <1>4, DeliverKeepsRowInv
<1>5. ASSUME NEW e \in Events, RecoverStalled(e) PROVE RowInv'
  BY <1>5, RequeueKeepsRowInv DEF RecoverStalled, RowInv, TypeOK
<1>6. ASSUME NEW e \in Events, LoseLock(e) PROVE RowInv'
  BY <1>6, RequeueKeepsRowInv, SpendType DEF LoseLock, RowInv, FaultKinds
<1>7. ASSUME NEW e \in Events, PublishAgain(e) PROVE RowInv'
  BY <1>7, PublishAgainKeepsRowInv
<1>8. CASE ImportCatalog
  BY <1>8, ImportCatalogKeepsRowInv
<1>9. CASE UNCHANGED vars
  BY <1>9 DEF vars, RowInv, TypeOK, ExecOK, SucceededHasJourneys, Routing
<1>10. QED
  BY <1>1, <1>2, <1>3, <1>4, <1>5, <1>6, <1>7, <1>8, <1>9 DEF Next

\* RowInv holds of every behaviour.
LEMMA RowInvHolds == Spec => []RowInv
BY InitRowInv, NextKeepsRowInv, PTL DEF Spec

\* The rows, jobs and executions keep their types, under every fault.
THEOREM TypeCorrect == Spec => []TypeOK
<1>1. RowInv => TypeOK
  BY DEF RowInv
<1>2. QED BY <1>1, RowInvHolds, PTL

\* Routing work that says "succeeded" always has journeys, for any number of
\* participants, cities and handlers, and whatever is lost, redelivered or
\* executed twice.
THEOREM SucceededWorkHasJourneys == Spec => []SucceededHasJourneys
<1>1. RowInv => SucceededHasJourneys
  BY DEF RowInv
<1>2. QED BY <1>1, RowInvHolds, PTL

-----------------------------------------------------------------------------
(* Routing work settles.                                                    *)

WorkSettles == \A k \in Work : work[k] \in TerminalRouting => work'[k] = work[k]

\* Every update of a routing row asks for an open row.
LEMMA HandlerSettlesWork ==
  ASSUME NEW s \in Slots, RowInv, Handler(s)
  PROVE  WorkSettles
<1> USE DEF WorkSettles
<1>1. work \in [Work -> RoutingStatus]
  BY DEF RowInv, TypeOK
<1>2. CASE PersistCandidates(s)
  BY <1>2, FanOutRows DEF PersistCandidates, RowInv, TerminalRouting
<1>3. CASE ExpandWave(s)
  BY <1>3, FanOutRows DEF ExpandWave, RowInv, TerminalRouting
<1>4. CASE ClaimWork(s)
  BY <1>1, <1>4 DEF ClaimWork, TerminalRouting
<1>5. CASE Reclaim(s)
  BY <1>1, <1>5 DEF Reclaim, CompleteWork, IsOpen, OpenStatus, TerminalRouting
<1>6. CASE CountWork(s)
  BY <1>1, <1>6 DEF CountWork, ExhaustWork, IsOpen, OpenStatus, TerminalRouting
<1>7. ASSUME NEW found \in BOOLEAN, CompletePlan(s, found) PROVE WorkSettles
  BY <1>1, <1>7 DEF CompletePlan, CompleteWork, IsOpen, OpenStatus, TerminalRouting
<1>8. CASE ExhaustPlan(s) \/ RefusePlan(s)
  BY <1>1, <1>8 DEF ExhaustPlan, RefusePlan, ExhaustWork, IsOpen, OpenStatus, TerminalRouting
<1>9. CASE UNCHANGED work
  BY <1>9
<1>10. Handler(s) => \/ PersistCandidates(s) \/ ExpandWave(s) \/ ClaimWork(s) \/ Reclaim(s)
                     \/ CountWork(s) \/ (\E found \in BOOLEAN : CompletePlan(s, found))
                     \/ ExhaustPlan(s) \/ RefusePlan(s) \/ UNCHANGED work
  BY DEF Handler, Kickoff, ClaimGeneration, ReadCatalog, RejectGeneration, CheckJourneys,
    RetryPlan, Throw, FinalizeTooEarlyOrLate, FinalizeFails, FinalizeNoCandidates,
    FinalizeExpands, FinalizeNoFeasible, FinalizeRanks, FinalizationStep, Settle, rowVars
<1>11. QED
  BY <1>2, <1>3, <1>4, <1>5, <1>6, <1>7, <1>8, <1>9, <1>10

\* No step outside the handlers writes routing rows.
LEMMA NextSettlesWork == RowInv /\ [Next]_vars => WorkSettles
<1> SUFFICES ASSUME RowInv, [Next]_vars PROVE WorkSettles
  OBVIOUS
<1>1. ASSUME NEW s \in Slots, Handler(s) PROVE WorkSettles
  BY <1>1, HandlerSettlesWork
<1>2. CASE UNCHANGED work
  BY <1>2 DEF WorkSettles
<1>3. Next => (\E s \in Slots : Handler(s)) \/ UNCHANGED work
  BY DEF Next, DatabaseUnavailable, Throw, Crash, Deliver, RecoverStalled, LoseLock, Requeue,
    PublishAgain, ImportCatalog, rowVars
<1>4. UNCHANGED vars => UNCHANGED work
  BY DEF vars
<1>5. QED BY <1>1, <1>2, <1>3, <1>4

\* A terminal routing work row never changes again: not by a duplicate
\* delivery, a reclaim, a late answer or another wave.
THEOREM TerminalWorkSettles == Spec => RoutingWorkSettles
<1>1. RowInv /\ [Next]_vars => [WorkSettles]_work
  BY NextSettlesWork
<1>2. QED
  BY <1>1, RowInvHolds, PTL DEF Spec, RoutingWorkSettles, WorkSettles

-----------------------------------------------------------------------------
(* The pipeline implements SearchLifecycle.                                 *)

\* Until a search ends it has no result, and no ranking rows.
ReaderInv ==
  search.status \in {"queued", "running"} =>
    search.result = "none" /\ search.city = "none" /\ rankings = {}

LifecycleInv == RowInv /\ ReaderInv

\* A queued search maps to the initial state of the lifecycle.
LEMMA InitLifecycle == Init => LifecycleInv /\ Lifecycle!Init
<1>1. Init => ReaderInv /\ Lifecycle!Init
  BY DEF Init, ReaderInv, QueuedSearch, Lifecycle!Init
<1>2. QED BY <1>1, InitRowInv DEF LifecycleInv

\* A handler's step is a lifecycle step or invisible to readers.
LEMMA HandlerImplementsLifecycle ==
  ASSUME NEW s \in Slots, LifecycleInv, Handler(s)
  PROVE  ReaderInv' /\ [Lifecycle!Next]_(Lifecycle!readerVars)
<1>1. CASE UNCHANGED <<search, rankings>>
  BY <1>1 DEF LifecycleInv, ReaderInv, Lifecycle!readerVars
<1>2. CASE Kickoff(s)
  <2>1. CASE UNCHANGED <<search, rankings>>
    BY <2>1, <1>1
  <2>2. CASE MayKickoff /\ search' = RunningSearch /\ rankings' = rankings
    BY <2>2 DEF LifecycleInv, ReaderInv, MayKickoff, RunningSearch,
      Lifecycle!Next, Lifecycle!Start
  <2>3. QED BY <1>2, <2>1, <2>2 DEF Kickoff
<1>3. CASE FinalizeFails(s)
  <2>1. PICK code \in FailureCodes : search' = Failed(code)
    BY <1>3 DEF FinalizeFails, FailureReasons
  <2>2. search.status = "running" /\ rankings' = rankings
    BY <1>3 DEF FinalizeFails, FailureReasons, WaveReady, Judging
  <2>3. Lifecycle!Fail /\ ReaderInv'
    BY <2>1, <2>2 DEF LifecycleInv, ReaderInv, Failed, Lifecycle!Fail
  <2>4. QED BY <2>3 DEF Lifecycle!Next
<1>4. CASE FinalizeNoCandidates(s)
  <2>1. Lifecycle!CompleteEmpty /\ ReaderInv'
    BY <1>4 DEF LifecycleInv, ReaderInv, FinalizeNoCandidates, Judging, Completed, Outcomes,
      Lifecycle!CompleteEmpty
  <2>2. QED BY <2>1 DEF Lifecycle!Next
<1>5. CASE FinalizeNoFeasible(s)
  <2>1. Lifecycle!CompleteEmpty /\ ReaderInv'
    BY <1>5 DEF LifecycleInv, ReaderInv, FinalizeNoFeasible, Evaluable, WaveReady, Judging,
      Completed, Outcomes, Lifecycle!CompleteEmpty
  <2>2. QED BY <2>1 DEF Lifecycle!Next
<1>6. CASE FinalizeRanks(s)
  <2>1. Lifecycle!Rank /\ ReaderInv'
    BY <1>6, FeasibleCitiesType DEF LifecycleInv, RowInv, ReaderInv, FinalizeRanks, Evaluable,
      WaveReady, Judging, Completed, Lifecycle!Rank
  <2>2. QED BY <2>1 DEF Lifecycle!Next
<1>7. Handler(s) => \/ Kickoff(s) \/ FinalizeFails(s) \/ FinalizeNoCandidates(s)
                    \/ FinalizeNoFeasible(s) \/ FinalizeRanks(s)
                    \/ UNCHANGED <<search, rankings>>
  BY DEF Handler, ClaimGeneration, ReadCatalog, RejectGeneration, PersistCandidates, ClaimWork,
    CheckJourneys, Reclaim, CountWork, CompletePlan, RetryPlan, ExhaustPlan, RefusePlan,
    RoutingStep, Throw, FinalizeTooEarlyOrLate, FinalizeExpands, ExpandWave, Settle, searchVars
<1>8. QED BY <1>1, <1>2, <1>3, <1>4, <1>5, <1>6, <1>7

\* So is every step; the queue and the faults are invisible.
LEMMA NextImplementsLifecycle ==
  LifecycleInv /\ [Next]_vars => LifecycleInv' /\ [Lifecycle!Next]_(Lifecycle!readerVars)
<1> SUFFICES ASSUME LifecycleInv, [Next]_vars
             PROVE  LifecycleInv' /\ [Lifecycle!Next]_(Lifecycle!readerVars)
  OBVIOUS
<1>1. RowInv'
  BY NextKeepsRowInv DEF LifecycleInv
<1>2. ASSUME NEW s \in Slots, Handler(s)
      PROVE  ReaderInv' /\ [Lifecycle!Next]_(Lifecycle!readerVars)
  BY <1>2, HandlerImplementsLifecycle
<1>3. CASE UNCHANGED <<search, rankings>>
  BY <1>1, <1>3 DEF LifecycleInv, ReaderInv, Lifecycle!readerVars
<1>4. Next => (\E s \in Slots : Handler(s)) \/ UNCHANGED <<search, rankings>>
  BY DEF Next, DatabaseUnavailable, Throw, Crash, Deliver, RecoverStalled, LoseLock, Requeue,
    PublishAgain, ImportCatalog, searchVars
<1>5. UNCHANGED vars => UNCHANGED <<search, rankings>>
  BY DEF vars
<1>6. QED BY <1>1, <1>2, <1>3, <1>4, <1>5 DEF LifecycleInv

\* The pipeline implements the lifecycle its readers rely on: a search starts
\* once, ends once, and its results appear with its status and never change.
THEOREM PipelineImplementsLifecycle == Spec => ImplementsLifecycle
BY InitLifecycle, NextImplementsLifecycle, PTL DEF Spec, ImplementsLifecycle, Lifecycle!Spec

-----------------------------------------------------------------------------
(* Evaluations and rankings.                                                *)

\* What was evaluated is routed to the end, so that it can be evaluated once
\* and for all.
EvaluatedIsRouted ==
  \A c \in Cities : evaluation[c] # "none" =>
    /\ evaluation[c] = CityFeasibility(c)
    /\ \A p \in Participants : work[<<p, c>>] \in TerminalRouting

VerdictInv == LifecycleInv /\ EvaluatedIsRouted /\ RankedIsBacked

\* Evaluations are written by a finalization that found every row terminal.
LEMMA EvaluationWriters ==
  ASSUME [Next]_vars
  PROVE  \/ evaluation' = evaluation
         \/ Evaluable /\ Evaluate /\ work' = work
<1>1. ASSUME NEW s \in Slots, Handler(s)
      PROVE  evaluation' = evaluation \/ (Evaluable /\ Evaluate /\ work' = work)
  BY <1>1 DEF Handler, Kickoff, ClaimGeneration, ReadCatalog, RejectGeneration,
    PersistCandidates, ClaimWork, CheckJourneys, Reclaim, CountWork, CompletePlan, RetryPlan,
    ExhaustPlan, RefusePlan, RoutingStep, Throw, FinalizeTooEarlyOrLate, FinalizeFails,
    FinalizeNoCandidates, FinalizeExpands, FinalizeNoFeasible, FinalizeRanks, FinalizationStep,
    ExpandWave, Settle, searchVars, rowVars
<1>2. Next => (\E s \in Slots : Handler(s)) \/ evaluation' = evaluation
  BY DEF Next, DatabaseUnavailable, Throw, Crash, Deliver, RecoverStalled, LoseLock, Requeue,
    PublishAgain, ImportCatalog, searchVars
<1>3. QED BY <1>1, <1>2 DEF vars

\* A city of an evaluable wave is routed to the end for every participant.
LEMMA EvaluableIsRouted ==
  ASSUME TypeOK, Evaluable, NEW c \in ActiveCities, NEW p \in Participants
  PROVE  <<p, c>> \in Work /\ work[<<p, c>>] \in {"succeeded", "no_journeys"}
<1>1. c \in Cities
  BY DEF TypeOK, ActiveCities, Active, CityOf
<1>2. <<p, c>> \in WorkRows
  BY <1>1 DEF Evaluable, PairsMissing, WorkRows, Work
<1>3. QED
  BY <1>2 DEF Evaluable, WaveReady, WaveTerminal, Exhausted, TerminalRouting, WorkRows

\* Terminal rows settle, so an evaluation stays what the rows say.
LEMMA NextKeepsEvaluated ==
  ASSUME RowInv, EvaluatedIsRouted, [Next]_vars
  PROVE  EvaluatedIsRouted'
<1>1. WorkSettles
  BY NextSettlesWork
<1>2. CASE evaluation' = evaluation
  <2>1. ASSUME NEW c \in Cities, evaluation[c] # "none"
        PROVE  \A p \in Participants : work[<<p, c>>] \in TerminalRouting
                                       /\ work'[<<p, c>>] = work[<<p, c>>]
    BY <1>1, <2>1 DEF EvaluatedIsRouted, WorkSettles, Work
  <2>2. QED BY <1>2, <2>1 DEF EvaluatedIsRouted, CityFeasibility
<1>3. CASE Evaluable /\ Evaluate /\ work' = work
  <2>1. \A c \in Cities : evaluation'[c] # "none" =>
          \/ evaluation[c] # "none" /\ evaluation'[c] = evaluation[c]
          \/ c \in ActiveCities /\ evaluation'[c] = CityFeasibility(c)
    BY <1>3 DEF Evaluate
  <2>2. \A c \in ActiveCities : \A p \in Participants : work[<<p, c>>] \in TerminalRouting
    BY <1>3, EvaluableIsRouted DEF RowInv, TerminalRouting
  <2>3. \A c \in Cities : CityFeasibility(c)' = CityFeasibility(c)
    BY <1>3 DEF CityFeasibility
  <2>4. QED BY <1>3, <2>1, <2>2, <2>3 DEF EvaluatedIsRouted
<1>4. QED BY <1>2, <1>3, EvaluationWriters

\* A result is written by a finalization of a running search; a kickoff and a
\* finalization are the only writers of the search row and its rankings.
LEMMA ResultWriters ==
  ASSUME [Next]_vars
  PROVE  \/ UNCHANGED <<search, rankings>>
         \/ search' = RunningSearch
         \/ \E s \in Slots : \/ FinalizeFails(s) \/ FinalizeNoCandidates(s)
                             \/ FinalizeNoFeasible(s) \/ FinalizeRanks(s)
<1>1. ASSUME NEW s \in Slots, Handler(s)
      PROVE  \/ UNCHANGED <<search, rankings>>
             \/ search' = RunningSearch
             \/ FinalizeFails(s) \/ FinalizeNoCandidates(s)
             \/ FinalizeNoFeasible(s) \/ FinalizeRanks(s)
  BY <1>1 DEF Handler, Kickoff, ClaimGeneration, ReadCatalog, RejectGeneration,
    PersistCandidates, ClaimWork, CheckJourneys, Reclaim, CountWork, CompletePlan, RetryPlan,
    ExhaustPlan, RefusePlan, RoutingStep, Throw, FinalizeTooEarlyOrLate, FinalizeExpands,
    ExpandWave, Settle, searchVars
<1>2. Next => (\E s \in Slots : Handler(s)) \/ UNCHANGED <<search, rankings>>
  BY DEF Next, DatabaseUnavailable, Throw, Crash, Deliver, RecoverStalled, LoseLock, Requeue,
    PublishAgain, ImportCatalog, searchVars
<1>3. QED BY <1>1, <1>2 DEF vars

\* A feasible city is one every participant reaches, on rows with journeys.
LEMMA FeasibleIsBacked ==
  ASSUME RowInv, NEW c \in FeasibleCities, NEW p \in Participants
  PROVE  work[<<p, c>>] = "succeeded" /\ <<p, c>> \in journeys
<1>1. c \in Cities
  BY FeasibleCitiesType DEF RowInv
<1>2. work[<<p, c>>] = "succeeded"
  BY DEF FeasibleCities, CityFeasibility
<1>3. QED BY <1>1, <1>2 DEF RowInv, SucceededHasJourneys, Work

\* Journeys are never removed.
LEMMA JourneysStay ==
  ASSUME [Next]_vars
  PROVE  journeys \subseteq journeys'
<1>1. ASSUME NEW s \in Slots, Handler(s)
      PROVE  journeys \subseteq journeys'
  BY <1>1 DEF Handler, Kickoff, ClaimGeneration, ReadCatalog, RejectGeneration,
    PersistCandidates, ClaimWork, CheckJourneys, Reclaim, CountWork, CompletePlan, CompleteWork,
    ExhaustWork, RetryPlan, ExhaustPlan, RefusePlan, Throw, FinalizeTooEarlyOrLate,
    FinalizeFails, FinalizeNoCandidates, FinalizeExpands, FinalizeNoFeasible, FinalizeRanks,
    FinalizationStep, ExpandWave, Settle, rowVars
<1>2. Next => (\E s \in Slots : Handler(s)) \/ journeys' = journeys
  BY DEF Next, DatabaseUnavailable, Throw, Crash, Deliver, RecoverStalled, LoseLock, Requeue,
    PublishAgain, ImportCatalog, rowVars
<1>3. QED BY <1>1, <1>2 DEF vars

\* The rows a ranking was made from stay as they were.
LEMMA NextKeepsRanked ==
  ASSUME LifecycleInv, RankedIsBacked, [Next]_vars
  PROVE  RankedIsBacked'
<1>1. WorkSettles /\ journeys \subseteq journeys'
  BY NextSettlesWork, JourneysStay DEF LifecycleInv
<1>2. CASE UNCHANGED <<search, rankings>>
  <2>1. ASSUME search.result = "ranked", NEW p \in Participants, NEW c \in rankings
        PROVE  work'[<<p, c>>] = "succeeded" /\ <<p, c>> \in journeys'
    <3>1. work[<<p, c>>] = "succeeded" /\ <<p, c>> \in journeys
      BY <2>1 DEF RankedIsBacked
    <3>2. <<p, c>> \in Work
      BY <3>1 DEF LifecycleInv, RowInv, TypeOK
    <3>3. QED BY <1>1, <3>1, <3>2 DEF WorkSettles, TerminalRouting
  <2>2. QED BY <1>2, <2>1 DEF RankedIsBacked
<1>3. CASE search' = RunningSearch
  BY <1>3 DEF RankedIsBacked, RunningSearch
<1>4. ASSUME NEW s \in Slots,
             FinalizeFails(s) \/ FinalizeNoCandidates(s) \/ FinalizeNoFeasible(s)
      PROVE  RankedIsBacked'
  BY <1>4 DEF FinalizeFails, FailureReasons, FailureCodes, Failed, FinalizeNoCandidates,
    FinalizeNoFeasible, Completed, RankedIsBacked
<1>5. ASSUME NEW s \in Slots, FinalizeRanks(s) PROVE RankedIsBacked'
  <2>1. PICK c \in FeasibleCities : search' = Completed("ranked", c)
    BY <1>5 DEF FinalizeRanks
  <2>2. rankings' = FeasibleCities /\ work' = work /\ journeys' = journeys
    BY <1>5 DEF FinalizeRanks, FinalizationStep, rowVars
  <2>3. QED
    BY <2>1, <2>2, FeasibleIsBacked DEF LifecycleInv, RankedIsBacked, Completed
<1>6. QED BY <1>2, <1>3, <1>4, <1>5, ResultWriters

\* VerdictInv holds of every behaviour.
LEMMA VerdictInvHolds == Spec => []VerdictInv
<1>1. Init => EvaluatedIsRouted /\ RankedIsBacked
  BY DEF Init, EvaluatedIsRouted, RankedIsBacked, QueuedSearch
<1>2. Init => VerdictInv
  BY <1>1, InitLifecycle DEF VerdictInv
<1>3. VerdictInv /\ [Next]_vars => VerdictInv'
  BY NextImplementsLifecycle, NextKeepsEvaluated, NextKeepsRanked
    DEF VerdictInv, LifecycleInv
<1>4. QED BY <1>2, <1>3, PTL DEF Spec

\* A ranked search recommends one of its ranked cities, and every participant
\* reaches each of them on rows that have journeys, under every fault.
THEOREM RankedSearchIsBacked == Spec => []RankedIsBacked
<1>1. VerdictInv => RankedIsBacked
  BY DEF VerdictInv
<1>2. QED BY <1>1, VerdictInvHolds, PTL

\* An evaluation agrees with the routing work for ever, however many waves,
\* duplicates and late answers follow the one it was made in.
THEOREM StoredEvaluationsStayTrue == Spec => []EvaluationsStayTrue
<1>1. VerdictInv => EvaluationsStayTrue
  BY DEF VerdictInv, EvaluatedIsRouted, EvaluationsStayTrue
<1>2. QED BY <1>1, VerdictInvHolds, PTL

-----------------------------------------------------------------------------
(* While workers keep the locks of their jobs, one slot executes a job.     *)

\* No worker loses a lock that it still uses.  Without it a row can say
\* "no_journeys" and have journeys, which a run shows.
LocksAreKept == Budget["lockLost"] = 0

ExclusiveInv ==
  /\ budget["lockLost"] = 0
  /\ \A s \in Slots : ~At(s, "idle") => HoldsLock(s)

\* What a handler does to the queue before it ends: it stays with its job, and
\* schedules others.
Proceeds(s) ==
  /\ exec[s].at # "idle" /\ exec'[s].at # "idle"
  /\ exec'[s].event = exec[s].event
  /\ \A t \in Slots \ {s} : exec'[t] = exec[t]
  /\ \A e \in Events : \/ jobState'[e] = jobState[e]
                       \/ jobState[e] = "none" /\ jobState'[e] = "waiting"
  /\ UNCHANGED <<owner, attempts, stalls, budget>>

\* A change of phase stays with the job.
LEMMA GotoProceeds ==
  ASSUME TypeOK, NEW s \in Slots, NEW phase, Goto(s, phase),
         exec[s].at # "idle", phase # "idle",
         jobState' = jobState \/ (\E E : Enqueue(E)),
         UNCHANGED <<jobVars, budget>>
  PROVE  Proceeds(s)
<1>1. \A e \in Events : \/ jobState'[e] = jobState[e]
                        \/ jobState[e] = "none" /\ jobState'[e] = "waiting"
  BY DEF TypeOK, Enqueue
<1>2. /\ exec'[s].at = phase /\ exec'[s].event = exec[s].event
      /\ \A t \in Slots \ {s} : exec'[t] = exec[t]
  BY DEF TypeOK, Goto, Execution
<1>3. QED BY <1>1, <1>2 DEF Proceeds, jobVars

\* Every step of a handler but the last ones proceeds.
LEMMA HandlerProceeds ==
  ASSUME TypeOK, NEW s \in Slots, Handler(s)
  PROVE  Settle(s) \/ RetryPlan(s) \/ Proceeds(s)
<1> USE GotoProceeds DEF At, worldVars
<1>1. CASE Kickoff(s)           BY <1>1 DEF Kickoff
<1>2. CASE ClaimGeneration(s)   BY <1>2 DEF ClaimGeneration
<1>3. CASE ReadCatalog(s)
  <2>1. /\ exec[s].at = "claimed" /\ UNCHANGED <<jobState, jobVars, worldVars>>
        /\ exec' = [exec EXCEPT ![s] = [exec[s] EXCEPT !.answer = catalog,
                      !.at = IF catalog = NotReady THEN "reject" ELSE "persist"]]
    BY <1>3 DEF ReadCatalog
  <2>2. exec \in [Slots -> Execution]
    BY DEF TypeOK
  <2>3. QED BY <2>1, <2>2 DEF Proceeds, Execution, jobVars
<1>4. CASE RejectGeneration(s)  BY <1>4 DEF RejectGeneration
<1>5. CASE PersistCandidates(s) BY <1>5 DEF PersistCandidates, FanOut
<1>6. CASE ClaimWork(s)         BY <1>6 DEF ClaimWork
<1>7. CASE CheckJourneys(s)     BY <1>7 DEF CheckJourneys
<1>8. CASE Reclaim(s)           BY <1>8 DEF Reclaim, CompleteWork, RoutingStep
<1>9. CASE CountWork(s)         BY <1>9 DEF CountWork, ExhaustWork, RoutingStep
<1>10. ASSUME NEW found \in BOOLEAN, CompletePlan(s, found) PROVE Proceeds(s)
  BY <1>10 DEF CompletePlan, CompleteWork, RoutingStep
<1>11. CASE ExhaustPlan(s)      BY <1>11 DEF ExhaustPlan, ExhaustWork, RoutingStep
<1>12. CASE RefusePlan(s)       BY <1>12 DEF RefusePlan, ExhaustWork, RoutingStep
<1>13. CASE FinalizeTooEarlyOrLate(s)
  BY <1>13 DEF FinalizeTooEarlyOrLate, InFinalization, FinalizationStep
<1>14. CASE FinalizeFails(s)    BY <1>14 DEF FinalizeFails, InFinalization, FinalizationStep
<1>15. CASE FinalizeNoCandidates(s)
  BY <1>15 DEF FinalizeNoCandidates, InFinalization, FinalizationStep
<1>16. CASE FinalizeExpands(s)
  <2>1. PICK n \in Nat : exec' = [exec EXCEPT ![s] = [exec[s] EXCEPT !.at = "expand", !.wave = n + 1]]
    BY <1>16 DEF TypeOK, FinalizeExpands, Active, OrdinalOf
  <2>2. exec[s].at = "start" /\ UNCHANGED <<jobState, jobVars, worldVars>>
    BY <1>16 DEF FinalizeExpands, InFinalization
  <2>3. exec \in [Slots -> Execution]
    BY DEF TypeOK
  <2>4. QED BY <2>1, <2>2, <2>3 DEF Proceeds, Execution, jobVars
<1>17. CASE FinalizeNoFeasible(s)
  BY <1>17 DEF FinalizeNoFeasible, InFinalization, FinalizationStep
<1>18. CASE FinalizeRanks(s)    BY <1>18 DEF FinalizeRanks, InFinalization, FinalizationStep
<1>19. CASE ExpandWave(s)       BY <1>19 DEF ExpandWave, FanOut
<1>20. QED
  BY <1>1, <1>2, <1>3, <1>4, <1>5, <1>6, <1>7, <1>8, <1>9, <1>10, <1>11, <1>12, <1>13, <1>14,
    <1>15, <1>16, <1>17, <1>18, <1>19 DEF Handler

\* Two slots that hold the lock of one job are one slot.
LEMMA OneSlotPerJob ==
  ASSUME ExclusiveInv, NEW s \in Slots, NEW t \in Slots, exec[s].at # "idle",
         exec[t].at # "idle", exec[s].event = exec[t].event
  PROVE  s = t
BY DEF ExclusiveInv, At, HoldsLock

\* A handler that ends closes its own job only.
LEMMA EndKeepsExclusive ==
  ASSUME TypeOK, ExecOK, ExclusiveInv, NEW s \in Slots, Settle(s) \/ Throw(s),
         budget'["lockLost"] = 0
  PROVE  ExclusiveInv'
<1>1. exec' = [exec EXCEPT ![s] = Idle]
  BY DEF Settle, Throw
<1>2. \A e \in Events : \/ jobState'[e] = jobState[e] /\ owner'[e] = owner[e]
                        \/ e = exec[s].event /\ owner[e] = s
  BY DEF TypeOK, Settle, Throw, Close, HoldsLock
<1>3. ASSUME NEW t \in Slots, ~At(t, "idle")' PROVE HoldsLock(t)'
  <2>1. t # s /\ exec'[t] = exec[t]
    BY <1>1, <1>3 DEF TypeOK, At, Idle
  <2>2. exec[t].at # "idle" /\ exec[t].event \in Events /\ HoldsLock(t)
    BY <1>3, <2>1 DEF ExclusiveInv, ExecOK, At
  <2>3. QED BY <1>2, <2>1, <2>2 DEF HoldsLock
<1>4. QED BY <1>3 DEF ExclusiveInv

\* Redelivery waits until nobody executes a job, so exclusion is kept.
LEMMA NextKeepsExclusive ==
  ASSUME RowInv, ExclusiveInv, [Next]_vars
  PROVE  ExclusiveInv'
<1> USE DEF RowInv
<1>1. ASSUME NEW s \in Slots, Proceeds(s) PROVE ExclusiveInv'
  <2>1. ASSUME NEW t \in Slots, exec'[t].at # "idle"
        PROVE  exec[t].at # "idle" /\ exec'[t].event = exec[t].event /\ exec[t].event \in Events
    BY <1>1, <2>1 DEF Proceeds, ExecOK
  <2>2. QED BY <1>1, <2>1 DEF Proceeds, ExclusiveInv, At, HoldsLock
<1>2. ASSUME NEW s \in Slots, Handler(s) PROVE ExclusiveInv'
  BY <1>1, <1>2, HandlerProceeds, EndKeepsExclusive
    DEF Settle, RetryPlan, worldVars, ExclusiveInv
<1>3. ASSUME NEW s \in Slots, DatabaseUnavailable(s) PROVE ExclusiveInv'
  BY <1>3, EndKeepsExclusive DEF DatabaseUnavailable, Spend, ExclusiveInv, TypeOK
<1>4. ASSUME NEW s \in Slots, Crash(s) PROVE ExclusiveInv'
  BY <1>4 DEF Crash, Spend, ExclusiveInv, TypeOK, At, HoldsLock, Idle, jobVars
<1>5. ASSUME NEW s \in Slots, NEW e \in Events, Deliver(s, e) PROVE ExclusiveInv'
  <2>1. exec' = [exec EXCEPT ![s] = [Idle EXCEPT !.at = "start", !.event = e,
                                                  !.attempt = attempts[e]]]
    BY <1>5 DEF Deliver
  <2>2. exec'[s].event = e /\ \A t \in Slots \ {s} : exec'[t] = exec[t]
    BY <2>1 DEF TypeOK, Idle
  <2>3. /\ jobState[e] = "waiting" /\ budget' = budget
        /\ jobState' = [jobState EXCEPT ![e] = "active"]
        /\ owner' = [owner EXCEPT ![e] = s]
    BY <1>5 DEF Deliver, worldVars
  <2>4. HoldsLock(s)'
    BY <2>2, <2>3 DEF TypeOK, HoldsLock
  <2>5. ASSUME NEW t \in Slots \ {s}, exec[t].at # "idle" PROVE HoldsLock(t)'
    <3>1. exec[t].event \in Events /\ jobState[exec[t].event] = "active" /\ owner[exec[t].event] = t
      BY <2>5 DEF ExclusiveInv, ExecOK, At, HoldsLock
    <3>2. QED BY <2>2, <2>3, <3>1 DEF TypeOK, HoldsLock
  <2>6. QED BY <2>2, <2>3, <2>4, <2>5 DEF ExclusiveInv, At
<1>6. ASSUME NEW e \in Events, RecoverStalled(e) PROVE ExclusiveInv'
  <2>1. ASSUME NEW t \in Slots, exec[t].at # "idle"
        PROVE  exec[t].event \in Events /\ exec[t].event # e /\ HoldsLock(t)
    BY <1>6, <2>1 DEF RecoverStalled, ExclusiveInv, ExecOK, At, HoldsLock, IsHandling
  <2>2. QED
    BY <1>6, <2>1 DEF RecoverStalled, Requeue, Close, TypeOK, ExclusiveInv, At, HoldsLock
<1>7. ASSUME NEW e \in Events, LoseLock(e) PROVE FALSE
  BY <1>7 DEF LoseLock, Spend, ExclusiveInv
<1>8. ASSUME NEW e \in Events, PublishAgain(e) PROVE ExclusiveInv'
  <2>1. ASSUME NEW t \in Slots, exec[t].at # "idle"
        PROVE  exec[t].event \in Events /\ exec[t].event # e /\ HoldsLock(t)
    BY <1>8, <2>1 DEF PublishAgain, ExclusiveInv, ExecOK, At, HoldsLock
  <2>2. QED
    BY <1>8, <2>1 DEF PublishAgain, Spend, TypeOK, ExclusiveInv, At, HoldsLock
<1>9. CASE ImportCatalog
  BY <1>9 DEF ImportCatalog, Spend, TypeOK, ExclusiveInv, At, HoldsLock, jobVars
<1>10. CASE UNCHANGED vars
  BY <1>10 DEF vars, ExclusiveInv, At, HoldsLock
<1>11. QED
  BY <1>2, <1>3, <1>4, <1>5, <1>6, <1>7, <1>8, <1>9, <1>10 DEF Next

-----------------------------------------------------------------------------
(* The routing rows a slot works on are its own.                            *)

RoutingPhases == {"check", "reclaim", "count", "plan"}

\* Journeys belong to succeeded rows, and a row that is being routed is running.
OwnWork ==
  /\ \A k \in journeys : work[k] = "succeeded"
  /\ \A s \in Slots : exec[s].at \in RoutingPhases => work[Routing(s)] = "running"

\* Two slots that route one row execute one job, so they are one slot.
LEMMA OneSlotPerRow ==
  ASSUME RowInv, ExclusiveInv, NEW s \in Slots, NEW t \in Slots,
         exec[s].at # "idle", exec[s].event \in RoutingEvents,
         exec[t].at \in RoutingPhases, Routing(t) = Routing(s)
  PROVE  s = t
<1>1. exec[t].event \in RoutingEvents /\ exec[t].at # "idle"
  BY DEF RowInv, ExecOK, RoutingPhases
<1>2. exec[t].event = exec[s].event
  BY <1>1 DEF RoutingEvents, Routing
<1>3. QED BY <1>1, <1>2, OneSlotPerJob

\* Steps that leave the rows alone and start no routing keep the rows owned.
LEMMA IdleKeepsOwnWork ==
  ASSUME OwnWork, UNCHANGED <<work, journeys>>,
         \A t \in Slots : exec'[t] = exec[t] \/ exec'[t].at \notin RoutingPhases
  PROVE  OwnWork'
BY DEF OwnWork, Routing

\* A fan-out leaves the rows with journeys, and those being routed, alone.
LEMMA FanOutKeepsOwnWork ==
  ASSUME RowInv, OwnWork, journeys' = journeys,
         \A k \in Work : work'[k] = work[k] \/ (work[k] = "absent" /\ work'[k] = "pending"),
         \A t \in Slots : exec'[t] = exec[t] \/ exec'[t].at \notin RoutingPhases
  PROVE  OwnWork'
<1>1. \A k \in journeys : k \in Work
  BY DEF RowInv, TypeOK
<1>2. \A t \in Slots : exec[t].at \in RoutingPhases => Routing(t) \in Work
  BY RoutingType DEF RowInv, ExecOK, RoutingPhases
<1>3. QED BY <1>1, <1>2 DEF OwnWork, Routing

\* A slot that ends its row ends a running one, and nobody else's.
LEMMA EndKeepsOwnWork ==
  ASSUME RowInv, ExclusiveInv, OwnWork, NEW s \in Slots, exec[s].at \in RoutingPhases,
         NEW status \in TerminalRouting, work' = [work EXCEPT ![Routing(s)] = status],
         journeys' = journeys \/ (journeys' = journeys \cup {Routing(s)} /\ status = "succeeded"),
         \A t \in Slots \ {s} : exec'[t] = exec[t], exec'[s].at \notin RoutingPhases
  PROVE  OwnWork'
<1>1. exec[s].event \in RoutingEvents /\ exec[s].at # "idle"
  BY DEF RowInv, ExecOK, RoutingPhases
<1>2. Routing(s) \in Work /\ work \in [Work -> RoutingStatus] /\ journeys \subseteq Work
  BY <1>1, RoutingType DEF RowInv, TypeOK
<1>3. \A k \in journeys' : work'[k] = "succeeded"
  BY <1>2 DEF OwnWork
<1>4. ASSUME NEW t \in Slots, exec'[t].at \in RoutingPhases
      PROVE  work'[exec'[t].event.work] = "running"
  <2>1. exec'[t] = exec[t] /\ t # s
    BY <1>4
  <2>2. exec[t].at \in RoutingPhases /\ work[Routing(t)] = "running"
    BY <1>4, <2>1 DEF OwnWork
  <2>3. Routing(t) # Routing(s)
    BY <1>1, <2>1, <2>2, OneSlotPerRow
  <2>4. QED BY <1>2, <2>1, <2>2, <2>3 DEF Routing
<1>5. QED BY <1>3, <1>4 DEF OwnWork, Routing

\* An open row is completed, given up or left by its slot.
LEMMA RunningIsOpen ==
  ASSUME OwnWork, NEW s \in Slots, exec[s].at \in RoutingPhases
  PROVE  IsOpen(Routing(s))
BY DEF OwnWork, IsOpen, OpenStatus

\* A claimed row is running, whoever else routes other rows.
LEMMA ClaimWorkKeepsOwnWork ==
  ASSUME RowInv, ExclusiveInv, OwnWork, NEW s \in Slots, ClaimWork(s)
  PROVE  OwnWork'
<1>1. exec[s].event \in RoutingEvents /\ exec[s].at # "idle"
  BY DEF ClaimWork, At
<1>2. /\ exec \in [Slots -> Execution] /\ Routing(s) \in Work
      /\ work \in [Work -> RoutingStatus] /\ journeys \subseteq Work
  BY <1>1, RoutingType DEF RowInv, TypeOK
<1>3. /\ \A t \in Slots \ {s} : exec'[t] = exec[t]
      /\ exec'[s].event = exec[s].event
      /\ exec'[s].at \in RoutingPhases => work[Routing(s)] \in {"pending", "running"}
  BY <1>2 DEF ClaimWork, Goto, Execution, RoutingPhases
<1>4. /\ journeys' = journeys
      /\ work' = IF work[Routing(s)] = "pending"
                 THEN [work EXCEPT ![Routing(s)] = "running"] ELSE work
  BY DEF ClaimWork
<1>5. \A k \in journeys' : work'[k] = "succeeded"
  BY <1>2, <1>4 DEF OwnWork
<1>6. ASSUME NEW t \in Slots, exec'[t].at \in RoutingPhases
      PROVE  work'[exec'[t].event.work] = "running"
  <2>1. CASE t = s
    BY <1>2, <1>3, <1>4, <1>6, <2>1 DEF Routing
  <2>2. CASE t # s
    <3>1. exec'[t] = exec[t] /\ work[Routing(t)] = "running"
      BY <1>3, <1>6, <2>2 DEF OwnWork
    <3>2. Routing(t) # Routing(s)
      BY <1>1, <1>6, <2>2, <3>1, OneSlotPerRow
    <3>3. QED BY <1>2, <1>4, <3>1, <3>2 DEF Routing
  <2>3. QED BY <2>1, <2>2
<1>7. QED BY <1>5, <1>6 DEF OwnWork, Routing

\* The phases of a routing handler, from its claim to its last transaction.
LEMMA RoutingKeepsOwnWork ==
  ASSUME RowInv, ExclusiveInv, OwnWork, NEW s \in Slots,
         \/ CheckJourneys(s) \/ Reclaim(s) \/ CountWork(s) \/ ExhaustPlan(s) \/ RefusePlan(s)
         \/ \E found \in BOOLEAN : CompletePlan(s, found)
  PROVE  OwnWork'
<1>1. exec \in [Slots -> Execution]
  BY DEF RowInv, TypeOK
<1>2. \A phase : Goto(s, phase) => /\ \A t \in Slots \ {s} : exec'[t] = exec[t]
                                   /\ exec'[s].at = phase /\ exec'[s].event = exec[s].event
  BY <1>1 DEF Goto, Execution
<1>3. exec[s].at \in RoutingPhases
  BY DEF CheckJourneys, Reclaim, CountWork, ExhaustPlan, RefusePlan, CompletePlan, At, RoutingPhases
<1>4. IsOpen(Routing(s))
  BY <1>3, RunningIsOpen
<1>5. CASE UNCHANGED <<work, journeys>> /\ \E phase : Goto(s, phase)
  BY <1>2, <1>3, <1>5 DEF OwnWork, Routing
<1>6. ASSUME NEW phase \in {"return", "unrecoverable"}, Goto(s, phase),
             ExhaustWork(Routing(s))
      PROVE  OwnWork'
  BY <1>2, <1>3, <1>4, <1>6, EndKeepsOwnWork DEF ExhaustWork, RoutingPhases, TerminalRouting
<1>7. ASSUME NEW found \in BOOLEAN, NEW status \in {"succeeded", "no_journeys"},
             found => status = "succeeded", Goto(s, "return"),
             CompleteWork(Routing(s), status, found)
      PROVE  OwnWork'
  <2>1. work' = [work EXCEPT ![Routing(s)] = status]
    BY <1>4, <1>7 DEF CompleteWork
  <2>2. journeys' = journeys \/ (journeys' = journeys \cup {Routing(s)} /\ status = "succeeded")
    BY <1>7 DEF CompleteWork
  <2>3. /\ \A t \in Slots \ {s} : exec'[t] = exec[t]
        /\ exec'[s].at \notin RoutingPhases /\ status \in TerminalRouting
    BY <1>2, <1>7 DEF RoutingPhases, TerminalRouting
  <2>4. QED BY <1>3, <2>1, <2>2, <2>3, EndKeepsOwnWork
<1>8. CASE CheckJourneys(s)
  BY <1>5, <1>8 DEF CheckJourneys, rowVars
<1>9. CASE Reclaim(s)
  BY <1>7, <1>9 DEF Reclaim, RoutingStep
<1>10. CASE CountWork(s)
  BY <1>5, <1>6, <1>10 DEF CountWork, RoutingStep
<1>11. CASE ExhaustPlan(s) \/ RefusePlan(s)
  BY <1>6, <1>11 DEF ExhaustPlan, RefusePlan, RoutingStep
<1>12. ASSUME NEW found \in BOOLEAN, CompletePlan(s, found) PROVE OwnWork'
  BY <1>7, <1>12 DEF CompletePlan, RoutingStep
<1>13. QED BY <1>8, <1>9, <1>10, <1>11, <1>12

\* Every step keeps the rows owned.
LEMMA NextKeepsOwnWork ==
  ASSUME RowInv, ExclusiveInv, OwnWork, [Next]_vars
  PROVE  OwnWork'
<1>1. exec \in [Slots -> Execution]
  BY DEF RowInv, TypeOK
<1>2. \A s \in Slots : \A phase : Goto(s, phase) /\ phase \notin RoutingPhases =>
        \A t \in Slots : exec'[t] = exec[t] \/ exec'[t].at \notin RoutingPhases
  BY <1>1 DEF Goto, Execution
<1>3. ASSUME NEW s \in Slots, exec' = [exec EXCEPT ![s] = Idle], UNCHANGED <<work, journeys>>
      PROVE  OwnWork'
  BY <1>1, <1>3, IdleKeepsOwnWork DEF Idle, RoutingPhases
<1>4. ASSUME NEW s \in Slots, NEW phase, phase \notin RoutingPhases, Goto(s, phase),
             UNCHANGED <<work, journeys>>
      PROVE  OwnWork'
  BY <1>2, <1>4, IdleKeepsOwnWork
<1>5. ASSUME NEW s \in Slots, PersistCandidates(s) \/ ExpandWave(s) PROVE OwnWork'
  <2>1. \A k \in Work : work'[k] = work[k] \/ (work[k] = "absent" /\ work'[k] = "pending")
    BY <1>5, FanOutRows DEF PersistCandidates, ExpandWave, RowInv
  <2>2. QED
    BY <1>2, <1>5, <2>1, FanOutKeepsOwnWork DEF PersistCandidates, ExpandWave, RoutingPhases
<1>6. ASSUME NEW s \in Slots, ReadCatalog(s) \/ FinalizeExpands(s) PROVE OwnWork'
  <2>1. UNCHANGED <<work, journeys>>
    BY <1>6 DEF ReadCatalog, FinalizeExpands, rowVars
  <2>2. \A t \in Slots : exec'[t] = exec[t] \/ exec'[t].at \notin RoutingPhases
    <3>1. CASE ReadCatalog(s)
      BY <1>1, <3>1 DEF ReadCatalog, Execution, RoutingPhases
    <3>2. CASE FinalizeExpands(s)
      BY <1>1, <3>2 DEF FinalizeExpands, Execution, RoutingPhases
    <3>3. QED BY <1>6, <3>1, <3>2
  <2>3. QED BY <2>1, <2>2, IdleKeepsOwnWork
<1>7. ASSUME NEW s \in Slots, Handler(s) PROVE OwnWork'
  <2>1. CASE Settle(s) \/ RetryPlan(s)
    BY <1>3, <2>1 DEF Settle, RetryPlan, Throw, rowVars
  <2>2. CASE Kickoff(s) \/ ClaimGeneration(s) \/ RejectGeneration(s)
    BY <1>4, <2>2 DEF Kickoff, ClaimGeneration, RejectGeneration, RoutingPhases
  <2>3. CASE \/ FinalizeTooEarlyOrLate(s) \/ FinalizeFails(s) \/ FinalizeNoCandidates(s)
             \/ FinalizeNoFeasible(s) \/ FinalizeRanks(s)
    BY <1>4, <2>3 DEF FinalizeTooEarlyOrLate, FinalizeFails, FinalizeNoCandidates,
      FinalizeNoFeasible, FinalizeRanks, FinalizationStep, rowVars, RoutingPhases
  <2>4. QED
    BY <1>5, <1>6, <1>7, <2>1, <2>2, <2>3, ClaimWorkKeepsOwnWork, RoutingKeepsOwnWork DEF Handler
<1>8. ASSUME NEW s \in Slots, DatabaseUnavailable(s) \/ Crash(s) PROVE OwnWork'
  BY <1>3, <1>8 DEF DatabaseUnavailable, Throw, Crash, rowVars
<1>9. ASSUME NEW s \in Slots, NEW e \in Events, Deliver(s, e) PROVE OwnWork'
  <2>1. \A t \in Slots : exec'[t] = exec[t] \/ exec'[t].at \notin RoutingPhases
    BY <1>1, <1>9 DEF Deliver, Idle, RoutingPhases
  <2>2. QED BY <1>9, <2>1, IdleKeepsOwnWork DEF Deliver, rowVars
<1>10. CASE UNCHANGED <<work, journeys, exec>>
  BY <1>10, IdleKeepsOwnWork
<1>11. Next => \/ \E s \in Slots : Handler(s) \/ DatabaseUnavailable(s) \/ Crash(s)
               \/ \E s \in Slots, e \in Events : Deliver(s, e)
               \/ UNCHANGED <<work, journeys, exec>>
  BY DEF Next, RecoverStalled, LoseLock, Requeue, PublishAgain, ImportCatalog, rowVars
<1>12. QED BY <1>7, <1>8, <1>9, <1>10, <1>11 DEF vars

-----------------------------------------------------------------------------
(* The routing rows of a candidate are created together.                    *)

\* The pairs of a city exist for all participants or for none, and only for a
\* city that is a candidate.
PairsWhole ==
  \A p, q \in Participants, c \in Cities :
    work[<<p, c>>] = "absent" => work[<<q, c>>] = "absent"
RowsHaveCandidates ==
  \A k \in Work : work[k] # "absent" => \E row \in candidates : CityOf(row) = k[2]

RowsInv == PairsWhole /\ RowsHaveCandidates

\* Only a fan-out creates rows; every other step leaves a row absent or there.
LEMMA RowCreators ==
  ASSUME RowInv, [Next]_vars
  PROVE  \/ \A k \in Work : work'[k] = "absent" <=> work[k] = "absent"
         \/ \E s \in Slots : PersistCandidates(s) \/ ExpandWave(s)
<1>1. \A s \in Slots : exec[s].at \in RoutingPhases \/ exec[s].event \in RoutingEvents
                         => Routing(s) \in Work
  BY RoutingType DEF RowInv, ExecOK, RoutingPhases
<1>2. work \in [Work -> RoutingStatus]
  BY DEF RowInv, TypeOK
<1>3. ASSUME NEW s \in Slots,
             \/ Reclaim(s) \/ CountWork(s) \/ ExhaustPlan(s) \/ RefusePlan(s)
             \/ \E found \in BOOLEAN : CompletePlan(s, found)
      PROVE  \A k \in Work : work'[k] = "absent" <=> work[k] = "absent"
  <2>1. Routing(s) \in Work
    BY <1>1, <1>3 DEF Reclaim, CountWork, ExhaustPlan, RefusePlan, CompletePlan, At, RoutingPhases
  <2>2. \/ work' = work
        \/ \E status \in TerminalRouting :
             IsOpen(Routing(s)) /\ work' = [work EXCEPT ![Routing(s)] = status]
    BY <1>3 DEF Reclaim, CountWork, ExhaustPlan, RefusePlan, CompletePlan, CompleteWork,
      ExhaustWork, TerminalRouting
  <2>3. QED BY <1>2, <2>1, <2>2 DEF IsOpen, OpenStatus, TerminalRouting
<1>4. ASSUME NEW s \in Slots, ClaimWork(s)
      PROVE  \A k \in Work : work'[k] = "absent" <=> work[k] = "absent"
  BY <1>1, <1>2, <1>4 DEF ClaimWork
<1>5. ASSUME NEW s \in Slots, Handler(s)
      PROVE  \/ work' = work \/ PersistCandidates(s) \/ ExpandWave(s) \/ ClaimWork(s)
             \/ Reclaim(s) \/ CountWork(s) \/ ExhaustPlan(s) \/ RefusePlan(s)
             \/ \E found \in BOOLEAN : CompletePlan(s, found)
  BY <1>5 DEF Handler, Kickoff, ClaimGeneration, ReadCatalog, RejectGeneration, CheckJourneys,
    RetryPlan, Throw, FinalizeTooEarlyOrLate, FinalizeFails, FinalizeNoCandidates,
    FinalizeExpands, FinalizeNoFeasible, FinalizeRanks, FinalizationStep, Settle, rowVars
<1>6. Next => (\E s \in Slots : Handler(s)) \/ work' = work
  BY DEF Next, DatabaseUnavailable, Throw, Crash, Deliver, RecoverStalled, LoseLock, Requeue,
    PublishAgain, ImportCatalog, rowVars
<1>7. QED BY <1>3, <1>4, <1>5, <1>6 DEF vars

\* A fan-out is over cities of the rows it is given.
LEMMA FanOutCitiesOfRows ==
  ASSUME NEW rows, NEW n, NEW c \in FanOutCities(rows, n)
  PROVE  \E row \in rows : CityOf(row) = c
BY DEF FanOutCities

\* Only a generation writes candidates.
LEMMA CandidateWriters ==
  ASSUME [Next]_vars
  PROVE  candidates' = candidates \/ \E s \in Slots : PersistCandidates(s)
<1>1. ASSUME NEW s \in Slots, Handler(s)
      PROVE  candidates' = candidates \/ PersistCandidates(s)
  BY <1>1 DEF Handler, Kickoff, ClaimGeneration, ReadCatalog, RejectGeneration, ClaimWork,
    CheckJourneys, Reclaim, CountWork, CompletePlan, RetryPlan, ExhaustPlan, RefusePlan,
    RoutingStep, Throw, FinalizeTooEarlyOrLate, FinalizeFails, FinalizeNoCandidates,
    FinalizeExpands, FinalizeNoFeasible, FinalizeRanks, FinalizationStep, ExpandWave, Settle,
    rowVars
<1>2. Next => (\E s \in Slots : Handler(s)) \/ candidates' = candidates
  BY DEF Next, DatabaseUnavailable, Throw, Crash, Deliver, RecoverStalled, LoseLock, Requeue,
    PublishAgain, ImportCatalog, rowVars
<1>3. QED BY <1>1, <1>2 DEF vars

\* Candidates are never removed.
LEMMA CandidatesStay ==
  ASSUME [Next]_vars
  PROVE  candidates \subseteq candidates'
BY CandidateWriters DEF PersistCandidates, WithCandidates

\* Both fan-outs are over candidates, and create whole cities.
LEMMA NextKeepsRows ==
  ASSUME RowInv, RowsInv, [Next]_vars
  PROVE  RowsInv'
<1>1. CASE \A k \in Work : work'[k] = "absent" <=> work[k] = "absent"
  <2>1. PairsWhole'
    BY <1>1 DEF RowsInv, PairsWhole, Work
  <2>2. RowsHaveCandidates'
    BY <1>1, CandidatesStay DEF RowsInv, RowsHaveCandidates
  <2>3. QED BY <2>1, <2>2 DEF RowsInv
<1>2. ASSUME NEW s \in Slots, PersistCandidates(s) \/ ExpandWave(s) PROVE RowsInv'
  <2>1. PICK rows, n, also : FanOut(rows, n, also) /\ rows \subseteq candidates'
    BY <1>2 DEF PersistCandidates, ExpandWave
  <2>2. work' = [k \in Work |-> IF k[2] \in FanOutCities(rows, n) /\ work[k] = "absent"
                                 THEN "pending" ELSE work[k]]
    BY <2>1 DEF FanOut
  <2>3. PairsWhole'
    <3>1. SUFFICES ASSUME NEW p \in Participants, NEW q \in Participants, NEW c \in Cities,
                          work'[<<p, c>>] = "absent"
                   PROVE  work'[<<q, c>>] = "absent"
      BY DEF PairsWhole
    <3>2. <<p, c>> \in Work /\ <<q, c>> \in Work /\ <<p, c>>[2] = c /\ <<q, c>>[2] = c
      BY DEF Work
    <3>3. c \notin FanOutCities(rows, n) /\ work[<<p, c>>] = "absent"
      BY <2>2, <3>1, <3>2
    <3>4. work[<<q, c>>] = "absent"
      BY <3>3 DEF RowsInv, PairsWhole
    <3>5. QED BY <2>2, <3>2, <3>3, <3>4
  <2>4. RowsHaveCandidates'
    <3>1. SUFFICES ASSUME NEW k \in Work, work'[k] # "absent"
                   PROVE  \E row \in candidates' : CityOf(row) = k[2]
      BY DEF RowsHaveCandidates
    <3>2. CASE work[k] # "absent"
      BY <3>2, CandidatesStay DEF RowsInv, RowsHaveCandidates
    <3>3. CASE k[2] \in FanOutCities(rows, n)
      BY <2>1, <3>3, FanOutCitiesOfRows
    <3>4. QED BY <2>2, <3>1, <3>2, <3>3
  <2>5. QED BY <2>3, <2>4 DEF RowsInv
<1>3. QED BY <1>1, <1>2, RowCreators

-----------------------------------------------------------------------------
(* The candidate generation of a search is one slot's at a time.            *)

GenerationPhases == {"claimed", "reject", "persist"}

\* Candidates come with success, and a slot generates after its claim.
GenerationInv ==
  /\ search.status = "queued" => generation = "absent"
  /\ generation # "succeeded" => candidates = {}
  /\ \A s \in Slots : exec[s].at \in GenerationPhases =>
       exec[s].event = CandidatesEvent /\ generation \notin {"absent", "pending"}

\* A slot that generates does so before the generation has a verdict.
OwnGeneration ==
  \A s \in Slots : exec[s].at \in GenerationPhases => generation = "running"

GenerationStep(s) ==
  \/ Kickoff(s) \/ ClaimGeneration(s) \/ ReadCatalog(s)
  \/ RejectGeneration(s) \/ PersistCandidates(s)

\* Nothing else writes the generation, or starts to generate.
LEMMA GenerationWriters ==
  ASSUME RowInv, [Next]_vars
  PROVE  \/ \E s \in Slots : GenerationStep(s)
         \/ /\ UNCHANGED <<generation, candidates>>
            /\ search' = search \/ search'.status # "queued"
            /\ \A t \in Slots : exec'[t] = exec[t] \/ exec'[t].at \notin GenerationPhases
<1> DEFINE Elsewhere == /\ UNCHANGED <<generation, candidates>>
                        /\ search' = search \/ search'.status # "queued"
                        /\ \A t \in Slots : exec'[t] = exec[t] \/ exec'[t].at \notin GenerationPhases
<1>1. exec \in [Slots -> Execution]
  BY DEF RowInv, TypeOK
<1>2. \A s \in Slots : \A phase : Goto(s, phase) /\ phase \notin GenerationPhases =>
        \A t \in Slots : exec'[t] = exec[t] \/ exec'[t].at \notin GenerationPhases
  BY <1>1 DEF Goto, Execution
<1>3. \A s \in Slots : exec' = [exec EXCEPT ![s] = Idle] =>
        \A t \in Slots : exec'[t] = exec[t] \/ exec'[t].at \notin GenerationPhases
  BY <1>1 DEF Idle, GenerationPhases
<1>4. ASSUME NEW s \in Slots, Handler(s), ~GenerationStep(s) PROVE Elsewhere
  <2>1. CASE Settle(s) \/ RetryPlan(s)
    BY <1>3, <2>1 DEF Settle, RetryPlan, Throw, searchVars, rowVars
  <2>2. CASE FinalizeExpands(s)
    <3>1. \A t \in Slots : exec'[t] = exec[t] \/ exec'[t].at \notin GenerationPhases
      BY <1>1, <2>2 DEF FinalizeExpands, Execution, GenerationPhases
    <3>2. QED BY <2>2, <3>1 DEF FinalizeExpands, rowVars
  <2>3. CASE \/ FinalizeTooEarlyOrLate(s) \/ FinalizeFails(s) \/ FinalizeNoCandidates(s)
             \/ FinalizeNoFeasible(s) \/ FinalizeRanks(s)
    BY <1>2, <2>3 DEF FinalizeTooEarlyOrLate, FinalizeFails, Failed, FinalizeNoCandidates,
      FinalizeNoFeasible, FinalizeRanks, Completed, FinalizationStep, searchVars, rowVars,
      GenerationPhases
  <2>4. CASE ClaimWork(s) \/ CheckJourneys(s) \/ Reclaim(s) \/ CountWork(s) \/ ExhaustPlan(s)
             \/ RefusePlan(s) \/ ExpandWave(s) \/ \E found \in BOOLEAN : CompletePlan(s, found)
    BY <1>2, <2>4 DEF ClaimWork, CheckJourneys, Reclaim, CountWork, ExhaustPlan, RefusePlan,
      CompletePlan, RoutingStep, ExpandWave, searchVars, rowVars, GenerationPhases
  <2>5. QED BY <1>4, <2>1, <2>2, <2>3, <2>4 DEF Handler, GenerationStep
<1>5. ASSUME NEW s \in Slots, DatabaseUnavailable(s) \/ Crash(s) PROVE Elsewhere
  BY <1>3, <1>5 DEF DatabaseUnavailable, Throw, Crash, searchVars, rowVars
<1>6. ASSUME NEW s \in Slots, NEW e \in Events, Deliver(s, e) PROVE Elsewhere
  <2>1. \A t \in Slots : exec'[t] = exec[t] \/ exec'[t].at \notin GenerationPhases
    BY <1>1, <1>6 DEF Deliver, Idle, GenerationPhases
  <2>2. QED BY <1>6, <2>1 DEF Deliver, searchVars, rowVars
<1>7. Next => \/ \E s \in Slots : Handler(s) \/ DatabaseUnavailable(s) \/ Crash(s)
              \/ \E s \in Slots, e \in Events : Deliver(s, e)
              \/ UNCHANGED <<search, generation, candidates, exec>>
  BY DEF Next, RecoverStalled, LoseLock, Requeue, PublishAgain, ImportCatalog, searchVars, rowVars
<1>8. QED BY <1>4, <1>5, <1>6, <1>7 DEF vars

\* A step of the generation moves its own slot only.
LEMMA GenerationStepExec ==
  ASSUME RowInv, NEW s \in Slots, GenerationStep(s)
  PROVE  /\ \A t \in Slots \ {s} : exec'[t] = exec[t]
         /\ exec'[s].event = exec[s].event
         /\ exec'[s].at \in GenerationPhases =>
              \/ ClaimGeneration(s) /\ generation \in OpenStatus
              \/ ReadCatalog(s) /\ exec[s].at \in GenerationPhases
<1>1. exec \in [Slots -> Execution]
  BY DEF RowInv, TypeOK
<1>2. CASE ReadCatalog(s)
  BY <1>1, <1>2 DEF ReadCatalog, At, Execution, GenerationPhases
<1>3. CASE ClaimGeneration(s)
  BY <1>1, <1>3 DEF ClaimGeneration, Goto, Execution, GenerationPhases
<1>4. CASE Kickoff(s) \/ RejectGeneration(s) \/ PersistCandidates(s)
  BY <1>1, <1>4 DEF Kickoff, RejectGeneration, PersistCandidates, Goto, Execution, GenerationPhases
<1>5. QED BY <1>2, <1>3, <1>4 DEF GenerationStep

\* The generation leaves "absent" with the kickoff and gets its verdict from a claimer.
LEMMA NextKeepsGeneration ==
  ASSUME RowInv, GenerationInv, [Next]_vars
  PROVE  GenerationInv'
<1>1. CASE /\ UNCHANGED <<generation, candidates>>
           /\ search' = search \/ search'.status # "queued"
           /\ \A t \in Slots : exec'[t] = exec[t] \/ exec'[t].at \notin GenerationPhases
  BY <1>1 DEF GenerationInv
<1>2. ASSUME NEW s \in Slots, GenerationStep(s) PROVE GenerationInv'
  <2>1. \A t \in Slots \ {s} : exec'[t] = exec[t]
    BY <1>2, GenerationStepExec
  <2>2. exec'[s].at \in GenerationPhases =>
          exec'[s].event = CandidatesEvent /\ generation' \notin {"absent", "pending"}
    BY <1>2, GenerationStepExec DEF GenerationInv, ClaimGeneration, ReadCatalog, rowVars, OpenStatus
  <2>3. CASE Kickoff(s)
    <3>1. CASE MayKickoff /\ search' = RunningSearch /\ generation' = "pending"
      BY <2>1, <2>2, <2>3, <3>1 DEF GenerationInv, Kickoff, MayKickoff, RunningSearch
    <3>2. CASE UNCHANGED <<search, generation>>
      BY <2>1, <2>2, <2>3, <3>2 DEF GenerationInv, Kickoff
    <3>3. QED BY <2>3, <3>1, <3>2 DEF Kickoff
  <2>4. CASE ClaimGeneration(s)
    BY <2>1, <2>2, <2>4 DEF GenerationInv, ClaimGeneration, searchVars
  <2>5. CASE ReadCatalog(s)
    BY <2>1, <2>2, <2>5 DEF GenerationInv, ReadCatalog, searchVars, rowVars
  <2>6. CASE RejectGeneration(s)
    BY <2>1, <2>2, <2>6 DEF GenerationInv, RejectGeneration, OpenStatus, searchVars, At, GenerationPhases
  <2>7. CASE PersistCandidates(s)
    BY <2>1, <2>2, <2>7 DEF GenerationInv, PersistCandidates, searchVars, At, GenerationPhases
  <2>8. QED BY <1>2, <2>3, <2>4, <2>5, <2>6, <2>7 DEF GenerationStep
<1>3. QED BY <1>1, <1>2, GenerationWriters

\* With one slot per job nobody else generates when the verdict is written.
LEMMA NextKeepsOwnGeneration ==
  ASSUME RowInv, GenerationInv, ExclusiveInv, OwnGeneration, [Next]_vars
  PROVE  /\ OwnGeneration'
         /\ generation \in {"succeeded", "failed_permanent"} => UNCHANGED <<generation, candidates>>
<1>1. CASE /\ UNCHANGED <<generation, candidates>>
           /\ \A t \in Slots : exec'[t] = exec[t] \/ exec'[t].at \notin GenerationPhases
  BY <1>1 DEF OwnGeneration
<1>2. ASSUME NEW s \in Slots, GenerationStep(s)
      PROVE  /\ OwnGeneration'
             /\ generation \in {"succeeded", "failed_permanent"} => UNCHANGED <<generation, candidates>>
  <2>1. \A t \in Slots \ {s} : exec'[t] = exec[t]
    BY <1>2, GenerationStepExec
  <2>2. exec'[s].at \in GenerationPhases =>
              \/ ClaimGeneration(s) /\ generation \in OpenStatus
              \/ ReadCatalog(s) /\ exec[s].at \in GenerationPhases
    BY <1>2, GenerationStepExec
  <2>3. CASE Kickoff(s)
    <3>1. CASE MayKickoff /\ generation' = "pending"
      BY <2>1, <2>2, <2>3, <3>1 DEF OwnGeneration, GenerationInv, Kickoff, ClaimGeneration,
        ReadCatalog, KickoffEvent, CandidatesEvent, At, MayKickoff, GenerationPhases
    <3>2. CASE UNCHANGED generation
      BY <2>1, <2>2, <2>3, <3>2 DEF OwnGeneration, Kickoff, ClaimGeneration,
        ReadCatalog, KickoffEvent, CandidatesEvent, At, GenerationPhases
    <3>3. QED BY <2>3, <3>1, <3>2 DEF Kickoff
  <2>4. CASE ClaimGeneration(s)
    BY <2>1, <2>2, <2>4 DEF OwnGeneration, ClaimGeneration, OpenStatus, At, GenerationPhases
  <2>5. CASE ReadCatalog(s)
    BY <2>1, <2>2, <2>5 DEF OwnGeneration, ReadCatalog, rowVars, At, GenerationPhases
  <2>6. CASE RejectGeneration(s) \/ PersistCandidates(s)
    <3>1. exec[s].at \in GenerationPhases /\ exec[s].at \notin {"idle", "start", "claimed"}
      BY <2>6 DEF RejectGeneration, PersistCandidates, At, GenerationPhases
    <3>2. generation = "running"
      BY <3>1 DEF OwnGeneration
    <3>3. \A t \in Slots : exec[t].at \in GenerationPhases => t = s
      BY <3>1, OneSlotPerJob DEF GenerationInv, GenerationPhases
    <3>4. exec'[s].at \notin GenerationPhases
      BY <2>2, <3>1 DEF ClaimGeneration, ReadCatalog, At
    <3>5. QED BY <2>1, <3>2, <3>3, <3>4 DEF OwnGeneration
  <2>7. QED BY <1>2, <2>3, <2>4, <2>5, <2>6 DEF GenerationStep
<1>3. QED BY <1>1, <1>2, GenerationWriters

-----------------------------------------------------------------------------
(* What holds while workers keep their locks.                               *)

ExclusiveWork == ExclusiveInv /\ OwnWork /\ OwnGeneration
KeptInv == LifecycleInv /\ RowsInv /\ GenerationInv /\ ExclusiveWork /\ NoInvariantViolation

\* The consistency checks of a finalization reject nothing.
LEMMA ChecksPass ==
  ASSUME KeptInv, NEW s \in Slots, FinalizeFails(s)
  PROVE  NoInvariantViolation'
<1>1. PICK code \in FailureReasons : search' = Failed(code)
  BY DEF FinalizeFails
<1>2. ~(Judging /\ candidates = {} /\ WorkRows # {})
  BY DEF KeptInv, RowsInv, RowsHaveCandidates, WorkRows
<1>3. ~PairsMissing
  <2>1. ASSUME NEW p \in Participants, NEW c \in ActiveCities PROVE work[<<p, c>>] # "absent"
    <3>1. PICK q \in Participants : work[<<q, c>>] # "absent"
      BY DEF ActiveCities, Active
    <3>2. c \in Cities
      BY DEF ActiveCities, Active, CityOf, KeptInv, LifecycleInv, RowInv, TypeOK
    <3>3. QED BY <3>1, <3>2 DEF KeptInv, RowsInv, PairsWhole
  <2>2. QED BY <2>1 DEF PairsMissing
<1>4. ~Contradictory
  <2>1. \A k \in WorkRows : k \in Work
    BY DEF WorkRows
  <2>2. QED
    BY <2>1 DEF Contradictory, KeptInv, LifecycleInv, RowInv, SucceededHasJourneys,
      ExclusiveWork, OwnWork
<1>5. code # "INVARIANT_VIOLATION"
  BY <1>2, <1>3, <1>4 DEF FailureReasons
<1>6. QED BY <1>1, <1>5 DEF NoInvariantViolation, Failed

\* So no search is reported as inconsistent.
LEMMA NextKeepsVerdict ==
  ASSUME KeptInv, [Next]_vars
  PROVE  NoInvariantViolation'
<1>1. CASE UNCHANGED <<search, rankings>> \/ search' = RunningSearch
  BY <1>1 DEF KeptInv, NoInvariantViolation, RunningSearch
<1>2. ASSUME NEW s \in Slots, FinalizeNoCandidates(s) \/ FinalizeNoFeasible(s) \/ FinalizeRanks(s)
      PROVE  NoInvariantViolation'
  BY <1>2 DEF FinalizeNoCandidates, FinalizeNoFeasible, FinalizeRanks, Completed,
    NoInvariantViolation
<1>3. QED BY <1>1, <1>2, ChecksPass, ResultWriters

\* The invariant of behaviours that lose no lock.
LEMMA KeptInvHolds ==
  ASSUME LocksAreKept
  PROVE  Spec => []KeptInv
<1>1. Init => KeptInv
  <2>1. Init => LifecycleInv
    BY InitLifecycle
  <2>2. Init => RowsInv /\ GenerationInv /\ ExclusiveWork /\ NoInvariantViolation
    BY LocksAreKept DEF Init, RowsInv, PairsWhole, RowsHaveCandidates, Work, GenerationInv,
      QueuedSearch, ExclusiveWork, ExclusiveInv, OwnWork, OwnGeneration, At, Idle,
      RoutingPhases, GenerationPhases, LocksAreKept, NoInvariantViolation
  <2>3. QED BY <2>1, <2>2 DEF KeptInv
<1>2. KeptInv /\ [Next]_vars => KeptInv'
  BY NextImplementsLifecycle, NextKeepsRows, NextKeepsGeneration, NextKeepsExclusive,
    NextKeepsOwnWork, NextKeepsOwnGeneration, NextKeepsVerdict
    DEF KeptInv, LifecycleInv, ExclusiveWork
<1>3. QED BY <1>1, <1>2, PTL DEF Spec

\* A row that says "no_journeys" has none, as long as no worker loses a lock it
\* still uses: redeliveries after a crash or a database error do no harm.
THEOREM NoJourneysRowsHaveNone ==
  ASSUME LocksAreKept
  PROVE  Spec => []NoJourneysHasNone
<1>1. KeptInv => NoJourneysHasNone
  BY DEF KeptInv, ExclusiveWork, OwnWork, NoJourneysHasNone
<1>2. QED BY <1>1, KeptInvHolds, PTL

\* Under the same assumption the consistency checks of the finalization never
\* fail, for any number of participants, cities and slots.
THEOREM ConsistencyChecksPass ==
  ASSUME LocksAreKept
  PROVE  Spec => []NoInvariantViolation
<1>1. KeptInv => NoInvariantViolation
  BY DEF KeptInv
<1>2. QED BY <1>1, KeptInvHolds, PTL

\* And a candidate generation keeps its verdict and its candidates, whatever
\* the catalogue answers between two deliveries.
THEOREM GenerationKeepsItsVerdict ==
  ASSUME LocksAreKept
  PROVE  Spec => GenerationSettles
<1>1. KeptInv /\ [Next]_vars =>
        [(generation \in {"succeeded", "failed_permanent"}) =>
           UNCHANGED <<generation, candidates>> ]_<<generation, candidates>>
  BY NextKeepsOwnGeneration DEF KeptInv, LifecycleInv, ExclusiveWork
<1>2. QED BY <1>1, KeptInvHolds, PTL DEF Spec, GenerationSettles
=============================================================================
