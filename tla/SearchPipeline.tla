---------------------------- MODULE SearchPipeline ----------------------------
(***************************************************************************)
(* One meeting search on its way through the worker: kickoff, candidate     *)
(* generation, routing work in waves, finalization.                         *)
(*                                                                          *)
(* The database rows of the search are variables, and one database          *)
(* transaction is one step.  The steps of a job handler are separate        *)
(* actions, so that other handlers run between them.  An outbox event and   *)
(* the BullMQ job it becomes are one entry of jobState: the dispatcher      *)
(* between them (module OutboxDispatch) delivers at least once, and         *)
(* PublishAgain is what "at least" adds.                                    *)
(*                                                                          *)
(* The faults a behaviour may contain are bounded by Budget.                *)
(***************************************************************************)
EXTENDS Naturals, Sequences, FiniteSets

CONSTANTS
  Participants,       \* the participants of the search
  Cities,             \* the meeting cities of the catalogue
  Rankings,           \* lists of hubbed cities the catalogue can answer with
  NotReady,           \* the answer of a catalogue that is not ready
  Slots,              \* concurrent handler executions, over all worker processes
  MaxAttempts,        \* BullMQ attempts of a job
  MaxStalls,          \* BullMQ stalled redeliveries of a job
  InitialCandidates,  \* SEARCH_LIMITS.initialCandidates
  MaxCandidates,      \* SEARCH_LIMITS.maximumCandidates
  MaxPlanCalls,       \* SEARCH_LIMITS.maximumTotalPlanCalls
  Budget              \* how many faults of each kind a behaviour may contain

FaultKinds == {"crash", "database", "lockLost", "republish", "import"}

ASSUME SearchPipelineAssumption ==
  /\ IsFiniteSet(Participants) /\ Cardinality(Participants) >= 2
  /\ Rankings \subseteq Seq(Cities)
  /\ \A r \in Rankings : Len(r) <= MaxCandidates
  /\ \A r \in Rankings : \A i, j \in DOMAIN r : r[i] = r[j] => i = j
  /\ NotReady \notin Rankings
  /\ MaxAttempts \in Nat \ {0}
  /\ MaxStalls \in Nat
  /\ InitialCandidates \in Nat \ {0}
  /\ MaxCandidates \in Nat \ {0}
  /\ MaxPlanCalls \in Nat
  /\ Budget \in [FaultKinds -> Nat]

VARIABLES
  search,      \* the meeting_searches row: status and what completion writes
  generation,  \* status of the candidate generation row
  candidates,  \* candidate rows, as <<city, ordinal>>
  work,        \* status of the routing work row of every participant and city
  journeys,    \* routing work rows that have journey rows
  evaluation,  \* candidate evaluation rows
  rankings,    \* cities with ranking rows
  jobState,    \* every outbox event of the search and the job it becomes
  owner,       \* the slot that holds the lock of an active job
  attempts,    \* failed attempts of a job
  stalls,      \* stalled redeliveries of a job
  exec,        \* what every slot is executing
  catalog,     \* what the catalogue answers this search now
  budget       \* faults still allowed

searchVars == <<search, evaluation, rankings>>
rowVars    == <<generation, candidates, work, journeys>>
jobVars    == <<owner, attempts, stalls>>
worldVars  == <<catalog, budget>>
vars == <<search, generation, candidates, work, journeys, evaluation, rankings,
          jobState, owner, attempts, stalls, exec, catalog, budget>>

-----------------------------------------------------------------------------
(* Rows, events and executions.                                             *)

Work == Participants \X Cities

SearchStatus     == {"queued", "running", "completed", "failed"}
GenerationStatus == {"absent", "pending", "running", "succeeded", "failed_permanent"}
OpenStatus       == {"pending", "running"}
TerminalRouting  == {"succeeded", "no_journeys", "exhausted"}
RoutingStatus    == {"absent"} \cup OpenStatus \cup TerminalRouting
Feasibility      == {"none", "feasible", "participant_no_journeys"}
FailureCodes     == {"CANDIDATE_CATALOG_NOT_READY", "ROUTING_TECHNICAL_FAILURE",
                     "INVARIANT_VIOLATION"}
Outcomes         == {"ranked", "no_candidates", "no_feasible_candidates"}

\* Outbox events, unique on their type and dedupe key.
KickoffEvent       == [type |-> "requested"]
CandidatesEvent    == [type |-> "candidates-requested"]
GenerationFinal    == [type |-> "finalize-generation"]
RoutingEvent(k)    == [type |-> "routing-requested", work |-> k]
WorkFinal(k)       == [type |-> "finalize-work", work |-> k]
RoutingEvents      == [type : {"routing-requested"}, work : Work]
FinalizationEvents == {GenerationFinal} \cup [type : {"finalize-work"}, work : Work]
Events == {KickoffEvent, CandidatesEvent} \cup RoutingEvents \cup FinalizationEvents

NoEvent == [type |-> "none"]
NoSlot  == [type |-> "no slot"]
Live    == {"waiting", "active"}
Phases  == {"idle", "start", "claimed", "reject", "persist",
            "check", "reclaim", "count", "plan", "expand", "return", "unrecoverable"}

Answers == Rankings \cup {NotReady}
Execution == [at : Phases, event : Events \cup {NoEvent}, attempt : Nat,
              answer : Answers, wave : Nat]
Idle == [at |-> "idle", event |-> NoEvent, attempt |-> 0,
         answer |-> NotReady, wave |-> 0]

QueuedSearch    == [status |-> "queued", result |-> "none", city |-> "none"]
RunningSearch   == [status |-> "running", result |-> "none", city |-> "none"]
Completed(o, c) == [status |-> "completed", result |-> o, city |-> c]

\* Mistake: the generation's error code is stored without its mapping.
FailedUnmapped(code) == [status |-> "failed", result |-> "NO_CANDIDATES", city |-> "none"]
Failed(code)    == [status |-> "failed", result |-> code, city |-> "none"]

Init ==
  /\ search = QueuedSearch
  /\ generation = "absent"
  /\ candidates = {}
  /\ work = [k \in Work |-> "absent"]
  /\ journeys = {}
  /\ evaluation = [c \in Cities |-> "none"]
  /\ rankings = {}
  /\ jobState = [e \in Events |-> IF e = KickoffEvent THEN "waiting" ELSE "none"]
  /\ owner = [e \in Events |-> NoSlot]
  /\ attempts = [e \in Events |-> 0]
  /\ stalls = [e \in Events |-> 0]
  /\ exec = [s \in Slots |-> Idle]
  /\ catalog \in Answers
  /\ budget = Budget

-----------------------------------------------------------------------------
(* The job queue: delivery, redelivery and loss.                            *)

At(s, phase)   == exec[s].at = phase
Goto(s, phase) == exec' = [exec EXCEPT ![s].at = phase]
HoldsLock(s)   == LET e == exec[s].event IN jobState[e] = "active" /\ owner[e] = s
IsHandling(s, e) == ~At(s, "idle") /\ exec[s].event = e

Spend(kind) ==
  /\ budget[kind] > 0
  /\ budget' = [budget EXCEPT ![kind] = @ - 1]

\* insert into outbox_events ... on conflict do nothing, and its publication
Enqueue(E) ==
  jobState' = [e \in Events |-> IF e \in E /\ jobState[e] = "none"
                                THEN "waiting" ELSE jobState[e]]

\* A consumer takes a waiting job.
Deliver(s, e) ==
  /\ At(s, "idle")
  /\ jobState[e] = "waiting"
  /\ jobState' = [jobState EXCEPT ![e] = "active"]
  /\ owner' = [owner EXCEPT ![e] = s]
  /\ exec' = [exec EXCEPT ![s] = [Idle EXCEPT !.at = "start", !.event = e,
                                              !.attempt = attempts[e]]]
  /\ UNCHANGED <<searchVars, rowVars, attempts, stalls, worldVars>>

\* An active job leaves its slot for another state.
Close(e, state) ==
  /\ jobState' = [jobState EXCEPT ![e] = state]
  /\ owner' = [owner EXCEPT ![e] = NoSlot]

\* The handler returned, or threw UnrecoverableError: BullMQ closes the job,
\* unless this slot has lost its lock.
Settle(s) ==
  /\ exec[s].at \in {"return", "unrecoverable"}
  /\ IF HoldsLock(s)
     THEN Close(exec[s].event, IF At(s, "return") THEN "completed" ELSE "failed")
     ELSE UNCHANGED <<jobState, owner>>
  /\ exec' = [exec EXCEPT ![s] = Idle]
  /\ UNCHANGED <<searchVars, rowVars, attempts, stalls, worldVars>>

\* The handler threw an error that BullMQ may retry.
Throw(s) ==
  LET e == exec[s].event IN
  /\ IF HoldsLock(s)
     THEN /\ attempts' = [attempts EXCEPT ![e] = @ + 1]
          /\ Close(e, IF attempts[e] + 1 < MaxAttempts THEN "waiting" ELSE "failed")
     ELSE UNCHANGED <<attempts, jobState, owner>>
  /\ exec' = [exec EXCEPT ![s] = Idle]
  /\ UNCHANGED <<searchVars, rowVars, stalls>>

\* PostgreSQL fails the handler's next transaction, or commits the last one
\* without an answer: the handler rethrows the error.
DatabaseUnavailable(s) ==
  /\ ~At(s, "idle")
  /\ Spend("database")
  /\ Throw(s)
  /\ UNCHANGED catalog

\* The worker process dies between two steps of the handler.
Crash(s) ==
  /\ ~At(s, "idle")
  /\ Spend("crash")
  /\ exec' = [exec EXCEPT ![s] = Idle]
  /\ UNCHANGED <<searchVars, rowVars, jobState, jobVars, catalog>>

\* The stalled-job check returns an active job to the queue.
Requeue(e) ==
  /\ jobState[e] = "active"
  /\ stalls' = [stalls EXCEPT ![e] = @ + 1]
  /\ Close(e, IF stalls[e] < MaxStalls THEN "waiting" ELSE "failed")
  /\ UNCHANGED <<searchVars, rowVars, attempts, exec, catalog>>

RecoverStalled(e) ==
  /\ \A s \in Slots : ~(owner[e] = s /\ IsHandling(s, e))
  /\ Requeue(e)
  /\ UNCHANGED budget

\* The owner is alive but did not renew its lock: from here two slots may
\* execute the same job.
LoseLock(e) ==
  /\ \E s \in Slots : owner[e] = s /\ IsHandling(s, e)
  /\ Spend("lockLost")
  /\ Requeue(e)

\* The dispatcher did not learn that it had published, and adds the job again
\* after BullMQ has removed the settled one.
PublishAgain(e) ==
  /\ jobState[e] \in {"completed", "failed"}
  /\ Spend("republish")
  /\ jobState' = [jobState EXCEPT ![e] = "waiting"]
  /\ attempts' = [attempts EXCEPT ![e] = 0]
  /\ stalls' = [stalls EXCEPT ![e] = 0]
  /\ UNCHANGED <<searchVars, rowVars, owner, exec, catalog>>

\* A catalogue import, cleanup or configuration change gives this search
\* another answer.
ImportCatalog ==
  /\ Spend("import")
  /\ catalog' \in Answers \ {catalog}
  /\ UNCHANGED <<searchVars, rowVars, jobState, jobVars, exec>>

-----------------------------------------------------------------------------
(* Kickoff.                                                                 *)

\* Mistake: the search is started whatever its status.
MayAlwaysKickoff == search.status \in SearchStatus
MayKickoff == search.status = "queued"

\* tryKickoff: the first delivery starts the search, the others do nothing.
Kickoff(s) ==
  /\ At(s, "start") /\ exec[s].event = KickoffEvent
  /\ \/ /\ MayKickoff
        /\ search' = RunningSearch
        /\ generation' = "pending"
        /\ Enqueue({CandidatesEvent})
     \/ /\ ~MayKickoff
        /\ UNCHANGED <<search, generation, jobState>>
  /\ Goto(s, "return")
  /\ UNCHANGED <<candidates, work, journeys, evaluation, rankings, jobVars, worldVars>>

-----------------------------------------------------------------------------
(* Candidate generation and the fan-out of routing work.                    *)

OrdinalOf(row) == row[2]
CityOf(row)    == row[1]

\* Mistake: no unique index on (search_id, ordinal).
WithCandidatesByCity(cities) ==
  candidates \cup {row \in {<<cities[i], i - 1>> : i \in DOMAIN cities} :
                     \A old \in candidates : CityOf(old) # CityOf(row)}

\* insert into meeting_search_candidates ... on conflict do nothing: a row is
\* skipped when its city or its ordinal is taken.
WithCandidates(cities) ==
  candidates \cup
    {row \in {<<cities[i], i - 1>> : i \in DOMAIN cities} :
       \A old \in candidates : CityOf(old) # CityOf(row) /\ OrdinalOf(old) # OrdinalOf(row)}

AtMost(m, n)  == IF m <= n THEN m ELSE n
AtLeast(m, n) == IF m >= n THEN m ELSE n

\* The candidates up to the wave's ordinal, cut to what the plan budget allows.
FanOutCities(rows, maxOrdinal) ==
  LET wave    == {row \in rows : OrdinalOf(row) <= maxOrdinal}
      maxRows == AtMost(Cardinality(Participants) * Cardinality(wave), MaxPlanCalls)
      fit     == AtLeast(1, maxRows \div Cardinality(Participants))
  IN  {CityOf(row) : row \in
         {r \in wave : Cardinality({q \in wave : OrdinalOf(q) < OrdinalOf(r)}) < fit}}

\* insertRoutingWorkAndOutbox: new rows are pending, and every pending row of
\* the search gets its event; nothing happens when the wave is empty.
FanOut(rows, maxOrdinal, also) ==
  LET cities == FanOutCities(rows, maxOrdinal) IN
  /\ work' = [k \in Work |-> IF k[2] \in cities /\ work[k] = "absent"
                             THEN "pending" ELSE work[k]]
  /\ Enqueue(also \cup {RoutingEvent(k) : k \in
               {q \in Work : cities # {} /\ work'[q] = "pending"}})

\* Mistake: a succeeded or failed generation is claimed again.
ClaimAnyGeneration(s) ==
  /\ At(s, "start") /\ exec[s].event = CandidatesEvent
  /\ generation' = "running"
  /\ Goto(s, "claimed")
  /\ UNCHANGED <<searchVars, candidates, work, journeys, jobState, jobVars, worldVars>>

\* claimCandidateGeneration
ClaimGeneration(s) ==
  /\ At(s, "start") /\ exec[s].event = CandidatesEvent
  /\ generation' = IF generation = "pending" THEN "running" ELSE generation
  /\ Goto(s, IF generation \in OpenStatus THEN "claimed" ELSE "return")
  /\ UNCHANGED <<searchVars, candidates, work, journeys, jobState, jobVars, worldVars>>

\* Readiness, nearest cities and hubs, read one after the other: a change of
\* the catalogue between two of them mixes two answers into a third.  What the
\* handler reads it uses later.
ReadCatalog(s) ==
  /\ At(s, "claimed")
  /\ exec' = [exec EXCEPT ![s] =
       [@ EXCEPT !.answer = catalog, !.at = IF catalog = NotReady THEN "reject" ELSE "persist"]]
  /\ UNCHANGED <<searchVars, rowVars, jobState, jobVars, worldVars>>

\* completeCandidateGeneration(failed_permanent)
RejectGeneration(s) ==
  /\ At(s, "reject")
  /\ generation' = IF generation \in OpenStatus THEN "failed_permanent" ELSE generation
  /\ Enqueue({GenerationFinal})
  /\ Goto(s, "return")
  /\ UNCHANGED <<searchVars, candidates, work, journeys, jobVars, worldVars>>

\* persistCandidatesAndFanOut: the generation succeeds whatever its status was.
PersistCandidates(s) ==
  /\ At(s, "persist")
  /\ candidates' = WithCandidates(exec[s].answer)
  /\ FanOut(candidates', InitialCandidates - 1,
            IF candidates' = {} THEN {GenerationFinal} ELSE {})
  /\ generation' = "succeeded"
  /\ Goto(s, "return")
  /\ UNCHANGED <<searchVars, journeys, jobVars, worldVars>>

-----------------------------------------------------------------------------
(* Routing work.                                                            *)

Routing(s) == exec[s].event.work
WorkRows   == {k \in Work : work[k] # "absent"}

\* Mistake: updates of a routing work row without "status in (pending, running)".
IsOpenOrClosed(k) == work[k] # "absent"
IsOpen(k)  == work[k] \in OpenStatus

\* Mistake: a terminal row is claimed like a pending one.
ClaimClosedWork(s) ==
  /\ At(s, "start") /\ exec[s].event \in RoutingEvents
  /\ work' = [work EXCEPT ![Routing(s)] = "running"]
  /\ Goto(s, IF work[Routing(s)] = "running" THEN "check" ELSE "count")
  /\ UNCHANGED <<searchVars, generation, candidates, journeys, jobState, jobVars, worldVars>>

\* Mistake: a terminal row is left alone, but routed again.
RouteClosedWork(s) ==
  /\ At(s, "start") /\ exec[s].event \in RoutingEvents
  /\ work' = IF work[Routing(s)] = "pending"
             THEN [work EXCEPT ![Routing(s)] = "running"] ELSE work
  /\ Goto(s, IF work[Routing(s)] = "running" THEN "check" ELSE "count")
  /\ UNCHANGED <<searchVars, generation, candidates, journeys, jobState, jobVars, worldVars>>

\* claimRoutingWork: a running row is reclaimed by a redelivery.
ClaimWork(s) ==
  /\ At(s, "start") /\ exec[s].event \in RoutingEvents
  /\ LET k == Routing(s) IN
     /\ work' = IF work[k] = "pending" THEN [work EXCEPT ![k] = "running"] ELSE work
     /\ Goto(s, CASE work[k] = "pending" -> "count"
                  [] work[k] = "running" -> "check"
                  [] OTHER               -> "return")
  /\ UNCHANGED <<searchVars, generation, candidates, journeys, jobState, jobVars, worldVars>>

\* Mistake: a reclaimed row is completed without looking for its journeys.
CheckNothing(s) ==
  /\ At(s, "check")
  /\ Goto(s, "reclaim")
  /\ UNCHANGED <<searchVars, rowVars, jobState, jobVars, worldVars>>

\* listJourneysForRoutingWork of a reclaimed row
CheckJourneys(s) ==
  /\ At(s, "check")
  /\ Goto(s, IF Routing(s) \in journeys THEN "reclaim" ELSE "count")
  /\ UNCHANGED <<searchVars, rowVars, jobState, jobVars, worldVars>>

\* Mistake: the row is completed, its journeys are lost.
CompleteWorkOnly(k, status, found) ==
  /\ work' = IF IsOpen(k) THEN [work EXCEPT ![k] = status] ELSE work
  /\ Enqueue({WorkFinal(k)})
  /\ UNCHANGED journeys

\* completeRoutingWorkWithJourneys: the journeys are inserted and the
\* finalization is requested whether or not the row is still open.
CompleteWork(k, status, found) ==
  /\ journeys' = IF found THEN journeys \cup {k} ELSE journeys
  /\ work' = IF IsOpen(k) THEN [work EXCEPT ![k] = status] ELSE work
  /\ Enqueue({WorkFinal(k)})

\* Mistake: exhausted work requests no finalization.
ExhaustWorkSilently(k) ==
  /\ work' = IF IsOpen(k) THEN [work EXCEPT ![k] = "exhausted"] ELSE work
  /\ UNCHANGED <<journeys, jobState>>

\* markRoutingWorkExhausted
ExhaustWork(k) ==
  /\ work' = IF IsOpen(k) THEN [work EXCEPT ![k] = "exhausted"] ELSE work
  /\ Enqueue({WorkFinal(k)})
  /\ UNCHANGED journeys

RoutingStep(s, next) ==
  /\ Goto(s, next)
  /\ UNCHANGED <<searchVars, generation, candidates, jobVars, worldVars>>

Reclaim(s) ==
  /\ At(s, "reclaim")
  /\ CompleteWork(Routing(s), "succeeded", FALSE)
  /\ RoutingStep(s, "return")

BudgetExceeded == Cardinality(WorkRows) > MaxPlanCalls

\* countRoutingWorkForSearch: over budget, the work is given up unplanned.
CountWork(s) ==
  /\ At(s, "count")
  /\ IF BudgetExceeded
     THEN /\ ExhaustWork(Routing(s))
          /\ RoutingStep(s, "return")
     ELSE /\ UNCHANGED <<work, journeys, jobState>>
          /\ RoutingStep(s, "plan")

\* The provider answered: usable journeys, or none.
CompletePlan(s, found) ==
  /\ At(s, "plan")
  /\ CompleteWork(Routing(s), IF found THEN "succeeded" ELSE "no_journeys", found)
  /\ RoutingStep(s, "return")

\* A retryable provider error with attempts left: the row stays running.
RetryPlan(s) ==
  /\ At(s, "plan")
  /\ exec[s].attempt + 1 < MaxAttempts
  /\ Throw(s)
  /\ UNCHANGED worldVars

\* A retryable provider error on the last attempt.
ExhaustPlan(s) ==
  /\ At(s, "plan")
  /\ exec[s].attempt + 1 >= MaxAttempts
  /\ ExhaustWork(Routing(s))
  /\ RoutingStep(s, "return")

\* A permanent provider error.
RefusePlan(s) ==
  /\ At(s, "plan")
  /\ ExhaustWork(Routing(s))
  /\ RoutingStep(s, "unrecoverable")

-----------------------------------------------------------------------------
(* Finalization: one transaction under the row lock of the search, and one  *)
(* step.  The lock keeps new candidate and work rows out, whose foreign     *)
(* keys take a key-share lock on the search.  What else may commit between  *)
(* its reads, completions of routing work, turns no terminal row back and   *)
(* removes no journeys, so a verdict is one of the rows as they are at the  *)
(* last read of the transaction.                                            *)

Active == {row \in candidates : \E p \in Participants : work[<<p, CityOf(row)>>] # "absent"}
ActiveCities == {CityOf(row) : row \in Active}

\* Mistake: one terminal row is taken for a terminal wave.
WaveStartedToEnd == \E k \in WorkRows : work[k] \in TerminalRouting
WaveTerminal == \A k \in WorkRows : work[k] \in TerminalRouting

\* Rows the code's own consistency checks reject.
PairsMissing  == \E p \in Participants, c \in ActiveCities : work[<<p, c>>] = "absent"
Contradictory == \E k \in WorkRows : \/ work[k] = "succeeded" /\ k \notin journeys
                                     \/ work[k] = "no_journeys" /\ k \in journeys
Exhausted     == \E k \in WorkRows : work[k] = "exhausted"

\* Mistake: a city is feasible as soon as one participant reaches it.
CityFeasibilityOfSome(c) == IF \E p \in Participants : work[<<p, c>>] = "succeeded"
                            THEN "feasible" ELSE "participant_no_journeys"
CityFeasibility(c) == IF \A p \in Participants : work[<<p, c>>] = "succeeded"
                      THEN "feasible" ELSE "participant_no_journeys"
FeasibleCities == {c \in ActiveCities : CityFeasibility(c) = "feasible"}

InFinalization(s) == At(s, "start") /\ exec[s].event \in FinalizationEvents
Judging   == search.status = "running" /\ generation = "succeeded"
WaveReady == Judging /\ candidates # {} /\ Active # {} /\ WaveTerminal
Evaluable == WaveReady /\ ~PairsMissing /\ ~Contradictory /\ ~Exhausted

IsTopOrdinal(n) == /\ \E row \in Active : OrdinalOf(row) = n
                   /\ \A row \in Active : OrdinalOf(row) <= n

\* Mistake: the last wave is never fanned out.
CanExpandFromEarlier(n) == n + 1 < Cardinality(candidates) - 1 /\ n < MaxCandidates - 1
CanExpandFrom(n) == n < Cardinality(candidates) - 1 /\ n < MaxCandidates - 1

\* Which failure a transaction reports when several apply depends on the row
\* order of the query.
FailureReasons ==
  {code \in FailureCodes :
    \/ /\ code = "CANDIDATE_CATALOG_NOT_READY"
       /\ search.status = "running" /\ generation = "failed_permanent"
    \/ /\ code = "INVARIANT_VIOLATION"
       /\ \/ Judging /\ candidates = {} /\ WorkRows # {}
          \/ WaveReady /\ (PairsMissing \/ Contradictory)
    \/ /\ code = "ROUTING_TECHNICAL_FAILURE"
       /\ WaveReady /\ ~PairsMissing /\ Exhausted}

\* insert into ..._candidate_evaluations ... on conflict do nothing
Evaluate ==
  evaluation' = [c \in Cities |-> IF c \in ActiveCities /\ evaluation[c] = "none"
                                  THEN CityFeasibility(c) ELSE evaluation[c]]

FinalizationStep(s, next) ==
  /\ Goto(s, next)
  /\ UNCHANGED <<rowVars, jobState, jobVars, worldVars>>

\* already_terminal or not_ready
FinalizeTooEarlyOrLate(s) ==
  /\ InFinalization(s)
  /\ \/ search.status # "running"
     \/ generation \in OpenStatus
     \/ Judging /\ candidates # {} /\ (Active = {} \/ ~WaveTerminal)
  /\ FinalizationStep(s, "return")
  /\ UNCHANGED searchVars

FinalizeFails(s) ==
  /\ InFinalization(s)
  /\ \E code \in FailureReasons : search' = Failed(code)
  /\ FinalizationStep(s, "return")
  /\ UNCHANGED <<evaluation, rankings>>

FinalizeNoCandidates(s) ==
  /\ InFinalization(s)
  /\ Judging /\ candidates = {} /\ WorkRows = {}
  /\ search' = Completed("no_candidates", "none")
  /\ FinalizationStep(s, "return")
  /\ UNCHANGED <<evaluation, rankings>>

\* No feasible candidate yet, and another wave is allowed: the evaluations are
\* committed, the next wave is fanned out by a transaction of its own.
FinalizeExpands(s) ==
  /\ InFinalization(s)
  /\ Evaluable /\ FeasibleCities = {}
  /\ \E row \in Active :
       LET n == OrdinalOf(row) IN
       /\ IsTopOrdinal(n) /\ CanExpandFrom(n)
       /\ exec' = [exec EXCEPT ![s] = [@ EXCEPT !.at = "expand", !.wave = n + 1]]
  /\ Evaluate
  /\ UNCHANGED <<search, rankings, rowVars, jobState, jobVars, worldVars>>

FinalizeNoFeasible(s) ==
  /\ InFinalization(s)
  /\ Evaluable /\ FeasibleCities = {}
  /\ \A row \in Active :
       IsTopOrdinal(OrdinalOf(row)) => ~CanExpandFrom(OrdinalOf(row))
  /\ search' = Completed("no_feasible_candidates", "none")
  /\ Evaluate
  /\ FinalizationStep(s, "return")
  /\ UNCHANGED rankings

\* The ranking itself is abstracted to its result: every feasible city gets
\* ranking rows, one of them is recommended.
FinalizeRanks(s) ==
  /\ InFinalization(s)
  /\ Evaluable
  /\ \E c \in FeasibleCities : search' = Completed("ranked", c)
  /\ rankings' = FeasibleCities
  /\ Evaluate
  /\ FinalizationStep(s, "return")

\* expandCandidateRoutingWave: it looks at neither the search nor its lock.
ExpandWave(s) ==
  /\ At(s, "expand")
  /\ FanOut({row \in candidates : OrdinalOf(row) <= exec[s].wave}, exec[s].wave, {})
  /\ Goto(s, "return")
  /\ UNCHANGED <<searchVars, generation, candidates, journeys, jobVars, worldVars>>

-----------------------------------------------------------------------------

Handler(s) ==
  \/ Kickoff(s)
  \/ ClaimGeneration(s) \/ ReadCatalog(s) \/ RejectGeneration(s) \/ PersistCandidates(s)
  \/ ClaimWork(s) \/ CheckJourneys(s) \/ Reclaim(s) \/ CountWork(s)
  \/ \E found \in BOOLEAN : CompletePlan(s, found)
  \/ RetryPlan(s) \/ ExhaustPlan(s) \/ RefusePlan(s)
  \/ FinalizeTooEarlyOrLate(s) \/ FinalizeFails(s) \/ FinalizeNoCandidates(s)
  \/ FinalizeExpands(s) \/ FinalizeNoFeasible(s) \/ FinalizeRanks(s) \/ ExpandWave(s)
  \/ Settle(s)

Next ==
  \/ \E s \in Slots : Handler(s) \/ DatabaseUnavailable(s) \/ Crash(s)
  \/ \E s \in Slots, e \in Events : Deliver(s, e)
  \/ \E e \in Events : RecoverStalled(e) \/ LoseLock(e) \/ PublishAgain(e)
  \/ ImportCatalog

Spec == Init /\ [][Next]_vars

\* Consumers keep taking jobs, handlers keep running unless they crash, and the
\* stalled-job check keeps running.  No fault is ever required to happen.
Fairness ==
  /\ \A s \in Slots : WF_vars(Handler(s))
  /\ \A e \in Events : WF_vars(\E s \in Slots : Deliver(s, e))
  /\ \A e \in Events : WF_vars(RecoverStalled(e))

FairSpec == Spec /\ Fairness

-----------------------------------------------------------------------------
(* Properties.                                                              *)

\* Every variable stays in its type.
TypeOK ==
  /\ search \in [status : SearchStatus, result : Outcomes \cup FailureCodes \cup {"none"},
                 city : Cities \cup {"none"}]
  /\ generation \in GenerationStatus
  /\ candidates \in SUBSET (Cities \X Nat)
  /\ work \in [Work -> RoutingStatus]
  /\ journeys \in SUBSET Work
  /\ evaluation \in [Cities -> Feasibility]
  /\ rankings \in SUBSET Cities
  /\ jobState \in [Events -> {"none", "waiting", "active", "completed", "failed"}]
  /\ owner \in [Events -> Slots \cup {NoSlot}]
  /\ attempts \in [Events -> Nat]
  /\ stalls \in [Events -> Nat]
  /\ exec \in [Slots -> Execution]
  /\ catalog \in Answers
  /\ budget \in [FaultKinds -> Nat]

\* A routing work row that says "succeeded" has journeys, whatever was
\* redelivered, reclaimed or answered late (finalization-repository.ts:257).
SucceededHasJourneys == \A k \in Work : work[k] = "succeeded" => k \in journeys

\* A routing work row that says "no_journeys" has none (docs and
\* finalization-repository.ts:260).
NoJourneysHasNone == \A k \in Work : work[k] = "no_journeys" => k \notin journeys

\* The consistency checks of the finalization never fail: no search is reported
\* as INVARIANT_VIOLATION.
NoInvariantViolation == search.result # "INVARIANT_VIOLATION"

\* A ranked search recommends a city with ranking rows, and every ranked city
\* can be reached by every participant, on rows that have journeys.
RankedIsBacked ==
  search.result = "ranked" =>
    /\ search.city \in rankings
    /\ \A p \in Participants, c \in rankings :
         work[<<p, c>>] = "succeeded" /\ <<p, c>> \in journeys

\* "No feasible candidates" is the last word: every candidate that may be
\* evaluated was, and some participant cannot reach it.
NoFeasibleIsExhaustive ==
  search.result = "no_feasible_candidates" =>
    \A row \in candidates :
      /\ \A p \in Participants : work[<<p, CityOf(row)>>] \in TerminalRouting
      /\ \E p \in Participants : work[<<p, CityOf(row)>>] = "no_journeys"

\* A later wave is routed only after every earlier candidate was fully routed
\* and found infeasible, also when several finalizations expand at once.
WavesInOrder ==
  \A row, earlier \in candidates :
    /\ OrdinalOf(earlier) < OrdinalOf(row)
    /\ OrdinalOf(row) >= InitialCandidates
    /\ \E p \in Participants : work[<<p, CityOf(row)>>] # "absent"
    => /\ \A p \in Participants : work[<<p, CityOf(earlier)>>] \in TerminalRouting
       /\ \E p \in Participants : work[<<p, CityOf(earlier)>>] = "no_journeys"

\* The waves never create more routing work than the plan budget allows, so
\* the budget check of the routing handler is a second line of defence.
WorkWithinBudget == Cardinality(WorkRows) <= MaxPlanCalls

\* A stored evaluation, kept by ON CONFLICT DO NOTHING over the waves, never
\* disagrees with the routing work it was made from.
EvaluationsStayTrue ==
  \A c \in Cities : evaluation[c] # "none" => evaluation[c] = CityFeasibility(c)

\* No lost wake-up: while a running search has nothing left to route, some
\* finalization is still to be delivered or is being handled (the last terminal
\* work item always schedules another attempt).
FinalizationPending ==
  search.status = "running" /\ generation \notin OpenStatus /\ WaveTerminal
    => \E e \in FinalizationEvents : jobState[e] \in Live

\* Terminal routing work is never reopened or changed by a duplicate delivery.
RoutingWorkSettles ==
  [][\A k \in Work : work[k] \in TerminalRouting => work'[k] = work[k]]_work

\* A candidate generation that has succeeded or failed keeps its verdict, and
\* its candidates, even when the catalogue changes between two deliveries.
GenerationSettles ==
  [][(generation \in {"succeeded", "failed_permanent"}) =>
       UNCHANGED <<generation, candidates>> ]_<<generation, candidates>>

\* Every accepted search is completed or failed in the end.
SearchTerminates == <>(search.status \in {"completed", "failed"})

-----------------------------------------------------------------------------
(* What the search promises its readers.                                    *)

Lifecycle == INSTANCE SearchLifecycle WITH
  status <- search.status, result <- search.result, recommended <- search.city,
  results <- rankings

\* The pipeline implements the lifecycle its readers rely on.
ImplementsLifecycle == Lifecycle!Spec
=============================================================================
