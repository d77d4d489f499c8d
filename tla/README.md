# Specifications of RailMeet

RailMeet finds the European city in which a group can meet. A search is accepted by the API and
computed by background workers over PostgreSQL, a transactional outbox, Redis/BullMQ and an external
journey planner. Nothing in that chain is exactly-once, and the modules here say what holds anyway.

All paths are relative to `src/`. `PROJECT.json` lists, for every definition, the lines it models;
this page explains the whole.

## 1. The system

### Parts, state and interactions

| Part | Source | State it keeps | Operations | Talks to |
| --- | --- | --- | --- | --- |
| HTTP API | `apps/api` | none | create a search with its first outbox event, read status, results, journeys | database |
| Search pipeline | `apps/worker/src`, `packages/database/src/repositories` | rows of a search: status, candidate generation, candidates, routing work, journeys, evaluations, rankings | kickoff, candidate generation, routing work, finalization, wave expansion | database, catalogue, planner |
| BullMQ jobs | `packages/queue` | job state, attempts, locks (in Redis) | deliver, retry, fail, recover stalled | pipeline handlers |
| Outbox and dispatcher | `packages/queue/src/dispatcher.ts`, `outbox-repository.ts` | outbox rows with lease, token, failure count, next attempt | claim, publish, mark, retry, dead-letter | database, Redis |
| Pipeline recovery | `apps/worker/src/pipeline-recovery.ts` | a timer | give up or re-request work that is stuck | database, Redis |
| Worker process | `apps/worker/src/app.ts`, `packages/queue/src/worker-close.ts` | running consumers and loops, open connections | start, stop, close, exit | all of the above |
| Ranking | `packages/search-engine` | none | normalised journeys to rankings, wall times to instants | finalization, candidate generation |
| Plan cache, limiter, client | `packages/routing` | in-flight map, slots, waiters, Redis entries | plan, coalesce, acquire, release, classify | planner |
| Catalogue | `packages/catalog` | `places`, `meeting_city_hubs`, the artifact of the hubs | enrich, import, clean up, judge readiness | database, geocoder |
| Stations of the API | `apps/api/src/services/map-stops-service.ts` | a bounded cache with a time to live | answer a viewport | planner |
| Search page | `apps/web` `use-search-polling.ts`, `search-status-page.tsx`, `journey-detail-cache.ts` | polled state, results, choice, panel, what is revealed | poll, retry, choose, open details | HTTP API |
| Search form, place field | `search-form.tsx`, `place-combobox.tsx` | rows of travelers, text, request in flight, suggestions | add, remove, type, pick, submit | HTTP API |
| Map | `search-map.tsx`, `map-markers.ts` | style, overlays, camera, stations and their cache | theme, scene, move, refresh | HTTP API, MapLibre |
| Timeline | `journey-itinerary-timeline.tsx`, `journey-itinerary-presentation.ts`, `journey-leg-json.ts`, `route-summary.ts` | none | a stored journey to chips, an itinerary to rows | the panel of a journey |
| Validation, configuration, observability, shared | `packages/*` | none | parse, log | - |

A search runs as follows. `POST /api/v1/meeting-searches` inserts the search (`queued`) and its outbox event in one
transaction. A dispatcher leases due events, adds one BullMQ job for each, and marks them published.
Kickoff sets the search `running` and requests candidates. Candidate generation reads the catalogue,
stores up to three candidates and fans out one routing work row per participant for the first
candidate. Each routing job calls the planner, stores journeys and asks for a finalization. A
finalization, under the row lock of the search, does nothing while rows are open; otherwise it fails
the search, completes it, or fans out the next candidate ("wave") in a second transaction.

### What is hard

- A handler is several transactions and remote calls with other handlers in between, and the same job
  may be executed again after a crash, a retry, a lost lock or a second publication.
- The last routing row to finish must leave a finalization behind, though all requests for one row
  are deduplicated by key, and though finalizations that come early do nothing.
- The decision to expand and the expansion are separate transactions; several finalizations may
  decide it at once.
- The catalogue may change between two deliveries of the same generation job.
- Leases run out while their holder is alive; answers of Redis and PostgreSQL get lost; a pool worker
  that throws abandons its cycle but not its colleagues.
- A recovery cycle acts on rows it read a while ago, gives rows up beside handlers that are still at
  work on them, and a failed job that is kept blocks its id.
- An import commits batch by batch, may stop between two, and is followed by one of another artifact,
  while searches insert and refer to places of the same table.
- In the browser, answers arrive after the page has moved on: another attempt, another text, another
  viewport, another style.
- A handler may hang while the process shuts down, and a cycle of the dispatcher that was rejected has
  left pool workers behind that nobody waits for.

`PROJECT.json` lists these as `hazards`, each at its line, with the properties that watch it.

### What makes each part correct

- **Pipeline**: terminal rows stay as they are; a verdict is backed by the rows; waves come in order;
  no wake-up is lost; every search ends; readers see one start, one end, results with the status.
- **Outbox**: no event is dropped, recorded by the wrong cycle, or left behind.
- **Recovery**: where it runs, every search ends although jobs are lost, if jobs that failed
  for good are not kept for ever; rows that have ended stay, but for a generation that was given up
  while its handler was at work.
- **Jobs**: whatever is written to the outbox maps to a job its consumer accepts.
- **Shutdown**: no connection closes under a handler that was not given up or a dispatcher cycle that is
  under way, and a signal ends the process.
- **Ranking**: it rejects nothing that routing stores, and no choice of journeys beats the ranked one.
- **Wall times**: the clocks at the origin show the local time asked for, if it exists.
- **Plan cache, limiter**: at most the configured calls run at once, no slot is lost, one request per
  key, failures are not kept, every call ends.
- **Catalogue**: a completed import leaves its artifact whatever died before; places of others and of
  searches stay; the two judgements of readiness agree where mixed versions do not hide the catalogue.
- **Stations**: never older than the time to live, and the important ones first.
- **Search page**: nothing goes back, nothing waits for nothing, the end is shown.
- **Place field**: suggestions answer the text in the field.
- **Map, timeline**: the map shows the scene, one name per coordinate; the timeline tells the journey.

## 2. The modules

| Module | What it is |
| --- | --- |
| `SearchLifecycle` | Abstract specification: what a reader of a search may rely on |
| `SearchPipeline` | The handlers and transactions of one search, with the job queue around them |
| `MCSearchPipeline` | Instances for TLC, and the documented plan budget |
| `SearchPipelineProofs` | Theorems about `SearchPipeline`: its rows, that it implements `SearchLifecycle`, and what verdicts, evaluations and `no_journeys` rows say |
| `SearchWaveProofs` | Waves, the plan budget, and that no wake-up is lost; extends the former |
| `OutboxDispatch` | The outbox rows and the dispatchers' cycles |
| `MCOutboxDispatch` | Instances for TLC |
| `OutboxDispatchProofs` | Theorems about `OutboxDispatch` |
| `JobContract` | What the repositories write to the outbox, what the dispatcher makes of it, what consumers accept |
| `PipelineRecovery` | The recovery cycle beside handlers, dispatcher and faults; extends `JobContract` |
| `JourneyRanking` | From the planner's answers to the four rankings |
| `JourneyRankingProofs` | Theorems about `JourneyRanking` |
| `WallTime` | Local times to instants |
| `HubAssociation` | Which stop becomes a city's hub |
| `Catalogue` | Enrichment, import, clean-up, readiness; extends `HubAssociation` |
| `OutboxPool` | The pool of one cycle in time and the check of its lease |
| `MCBackend` | Instances of the modules from `JobContract` to here for TLC |
| `BackendProofs` | Theorems about the pool, recovery, job contract, wall times and catalogue, and about all parts together; extends the proofs of ranking |
| `JourneyPlanning` | Plan cache, limiter and client of a worker process |
| `WorkerProcess` | Consumers, dispatcher loop, signals and shutdown |
| `Arrangement` | What stands where when a set is put in order or a sequence is filtered; `MapStops`, `MapScene` and `ItineraryTimeline` extend it |
| `MapStops` | The API's cache of stations |
| `SearchPage` | The page of a search, with `SearchLifecycle` as its server |
| `SearchForm`, `PlaceCombobox` | The form of a new search, and one of its fields |
| `SearchMap`, `MapScene` | The map as a component, and what a search puts on it |
| `ItineraryTimeline` | Rows of the timeline of a journey |
| `JourneyDocument` | The forms in which a row keeps a journey, its chips, and what the panel draws; extends `ItineraryTimeline` |
| `MCFrontend` | Instances of the modules from `JourneyPlanning` to here for TLC |
| `MapProofs` | Theorems about what the map is given: the chosen stations, the names and marks of a scene |
| `ItineraryProofs` | Theorems about timeline, chips and panel of a journey; extends the former |
| `BrowserProofs` | Theorems about plan cache, worker process, stations, page, form, place field and map, and all of them together; extends the former |

`MCBackend` and `MCFrontend` hold parts that share no state. Each behaviour is about one part, which
its initial state chooses; the others rest. So one run checks each part by itself, no interleaving of
unrelated parts is explored, and a property of one part is an invariant of all behaviours.

Definitions marked "Mistake" in the modules are not part of the specifications: each is the form a
definition would have with a plausible bug, used to see that a property notices it.

### SearchPipeline

One database transaction is one action. `exec[s]` is the program point of one handler execution (a
*slot*: BullMQ concurrency over all worker processes), so everything else may happen between its
steps. What a handler has read it keeps in `exec[s]`: the attempt number, the catalogue's answer, the
wave to expand.

| Code | Actions |
| --- | --- |
| `tryKickoff` | `Kickoff` |
| `candidate-generation.ts` | `ClaimGeneration`, `ReadCatalog`, `RejectGeneration`, `PersistCandidates` |
| `routing-work.ts` | `ClaimWork`, `CheckJourneys`, `Reclaim`, `CountWork`, `CompletePlan`, `RetryPlan`, `ExhaustPlan`, `RefusePlan` |
| `finalization.ts`, `finalization-repository.ts` | `FinalizeTooEarlyOrLate`, `FinalizeFails`, `FinalizeNoCandidates`, `FinalizeExpands`, `FinalizeNoFeasible`, `FinalizeRanks`, `ExpandWave` |
| BullMQ, as the consumers use it | `Deliver`, `Settle`, `Throw`, `RecoverStalled`, `LoseLock` |
| Dispatcher's at-least-once delivery | `PublishAgain` |
| Environment | `Crash`, `DatabaseUnavailable`, `ImportCatalog` |

Faults are counted by `Budget`, one number per kind; a behaviour need not spend it.

Abstractions. An outbox event and its job are one entry of `jobState`, because `OutboxDispatch`
shows what lies between them. Participants and places cannot disappear: the foreign keys restrict
deletion. The provider's answer is one of: usable journeys, none, a retryable error, a permanent
error. The ranking is any choice of one feasible city. A finalization is one action: it
holds the search's row lock, foreign keys keep new candidates and work out, and routing rows only
move towards terminal states, so what it reads one after the other is consistent with its last read.
A generation reads the catalogue in several queries; a change in between gives an answer that is
again one of `Rankings`.

### OutboxDispatch

Rows carry `verdict`, `failures`, `wait` (ticks until the next attempt), `token` and `lease` (ticks).
A cycle is named by its lease token: `item[t][e]` is where a pool worker stands with an event.

| Code | Actions |
| --- | --- |
| `claimDue` and the start of a cycle | `Claim`, `ClaimIsLost` (commits, the answer is lost) |
| `mapPool`, `mapOutboxEvent` | `Take` |
| `publisher.ts` `queue.add` with its timeout | `Add`, `AddFails` (with or without effect) |
| `markPublished`, `markRetry`, `markDeadLettered` | `Mark`, `MarkPublishedFails`, `MarkRejects` |
| Time and processes | `Tick`, `Crash` |

`MarkRejects` is the interesting one: nobody catches what `markRetry` throws, `Promise.all` rejects,
the loop starts its next cycle, and the remaining pool workers go on behind it.

With `LeaseCovers`, time does not pass the lease of an event whose cycle is awaited, which is what
`OutboxPool` shows of every configuration that is accepted. A rejected cycle has lost a worker and
may outlive its leases all the same. Without `LeaseCovers` leases may run out under any living cycle
(a paused process, a slow network). A retry delay has no jitter here.

### OutboxPool

One batch, in ticks since its claim. `Waves` and `MinimumLease` are `minimumOutboxLeaseMs`, and
`PoolInit` starts a pool only under a configuration that `workerEnvSchema` accepts
(`packages/config/src/schema.ts:254`).

| Code | Actions |
| --- | --- |
| `mapPool`, a worker's turn | `TakeNext` |
| `processEvent` returns, or throws | `Settle`, `Throw` |
| Time | `TimePasses` |

Two assumptions are the code's own: an event takes no longer than the timeout of a Redis command and
a margin of two seconds (`OUTBOX_DEFAULTS`), and a free worker takes the next event before time
passes. The time between the claim's commit and the start of the pool belongs to the margin.

### PipelineRecovery and JobContract

A row's `age` is fresh, stale (two minutes) or abandoned (a day); time passes by `GrowOld`. A handler
is its start on a row that is open, its end and its death; one that finds its row ended returns at once
(`FindsRowEnded`). The end of a generation's handler is the fan-out or the failure: `FanOut` lets the
generation succeed whatever its status, as `persistCandidatesAndFanOut` does, and asks for the finalization
itself when there are no candidates; `FailGeneration` looks at the status, but not for its event. `queued`
knows the jobs that BullMQ keeps, which have completed (`done`) or failed for good: adding a job with the
id of a kept one does nothing. They are removed by age only when another job of their queue ends
(`RemoveKept`), so that nothing is assumed of it.

| Code | Actions |
| --- | --- |
| `listStalePipelineWork`, four queries | `ListStale` |
| `recoverOnce`, giving up | `Abandon` (`completeCandidateGeneration`, `markRoutingWorkExhausted`) |
| `selectPipelineRecoveryEvents`, republication | `SelectEvents`, `Republish`, `RepublishFails`, `EndCycle`, `CycleFails` |
| dispatcher, consumers, handlers in brief | `Dispatch`, `StartJob`, `FindsRowEnded`, `HandleKickoff`, `EndCandidates`, `EndRouting`, `HandleFinalization` |
| BullMQ and processes | `LoseJob`, `RemoveKept`, `DieInJob` |

`JobContract` is pure: `Row(e)` for each of the five inserts, `MapsToJob` and `Job` for
`mapOutboxEventToJob`, `IsAccepted` for the four validations.

### JourneyRanking and WallTime

`AnswerArrives` is normalisation, filtering and storing of one routing work; `RankAll` is
`rankAllModes` of a finalization. The greedy choices of the code (`SelectFastest`, `SelectFewest`,
`SelectTogether` with its windows) are translated as they are; `NoBetterMeeting` compares them with
all combinations of journeys. A comparator of the code is a key here, and a sort puts each element
behind as many as come before it (`Sorted`). `WallTime` has one action, `Correct`, the body of the loop.

### Catalogue and HubAssociation

| Code | Actions |
| --- | --- |
| `transitous-hubs.ts`, `associate.ts` | `Enrich` |
| `importCatalogArtifact` | `Start`, `Write`, `RetireCities`, `RetireHubs`, `RetireLinks`, `Interrupt` |
| `cleanup-fixture.ts` | `LoadFixture`, `Inspect`, `Delete` |
| searches | `CreateSearch`, `CreateSearchAt`, `FindCities`, `ChooseHubs` |

Place ids are functions of the provider's identity, as in `hub-id.ts`. Where a batch ends depends on
sizes, so every row may be the last one committed. A city's row has the version of the artifact it was
written from, which an import does not compare: an unchanged city keeps the version of an earlier import,
and `ProductionReadiness` is `stale` while active cities have two.

### JourneyPlanning, WorkerProcess and MapStops

`JourneyPlanning` has one action for each stretch between two awaits (`PlanJourney`, `CacheHit`,
`CacheMiss`, `ResponseArrives`, `TimeoutOrNetworkFailure`, `CacheWrite`, and `Expire` in Redis);
`Release` and `Settle` are what runs with them. `WorkerProcess` has `TakeJob`, `EndJob`, `Signal`,
`ConsumerCloses` (with its timeout), `ConsumersClosed`, `DispatcherStopped`, `CloseResource`, `Exit`, and,
for the dispatcher, `PoolWorkerEnds`, `CycleEnds`, `CycleRejects`, `LeftoverEnds`, `SleepEnds`: a cycle ends
with the last worker of its pool (`mapPool`), or is rejected by one of them, and then the others are
`leftover`: they publish on, and neither the loop nor `stop()` waits for them. `MapStops` has `Ask`, `ProviderAnswers`,
`ProviderFails`, `Leaves`, `TimePasses`.

### The browser

| Code | Module and actions |
| --- | --- |
| `use-search-polling.ts` | `SearchPage`: `Arrive`, `Poll`, `Retry`; the network is `Serve`, `Lose` |
| `search-results-view.tsx`, `journey-details-panel.tsx`, `journey-detail-cache.ts` | `ChangeMode`, `Select`, `OpenPanel`, `ClosePanel`, `RetryPanel`, `DetailsArrive` |
| `search-status-page.tsx` | `Reveal`, `ToggleNewSearch`, `BackToResult` |
| `place-combobox.tsx` | `PlaceCombobox`: `Edit`, `ClearSelection`, `SelectPlace`, `DebounceEnds`, `RetrySuggestions`, `SuggestionsAnswered`, `SuggestionsRejected`, `SuggestionsRefusedInHalf`, `OpenList`, `CloseList` |
| `search-form.tsx` | `SearchForm`: `AddTraveler`, `RemoveTraveler`, `OriginChanges`, `OtherFieldsChange`, `Submit`, `Accepted`, `CreationRefused`, `Breaks`; the API is `Stores`, `Refuses` |
| `search-map.tsx` | `SearchMap`: `SceneChanges`, `ThemeChanges`, `StyleLoads`, `StyleReady`, `DrawOverlays`, `Moves`, `PauseEnds`, `Answered`, `Refused`, `Unmounts` |
| `map-markers.ts` | `MapScene`: the markers, lines, labels and camera key of a scene as operators, with the reader's choices as actions |
| `journey-itinerary-*.ts(x)` | `ItineraryTimeline`: operators over an itinerary; a loop over legs is a function of how many it has seen (`Joining`, `Telling`) |
| `journey-leg-json.ts`, `route-summary.ts`, `journey-details-panel.tsx` (`renderDetail`) | `JourneyDocument`: operators over an itinerary and the form it is stored in |

## 3. What is model-checked

Run a configuration with `tlc -workers 2 -config X.cfg M`, `M` being the `MC` module.

| Run | Instance | Question | Result |
| --- | --- | --- | --- |
| `SearchPipeline_crash` | 2 participants, 2 candidates in 2 waves, 2 slots, 1 crash | `TypeOK`, `NoInvariantViolation`, `RankedIsBacked`, `NoFeasibleIsExhaustive`, `WavesInOrder`, `ImplementsLifecycle` | holds, 744k states |
| `SearchPipeline_queue` | 1 wave, 1 slot, 2 attempts, one database fault, republication and import each | `NoJourneysHasNone`, `FinalizationPending`, `GenerationSettles` | holds, 404k states |
| `SearchPipeline_zombie` | 1 wave, 2 slots, one lost lock and one import | `SucceededHasJourneys`, `WorkWithinBudget`, `EvaluationsStayTrue`, `RoutingWorkSettles` | holds, 252k states |
| `SearchPipeline_liveness` | 2 waves, 1 slot, 1 crash, fair | `SearchTerminates` | holds, 150k states |
| `SearchPipeline_late_journeys` | 1 wave, 2 slots, one lost lock | `NoJourneysHasNone` | violated (finding 1) |
| `SearchPipeline_plan_calls` | 2 waves, 2 attempts, no fault | `PlanCallsWithinBudget` | violated (finding 2) |
| `OutboxDispatch_lease` | 2 events (one that cannot be mapped), 2 dispatchers, leases may run out, one fault of each kind | `TypeOK`, `NothingIsDropped`, `BackoffIsCurrent`, `LeaseIsRespected` | holds, 500k states |
| `OutboxDispatch_settles` | the same with leases that cover, a database fault and a crash, fair | `OneCyclePerEvent`, `EveryEventSettles` | holds, 111k states |
| `OutboxDispatch_overlap` | leases that cover | `CyclesDoNotOverlap` | violated (finding 3) |
| `Backend` | see below | `BackendTypeOK`, `EveryEventHasItsConsumer`, `RankingNeverRejects`, `NoBetterMeeting`, `WallTimesAreExact`, `LeaseOutlastsBatch`, `EndedRowsStay`, `CatalogueHolds`, `RecoveredSearchEnds` | holds, 356k states |
| `Backend_candidates` | the same | `HubbedCitiesAreCandidates` | violated (finding 4) |
| `Frontend` | see below | `FrontendTypeOK`, `SlotsAreExact`, `CachesAreTrue`, `NothingClosedInUse`, `SceneIsShown`, `NothingWaitsInVain`, `SuggestionsAnswerTheText`, `TripIsShown`, `ReaderIsNotDisturbed`, `PageShowsTheEnd`, `WorkEnds` | holds, 125k states |

What the properties of the last three say, and on which instance:

- *Recovery* (one routing work, one job lost, dead or out of attempts at any point):
  `RecoveredSearchEnds`, `EndedRowsStay`, `EveryEventHasItsConsumer`. A second fault would only delay
  the same repair; more routing work adds events of the same kinds. The instance has a handler of the
  generation that is still at work when the row is a day old and given up, fan-outs with and without
  candidates after that, and a search that has ended before them. `EndedRowsStay` allows that one
  change. `RecoveredSearchEnds` has a hypothesis: no job stays in the failed state for ever. Without it
  TLC finds a search that stays queued, because its kickoff job failed for good, is kept, and no other
  job of the queue ends.
- *Ranking* (2 participants, 2 candidates, 9 answers each, with ties, late and early arrivals,
  malformed and unmapped itineraries): `RankingNeverRejects`, `NoBetterMeeting`. Every combination of
  answers is an initial branch.
- *Wall times* (offsets from -12 to +14 hours, shifts of half an hour and an hour either way, every
  half hour of the 20 hours before and after): `WallTimesAreExact`.
- *Catalogue* (3 city lists of three versions and the fixture, 3 stops, a city pinned by hand, 4 commands):
  `CompletedImportHolds`, `EnrichedHubsAreValid`, `ReadinessIsHonest`, `OthersPlacesStay`,
  `CleanUpIsClean` (together `CatalogueHolds`). Four commands are enough for an import that
  is interrupted, another of a different artifact, and enrichment or clean-up around them. One
  list changes one of two cities of another, so that an import that is through leaves two versions, as
  an interrupted one may. `ReadinessIsHonest` says that a search routes wherever the status is
  `partial` or `ready`, that the status is one of these or `stale` wherever a search routes, and that
  `ready` leaves no large city without a hub. The threshold of active cities is 1, so the judgement "too few cities" coincides with "none".
- *Pool* (every batch of up to 5 events, up to 3 workers, every accepted lease of up to 11 ticks with
  2 ticks per event): `LeaseOutlastsBatch`. Five events on two or three workers leave a last wave
  that is not full.
- *Journey planning* (3 callers, 2 keys, 1 slot): `SlotsAreExact`, `OneRequestPerKey` (in `CachesAreTrue`),
  and that every call ends. Three callers are a holder, a waiter and one that shares a key with either.
- *Worker process* (2 queues, 2 signals, a pool of 3 workers, 2 cycles that reject):
  `NothingClosedInUse`, and that a signal ends the process. Two rejected cycles of three workers leave
  four behind, and resources are closed under all four in some behaviours: the property allows them,
  and handlers that ran into the timeout, and nothing else.
- *Stations* (2 browsers, 4 boxes of which two share an entry, one entry, a time to live of 2):
  `StationsAreRecent` (in `CachesAreTrue`), `ImportantStationsAreSent` (in `TripIsShown`).
- *Search page* (2 modes, 2 cities, 2 failing requests, 3 attempts): `ReaderIsNotDisturbed`,
  `NothingWaitsInVain`, `PageShowsTheEnd`.
- *Place field* (5 texts, of which two are one query, 4 changes or retries):
  `SuggestionsAnswerTheText`. *Form* (2 to 3 travelers, 2 submissions): `FormIsWaitedFor`.
- *Map* (2 themes, 4 scenes of which two share a camera key, 3 viewports, one too wide and one
  crowded): `SceneIsShown`, `CameraIsKept`, `LoadingHasRequest`. The browser's cache of 40 viewports
  is 0 here, so every collection is evicted by the next: with three viewports no larger bound would
  ever evict.
- *Scene* (2 travelers, 2 cities, 3 modes, with shared coordinates, a stop called at twice, a place
  without a coordinate) and *timeline* (all itineraries of up to four legs of five kinds, in two time
  zones, over midnight, each stored in all six forms, with at most two chips): `TripIsShown`, which also
  says that chips and panel tell the same services in the same order (`ChipsAndPanelAgree`). A leg kind is
  a walk, a walk of no minutes, a ride, a ride the traveler stays seated for, or another mode.

Why these bounds are enough to be interesting:

- Two participants are the least a search has, and the least for which one row is terminal while
  another is open. Two candidates give a first wave, an expansion and a last wave. Two slots are the
  least for any overlap. The largest real values (6 participants, 3 candidates, 18 rows) add
  repetition of the same interactions; the theorems below hold for all of them. One thing three
  candidates add, gaps in the ordinals, is listed as an uncovered hazard.
- One fault of a kind is where every recovery path starts; which step it hits is free. Faults of
  different kinds are combined where their combination says something (lost lock with import,
  database with republication and import).
- Three lease tokens are enough for two cycles and a lease left behind. Tokens and dispatchers,
  participants and slots are interchangeable and declared symmetric in the safety runs; the liveness
  runs use no symmetry.
- Deadlock is not checked: a search that has ended, and an outbox without open events, stop.

### Fairness

No fault is ever required to happen. `SearchPipeline`: BullMQ workers keep taking waiting jobs (weak
fairness of delivery per job), a handler that is alive goes on (weak fairness per slot), and BullMQ's
stalled check runs (per job). All three stay enabled until taken, so weak fairness is enough.
`OutboxDispatch`: the loop of a dispatcher polls, pool workers go on, time passes.
`PipelineRecovery`: dispatcher, consumers and the recovery timer keep running, time passes; that BullMQ
removes a job it keeps is no fairness, but, for failed ones, the hypothesis of `RecoveredSearchEnds`.
`JourneyPlanning`: commands of Redis and requests to the planner
have timeouts, so each ends; a handler is never required to ask. `WorkerProcess`: timers fire,
the workers of a dispatcher cycle end, closing ends; a handler may hang for ever, and so may a worker that a
rejected cycle left behind. `SearchPage`: the search ends (which
is `SearchTerminates`), requests are answered or fail, timers fire, and the reader presses Retry after
an error and comes back from the form; requests fail a bounded number of times.

`SearchTerminates` is checked with a crash but without database faults: a job whose attempts are used
up by database faults leaves its row open and no job behind, and the recovery loop that would help
is not started by `apps/worker/src/app.ts`. `RecoveredSearchEnds` says what it would repair.

## 4. What is proved

Eight modules hold theorems; `tlapm M.tla` checks one of them. Every theorem is for all values of the
constants that satisfy the named assumptions of its module, so for any number of participants, cities,
slots, attempts, events, dispatchers, callers, browsers or faults.

**`SearchPipelineProofs`**, from `SearchPipelineAssumption` (at least two participants, finitely many;
the catalogue's answers are lists of distinct cities no longer than the limit; limits are natural
numbers):

| Theorem | States | Needs |
| --- | --- | --- |
| `TypeCorrect` | every variable of the pipeline keeps its type | |
| `SucceededWorkHasJourneys` | a `succeeded` row has journeys, whatever overlaps | |
| `TerminalWorkSettles` | no step changes a terminal routing row | |
| `PipelineImplementsLifecycle` | `SearchPipeline` implements `SearchLifecycle` under the mapping status, result, recommended city, ranking rows | |
| `RankedSearchIsBacked` | a ranked search recommends a ranked city, and everybody reaches every ranked city on stored journeys | |
| `StoredEvaluationsStayTrue` | an evaluation agrees with the city's routing rows for good | |
| `NoJourneysRowsHaveNone` | a `no_journeys` row has no journeys | `LocksAreKept` |
| `ConsistencyChecksPass` | the finalization's consistency checks never fail a search | `LocksAreKept` |
| `GenerationKeepsItsVerdict` | a generation that has ended keeps its status and its candidates | `LocksAreKept` |

**`SearchWaveProofs`**:

| Theorem | States | Needs |
| --- | --- | --- |
| `WavesStayInOrder` | ordinals have no gap; a wave is routed after the one before it was judged | `OneCatalog` |
| `NoFeasibleIsTheTruth` | "no feasible candidates" has judged every candidate of the catalogue | `OneCatalog` |
| `WavesStayWithinBudget` | routing rows never exceed the plan budget | `OneCatalog`, `OneRowFits` |
| `NoLostWakeup` | a running search with nothing left to route has a finalization ahead of it | `OneCatalog`, `PlanBudgetCovers`, `FaultsWithinRetries` |

The hypotheses, and why they are there:

- `LocksAreKept`: BullMQ never takes a lock from a worker that still uses it. Without it the statements
  are false: `SearchPipeline_late_journeys` shows a `no_journeys` row with journeys (finding 1).
  Crashes, redelivery and database faults are still allowed.
- `OneCatalog`: locks are kept, or no import falls into the search. It takes both a lost lock and an
  import to store two different answers, and then ordinals can have gaps (a hazard listed without a
  property).
- `OneRowFits` and `PlanBudgetCovers`: the budget of 18 plan calls covers 6 participants, and 6
  participants times 3 candidates (`packages/shared/src/limits.ts`).
- `FaultsWithinRetries`: database faults are fewer than a job's attempts, crashes and lost locks no more
  than the stalls BullMQ forgives. With more, the last finalization job itself can fail for good, and
  only the recovery would find the search.

The instances of the runs `crash` and `queue`, which check the same properties, meet these hypotheses
with faults in them. `zombie` checks `WorkWithinBudget` on a small instance even where `OneCatalog`
does not hold.

**`OutboxDispatchProofs`**, from `OutboxAssumption` (finitely many events; batch, pool and lease at
least 1; delays and fault budgets are natural numbers):

| Theorem | States |
| --- | --- |
| `OutboxTypeCorrect` | every variable of the outbox and its dispatchers keeps its type, and a cycle has no more workers busy than it started |
| `NothingDropped` | published means the job was added; dead means it could not be mapped |
| `LeasesRespected` | a lease that has not run out is ended by its own cycle only |
| `BackoffCurrent` | a delay is computed from the row's own count of failures as long as the lease is the cycle's |
| `OneAwaitedCycle` | with leases that cover, an event is in the hands of one awaited cycle at most |

**`JourneyRankingProofs`**, from `JourneyRankingAssumption` (participants and candidates are numbered,
and there is a participant; an answer is a sequence of itineraries as their schema has them; the
tolerance is a natural number):

| Theorem | States |
| --- | --- |
| `RankingIsOptimal` | in each mode, no choice of journeys, to a candidate of the same or a later rank, is better by the criteria of the mode |
| `RankingTakesWhatIsRouted` | the ranking rejects nothing that normalisation has let through |

**`BackendProofs`**, from the assumptions of the modules that `MCBackend` composes (for the pool: batch
size, concurrency and time of an event at least 1):

| Theorem | States |
| --- | --- |
| `LeasesOutlastBatches` | an accepted lease runs as long as its batch is awaited |
| `PoolTypeCorrect` | the pool takes only events of its batch and has no more workers than it may |
| `LocalTimesAreExact` | a local time becomes an instant at which the clocks show it, or one at the edge of the gap that skips it |
| `EventsHaveConsumers` | every event that the repositories write becomes a job its consumer accepts |
| `EndedRowsAreFinal` | neither late handlers nor recovery by an old query change a row that has ended, but for a late fan-out, by which a generation that was given up succeeds |
| `RecoveryTypeCorrect` | every variable of the recovery keeps its type |
| `CatalogueStaysTrue` | completed imports leave their artifact, the status agrees with the searches where mixed versions do not hide it, others' places stay, clean-up leaves no loose ends |
| `BackendTypeCorrect` | the types of all parts, and no row refers to one that is gone |

**`MapProofs`**, from `MapStopsAssumption` (places of a box are a sequence with numbers to compare) and
`MapSceneAssumption` (rankings, journeys and legs are sequences):

| Theorem | States |
| --- | --- |
| `ImportantAreKept` | no station is sent twice, and none is left out that is more important than one sent |
| `SceneIsRight` | one name is shown at a coordinate; focusing a traveler changes neither stops and lines nor the camera's key |

**`ItineraryProofs`**, for itineraries of any length that satisfy `IsItinerary`: legs one after the
other, none before the last one's end; who stays seated sat in something before; and a walk of no
duration neither moves the clock nor changes the zone. MOTIS answers so, and nothing in `src/` repairs
an itinerary that does not; `ItinerariesAssumption` asks it of the itineraries of a run:

| Theorem | States |
| --- | --- |
| `JourneyIsTold` | one ride per boarded service, one change fewer, each after its ride; every minute between the first and the last is told; walks stand at their end |
| `DaysAreSeparated` | a row on another day than those on which the row before it was over has a separator |
| `ChipsAgree` | chips are services of the panel in their order, and none only if it has none, in each form a row can have |

**`BrowserProofs`**, from the assumptions of the modules that `MCFrontend` composes (for the plan cache:
finitely many callers, a natural number as limit), and `RestAssumption` (the values that name a part at
rest exist):

| Theorem | States |
| --- | --- |
| `SlotsStayExact` | the limiter counts the requests in flight exactly, stays at the limit, and frees no slot while somebody queues |
| `OneRequestForKey` | a key has one request under way at most, and who waits for it has one to wait for |
| `PlanningTypeCorrect` | every variable of cache and limiter keeps its type |
| `NothingClosesInUse` | no connection closes under a handler that was not given up or a dispatcher cycle under way, whatever signals come, and under no more workers of rejected cycles than all but one of each |
| `TripStaysShown` | stations, scene, timeline and chips tell the journeys that were found |
| `CachesStayTrue` | one request per key; stations are of the corners asked for and no older than allowed |
| `SceneStaysShown`, `CameraStaysPut` | the map shows the page's scene; a camera that the user has moved is left alone |
| `SuggestionsStayCurrent` | suggestions answer the text in the field and never cover a selection |
| `FormStaysWaitedFor`, `PageStaysWaitedFor`, `WaitingIsAnswered` | whatever shows that it waits has a request or a timer to wait for |
| `ViewStaysAhead`, `ReaderStaysUndisturbed` | the page never goes back, and nothing late takes away what the reader sees |
| `FrontendTypeCorrect` | the types of all parts |

### The arguments

*Rows.* `RowInv == TypeOK /\ ExecOK /\ SucceededHasJourneys`. The last is not inductive alone:
`Reclaim` completes a row as succeeded without inserting journeys, and may because the handler has seen
them before. `ExecOK` says so (`at = "reclaim"` implies that the journeys are there; journeys are never
removed), and ties the phases of a handler to its kind of event. `TerminalWorkSettles` follows, since
every update of a routing row asks for an open one. The refinement needs `ReaderInv`: before its end a
search has neither result nor ranking rows. Then kickoff maps to `Start`, the four ending transactions
to `Rank`, `CompleteEmpty` and `Fail`, and every other step stutters.

*Verdicts.* `VerdictInv` adds that a city that is evaluated has been routed to the end for everybody
(`EvaluatedIsRouted`). Terminal rows and stored journeys stay, so an evaluation stays true, and a
ranking, made of feasible evaluations in one transaction, stays backed. `KeptInv` needs more: with the
locks kept (`ExclusiveInv`: a slot that executes holds the lock) no two slots handle the same event, so
what a slot has read of a row it alone writes is still so (`ExclusiveWork`), and nobody else ends a
generation under it (`GenerationInv`). `RowsInv` says that candidates come with a routing row for each
participant or for none.

*Waves.* `AnswerInv` says that all candidates are rows of one answer. So ordinals are 0, 1, 2 and so
on, the rows before an ordinal are as many as it says (`RankIsOrdinal`, a bijection onto an interval),
and a fan-out takes a front of them. `WaveInv`: routed candidates are a front, and a slot that is about
to expand has found everything before its wave infeasible, which stays true until it does. The budget
(`RoutedWithinBudget`) counts the front.

*Wake-ups.* `FinalizationPending` is not inductive, since a finalization that has already looked at the
search counts for it. `WakeupInv` asks for a *fresh* one: waiting in the queue, abandoned by a dead
worker (the stalled check will find it), at its start, or about to expand by a candidate that is still
to route. Whoever ends the last open row writes such an event in the same transaction. Two facts carry
it: a finalization that reads a quiet search ends it or expands usefully, and it cannot be lost on the
way, as `RetriesArePaid` counts attempts and stalls against the faults that caused them.

*Outbox.* `KeepInv`: what a worker is about to record is already true when it starts (a worker at "mark"
has seen its job added, one at "dead" has an event that cannot be mapped). Hence it does not matter when
it records it, or whether another cycle has taken the row since. `TypeInv` counts busy workers against
the pool. In `BackoffInv` a row's count changes only with its token. `CycleInv` holds for covering
leases: an awaited cycle that handles an open event holds its lease (`AwaitedHold`), so no other awaited
cycle can (`AwaitedApart`). `LeasesRespected` uses only the shapes of two variables.

*Pool.* An event of the q-th group of k, k being the size of the pool, is taken by q times the time of
an event. The step that needs it is the passing of time while events wait: all k workers are busy, with
k different events before the next one, so the oldest was taken k or more places ago and is not over
its time (`OldestIsAPoolBehind` counts). The waves of the configuration hold the whole batch
(`WavesHoldBatch`), so the last event is done within them.

*Plan cache and limiter.* `LimiterInv`: callers in the queue are different and do not run, and the
count is the number of requests in flight; a release hands its slot to the first in line or gives it
back. `KeyInv`: a caller that runs a request owns its key's promise, and an owned key has a caller that
runs. *Shutdown*: `ShutdownInv` follows the phases: the dispatcher stops after all consumers are closed
or given up, the first resource closes after both. Its part `PoolIsCounted` says that only a cycle under
way has workers, and that each rejected one left at most all but one of its pool (`OneMoreRejects`).

*Recovery.* `RecoveryInv` adds `QueuedHasNoRow` to the types: a kickoff cannot find a generation that has
ended, nor a handler at work on it, which could end it with an update that looks at no status: a handler
starts on a row it has found open. *Wall times*: after one turn of the loop the guess is one of two instants,
`local - before` and `local - before - shift`; after two it is right, or there is no right one
(`GuessInv`). So two turns would do where the code takes three, and one would not (the mistake
`OneCorrection`).

*Ranking.* `RankingInv`: a stored journey is in the form the ranking expects, because normalisation has
dropped what is not, and nothing is ranked before all work is routed. That the ranking is optimal is a
fact about operators. Three of its parts are inductions, each done by the least counterexample, since
the library's induction theorems cannot be used here: a fold over the participants is a sum and grows
with its terms (`SumsGrow`), the recursive sweep over the arrivals exists (`SweepExists`), and after
each turn its left end is the first that does not cover everybody (`SweepHolds`), so that no window
that covers is narrower than the least one it found (`MinimumSpreadIsRight`). For a mode that goes by
durations or transfers, taking the best journey of each participant is then best in sum and in
maximum (`DurationsGrow`, `TransfersGrow`). For `arrive-together` a choice either lies in a window that
is looked at, whose pick is no worse, or its penalty is greater than any pick's (`PickIsNoWorse`). Keys
are compared element by element, a total order, of which the criteria are a prefix (`PrefixIsNotLess`),
and sorting by keys puts each candidate behind those that come before it (`SortedByKey`).

*Catalogue.* `CatalogueInv`: `RowsInv` ties a row's id to its identity and its owner, so one identity has
one row, and a write of one owner cannot hit another's (`RowFits`). `ReferencesInv`: every link, city
of a hub and place of a search exists. `PlanHolds`: each row of the artifact is still among the planned
writes, or already stored as planned; the plan was made in one go, but the rows are written one by one,
with searches in between that may add places and never change these. `RetiredHolds`: what is retired
stays so. With nothing left to write or retire, the artifact is stored and nothing else is active, which
is `ImportedInv` until the next command. `CleanupInv`: what a clean-up has looked at is still there,
with the same owner, when it deletes it.

*Browser.* `MapInv`: whoever destroys what is drawn (a style, a theme) leaves something behind that draws
it again (`RedrawPreserves`). `ComboInv`: of all calls under way one at most is live, and it asks for
the text in the field; a timer is younger than all of them but a retry's. With a place selected nothing
is under way that could cover it (`SelectionIsQuiet`). `PageInv`: an answer under way is not older
than what the page shows (`AnswersAreNewer`), there is one attempt at a time, and a retry timer has a
failure behind it. `StopsInv`: an entry that is kept was fetched for the corners of its key, at most the
time to live ago when it is given out.

*Trip.* The invariant is small: `StopsInv` (whatever the API has kept or sent is a cut of what the provider
has there), the types of the scene, and that the itinerary on the panel is one that was stored. The rest
is about operators, for data of any size. An order is proved once (`StandingInOrder`: in `Arranged`
each element stands behind as many as come before it), and gives the stations, the filters and the
places of rides among items. A loop over a sequence is a function of how many elements it has seen;
that it exists, and what holds of it after each turn, are inductions by the least counterexample.
`suppressDuplicateStopLabels` after k markers has kept, at each coordinate, the one that is ahead of all
before it (`WeighHolds`), so that the order of the markers does not matter but between equals. Focus
changes emphasis only, so scenes that differ in it are alike mark by mark (`FlattenAlike`), and like
marks have one camera key. `AreJoined` says of joined legs that each is a run of stored legs that begins
where the traveler boards and ends before the next boarding; so first and last leg, boarded services
and stops where a traveler stays seated are those of the itinerary. `TellsUpTo` is what holds of the
items after k displayed legs: the rides among them are the ones displayed so far, each change stands behind
its ride, the minutes told add up to the end of the last ride (`Accounts`), a first walk has a ride to
come and a last one none (`WalksAtEnds`), and the day known last is one on which the last row was over
(`Separates`). The chips of each form of the document are places of one list, that of the services
moved in, of which the limit keeps a front (`CappedIs`).

*Composition.* The parts of `MCBackend` and of `MCFrontend` share no variable. `PartsInv` is the
conjunction of their invariants: a part at rest satisfies its own, and a step of one part leaves the
others unchanged (`PartsStart` and `PartsMove` in `BrowserProofs`).

### What is model-checked only

- Everything under fairness: `SearchTerminates`, `EveryEventSettles`, `RecoveredSearchEnds`,
  `PageShowsTheEnd`, `WorkEnds`. TLAPS does not prove liveness. `NoLostWakeup` is the safety half of the
  first.
- The properties that the code violates (section 5).

## 5. Where code and documents disagree

1. **A `no_journeys` row can have journeys.** `docs/finalization-and-ranking.md:33` requires zero.
   `completeRoutingWorkWithJourneys` (`search-pipeline-repository.ts:779`) inserts journeys whether or
   not the row is still open. After a lost BullMQ lock, one execution completes the row as
   `no_journeys` and the other adds its journeys; a finalization that comes later fails the whole
   search with `INVARIANT_VIOLATION`. The queue run shows that sequential redelivery cannot do it.
2. **The plan budget counts rows, not calls.** `packages/shared/src/limits.ts:31` calls it a hard cap
   on `/plan` invocations per search; `routing-work.ts:142` counts routing rows, and a job that
   BullMQ retries calls again.
3. **Cycles of one dispatcher can overlap.** `dispatcher.ts:84` says they do not. If `markRetry` or
   `markDeadLettered` throws, the cycle's promise rejects while other pool workers still publish.
   The workers that are left need not be done before their leases end, so two cycles may publish one
   event; `LeaseIsRespected` decides who records it, and the consumers see one job id.

4. **A stop somebody starts from is taken for an operator's.** `packages/catalog/README.md:130` gives
   places of the autocomplete the ownership `provider:motis`. `create`
   (`meeting-search-repository.ts:219`) inserts them without one, and the default is `manual`: "human
   override; import will not overwrite". An import that links a city to such a stop leaves the row as
   it is, and a hub that is not `catalog:transitous` makes no candidate.

More were met and have no run of their own:

- The update of the generation status in `persistCandidatesAndFanOut`
  (`search-pipeline-repository.ts:677-685`) is unguarded. After a lost lock together with an import a failed
  generation becomes succeeded (`GenerationSettles` fails under that budget). Where the recovery runs,
  neither is needed: a generation that it gives up after a day beside a handler that is still at work
  succeeds when that handler fans out (`EndedRowsStay` names this as its exception), with routing work
  for a search that the finalization may have failed meanwhile.
- `docs/architecture.md:98` stops the dispatcher before it closes what the dispatcher uses.
  `dispatcher.stop()` awaits the promise of the cycle (`dispatcher.ts:230-238`), which is settled as soon
  as one worker of the pool has rejected (line 79): publisher, Redis and database are closed under the
  others (`app.ts:253-262`). `NothingClosedInUse` counts them.
- `job-options.ts:21-22` counts on the id of a removed job being free again. A job that failed for good
  is removed when another job of its queue ends, at the earliest after `removeOnFail`'s age; until then
  the recovery's republication of its event starts nothing.
- `packages/catalog/README.md:152` lists the status of mixed versions. It is reached by complete imports,
  since unchanged cities keep their version (`import.ts:195-204`), and it hides whether searches would run.
- `docs/finalization-and-ranking.md:31` counts routing rows as participants times candidates, while
  the code, since waves were introduced, counts the candidates that have been fanned out.
- `docs/adr/0005-meeting-city-catalog.md:47` speaks of a transactional importer;
  `importCatalogArtifact` has no transaction over its batches. `CompletedImportHolds` is what a later
  import restores; between the two, readers see cities without hubs.
- `docs/search-and-results-ux.md:96` promises separators where a journey crosses midnight. A day that
  turns within the last ride has none when a walk follows it, or within a walk
  (`journey-itinerary-presentation.ts:306`). A walk into another time zone ends on either of two days:
  the next row may compare itself with the day at the walk's start. `DayTurnsAreSeparated` says where
  there is a separator all the same (`until` holds the days on which a row may count as over).
- `journey-leg-presentation.ts:56` says that the fallback to ranking legs does not invent provider
  fields. Line 77 gives every leg a `displayName`, walks too, and the timeline takes a leg with a name
  for a ride: a walk becomes a ride called Walk with changes before and after it. `ChipsAndPanelAgree`
  looks through this, `TimelineTellsTheJourney` is about the provider's itinerary only.
- `docs/domain.md:55` has `detailSource: 'provider'` for a full itinerary and `'legacy'` after a parse
  failure; a document whose itinerary cannot be read is answered as `'provider'` without one
  (`finalization-repository.ts:707`), and the panel branches on both.
- `docs/persistence-and-api.md:35` falls back to the ranking legs for corrupt provider JSON. An
  itinerary with legs, duration and ends, but for instance without `transfers`, passes the parser
  (`journey-leg-json.ts:97`) and is refused by the response schema, so the details are an error.
- `search-status-page.tsx:193` tells the reader that the last results stay on the map until the next
  search; line 111 shows the draft's origins instead as soon as one is picked.
- `docs/architecture.md:98` describes a graceful shutdown. A second signal of the other kind finds
  `stopping` set, `stop()` returns at once and the process exits with 0 in the middle of it
  (`app.ts:240-279`).
- A viewport that is found in the map's cache, is unchanged or too wide does not abort the request in
  flight (`search-map.tsx:281-292`), so the stations of another viewport may replace its own.
- The comment at `place-combobox.tsx:307` means to re-run the effect; the same text changes no state,
  so Retry sends its own request, without the debounce.

## 6. What is not modelled

Not modelled for good: parsing of requests, files and responses, configuration, logging, error
envelopes and rate limits of the API, layout and wording: pure functions or I/O without protocol. The
search statuses `cancelling`, `cancelled` and `partially-completed` exist in the schema and are written
by no code. In the catalogue, downloads, GeoNames files and the enrichment's file cache of geocode
answers are left out, and `upsertFromProvider` of `place-repository.ts`, which only tests call. Geometry
(distances, polylines, boxes) appears by the decisions it leads to. `MapScene` models the label flag of a
marker because the scene computes it; the current renderer draws no labels from it. Data races between creating
searches that share a place (the last one's name and time zone win) are listed as a hazard only.

## 7. Plan

Done in this order: `SearchPipeline` with `SearchLifecycle` (the system's core), then
`OutboxDispatch`, which delivers its jobs, with their proofs; then recovery and job contract, ranking
and wall times, the catalogue, the planner's cache and the worker process, and the browser.

Left of the models: three candidates with overlapping generations and gaps in the ordinals; the jitter
of the outbox's delay; time zones of shared places.

Of the properties that the runs check, all safety is proved; progress stays with TLC.

Next theorems: step-wise statements of progress that need no fairness (a variant that every attempt of
a search uses up), the wake-up under one lost lock together with an import, and the abstract view of the
page (`SearchPage`) as an implementation of a reader of `SearchLifecycle`.
