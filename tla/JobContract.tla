----------------------------- MODULE JobContract -----------------------------
(***************************************************************************)
(* The contract between the rows of the outbox and the jobs of the queues:  *)
(* which events the repositories write, how the dispatcher maps an event to *)
(* a job, and what each consumer accepts.                                   *)
(*                                                                          *)
(* Identifiers are model values.  A dedupe key "kind:id" is a pair.  Ids of *)
(* searches and of routing work are UUIDs, and IsUuid stands for that test. *)
(***************************************************************************)
EXTENDS Naturals

CONSTANTS
  Search,    \* the id of the search
  WorkIds    \* the ids of its routing work rows

NoWork  == [work |-> "none"]
ASSUME JobContractAssumption == NoWork \notin WorkIds

IsUuid(id) == id \in {Search} \cup WorkIds

EventTypes == {"meeting-search.requested", "meeting-search.candidates-requested",
               "routing.requested", "meeting-search.finalization-requested"}

SchemaVersion == 1

WrittenRow(type, kind, id, work) ==
  [aggregateType |-> "meeting-search", aggregateId |-> Search, eventType |-> type,
   schemaVersion |-> SchemaVersion, dedupeKey |-> <<kind, id>>,
   searchId |-> Search, routingWorkId |-> work]

\* The five inserts into outbox_events: which events there are ...
KickoffRequested    == <<"requested">>
CandidatesRequested == <<"candidates-requested">>
GenerationFinished  == <<"generation-finished">>
RoutingRequested(w) == <<"routing-requested", w>>
WorkFinished(w)     == <<"work-finished", w>>

FinalizationEvents == {GenerationFinished} \cup {WorkFinished(w) : w \in WorkIds}
OutboxEvents == {KickoffRequested, CandidatesRequested} \cup FinalizationEvents
                  \cup {RoutingRequested(w) : w \in WorkIds}

\* ... and the row each of them writes.
Row(e) ==
  CASE e = KickoffRequested ->
         WrittenRow("meeting-search.requested", "default", Search, NoWork)
    [] e = CandidatesRequested ->
         WrittenRow("meeting-search.candidates-requested", "default", Search, NoWork)
    [] e = GenerationFinished ->
         WrittenRow("meeting-search.finalization-requested", "candidate-generation", Search, NoWork)
    [] e[1] = "routing-requested" ->
         WrittenRow("routing.requested", "id", e[2], e[2])
    [] e[1] = "work-finished" ->
         WrittenRow("meeting-search.finalization-requested", "routing-work", e[2], NoWork)

-----------------------------------------------------------------------------
(* mapOutboxEventToJob.                                                     *)

QueueOf(type) ==
  CASE type = "meeting-search.requested"              -> "meeting-searches"
    [] type = "meeting-search.candidates-requested"   -> "meeting-search-candidates"
    [] type = "routing.requested"                     -> "meeting-search-routing"
    [] type = "meeting-search.finalization-requested" -> "meeting-search-finalization"

\* Mistake: only the events of routing work may ask for finalization.
PayloadFitsWork(event) ==
  /\ event.searchId = event.aggregateId
  /\ event.eventType = "routing.requested" =>
       /\ event.routingWorkId # NoWork
       /\ event.dedupeKey = <<"id", event.routingWorkId>>
  /\ event.eventType = "meeting-search.finalization-requested" =>
       event.dedupeKey[1] = "routing-work"

PayloadFits(event) ==
  /\ event.searchId = event.aggregateId
  /\ event.eventType = "routing.requested" =>
       /\ event.routingWorkId # NoWork
       /\ event.dedupeKey = <<"id", event.routingWorkId>>
  /\ event.eventType = "meeting-search.finalization-requested" =>
       event.dedupeKey[1] \in {"candidate-generation", "routing-work"}

MapsToJob(event) ==
  /\ event.aggregateType = "meeting-search"
  /\ event.eventType \in EventTypes
  /\ event.schemaVersion = SchemaVersion
  /\ PayloadFits(event)

\* The job has the name of the event; the payload is copied field by field.
Job(event) ==
  [queue |-> QueueOf(event.eventType), name |-> event.eventType,
   data |-> IF event.eventType = "routing.requested"
            THEN [schemaVersion |-> SchemaVersion, searchId |-> event.searchId,
                  routingWorkId |-> event.routingWorkId]
            ELSE [schemaVersion |-> SchemaVersion, searchId |-> event.searchId]]

-----------------------------------------------------------------------------
(* The checks of the consumers.                                             *)

IsSearchData(data) ==
  /\ data.schemaVersion = SchemaVersion
  /\ IsUuid(data.searchId)
  /\ DOMAIN data = {"schemaVersion", "searchId"}

IsRoutingData(data) ==
  /\ data.schemaVersion = SchemaVersion
  /\ IsUuid(data.searchId)
  /\ DOMAIN data = {"schemaVersion", "searchId", "routingWorkId"}
  /\ IsUuid(data.routingWorkId)

AcceptsKickoff(job)      == job.name = "meeting-search.requested" /\ IsSearchData(job.data)
AcceptsCandidates(job)   == job.name = "meeting-search.candidates-requested" /\ IsSearchData(job.data)
AcceptsRouting(job)      == job.name = "routing.requested" /\ IsRoutingData(job.data)
AcceptsFinalization(job) == job.name = "meeting-search.finalization-requested" /\ IsSearchData(job.data)

IsAccepted(job) ==
  CASE job.queue = "meeting-searches"            -> AcceptsKickoff(job)
    [] job.queue = "meeting-search-candidates"   -> AcceptsCandidates(job)
    [] job.queue = "meeting-search-routing"      -> AcceptsRouting(job)
    [] job.queue = "meeting-search-finalization" -> AcceptsFinalization(job)
=============================================================================
