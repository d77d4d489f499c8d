--------------------------- MODULE PipelineRecovery ---------------------------
(***************************************************************************)
(* The recovery cycle of pipeline-recovery.ts: it looks for rows of the     *)
(* pipeline that have not moved for two minutes, puts the jobs of their     *)
(* published events into the queues again, and gives up the rows that have  *)
(* not moved for a day.                                                     *)
(*                                                                          *)
(* One search, its generation row, its routing work rows and its events are *)
(* modelled, with the handlers reduced to what recovery can race with: the  *)
(* start of a handler, its end, its death, and the loss of its job.  Module *)
(* SearchPipeline has the handlers in full.  The composition root of the    *)
(* worker does not create the recovery cycle: this is what the code         *)
(* guarantees where it runs.                                                *)
(***************************************************************************)
EXTENDS JobContract, FiniteSets

CONSTANT MaxFaults    \* how many jobs are lost or fail for good

ASSUME RecoveryAssumption == MaxFaults \in Nat

VARIABLES
  searchStatus,  \* status of the meeting_searches row
  rowStatus,     \* status of the generation row and of the routing work rows
  age,           \* how long ago a row was updated
  outbox,        \* whether an event is written, and published
  queued,        \* the job of an event: waiting or executing, or kept when ended
  executing,     \* events whose handler is at work: it has found its row open
  cycle,         \* the recovery cycle: where it stands, what it has read
  faults         \* faults so far

recoveryVars == <<searchStatus, rowStatus, age, outbox, queued, executing, cycle, faults>>

Generation == [row |-> "generation"]
SearchRow  == [row |-> "search"]
Finalization == [row |-> "finalization"]    \* not a row: the fourth query's answer
Rows       == {Generation} \cup WorkIds
AllRows    == {SearchRow} \cup Rows

Open     == {"pending", "running"}
Ended    == {"succeeded", "failed"}    \* exhausted work counts as failed
JobStates == {"none", "live", "done", "failed"}    \* done and failed: kept by BullMQ
CycleStages == {"stopped", "idle", "abandon", "publish"}
Resting  == [at |-> "idle", stale |-> {}, abandoned |-> {}, selected |-> {}]
Stopped  == [Resting EXCEPT !.at = "stopped"]    \* no timer: no cycle starts

RecoveryTypeOK ==
  /\ searchStatus \in {"queued", "running", "ended"}
  /\ rowStatus \in [Rows -> {"absent"} \cup Open \cup Ended]
  /\ age \in [AllRows -> {"fresh", "stale", "abandoned"}]
  /\ outbox \in [OutboxEvents -> {"none", "unpublished", "published"}]
  /\ queued \in [OutboxEvents -> JobStates]
  /\ executing \subseteq OutboxEvents
  /\ cycle \in [at : CycleStages, stale : SUBSET (AllRows \cup {Finalization}),
                abandoned : SUBSET Rows, selected : SUBSET OutboxEvents]
  /\ faults \in 0 .. MaxFaults

RecoveryInit ==
  /\ searchStatus = "queued"
  /\ rowStatus = [x \in Rows |-> "absent"]
  /\ age = [x \in AllRows |-> "fresh"]
  /\ outbox = [e \in OutboxEvents |-> IF e = KickoffRequested THEN "unpublished" ELSE "none"]
  /\ queued = [e \in OutboxEvents |-> "none"]
  /\ executing = {}
  /\ cycle = Resting
  /\ faults = 0

\* An insert that a row with the same key turns into a no-op.
WithEvents(events) ==
  [e \in OutboxEvents |-> IF e \in events /\ outbox[e] = "none" THEN "unpublished" ELSE outbox[e]]

Touched(rows) == [x \in AllRows |-> IF x \in rows THEN "fresh" ELSE age[x]]

-----------------------------------------------------------------------------
(* The queue: the dispatcher publishes, jobs get lost, fail and are removed. *)

\* queue.add is a no-op while a job with the same id is there.
Added(e) == [queued EXCEPT ![e] = IF @ = "none" THEN "live" ELSE @]

Dispatch(e) ==
  /\ outbox[e] = "unpublished" /\ MapsToJob(Row(e))
  /\ outbox' = [outbox EXCEPT ![e] = "published"]
  /\ queued' = Added(e)
  /\ UNCHANGED <<searchStatus, rowStatus, age, executing, cycle, faults>>

\* Redis loses the job, or its attempts are used up and it is kept as failed.
LoseJob(e) ==
  /\ faults < MaxFaults /\ queued[e] = "live"
  /\ \E state \in {"none", "failed"} : queued' = [queued EXCEPT ![e] = state]
  /\ faults' = faults + 1
  /\ UNCHANGED <<searchStatus, rowStatus, age, outbox, executing, cycle>>

\* removeOnComplete and removeOnFail: BullMQ removes what has been kept for long
\* enough only when another job of the queue completes, or fails for good.
RemoveKept(e) ==
  /\ queued[e] \in {"done", "failed"}
  /\ queued' = [queued EXCEPT ![e] = "none"]
  /\ UNCHANGED <<searchStatus, rowStatus, age, outbox, executing, cycle, faults>>

-----------------------------------------------------------------------------
(* Handlers.                                                                *)

RowOf(e) ==
  CASE e = CandidatesRequested -> Generation
    [] OTHER                   -> e[2]
HasRow(e) == e = CandidatesRequested \/ \E w \in WorkIds : e = RoutingRequested(w)

\* A job that its consumer accepts starts, and claims its row.
MayStart(e) == queued[e] = "live" /\ IsAccepted(Job(Row(e)))

StartJob(e) ==
  /\ HasRow(e) /\ e \notin executing /\ MayStart(e)
  /\ rowStatus[RowOf(e)] \in Open
  /\ executing' = executing \cup {e}
  /\ IF rowStatus[RowOf(e)] = "pending"
     THEN /\ rowStatus' = [rowStatus EXCEPT ![RowOf(e)] = "running"]
          /\ age' = Touched({RowOf(e)})
     ELSE UNCHANGED <<rowStatus, age>>
  /\ UNCHANGED <<searchStatus, outbox, queued, cycle, faults>>

\* A job that has ended is kept for a while.
Handled(e) ==
  /\ executing' = executing \ {e}
  /\ queued' = [queued EXCEPT ![e] = IF @ = "live" THEN "done" ELSE @]

\* A handler that cannot claim its row, for it has ended, returns at once.
FindsRowEnded(e) ==
  /\ HasRow(e) /\ e \notin executing /\ MayStart(e)
  /\ rowStatus[RowOf(e)] \in Ended
  /\ Handled(e)
  /\ UNCHANGED <<searchStatus, rowStatus, age, outbox, cycle, faults>>

DieInJob(e) ==
  /\ faults < MaxFaults /\ e \in executing
  /\ executing' = executing \ {e}
  /\ faults' = faults + 1
  /\ UNCHANGED <<searchStatus, rowStatus, age, outbox, queued, cycle>>

\* Kickoff and finalization are one transaction each.
HandleKickoff ==
  /\ MayStart(KickoffRequested)
  /\ Handled(KickoffRequested)
  /\ IF searchStatus = "queued"
     THEN /\ searchStatus' = "running"
          /\ rowStatus' = [rowStatus EXCEPT ![Generation] = "pending"]
          /\ age' = Touched({SearchRow, Generation})
          /\ outbox' = WithEvents({CandidatesRequested})
     ELSE UNCHANGED <<searchStatus, rowStatus, age, outbox>>
  /\ UNCHANGED <<cycle, faults>>

\* The rows after persistCandidatesAndFanOut: the update of the generation does
\* not ask for its status, so that one that was given up meanwhile succeeds.
FannedOut(found) ==
  [[x \in Rows |->
      IF x \in found /\ rowStatus[x] = "absent" THEN "pending" ELSE rowStatus[x]]
    EXCEPT ![Generation] = "succeeded"]

\* Without candidates nothing but this event asks for the finalization.
FanOutEvents(rows) ==
  IF \A w \in WorkIds : rows[w] = "absent" THEN {GenerationFinished}
  ELSE {RoutingRequested(w) : w \in {v \in WorkIds : rows[v] = "pending"}}

FanOut ==
  \E found \in {{}, WorkIds} :
    /\ rowStatus' = FannedOut(found)
    /\ outbox' = WithEvents(FanOutEvents(FannedOut(found)))
    /\ age' = Touched({Generation} \cup found)

\* completeCandidateGeneration fails an open row, and writes its event whether
\* the row was open or not.
FailGeneration ==
  /\ IF rowStatus[Generation] \in Open
     THEN /\ rowStatus' = [rowStatus EXCEPT ![Generation] = "failed"]
          /\ age' = Touched({Generation})
     ELSE UNCHANGED <<rowStatus, age>>
  /\ outbox' = WithEvents({GenerationFinished})

EndCandidates ==
  /\ CandidatesRequested \in executing
  /\ Handled(CandidatesRequested)
  /\ FanOut \/ FailGeneration
  /\ UNCHANGED <<searchStatus, cycle, faults>>

EndRouting(w) ==
  /\ RoutingRequested(w) \in executing
  /\ Handled(RoutingRequested(w))
  /\ IF rowStatus[w] \in Open
     THEN /\ \E status \in Ended : rowStatus' = [rowStatus EXCEPT ![w] = status]
          /\ age' = Touched({w})
     ELSE UNCHANGED <<rowStatus, age>>
  /\ outbox' = WithEvents({WorkFinished(w)})
  /\ UNCHANGED <<searchStatus, cycle, faults>>

\* finalizeMeetingSearch ends the search, or is not ready yet.  A generation
\* without candidates has no other rows.
AllRowsEnded ==
  \/ rowStatus[Generation] = "failed"
  \/ \A x \in Rows : rowStatus[x] \notin Open

HandleFinalization(e) ==
  /\ e \in FinalizationEvents /\ MayStart(e)
  /\ Handled(e)
  /\ IF searchStatus = "running" /\ AllRowsEnded
     THEN searchStatus' = "ended" /\ age' = Touched({SearchRow})
     ELSE UNCHANGED <<searchStatus, age>>
  /\ UNCHANGED <<rowStatus, outbox, cycle, faults>>

GrowOld(x) ==
  /\ x \in Rows => rowStatus[x] \in Open
  /\ x = SearchRow => searchStatus # "ended"
  /\ \/ age[x] = "fresh" /\ age' = [age EXCEPT ![x] = "stale"]
     \/ age[x] = "stale" /\ x \in Rows /\ age' = [age EXCEPT ![x] = "abandoned"]
  /\ UNCHANGED <<searchStatus, rowStatus, outbox, queued, executing, cycle, faults>>

-----------------------------------------------------------------------------
(* recoverOnce: four queries, the rows to give up, the events to publish.   *)

IsStale(x) == age[x] # "fresh"

\* runCycle starts a cycle only when none is in flight.
\* Every row is in the answer of one query and is treated for itself, so that
\* what happens between the queries may as well happen after the last.
ListStale ==
  /\ cycle.at = "idle"
  /\ LET rows == {x \in Rows : rowStatus[x] \in Open /\ IsStale(x)}
         queuedSearch == {x \in {SearchRow} : searchStatus = "queued" /\ IsStale(x)}
         finalization == {x \in {Finalization} :
                            /\ searchStatus = "running" /\ IsStale(SearchRow)
                            /\ \E e \in FinalizationEvents : outbox[e] = "published"}
     IN cycle' = [Resting EXCEPT !.at = "abandon",
                               !.stale = rows \cup queuedSearch \cup finalization,
                               !.abandoned = {x \in rows : age[x] = "abandoned"}]
  /\ UNCHANGED <<searchStatus, rowStatus, age, outbox, queued, executing, faults>>

\* Mistake: the update does not look at the row's status.
GiveUpBlindly(x) ==
  /\ rowStatus' = [rowStatus EXCEPT ![x] = "failed"]
  /\ age' = Touched({x})
  /\ outbox' = WithEvents({IF x = Generation THEN GenerationFinished ELSE WorkFinished(x)})

\* markRoutingWorkExhausted is to a row of routing work what
\* completeCandidateGeneration is to the generation.
GiveUp(x) ==
  /\ IF rowStatus[x] \in Open
     THEN /\ rowStatus' = [rowStatus EXCEPT ![x] = "failed"]
          /\ age' = Touched({x})
     ELSE UNCHANGED <<rowStatus, age>>
  /\ outbox' = WithEvents({IF x = Generation THEN GenerationFinished ELSE WorkFinished(x)})

Abandon(x) ==
  /\ cycle.at = "abandon" /\ x \in cycle.abandoned
  /\ GiveUp(x)
  /\ cycle' = [cycle EXCEPT !.abandoned = @ \ {x}, !.stale = @ \ {x}]
  /\ UNCHANGED <<searchStatus, queued, executing, faults>>

\* Mistake: the finalization events are left out.
IsSelectedWithRow(e) ==
  /\ outbox[e] = "published"
  /\ \/ e = KickoffRequested /\ SearchRow \in cycle.stale
     \/ HasRow(e) /\ RowOf(e) \in cycle.stale

\* selectPipelineRecoveryEvents.
IsSelected(e) ==
  /\ outbox[e] = "published"
  /\ \/ e = KickoffRequested /\ SearchRow \in cycle.stale
     \/ HasRow(e) /\ RowOf(e) \in cycle.stale
     \/ /\ e \in FinalizationEvents
        /\ Finalization \in cycle.stale

SelectEvents ==
  /\ cycle.at = "abandon" /\ cycle.abandoned = {}
  /\ cycle' = [cycle EXCEPT !.at = "publish",
                            !.selected = {e \in OutboxEvents : IsSelected(e)}]
  /\ UNCHANGED <<searchStatus, rowStatus, age, outbox, queued, executing, faults>>

Republish(e) ==
  /\ cycle.at = "publish" /\ e \in cycle.selected
  /\ queued' = IF MapsToJob(Row(e)) THEN Added(e) ELSE queued
  /\ cycle' = [cycle EXCEPT !.selected = @ \ {e}]
  /\ UNCHANGED <<searchStatus, rowStatus, age, outbox, executing, faults>>

\* The publisher fails for one event: it is counted, and the cycle goes on.
RepublishFails(e) ==
  /\ cycle.at = "publish" /\ e \in cycle.selected
  /\ faults < MaxFaults
  /\ faults' = faults + 1
  /\ cycle' = [cycle EXCEPT !.selected = @ \ {e}]
  /\ UNCHANGED <<searchStatus, rowStatus, age, outbox, queued, executing>>

EndCycle ==
  /\ cycle.at = "publish" /\ cycle.selected = {}
  /\ cycle' = Resting
  /\ UNCHANGED <<searchStatus, rowStatus, age, outbox, queued, executing, faults>>

\* A query or a transaction rejects: the cycle is logged and over.
CycleFails ==
  /\ cycle.at \in {"abandon", "publish"} /\ faults < MaxFaults
  /\ faults' = faults + 1
  /\ cycle' = Resting
  /\ UNCHANGED <<searchStatus, rowStatus, age, outbox, queued, executing>>

-----------------------------------------------------------------------------
HandleJob(e) ==
  \/ e = KickoffRequested /\ HandleKickoff
  \/ e = CandidatesRequested /\ EndCandidates
  \/ \E w \in WorkIds : e = RoutingRequested(w) /\ EndRouting(w)
  \/ HandleFinalization(e)

RecoverySteps ==
  \/ ListStale \/ SelectEvents \/ EndCycle
  \/ \E x \in Rows : Abandon(x)
  \/ \E e \in OutboxEvents : Republish(e)

RecoveryNext ==
  \/ \E e \in OutboxEvents :
       Dispatch(e) \/ LoseJob(e) \/ RemoveKept(e) \/ StartJob(e) \/ FindsRowEnded(e)
         \/ DieInJob(e) \/ RepublishFails(e) \/ HandleJob(e)
  \/ \E x \in AllRows : GrowOld(x)
  \/ RecoverySteps
  \/ CycleFails

\* The dispatcher, the consumers and the recovery timer keep running, and time
\* passes.  That a kept job is removed depends on other jobs, and is not assumed.
RecoveryFairness ==
  /\ WF_recoveryVars(\E e \in OutboxEvents : Dispatch(e))
  /\ WF_recoveryVars(\E e \in OutboxEvents : StartJob(e) \/ FindsRowEnded(e) \/ HandleJob(e))
  /\ WF_recoveryVars(\E x \in AllRows : GrowOld(x))
  /\ WF_recoveryVars(RecoverySteps)

RecoverySpec == RecoveryInit /\ [][RecoveryNext]_recoveryVars /\ RecoveryFairness

-----------------------------------------------------------------------------
(* Properties.                                                              *)

\* Whatever the repositories write to the outbox maps to a job, and the
\* consumer of that job's queue accepts it: two files that have to agree on
\* names, versions, dedupe keys and fields (map-event.ts, job-validation.ts).
EveryEventHasItsConsumer ==
  \A e \in OutboxEvents : outbox[e] # "none" => MapsToJob(Row(e)) /\ IsAccepted(Job(Row(e)))

\* A row that has ended stays as it is, whatever a recovery cycle still believes
\* of it from queries it made earlier.  There is one exception: a generation that
\* was given up succeeds after all when a handler was still at work on it
\* (pipeline-recovery.ts:108-137, search-pipeline-repository.ts:677-685).
EndedRowsStay ==
  [][\A x \in Rows :
       rowStatus[x] \in Ended /\ rowStatus'[x] # rowStatus[x] =>
         /\ x = Generation /\ CandidatesRequested \in executing
         /\ rowStatus[x] = "failed" /\ rowStatus'[x] = "succeeded"]_recoveryVars

\* Where the recovery cycle runs, a search ends although jobs get lost, use up
\* their attempts or die at any point (pipeline-recovery.ts:100-216).  A job that
\* failed for good stands in the way of its own recovery while BullMQ keeps it:
\* the search ends if it is not kept for ever.  One that completed never does.
RecoveredSearchEnds ==
  (\A e \in OutboxEvents : []<>(queued[e] # "failed")) => <>(searchStatus = "ended")
=============================================================================
