---------------------------- MODULE WorkerProcess ----------------------------
(***************************************************************************)
(* The life of one worker process, from start() to its exit: the consumers  *)
(* of the queues, the loop of the outbox dispatcher, the shutdown that a    *)
(* signal starts, and the resources the shutdown closes.                    *)
(*                                                                          *)
(* What the handlers do is the subject of SearchPipeline; here a handler is *)
(* a job in hand that may take any time, or never end.                      *)
(***************************************************************************)
EXTENDS Naturals, Sequences, FiniteSets

CONSTANTS
  Queues,    \* the queues with a consumer
  Signals,   \* the signals the process listens to, each once
  PublishConcurrency,  \* events a cycle of the dispatcher publishes at a time
  MaxRejects           \* bound: cycles of the dispatcher that reject

\* The configuration accepts no pool without workers (schema.ts:163).
ASSUME WorkerAssumption == PublishConcurrency \in Nat \ {0} /\ MaxRejects \in Nat

VARIABLES
  consumer,      \* what the close handle of a queue's BullMQ Worker has come to
  inHand,        \* queues whose consumer executes a job
  dispatchLoop,  \* the dispatcher's loop
  pool,          \* workers of mapPool that publish for the cycle under way
  leftover,      \* workers of rejected cycles that still publish
  rejects,       \* cycles that were rejected
  shutdown,      \* how far stop() has come
  closed,        \* how many of the resources stop() has closed
  received,      \* signals received
  exitCode       \* "none" while the process lives

dispatcherVars == <<dispatchLoop, pool, leftover, rejects>>
workerVars == <<consumer, inHand, dispatcherVars, shutdown, closed, received, exitCode>>

\* The order in which stop() closes what handlers and dispatcher use.
ClosingOrder == <<"publisher", "publisherRedis", "consumerRedis", "planCacheRedis", "database">>
MayReject    == {"publisher", "database"}

WorkerTypeOK ==
  /\ consumer \in [Queues -> {"running", "closing", "closed", "timed_out", "rejected"}]
  /\ inHand \subseteq Queues
  /\ dispatchLoop \in {"cycle", "sleep", "ended"}
  /\ pool \in 0 .. PublishConcurrency /\ leftover \in Nat /\ rejects \in 0 .. MaxRejects
  /\ shutdown \in {"no", "consumers", "dispatcher", "resources", "closed", "rejected"}
  /\ closed \in 0 .. Len(ClosingOrder)
  /\ received \subseteq Signals
  /\ exitCode \in {"none", "0", "1"}

\* start(): the dispatcher's first cycle begins at once.
WorkerInit ==
  /\ consumer = [q \in Queues |-> "running"]
  /\ inHand = {}
  /\ dispatchLoop = "cycle" /\ pool \in 0 .. PublishConcurrency
  /\ leftover = 0 /\ rejects = 0
  /\ shutdown = "no"
  /\ closed = 0
  /\ received = {}
  /\ exitCode = "none"

Alive == exitCode = "none"

-----------------------------------------------------------------------------
(* Consumers.                                                               *)

TakeJob(q) ==
  /\ Alive /\ consumer[q] = "running" /\ q \notin inHand
  /\ inHand' = inHand \cup {q}
  /\ UNCHANGED <<consumer, dispatcherVars, shutdown, closed, received, exitCode>>

EndJob(q) ==
  /\ Alive /\ q \in inHand
  /\ inHand' = inHand \ {q}
  /\ UNCHANGED <<consumer, dispatcherVars, shutdown, closed, received, exitCode>>

\* Mistake: the close waits for its job, however long.
ConsumerClosesPatiently(q) ==
  /\ Alive /\ consumer[q] = "closing" /\ q \notin inHand
  /\ \E end \in {"closed", "rejected"} : consumer' = [consumer EXCEPT ![q] = end]
  /\ UNCHANGED <<inHand, dispatcherVars, shutdown, closed, received, exitCode>>

\* worker.close() resolves once no job is in hand; it may fail, and it is
\* given up after shutdownTimeoutMs.
ConsumerCloses(q) ==
  /\ Alive /\ consumer[q] = "closing"
  /\ \/ /\ q \notin inHand
        /\ consumer' = [consumer EXCEPT ![q] = "closed"]
     \/ consumer' = [consumer EXCEPT ![q] = "timed_out"]
     \/ consumer' = [consumer EXCEPT ![q] = "rejected"]
  /\ UNCHANGED <<inHand, dispatcherVars, shutdown, closed, received, exitCode>>

-----------------------------------------------------------------------------
(* The dispatcher's loop: a cycle, a sleep, and a look at the stop flag      *)
(* after each; stop() also aborts the sleep.  A cycle claims what is due and  *)
(* gives it to the workers of a pool; one of them that rejects, because the   *)
(* database does not answer, rejects the cycle while the others publish on.  *)

\* dispatcher.stop() has been called.
DispatcherStops == shutdown \in {"dispatcher", "resources", "closed"}

AfterCycle == dispatchLoop' = IF DispatcherStops THEN "ended" ELSE "sleep"

PoolWorkerEnds ==
  /\ Alive /\ dispatchLoop = "cycle" /\ pool > 0
  /\ pool' = pool - 1
  /\ UNCHANGED <<consumer, inHand, dispatchLoop, leftover, rejects, shutdown, closed, received, exitCode>>

\* Every worker has come to an end, or the claim gave none anything to do.
CycleEnds ==
  /\ Alive /\ dispatchLoop = "cycle" /\ pool = 0
  /\ AfterCycle
  /\ UNCHANGED <<consumer, inHand, pool, leftover, rejects, shutdown, closed, received, exitCode>>

\* Promise.all waits for no other worker once one has rejected.
CycleRejects ==
  /\ Alive /\ dispatchLoop = "cycle" /\ pool > 0 /\ rejects < MaxRejects
  /\ pool' = 0 /\ leftover' = leftover + (pool - 1) /\ rejects' = rejects + 1
  /\ AfterCycle
  /\ UNCHANGED <<consumer, inHand, shutdown, closed, received, exitCode>>

\* Nobody awaits a worker that is left behind, and it may hang.
LeftoverEnds ==
  /\ Alive /\ leftover > 0
  /\ leftover' = leftover - 1
  /\ UNCHANGED <<consumer, inHand, dispatchLoop, pool, rejects, shutdown, closed, received, exitCode>>

SleepEnds ==
  /\ Alive /\ dispatchLoop = "sleep"
  /\ \/ /\ DispatcherStops
        /\ dispatchLoop' = "ended"
        /\ UNCHANGED pool
     \/ /\ ~DispatcherStops
        /\ dispatchLoop' = "cycle" /\ pool' \in 0 .. PublishConcurrency
  /\ UNCHANGED <<consumer, inHand, leftover, rejects, shutdown, closed, received, exitCode>>

-----------------------------------------------------------------------------
(* Shutdown.                                                                *)

\* A signal calls stop().  A second call of stop() returns at once, and the
\* process exits with 0.
Signal(s) ==
  /\ Alive /\ s \notin received
  /\ received' = received \cup {s}
  /\ \/ /\ shutdown = "no"
        /\ shutdown' = "consumers"
        /\ consumer' = [q \in Queues |-> "closing"]
        /\ UNCHANGED exitCode
     \/ /\ shutdown # "no"
        /\ exitCode' = "0"
        /\ UNCHANGED <<shutdown, consumer>>
  /\ UNCHANGED <<inHand, dispatcherVars, closed>>

\* Mistake: the first consumer that has closed is enough (Promise.race).
FirstConsumerClosed ==
  /\ Alive /\ shutdown = "consumers"
  /\ \E q \in Queues : consumer[q] \in {"closed", "timed_out"}
  /\ shutdown' = "dispatcher"
  /\ UNCHANGED <<consumer, inHand, dispatcherVars, closed, received, exitCode>>

\* Promise.all: one rejected close rejects stop(), else all are waited for.
ConsumersClosed ==
  /\ Alive /\ shutdown = "consumers"
  /\ \/ /\ \E q \in Queues : consumer[q] = "rejected"
        /\ shutdown' = "rejected"
     \/ /\ \A q \in Queues : consumer[q] \in {"closed", "timed_out"}
        /\ shutdown' = "dispatcher"
  /\ UNCHANGED <<consumer, inHand, dispatcherVars, closed, received, exitCode>>

DispatcherStopped ==
  /\ Alive /\ shutdown = "dispatcher" /\ dispatchLoop = "ended"
  /\ shutdown' = "resources"
  /\ UNCHANGED <<consumer, inHand, dispatcherVars, closed, received, exitCode>>

CloseResource ==
  /\ Alive /\ shutdown = "resources"
  /\ \/ /\ closed < Len(ClosingOrder)
        /\ closed' = closed + 1
        /\ UNCHANGED shutdown
     \/ /\ closed < Len(ClosingOrder) /\ ClosingOrder[closed + 1] \in MayReject
        /\ shutdown' = "rejected"
        /\ UNCHANGED closed
     \/ /\ closed = Len(ClosingOrder)
        /\ shutdown' = "closed"
        /\ UNCHANGED closed
  /\ UNCHANGED <<consumer, inHand, dispatcherVars, received, exitCode>>

Exit ==
  /\ Alive /\ shutdown \in {"closed", "rejected"}
  /\ exitCode' = IF shutdown = "closed" THEN "0" ELSE "1"
  /\ UNCHANGED <<consumer, inHand, dispatcherVars, shutdown, closed, received>>

-----------------------------------------------------------------------------
WorkerNext ==
  \/ \E q \in Queues : TakeJob(q) \/ EndJob(q) \/ ConsumerCloses(q)
  \/ PoolWorkerEnds \/ CycleEnds \/ CycleRejects \/ LeftoverEnds \/ SleepEnds
  \/ \E s \in Signals : Signal(s)
  \/ ConsumersClosed \/ DispatcherStopped \/ CloseResource \/ Exit

\* Timers fire, closing a resource ends, and so does what a worker of the pool
\* does for a cycle, whose commands have timeouts.  A handler may hang, and a worker
\* that a rejected cycle left behind, whose connections may be gone, too.
WorkerFairness ==
  /\ \A q \in Queues : WF_workerVars(ConsumerCloses(q))
  /\ WF_workerVars(PoolWorkerEnds \/ CycleEnds \/ CycleRejects \/ SleepEnds)
  /\ WF_workerVars(ConsumersClosed \/ DispatcherStopped \/ CloseResource \/ Exit)

WorkerSpec == WorkerInit /\ [][WorkerNext]_workerVars /\ WorkerFairness

-----------------------------------------------------------------------------
(* Properties.                                                              *)

\* While the process lives, resources are closed under those users only that the
\* shutdown does not wait for: handlers whose consumer ran into the timeout, and the
\* other workers of dispatcher cycles that were rejected, at most one less than
\* the pool has for every such cycle.  A cycle under way is waited for with all its
\* workers (app.ts:240-262, dispatcher.ts:59-82 and 230-244; docs/architecture.md:98
\* says that the dispatcher is stopped before anything closes).
NothingClosedInUse ==
  Alive /\ closed > 0 =>
    /\ \A q \in inHand : consumer[q] = "timed_out"
    /\ dispatchLoop = "ended" /\ pool = 0
    /\ leftover <= rejects * (PublishConcurrency - 1)

\* A signal ends the process, also when a handler hangs, whose consumer's close has a
\* timeout (worker-close.ts:33-47), or a worker that a rejected cycle left behind,
\* which nothing waits for.
SignalEndsProcess == received # {} ~> ~Alive
=============================================================================
