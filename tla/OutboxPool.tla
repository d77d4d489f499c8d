------------------------------ MODULE OutboxPool ------------------------------
(***************************************************************************)
(* The pool that publishes a claimed batch of outbox events, in time: the   *)
(* configuration is accepted only with leases that outlast the slowest       *)
(* batch, so that no other dispatcher claims an event that is still worked   *)
(* on.                                                                      *)
(*                                                                          *)
(* The clock counts from the claim.  An event takes at most PerEvent: the    *)
(* timeout of a Redis command and a margin for the update of its row.        *)
(***************************************************************************)
EXTENDS Integers, FiniteSets

CONSTANTS
  Configurations,   \* records with the fields batchSize, publishConcurrency and leaseMs
  PerEvent

ASSUME PoolAssumption ==
  /\ Configurations \subseteq
       [batchSize : Nat \ {0}, publishConcurrency : Nat \ {0}, leaseMs : Nat]
  /\ PerEvent \in Nat \ {0}

VARIABLES
  config,
  claimed,     \* how many events
  nextIndex,   \* the event that is taken next
  inWork,      \* the events a worker is busy with
  since,       \* when they were taken
  pool,        \* workers that have not thrown
  awaited,     \* the cycle waits for the pool
  clock

poolVars == <<config, claimed, nextIndex, inWork, since, pool, awaited, clock>>

\* Mistake: an incomplete last wave is not counted.
WavesRoundedDown(c) == c.batchSize \div c.publishConcurrency
Waves(c) == (c.batchSize + c.publishConcurrency - 1) \div c.publishConcurrency

MinimumLease(c) == Waves(c) * PerEvent

PoolSize(c, n) == IF n <= c.publishConcurrency THEN n ELSE c.publishConcurrency

PoolInit ==
  /\ config \in {c \in Configurations : c.leaseMs > MinimumLease(c)}
  /\ claimed \in 0 .. config.batchSize
  /\ nextIndex = 0
  /\ inWork = {}
  /\ since = [i \in 0 .. claimed - 1 |-> 0]
  /\ pool = PoolSize(config, claimed)
  /\ awaited = TRUE
  /\ clock = 0

HasFreeWorker == Cardinality(inWork) < pool

TakeNext ==
  /\ nextIndex < claimed /\ HasFreeWorker
  /\ nextIndex' = nextIndex + 1
  /\ inWork' = inWork \cup {nextIndex}
  /\ since' = [since EXCEPT ![nextIndex] = clock]
  /\ UNCHANGED <<config, claimed, pool, awaited, clock>>

Settle(i) ==
  /\ inWork' = inWork \ {i}
  /\ UNCHANGED <<config, claimed, nextIndex, since, pool, awaited, clock>>

\* The worker throws: the cycle does not wait any longer, the other workers go on.
Throw(i) ==
  /\ inWork' = inWork \ {i}
  /\ pool' = pool - 1
  /\ awaited' = FALSE
  /\ UNCHANGED <<config, claimed, nextIndex, since, clock>>

\* A free worker takes the next event before time passes.
TimePasses ==
  /\ inWork # {}
  /\ nextIndex < claimed => ~HasFreeWorker
  /\ \A i \in inWork : clock < since[i] + PerEvent
  /\ clock' = clock + 1
  /\ UNCHANGED <<config, claimed, nextIndex, inWork, since, pool, awaited>>

PoolNext ==
  \/ TakeNext
  \/ \E i \in inWork : Settle(i) \/ Throw(i)
  \/ TimePasses

PoolSpec == PoolInit /\ [][PoolNext]_poolVars

-----------------------------------------------------------------------------

\* Every variable of the pool stays in its type.
PoolTypeOK ==
  /\ config \in Configurations
  /\ claimed \in 0 .. config.batchSize
  /\ nextIndex \in 0 .. claimed
  /\ inWork \in SUBSET (0 .. nextIndex - 1)
  /\ since \in [0 .. claimed - 1 -> Nat]
  /\ pool \in 0 .. PoolSize(config, claimed)
  /\ awaited \in BOOLEAN
  /\ clock \in Nat

\* "The last event in a claimed batch cannot outlive its lease while this
\* dispatcher is still processing the batch" (schema.ts:63-70): whatever the
\* batch, the concurrency and the time each event takes, an accepted lease is
\* still running as long as the cycle waits for an event of its batch.
LeaseOutlastsBatch ==
  awaited /\ (nextIndex < claimed \/ inWork # {}) => clock < config.leaseMs
=============================================================================
