---------------------------- MODULE OutboxDispatch ----------------------------
(***************************************************************************)
(* The transactional outbox and the dispatchers that publish it to BullMQ.  *)
(*                                                                          *)
(* A cycle of a dispatcher leases a batch of due events under a fresh       *)
(* token, and a pool of workers adds a job for each and then records the    *)
(* outcome on the row, if the row still carries the token.  Redis and the   *)
(* database may fail, or do their work and lose the answer; a process may   *)
(* die; a cycle may outlive its leases.                                     *)
(*                                                                          *)
(* Times are remaining ticks: a lease or a retry delay of 0 is over.        *)
(***************************************************************************)
EXTENDS Naturals, FiniteSets

CONSTANTS
  Events,       \* the outbox events
  Poison,       \* those that cannot be mapped to a job
  Dispatchers,  \* worker processes
  Tokens,       \* lease tokens (enough for one to be unused)
  NoToken,
  BatchSize,    \* OUTBOX batchSize
  Concurrency,  \* publishConcurrency
  LeaseTicks,   \* leaseMs
  BaseDelay,    \* retryBaseMs
  MaxDelay,     \* retryMaxMs
  LeaseCovers,  \* leases outlast every awaited batch (OutboxPool: LeaseOutlastsBatch)
  Budget        \* how many faults of each kind a behaviour may contain

FaultKinds == {"redis", "database", "crash"}

ASSUME OutboxAssumption ==
  /\ IsFiniteSet(Events) /\ Poison \subseteq Events
  /\ NoToken \notin Tokens
  /\ BatchSize \in Nat \ {0} /\ Concurrency \in Nat \ {0}
  /\ LeaseTicks \in Nat \ {0}
  /\ BaseDelay \in Nat /\ MaxDelay \in Nat
  /\ LeaseCovers \in BOOLEAN
  /\ Budget \in [FaultKinds -> Nat]

VARIABLES
  verdict,   \* of an event: open, published or dead
  failures,  \* failure_count
  wait,      \* ticks until next_attempt_at
  token,     \* lease_token
  lease,     \* ticks until leased_until
  enqueued,  \* events a job was ever added for
  item,      \* what the cycle of a token is doing for an event
  seen,      \* the failure count it read with its lease
  workers,   \* live pool workers of the cycle
  owner,     \* the dispatcher that runs the cycle
  awaiting,  \* the cycle a dispatcher's loop waits for
  budget

rowVars   == <<verdict, failures, wait, token, lease>>
cycleVars == <<seen, owner>>
vars == <<verdict, failures, wait, token, lease, enqueued,
          item, seen, workers, owner, awaiting, budget>>

Phases == {"none", "todo", "add", "mark", "retry", "dead"}
Busy   == {"add", "mark", "retry", "dead"}

Init ==
  /\ verdict = [e \in Events |-> "open"]
  /\ failures = [e \in Events |-> 0]
  /\ wait = [e \in Events |-> 0]
  /\ token = [e \in Events |-> NoToken]
  /\ lease = [e \in Events |-> 0]
  /\ enqueued = {}
  /\ item = [t \in Tokens |-> [e \in Events |-> "none"]]
  /\ seen = [t \in Tokens |-> [e \in Events |-> 0]]
  /\ workers = [t \in Tokens |-> 0]
  /\ owner = [t \in Tokens |-> "nobody"]
  /\ awaiting = [d \in Dispatchers |-> NoToken]
  /\ budget = Budget

-----------------------------------------------------------------------------
(* Cycles and their workers.                                                *)

AtMost(m, n) == IF m <= n THEN m ELSE n

Spend(kind) ==
  /\ budget[kind] > 0
  /\ budget' = [budget EXCEPT ![kind] = @ - 1]

BusyItems(t) == {e \in Events : item[t][e] \in Busy}
InFlight(t)  == \E e \in Events : item[t][e] # "none"
Awaited(t)   == \E d \in Dispatchers : awaiting[d] = t
Unused(t)    == ~InFlight(t) /\ \A e \in Events : token[e] # t

\* Mistake: the query does not look at leased_until.
DueLeasedOrNot == {e \in Events : verdict[e] = "open" /\ wait[e] = 0}
\* Mistake: only a released lease may be claimed, not an expired one.
DueReleased == {e \in Events : verdict[e] = "open" /\ wait[e] = 0 /\ token[e] = NoToken}
Due == {e \in Events : verdict[e] = "open" /\ wait[e] = 0 /\ lease[e] = 0}

\* The rows of a claim: due events that no other transaction has locked.
Lease(d, t, batch) ==
  /\ awaiting[d] = NoToken /\ Unused(t)
  /\ batch # {} /\ batch \subseteq Due /\ Cardinality(batch) <= BatchSize
  /\ token' = [e \in Events |-> IF e \in batch THEN t ELSE token[e]]
  /\ lease' = [e \in Events |-> IF e \in batch THEN LeaseTicks ELSE lease[e]]
  /\ UNCHANGED <<verdict, failures, wait, enqueued>>

\* claimDue, and the start of the pool
Claim(d, t, batch) ==
  /\ Lease(d, t, batch)
  /\ item' = [item EXCEPT ![t] = [e \in Events |-> IF e \in batch THEN "todo" ELSE "none"]]
  /\ seen' = [seen EXCEPT ![t] = [e \in Events |-> IF e \in batch THEN failures[e] ELSE 0]]
  /\ workers' = [workers EXCEPT ![t] = AtMost(Concurrency, Cardinality(batch))]
  /\ owner' = [owner EXCEPT ![t] = d]
  /\ awaiting' = [awaiting EXCEPT ![d] = t]
  /\ UNCHANGED budget

\* The claim commits, and the dispatcher does not learn of it.
ClaimIsLost(d, t, batch) ==
  /\ Lease(d, t, batch)
  /\ Spend("database")
  /\ UNCHANGED <<item, cycleVars, workers, awaiting>>

\* A free worker of the pool takes the next event; an event that cannot be
\* mapped is dead-lettered without touching the queue.
Take(t, e) ==
  /\ item[t][e] = "todo"
  /\ Cardinality(BusyItems(t)) < workers[t]
  /\ item' = [item EXCEPT ![t][e] = IF e \in Poison THEN "dead" ELSE "add"]
  /\ UNCHANGED <<rowVars, enqueued, cycleVars, workers, awaiting, budget>>

\* What is left of a cycle when e is done and n workers live: without workers
\* the events nobody took are given up, and so is their lease.
ItemsLeft(t, e, n) ==
  [x \in Events |-> IF x = e \/ (n = 0 /\ item[t][x] = "todo") THEN "none" ELSE item[t][x]]

LoopContinues(t, condition) ==
  awaiting' = [d \in Dispatchers |->
    IF awaiting[d] = t /\ condition THEN NoToken ELSE awaiting[d]]

\* The worker is done with e, and the loop goes on after the last event.
Finish(t, e) ==
  /\ item' = [item EXCEPT ![t] = ItemsLeft(t, e, workers[t])]
  /\ LoopContinues(t, \A x \in Events : item'[t][x] = "none")
  /\ UNCHANGED <<cycleVars, workers>>

\* The worker throws: Promise.all rejects, so the loop goes on at once, and the
\* other workers of the pool carry on behind it.
Reject(t, e) ==
  /\ workers' = [workers EXCEPT ![t] = @ - 1]
  /\ item' = [item EXCEPT ![t] = ItemsLeft(t, e, workers[t] - 1)]
  /\ LoopContinues(t, TRUE)
  /\ UNCHANGED cycleVars

-----------------------------------------------------------------------------
(* Publishing one event.                                                    *)

\* queue.add: a retained job with the same id is left as it is.
Add(t, e) ==
  /\ item[t][e] = "add"
  /\ enqueued' = enqueued \cup {e}
  /\ item' = [item EXCEPT ![t][e] = "mark"]
  /\ UNCHANGED <<rowVars, cycleVars, workers, awaiting, budget>>

\* Mistake: a timeout of queue.add is taken for success.
AddFailsUnnoticed(t, e) ==
  /\ item[t][e] = "add"
  /\ Spend("redis")
  /\ enqueued' \in {enqueued, enqueued \cup {e}}
  /\ item' = [item EXCEPT ![t][e] = "mark"]
  /\ UNCHANGED <<rowVars, cycleVars, workers, awaiting>>

\* queue.add fails, or times out after it took effect.
AddFails(t, e) ==
  /\ item[t][e] = "add"
  /\ Spend("redis")
  /\ enqueued' \in {enqueued, enqueued \cup {e}}
  /\ item' = [item EXCEPT ![t][e] = "retry"]
  /\ UNCHANGED <<rowVars, cycleVars, workers, awaiting>>

\* Mistake: the update does not ask for the lease token.
MayMarkAny(t, e) == verdict[e] = "open"
MayMark(t, e) == token[e] = t /\ verdict[e] = "open"

Release(e, newVerdict, newFailures, newWait) ==
  /\ verdict' = [verdict EXCEPT ![e] = newVerdict]
  /\ failures' = [failures EXCEPT ![e] = newFailures]
  /\ wait' = [wait EXCEPT ![e] = newWait]
  /\ token' = [token EXCEPT ![e] = NoToken]
  /\ lease' = [lease EXCEPT ![e] = 0]

\* Mistake: the delay is not capped.
DelayUncapped(n) == BaseDelay * 2 ^ n

\* computeRetryDelayMs, without the jitter: the delay doubles up to a maximum.
Delay(n) ==
  LET uncapped == BaseDelay * 2 ^ n
  IN  IF uncapped \in 0..MaxDelay THEN uncapped ELSE MaxDelay

\* Mistake: a failure is counted whoever holds the lease.
RecordForAnyone(t, e) ==
  IF MayMark(t, e)
  THEN CASE item[t][e] = "mark"  -> Release(e, "published", failures[e], 0)
         [] item[t][e] = "retry" -> Release(e, "open", failures[e] + 1, Delay(seen[t][e]))
         [] item[t][e] = "dead"  -> Release(e, "dead", failures[e] + 1, wait[e])
  ELSE /\ failures' = [failures EXCEPT ![e] = @ + 1]
       /\ UNCHANGED <<verdict, wait, token, lease>>

\* markPublished, markRetry and markDeadLettered on the row
Record(t, e) ==
  IF MayMark(t, e)
  THEN CASE item[t][e] = "mark"  -> Release(e, "published", failures[e], 0)
         [] item[t][e] = "retry" -> Release(e, "open", failures[e] + 1, Delay(seen[t][e]))
         [] item[t][e] = "dead"  -> Release(e, "dead", failures[e] + 1, wait[e])
  ELSE UNCHANGED rowVars

Mark(t, e) ==
  /\ item[t][e] \in {"mark", "retry", "dead"}
  /\ Record(t, e)
  /\ Finish(t, e)
  /\ UNCHANGED <<enqueued, budget>>

\* markPublished throws, before or after its commit: the handler schedules a retry.
MarkPublishedFails(t, e) ==
  /\ item[t][e] = "mark"
  /\ Spend("database")
  /\ Record(t, e) \/ UNCHANGED rowVars
  /\ item' = [item EXCEPT ![t][e] = "retry"]
  /\ UNCHANGED <<enqueued, cycleVars, workers, awaiting>>

\* markRetry or markDeadLettered throws, and nobody catches it.
MarkRejects(t, e) ==
  /\ item[t][e] \in {"retry", "dead"}
  /\ Spend("database")
  /\ Record(t, e) \/ UNCHANGED rowVars
  /\ Reject(t, e)
  /\ UNCHANGED enqueued

-----------------------------------------------------------------------------
(* The environment.                                                         *)

\* The worker process dies and is started again.
Crash(d) ==
  /\ \E t \in Tokens : owner[t] = d /\ InFlight(t)
  /\ Spend("crash")
  /\ item' = [t \in Tokens |-> IF owner[t] = d THEN [e \in Events |-> "none"] ELSE item[t]]
  /\ awaiting' = [awaiting EXCEPT ![d] = NoToken]
  /\ UNCHANGED <<rowVars, enqueued, cycleVars, workers>>

Earlier(n) == IF n = 0 THEN 0 ELSE n - 1

\* Time passes; with LeaseCovers, not beyond the lease of an event whose cycle is
\* still awaited.  A cycle that was rejected has fewer workers than its lease is
\* meant for.
Tick ==
  /\ \E e \in Events : lease[e] > 0 \/ wait[e] > 0
  /\ LeaseCovers =>
       \A e \in Events, t \in Tokens :
         item[t][e] # "none" /\ token[e] = t /\ Awaited(t) => lease[e] > 1
  /\ lease' = [e \in Events |-> Earlier(lease[e])]
  /\ wait' = [e \in Events |-> Earlier(wait[e])]
  /\ UNCHANGED <<verdict, failures, token, enqueued, item, cycleVars, workers, awaiting, budget>>

-----------------------------------------------------------------------------

Work(t) ==
  \E e \in Events : Take(t, e) \/ Add(t, e) \/ Mark(t, e)

Faults ==
  \/ \E t \in Tokens, e \in Events :
       AddFails(t, e) \/ MarkPublishedFails(t, e) \/ MarkRejects(t, e)
  \/ \E d \in Dispatchers, t \in Tokens, batch \in SUBSET Events : ClaimIsLost(d, t, batch)
  \/ \E d \in Dispatchers : Crash(d)

SomeClaim(d) == \E t \in Tokens, batch \in SUBSET Events : Claim(d, t, batch)

Next ==
  \/ \E d \in Dispatchers : SomeClaim(d)
  \/ \E t \in Tokens : Work(t)
  \/ Faults
  \/ Tick

Spec == Init /\ [][Next]_vars

\* Loops keep polling, pools keep working unless their process dies, and time
\* passes.  No fault is ever required to happen.
Fairness ==
  /\ \A d \in Dispatchers : WF_vars(SomeClaim(d))
  /\ \A t \in Tokens : WF_vars(Work(t))
  /\ WF_vars(Tick)

FairSpec == Spec /\ Fairness

-----------------------------------------------------------------------------
(* Properties.                                                              *)

\* Every variable stays in its type.
TypeOK ==
  /\ verdict \in [Events -> {"open", "published", "dead"}]
  /\ failures \in [Events -> Nat]
  /\ wait \in [Events -> 0..MaxDelay]
  /\ token \in [Events -> Tokens \cup {NoToken}]
  /\ lease \in [Events -> 0..LeaseTicks]
  /\ enqueued \in SUBSET Events
  /\ item \in [Tokens -> [Events -> Phases]]
  /\ seen \in [Tokens -> [Events -> Nat]]
  /\ workers \in [Tokens -> 0..Concurrency]
  /\ owner \in [Tokens -> Dispatchers \cup {"nobody"}]
  /\ awaiting \in [Dispatchers -> Tokens \cup {NoToken}]
  /\ budget \in [FaultKinds -> Nat]

\* An event is never given up: it counts as published only after its job was
\* added, and as dead only if it could never be one, whatever is lost, answered
\* late or handled by two cycles at once.
NothingIsDropped ==
  \A e \in Events :
    /\ verdict[e] = "published" => e \in enqueued
    /\ verdict[e] = "dead" => e \in Poison \ enqueued

\* The failure count a cycle read with its lease, and computes the retry delay
\* from after its Redis call, is still the row's as long as the lease is its own.
BackoffIsCurrent ==
  \A t \in Tokens, e \in Events :
    item[t][e] # "none" /\ token[e] = t /\ verdict[e] = "open" => seen[t][e] = failures[e]

\* While leases outlast the batches that are awaited, no event is handled by two
\* awaited cycles at once: when it is handled twice, it is behind a cycle that was
\* rejected, and LeaseIsRespected says who may record the outcome.
OneCyclePerEvent ==
  LeaseCovers =>
    \A e \in Events : Cardinality({t \in Tokens : Awaited(t) /\ item[t][e] # "none"}) <= 1

\* "Non-overlapping" cycles (dispatcher.ts:84): a dispatcher that does not wait
\* for a cycle has none in flight.
CyclesDoNotOverlap ==
  \A d \in Dispatchers, t \in Tokens :
    owner[t] = d /\ InFlight(t) => awaiting[d] = t

\* A lease that has not run out is ended by its own cycle only: a cycle that
\* outlived its leases cannot take an event from the one that claimed it since.
LeaseIsRespected ==
  [][\A e \in Events :
       token[e] # NoToken /\ lease[e] > 0 /\ token'[e] # token[e]
         => item[token[e]][e] \in {"mark", "retry", "dead"} /\ item'[token[e]] # item[token[e]]]_token

\* Every event is published or dead-lettered in the end, after any finite
\* number of faults.
EveryEventSettles == \A e \in Events : <>(verdict[e] # "open")
=============================================================================
