------------------------- MODULE OutboxDispatchProofs -------------------------
(***************************************************************************)
(* Proofs about OutboxDispatch for every number of events, dispatchers,     *)
(* tokens and faults, and every length of the leases.                       *)
(***************************************************************************)
EXTENDS OutboxDispatch, FiniteSetTheorems, TLAPS

\* The variables the argument is about are well formed.
Shape ==
  /\ verdict \in [Events -> {"open", "published", "dead"}]
  /\ item \in [Tokens -> [Events -> Phases]]
  /\ enqueued \in SUBSET Events

\* What a worker is about to record is true when it starts to record it, so
\* that it does not matter when, or by whom else, the row is changed.
RowsAreTrue ==
  \A e \in Events :
    /\ verdict[e] = "published" => e \in enqueued
    /\ verdict[e] = "dead" => e \in Poison
WorkersAreTrue ==
  \A t \in Tokens, e \in Events :
    /\ item[t][e] = "mark" => e \in enqueued
    /\ item[t][e] = "dead" => e \in Poison
    /\ item[t][e] = "add" => e \notin Poison
PoisonStaysOut == enqueued \cap Poison = {}

KeepInv == Shape /\ RowsAreTrue /\ WorkersAreTrue /\ PoisonStaysOut

\* Leaving events alone or giving them up keeps the workers honest.
LEMMA GivingUp ==
  ASSUME KeepInv, enqueued' = enqueued,
         item' \in [Tokens -> [Events -> Phases]],
         \A t \in Tokens, e \in Events : item'[t][e] \in {item[t][e], "none", "todo", "retry"}
  PROVE  WorkersAreTrue'
  BY DEF KeepInv, WorkersAreTrue

\* A cycle's remaining items are well formed, and what they were or given up.
LEMMA ItemsLeftOf ==
  ASSUME KeepInv, NEW t \in Tokens, NEW e \in Events, NEW n,
         item' = [item EXCEPT ![t] = ItemsLeft(t, e, n)]
  PROVE  /\ item' \in [Tokens -> [Events -> Phases]]
         /\ \A u \in Tokens, x \in Events : item'[u][x] \in {item[u][x], "none", "todo", "retry"}
  <1>1. ItemsLeft(t, e, n) \in [Events -> Phases]
    BY DEF KeepInv, Shape, ItemsLeft, Phases
  <1>2. \A x \in Events : ItemsLeft(t, e, n)[x] \in {item[t][x], "none"}
    BY DEF KeepInv, Shape, ItemsLeft
  <1> QED
    BY <1>1, <1>2 DEF KeepInv, Shape

\* A worker records only what is true of its event.
LEMMA RecordIsTrue ==
  ASSUME KeepInv, NEW t \in Tokens, NEW e \in Events, Record(t, e), enqueued' = enqueued,
         item[t][e] \in {"mark", "retry", "dead"}
  PROVE  verdict' \in [Events -> {"open", "published", "dead"}] /\ RowsAreTrue'
  <1>1. CASE ~MayMark(t, e)
    BY <1>1 DEF Record, rowVars, KeepInv, Shape, RowsAreTrue
  <1>2. CASE MayMark(t, e) /\ item[t][e] = "mark"
    <2>1. verdict' = [verdict EXCEPT ![e] = "published"]
      BY <1>2 DEF Record, Release
    <2> QED
      BY <1>2, <2>1 DEF KeepInv, Shape, RowsAreTrue, WorkersAreTrue
  <1>3. CASE MayMark(t, e) /\ item[t][e] = "retry"
    <2>1. verdict' = [verdict EXCEPT ![e] = "open"]
      BY <1>3 DEF Record, Release
    <2> QED
      BY <1>3, <2>1 DEF KeepInv, Shape, RowsAreTrue, WorkersAreTrue
  <1>4. CASE MayMark(t, e) /\ item[t][e] = "dead"
    <2>1. verdict' = [verdict EXCEPT ![e] = "dead"]
      BY <1>4 DEF Record, Release
    <2> QED
      BY <1>4, <2>1 DEF KeepInv, Shape, RowsAreTrue, WorkersAreTrue
  <1> QED
    BY <1>1, <1>2, <1>3, <1>4

-----------------------------------------------------------------------------
(* One lemma per group of actions.                                          *)

\* Nothing is leased, added or recorded at first.
LEMMA KeepInit ==
  ASSUME Init PROVE KeepInv
  BY DEF Init, KeepInv, Shape, RowsAreTrue, WorkersAreTrue, PoisonStaysOut, Phases

\* claimDue hands out events as "todo", about which nothing is claimed.
LEMMA KeepClaim ==
  ASSUME KeepInv, NEW d \in Dispatchers, NEW t \in Tokens, NEW batch \in SUBSET Events,
         Claim(d, t, batch)
  PROVE  KeepInv'
  <1> DEFINE taken == [e \in Events |-> IF e \in batch THEN "todo" ELSE "none"]
  <1>1. verdict' = verdict /\ enqueued' = enqueued /\ item' = [item EXCEPT ![t] = taken]
    BY DEF Claim, Lease
  <1>2. taken \in [Events -> Phases] /\ \A e \in Events : taken[e] \in {"todo", "none"}
    BY DEF Phases
  <1> HIDE DEF taken
  <1>3. /\ item' \in [Tokens -> [Events -> Phases]]
        /\ \A u \in Tokens, e \in Events : item'[u][e] \in {item[u][e], "none", "todo", "retry"}
    BY <1>1, <1>2 DEF KeepInv, Shape
  <1>4. WorkersAreTrue'
    BY <1>1, <1>3, GivingUp
  <1> QED
    BY <1>1, <1>3, <1>4 DEF KeepInv, Shape, RowsAreTrue, PoisonStaysOut

\* A worker takes an event to "dead" only if it cannot be mapped, else to "add".
LEMMA KeepTake ==
  ASSUME KeepInv, NEW t \in Tokens, NEW e \in Events, Take(t, e)
  PROVE  KeepInv'
  <1>1. /\ verdict' = verdict /\ enqueued' = enqueued
        /\ item' = [item EXCEPT ![t][e] = IF e \in Poison THEN "dead" ELSE "add"]
    BY DEF Take, rowVars
  <1> QED
    BY <1>1 DEF KeepInv, Shape, RowsAreTrue, WorkersAreTrue, PoisonStaysOut, Phases

\* queue.add comes before the event may be recorded as published.
LEMMA KeepAdd ==
  ASSUME KeepInv, NEW t \in Tokens, NEW e \in Events, Add(t, e)
  PROVE  KeepInv'
  <1>1. /\ verdict' = verdict /\ enqueued' = enqueued \cup {e}
        /\ item[t][e] = "add" /\ item' = [item EXCEPT ![t][e] = "mark"]
    BY DEF Add, rowVars
  <1> QED
    BY <1>1 DEF KeepInv, Shape, RowsAreTrue, WorkersAreTrue, PoisonStaysOut, Phases

\* A failed queue.add promises nothing, so the worker schedules a retry.
LEMMA KeepAddFails ==
  ASSUME KeepInv, NEW t \in Tokens, NEW e \in Events, AddFails(t, e)
  PROVE  KeepInv'
  <1>1. /\ verdict' = verdict /\ enqueued' \in {enqueued, enqueued \cup {e}}
        /\ item[t][e] = "add" /\ item' = [item EXCEPT ![t][e] = "retry"]
    BY DEF AddFails, rowVars
  <1> QED
    BY <1>1 DEF KeepInv, Shape, RowsAreTrue, WorkersAreTrue, PoisonStaysOut, Phases

\* Recording copies what the worker knows into the row.
LEMMA KeepMark ==
  ASSUME KeepInv, NEW t \in Tokens, NEW e \in Events, Mark(t, e)
  PROVE  KeepInv'
  <1>1. /\ enqueued' = enqueued /\ Record(t, e)
        /\ item[t][e] \in {"mark", "retry", "dead"}
        /\ item' = [item EXCEPT ![t] = ItemsLeft(t, e, workers[t])]
    BY DEF Mark, Finish
  <1>2. /\ item' \in [Tokens -> [Events -> Phases]]
        /\ \A u \in Tokens, x \in Events : item'[u][x] \in {item[u][x], "none", "todo", "retry"}
    BY <1>1, ItemsLeftOf
  <1>3. WorkersAreTrue'
    BY <1>1, <1>2, GivingUp
  <1>4. verdict' \in [Events -> {"open", "published", "dead"}] /\ RowsAreTrue'
    BY <1>1, RecordIsTrue
  <1> QED
    BY <1>1, <1>2, <1>3, <1>4 DEF KeepInv, Shape, PoisonStaysOut

\* markPublished that throws has recorded the truth or nothing.
LEMMA KeepMarkPublishedFails ==
  ASSUME KeepInv, NEW t \in Tokens, NEW e \in Events, MarkPublishedFails(t, e)
  PROVE  KeepInv'
  <1>1. /\ enqueued' = enqueued /\ item[t][e] = "mark"
        /\ Record(t, e) \/ UNCHANGED rowVars
        /\ item' = [item EXCEPT ![t][e] = "retry"]
    BY DEF MarkPublishedFails
  <1>2. /\ item' \in [Tokens -> [Events -> Phases]]
        /\ \A u \in Tokens, x \in Events : item'[u][x] \in {item[u][x], "none", "todo", "retry"}
    BY <1>1 DEF KeepInv, Shape, Phases
  <1>3. WorkersAreTrue'
    BY <1>1, <1>2, GivingUp
  <1>4. verdict' \in [Events -> {"open", "published", "dead"}] /\ RowsAreTrue'
    BY <1>1, RecordIsTrue DEF rowVars, KeepInv, Shape, RowsAreTrue
  <1> QED
    BY <1>1, <1>2, <1>3, <1>4 DEF KeepInv, Shape, PoisonStaysOut

\* markRetry or markDeadLettered that throws has, too; the pool loses a worker.
LEMMA KeepMarkRejects ==
  ASSUME KeepInv, NEW t \in Tokens, NEW e \in Events, MarkRejects(t, e)
  PROVE  KeepInv'
  <1>1. /\ enqueued' = enqueued /\ item[t][e] \in {"mark", "retry", "dead"}
        /\ Record(t, e) \/ UNCHANGED rowVars
        /\ item' = [item EXCEPT ![t] = ItemsLeft(t, e, workers[t] - 1)]
    BY DEF MarkRejects, Reject
  <1>2. /\ item' \in [Tokens -> [Events -> Phases]]
        /\ \A u \in Tokens, x \in Events : item'[u][x] \in {item[u][x], "none", "todo", "retry"}
    BY <1>1, ItemsLeftOf
  <1>3. WorkersAreTrue'
    BY <1>1, <1>2, GivingUp
  <1>4. verdict' \in [Events -> {"open", "published", "dead"}] /\ RowsAreTrue'
    BY <1>1, RecordIsTrue DEF rowVars, KeepInv, Shape, RowsAreTrue
  <1> QED
    BY <1>1, <1>2, <1>3, <1>4 DEF KeepInv, Shape, PoisonStaysOut

\* A crash only forgets what workers were doing.
LEMMA KeepCrash ==
  ASSUME KeepInv, NEW d \in Dispatchers, Crash(d)
  PROVE  KeepInv'
  <1>1. /\ verdict' = verdict /\ enqueued' = enqueued
        /\ item' = [t \in Tokens |-> IF owner[t] = d THEN [e \in Events |-> "none"] ELSE item[t]]
    BY DEF Crash, rowVars
  <1>2. /\ item' \in [Tokens -> [Events -> Phases]]
        /\ \A u \in Tokens, e \in Events : item'[u][e] \in {item[u][e], "none", "todo", "retry"}
    BY <1>1 DEF KeepInv, Shape, Phases
  <1>3. WorkersAreTrue'
    BY <1>1, <1>2, GivingUp
  <1> QED
    BY <1>1, <1>2, <1>3 DEF KeepInv, Shape, RowsAreTrue, PoisonStaysOut

\* A lost claim and the passing of time touch leases and delays only.
LEMMA KeepElse ==
  ASSUME KeepInv, UNCHANGED <<verdict, enqueued, item>>
  PROVE  KeepInv'
  BY DEF KeepInv, Shape, RowsAreTrue, WorkersAreTrue, PoisonStaysOut

\* KeepInv is inductive.
LEMMA KeepNext ==
  ASSUME KeepInv, [Next]_vars PROVE KeepInv'
  <1>1. ASSUME NEW d \in Dispatchers, SomeClaim(d) PROVE KeepInv'
    BY <1>1, KeepClaim DEF SomeClaim
  <1>2. ASSUME NEW t \in Tokens, Work(t) PROVE KeepInv'
    BY <1>2, KeepTake, KeepAdd, KeepMark DEF Work
  <1>3. CASE Faults
    <2>1. ASSUME NEW t \in Tokens, NEW e \in Events,
                 AddFails(t, e) \/ MarkPublishedFails(t, e) \/ MarkRejects(t, e)
          PROVE  KeepInv'
      BY <2>1, KeepAddFails, KeepMarkPublishedFails, KeepMarkRejects
    <2>2. ASSUME NEW d \in Dispatchers, NEW t \in Tokens, NEW batch \in SUBSET Events,
                 ClaimIsLost(d, t, batch)
          PROVE  KeepInv'
      BY <2>2, KeepElse DEF ClaimIsLost, Lease
    <2>3. ASSUME NEW d \in Dispatchers, Crash(d) PROVE KeepInv'
      BY <2>3, KeepCrash
    <2> QED
      BY <1>3, <2>1, <2>2, <2>3 DEF Faults
  <1>4. CASE Tick
    BY <1>4, KeepElse DEF Tick
  <1>5. CASE UNCHANGED vars
    BY <1>5, KeepElse DEF vars
  <1> QED
    BY <1>1, <1>2, <1>3, <1>4, <1>5 DEF Next

\* Whatever the faults, however late the answers and however many cycles handle
\* an event: it is marked published only after its job was added, and dead
\* only if it can be no job.
THEOREM NothingDropped == Spec => []NothingIsDropped
  <1>1. Init => KeepInv
    BY KeepInit
  <1>2. KeepInv /\ [Next]_vars => KeepInv'
    BY KeepNext
  <1>3. KeepInv => NothingIsDropped
    BY DEF KeepInv, RowsAreTrue, PoisonStaysOut, NothingIsDropped
  <1> QED
    BY <1>1, <1>2, <1>3, PTL DEF Spec

-----------------------------------------------------------------------------
(* Leases.                                                                  *)

ItemShape  == item \in [Tokens -> [Events -> Phases]]
TokenShape == token \in [Events -> Tokens \cup {NoToken}]
LeaseInv   == ItemShape /\ TokenShape

\* What recording the outcome of an event does to the leases and the cycle.
Recording(t, e)    == item[t][e] \in {"mark", "retry", "dead"}
OwnLeaseOnly(t, e) == \A x \in Events : token'[x] # token[x] => x = e /\ token[x] = t
ItemsChange(t)     == item'[t] # item[t]

\* What one step may do to the leases that have not run out.
RespectsLeases ==
  \A e \in Events :
    token[e] # NoToken /\ lease[e] > 0 /\ token'[e] # token[e]
      => item[token[e]][e] \in {"mark", "retry", "dead"} /\ item'[token[e]] # item[token[e]]

\* Recording an outcome touches no lease but the worker's own.
LEMMA RecordEndsOwnLease ==
  ASSUME LeaseInv, NEW t \in Tokens, NEW e \in Events, Record(t, e),
         Recording(t, e)
  PROVE  TokenShape' /\ OwnLeaseOnly(t, e)
  <1>1. CASE ~MayMark(t, e)
    BY <1>1 DEF Record, rowVars, LeaseInv, TokenShape, OwnLeaseOnly
  <1>2. CASE MayMark(t, e)
    <2>1. token' = [token EXCEPT ![e] = NoToken]
      <3>1. CASE item[t][e] = "mark"
        BY <1>2, <3>1 DEF Record, Release
      <3>2. CASE item[t][e] = "retry"
        BY <1>2, <3>2 DEF Record, Release
      <3>3. CASE item[t][e] = "dead"
        BY <1>2, <3>3 DEF Record, Release
      <3> QED
        BY <3>1, <3>2, <3>3 DEF Recording
    <2>2. token[e] = t
      BY <1>2 DEF MayMark
    <2> QED
      BY <2>1, <2>2 DEF LeaseInv, TokenShape, OwnLeaseOnly
  <1> QED
    BY <1>1, <1>2

\* A cycle that is done with an event has changed what it is doing.
LEMMA ItemsLeftChange ==
  ASSUME LeaseInv, NEW t \in Tokens, NEW e \in Events, NEW n,
         Recording(t, e),
         item' = [item EXCEPT ![t] = ItemsLeft(t, e, n)]
  PROVE  ItemShape' /\ ItemsChange(t)
  <1>1. ItemsLeft(t, e, n) \in [Events -> Phases] /\ ItemsLeft(t, e, n)[e] = "none"
    BY DEF LeaseInv, ItemShape, ItemsLeft, Phases
  <1> QED
    BY <1>1 DEF LeaseInv, ItemShape, Recording, ItemsChange

\* A step that ends only the worker's own lease, and moves its cycle, is allowed.
LEMMA OwnLeaseRespected ==
  ASSUME LeaseInv, NEW t \in Tokens, NEW e \in Events,
         Recording(t, e), ItemShape', ItemsChange(t),
         TokenShape', OwnLeaseOnly(t, e)
  PROVE  LeaseInv' /\ RespectsLeases
  BY DEF LeaseInv, TokenShape, Recording, ItemsChange, OwnLeaseOnly, RespectsLeases

\* A claim takes expired leases only.
LEMMA LeaseRespectsLeases ==
  ASSUME LeaseInv, NEW d \in Dispatchers, NEW t \in Tokens, NEW batch \in SUBSET Events,
         Lease(d, t, batch)
  PROVE  TokenShape' /\ RespectsLeases
  <1>1. /\ token' = [e \in Events |-> IF e \in batch THEN t ELSE token[e]]
        /\ \A e \in batch : lease[e] = 0
    BY DEF Lease, Due
  <1> QED
    BY <1>1 DEF LeaseInv, TokenShape, RespectsLeases

\* Recording an outcome, at the end of an event.
LEMMA LeaseMark ==
  ASSUME LeaseInv, NEW t \in Tokens, NEW e \in Events, Mark(t, e)
  PROVE  LeaseInv' /\ RespectsLeases
  <1>1. /\ Record(t, e) /\ Recording(t, e)
        /\ item' = [item EXCEPT ![t] = ItemsLeft(t, e, workers[t])]
    BY DEF Mark, Finish, Recording
  <1>2. ItemShape' /\ ItemsChange(t)
    BY <1>1, ItemsLeftChange
  <1>3. TokenShape' /\ OwnLeaseOnly(t, e)
    BY <1>1, RecordEndsOwnLease
  <1> QED
    BY <1>1, <1>2, <1>3, OwnLeaseRespected

\* markPublished throws, before or after its commit.
LEMMA LeaseMarkPublishedFails ==
  ASSUME LeaseInv, NEW t \in Tokens, NEW e \in Events, MarkPublishedFails(t, e)
  PROVE  LeaseInv' /\ RespectsLeases
  <1>1. /\ item[t][e] = "mark"
        /\ item' = [item EXCEPT ![t][e] = "retry"]
    BY DEF MarkPublishedFails
  <1>2. Recording(t, e)
    BY <1>1 DEF Recording
  <1>3. ItemShape' /\ ItemsChange(t)
    BY <1>1 DEF LeaseInv, ItemShape, ItemsChange, Phases
  <1>4. CASE Record(t, e)
    <2>1. TokenShape' /\ OwnLeaseOnly(t, e)
      BY <1>2, <1>4, RecordEndsOwnLease
    <2> QED
      BY <1>2, <1>3, <2>1, OwnLeaseRespected
  <1>5. CASE UNCHANGED rowVars
    BY <1>3, <1>5 DEF LeaseInv, TokenShape, RespectsLeases, rowVars
  <1> QED
    BY <1>4, <1>5 DEF MarkPublishedFails

\* markRetry or markDeadLettered throws, before or after its commit.
LEMMA LeaseMarkRejects ==
  ASSUME LeaseInv, NEW t \in Tokens, NEW e \in Events, MarkRejects(t, e)
  PROVE  LeaseInv' /\ RespectsLeases
  <1>1. /\ Recording(t, e)
        /\ item' = [item EXCEPT ![t] = ItemsLeft(t, e, workers[t] - 1)]
    BY DEF MarkRejects, Reject, Recording
  <1>2. ItemShape' /\ ItemsChange(t)
    BY <1>1, ItemsLeftChange
  <1>3. CASE Record(t, e)
    <2>1. TokenShape' /\ OwnLeaseOnly(t, e)
      BY <1>1, <1>3, RecordEndsOwnLease
    <2> QED
      BY <1>1, <1>2, <2>1, OwnLeaseRespected
  <1>4. CASE UNCHANGED rowVars
    BY <1>2, <1>4 DEF LeaseInv, TokenShape, RespectsLeases, rowVars
  <1> QED
    BY <1>3, <1>4 DEF MarkRejects

\* Every step keeps the shapes and respects the leases.
LEMMA LeaseNext ==
  ASSUME LeaseInv, Next PROVE LeaseInv' /\ RespectsLeases
  <1>1. ASSUME NEW d \in Dispatchers, NEW t \in Tokens, NEW batch \in SUBSET Events,
               Claim(d, t, batch)
        PROVE  LeaseInv' /\ RespectsLeases
    <2> DEFINE taken == [e \in Events |-> IF e \in batch THEN "todo" ELSE "none"]
    <2>1. Lease(d, t, batch) /\ item' = [item EXCEPT ![t] = taken]
      BY <1>1 DEF Claim
    <2>2. taken \in [Events -> Phases]
      BY DEF Phases
    <2> HIDE DEF taken
    <2>3. ItemShape'
      BY <1>1, <2>1, <2>2 DEF LeaseInv, ItemShape
    <2> QED
      BY <1>1, <2>1, <2>3, LeaseRespectsLeases DEF LeaseInv
  <1>2. ASSUME NEW t \in Tokens, NEW e \in Events, Take(t, e) \/ Add(t, e) \/ AddFails(t, e)
        PROVE  LeaseInv' /\ RespectsLeases
    BY <1>2 DEF Take, Add, AddFails, rowVars, LeaseInv, ItemShape, TokenShape, RespectsLeases, Phases
  <1>3. ASSUME NEW t \in Tokens, NEW e \in Events, Mark(t, e)
        PROVE  LeaseInv' /\ RespectsLeases
    BY <1>3, LeaseMark
  <1>4. ASSUME NEW t \in Tokens, NEW e \in Events, MarkPublishedFails(t, e)
        PROVE  LeaseInv' /\ RespectsLeases
    BY <1>4, LeaseMarkPublishedFails
  <1>5. ASSUME NEW t \in Tokens, NEW e \in Events, MarkRejects(t, e)
        PROVE  LeaseInv' /\ RespectsLeases
    BY <1>5, LeaseMarkRejects
  <1>6. ASSUME NEW d \in Dispatchers, NEW t \in Tokens, NEW batch \in SUBSET Events,
               ClaimIsLost(d, t, batch)
        PROVE  LeaseInv' /\ RespectsLeases
    BY <1>6, LeaseRespectsLeases DEF ClaimIsLost, LeaseInv, ItemShape
  <1>7. ASSUME NEW d \in Dispatchers, Crash(d) PROVE LeaseInv' /\ RespectsLeases
    BY <1>7 DEF Crash, rowVars, LeaseInv, ItemShape, TokenShape, RespectsLeases, Phases
  <1>8. CASE Tick
    BY <1>8 DEF Tick, LeaseInv, ItemShape, TokenShape, RespectsLeases
  <1> QED
    BY <1>1, <1>2, <1>3, <1>4, <1>5, <1>6, <1>7, <1>8 DEF Next, SomeClaim, Work, Faults

\* A lease that has not run out is ended by the cycle that holds it and by
\* nobody else: an answer that comes after the lease was lost changes nothing.
THEOREM LeasesRespected == Spec => LeaseIsRespected
  <1>1. Init => LeaseInv
    BY DEF Init, LeaseInv, ItemShape, TokenShape, Phases
  <1>2. LeaseInv /\ [Next]_vars => LeaseInv'
    <2>1. ASSUME LeaseInv, Next PROVE LeaseInv'
      BY <2>1, LeaseNext
    <2>2. ASSUME LeaseInv, UNCHANGED vars PROVE LeaseInv'
      BY <2>2 DEF vars, LeaseInv, ItemShape, TokenShape
    <2> QED
      BY <2>1, <2>2
  <1>3. LeaseInv /\ [Next]_vars => [RespectsLeases]_token
    <2>1. ASSUME LeaseInv, Next PROVE RespectsLeases
      BY <2>1, LeaseNext
    <2> QED
      BY <2>1 DEF vars
  <1>4. [][RespectsLeases]_token => LeaseIsRespected
    <2>1. [RespectsLeases]_token => [\A e \in Events :
             token[e] # NoToken /\ lease[e] > 0 /\ token'[e] # token[e]
               => item[token[e]][e] \in {"mark", "retry", "dead"}
                  /\ item'[token[e]] # item[token[e]]]_token
      BY DEF RespectsLeases
    <2> QED
      BY <2>1, PTL DEF LeaseIsRespected
  <1> QED
    BY <1>1, <1>2, <1>3, <1>4, PTL DEF Spec

-----------------------------------------------------------------------------
(* Types.                                                                   *)

\* A pool has a live worker for every event it is busy with, so that a worker
\* that throws can be counted down.
PoolInv == \A t \in Tokens : Cardinality(BusyItems(t)) <= workers[t]

TypeInv == TypeOK /\ PoolInv

\* Some of the events are a finite number of events.
LEMMA FiniteEvents ==
  ASSUME NEW S \in SUBSET Events
  PROVE  IsFiniteSet(S) /\ Cardinality(S) \in Nat
  BY OutboxAssumption, FS_Subset, FS_CardinalityType

\* A retry delay is capped.
LEMMA DelayIsCapped ==
  ASSUME NEW n PROVE Delay(n) \in 0..MaxDelay
  BY OutboxAssumption DEF Delay

\* Recording an outcome keeps the rows well formed.
LEMMA RecordTypes ==
  ASSUME TypeOK, NEW t \in Tokens, NEW e \in Events, Record(t, e) \/ UNCHANGED rowVars,
         Recording(t, e)
  PROVE  /\ verdict' \in [Events -> {"open", "published", "dead"}]
         /\ failures' \in [Events -> Nat]
         /\ wait' \in [Events -> 0..MaxDelay]
         /\ token' \in [Events -> Tokens \cup {NoToken}]
         /\ lease' \in [Events -> 0..LeaseTicks]
  <1>1. CASE UNCHANGED rowVars
    BY <1>1 DEF rowVars, TypeOK
  <1>2. ASSUME NEW v \in {"open", "published", "dead"}, NEW n \in Nat, NEW w \in 0..MaxDelay,
               Release(e, v, n, w)
        PROVE  /\ verdict' \in [Events -> {"open", "published", "dead"}]
               /\ failures' \in [Events -> Nat]
               /\ wait' \in [Events -> 0..MaxDelay]
               /\ token' \in [Events -> Tokens \cup {NoToken}]
               /\ lease' \in [Events -> 0..LeaseTicks]
    <2>1. 0 \in 0..LeaseTicks
      BY OutboxAssumption
    <2> QED
      BY <1>2, <2>1 DEF Release, TypeOK
  <1>3. /\ failures[e] \in Nat /\ failures[e] + 1 \in Nat
        /\ wait[e] \in 0..MaxDelay /\ 0 \in 0..MaxDelay
    BY OutboxAssumption DEF TypeOK
  <1>4. Delay(seen[t][e]) \in 0..MaxDelay
    BY DelayIsCapped
  <1>5. CASE Record(t, e) /\ MayMark(t, e) /\ item[t][e] = "mark"
    <2>1. Release(e, "published", failures[e], 0)
      BY <1>5 DEF Record
    <2> QED
      BY <2>1, <1>2, <1>3
  <1>6. CASE Record(t, e) /\ MayMark(t, e) /\ item[t][e] = "retry"
    <2>1. Release(e, "open", failures[e] + 1, Delay(seen[t][e]))
      BY <1>6 DEF Record
    <2> QED
      BY <2>1, <1>2, <1>3, <1>4
  <1>7. CASE Record(t, e) /\ MayMark(t, e) /\ item[t][e] = "dead"
    <2>1. Release(e, "dead", failures[e] + 1, wait[e])
      BY <1>7 DEF Record
    <2> QED
      BY <2>1, <1>2, <1>3
  <1>8. CASE Record(t, e) /\ ~MayMark(t, e)
    BY <1>1, <1>8 DEF Record
  <1> QED
    BY <1>1, <1>5, <1>6, <1>7, <1>8 DEF Recording

\* A cycle that is done with e keeps its types, and is busy with no other event
\* than before.
LEMMA ItemsLeftTypes ==
  ASSUME TypeOK, NEW t \in Tokens, NEW e \in Events, NEW n,
         item' = [item EXCEPT ![t] = ItemsLeft(t, e, n)]
  PROVE  /\ item' \in [Tokens -> [Events -> Phases]]
         /\ BusyItems(t)' \subseteq BusyItems(t) \ {e}
         /\ \A u \in Tokens \ {t} : BusyItems(u)' = BusyItems(u)
  <1>1. ItemsLeft(t, e, n) \in [Events -> Phases]
    BY DEF TypeOK, ItemsLeft, Phases
  <1>2. \A x \in Events : ItemsLeft(t, e, n)[x] \in {item[t][x], "none"}
    BY DEF ItemsLeft
  <1>3. ItemsLeft(t, e, n)[e] = "none"
    BY DEF ItemsLeft
  <1> QED
    BY <1>1, <1>2, <1>3 DEF TypeOK, BusyItems, Busy

\* The pool outlives the event it is done with, also one worker short.
LEMMA PoolShrinks ==
  ASSUME TypeInv, NEW t \in Tokens, NEW e \in Events, Recording(t, e),
         BusyItems(t)' \subseteq BusyItems(t) \ {e}
  PROVE  /\ Cardinality(BusyItems(t)') \in Nat
         /\ Cardinality(BusyItems(t)') <= workers[t] - 1
         /\ workers[t] - 1 \in 0..Concurrency
  <1>1. BusyItems(t) \in SUBSET Events /\ e \in BusyItems(t)
    BY DEF BusyItems, Recording, Busy
  <1>2. IsFiniteSet(BusyItems(t)) /\ Cardinality(BusyItems(t)) \in Nat
    BY <1>1, FiniteEvents
  <1>3. /\ IsFiniteSet(BusyItems(t) \ {e})
        /\ Cardinality(BusyItems(t) \ {e}) = Cardinality(BusyItems(t)) - 1
    BY <1>1, <1>2, FS_RemoveElement
  <1>4. /\ Cardinality(BusyItems(t)') \in Nat
        /\ Cardinality(BusyItems(t)') <= Cardinality(BusyItems(t) \ {e})
    BY <1>3, FS_Subset, FS_CardinalityType
  <1>5. Cardinality(BusyItems(t)) <= workers[t] /\ workers[t] \in 0..Concurrency
    BY DEF TypeInv, TypeOK, PoolInv
  <1> QED
    BY <1>2, <1>3, <1>4, <1>5, OutboxAssumption

\* Leasing some due events keeps the rows well formed.
LEMMA LeaseTypes ==
  ASSUME TypeOK, NEW d \in Dispatchers, NEW t \in Tokens, NEW batch \in SUBSET Events,
         Lease(d, t, batch)
  PROVE  /\ verdict' \in [Events -> {"open", "published", "dead"}]
         /\ failures' \in [Events -> Nat]
         /\ wait' \in [Events -> 0..MaxDelay]
         /\ token' \in [Events -> Tokens \cup {NoToken}]
         /\ lease' \in [Events -> 0..LeaseTicks]
         /\ enqueued' \in SUBSET Events
  BY OutboxAssumption DEF Lease, TypeOK

\* A fault that is spent was in the budget.
LEMMA SpendTypes ==
  ASSUME TypeOK, NEW kind \in FaultKinds, Spend(kind)
  PROVE  budget' \in [FaultKinds -> Nat]
  BY DEF Spend, TypeOK

\* A loop that goes on waits for no cycle.
LEMMA LoopTypes ==
  ASSUME TypeOK, NEW t, NEW condition, LoopContinues(t, condition)
  PROVE  awaiting' \in [Dispatchers -> Tokens \cup {NoToken}]
  BY DEF LoopContinues, TypeOK

\* The pool is started with at most as many workers as it may have.
LEMMA TypeClaim ==
  ASSUME TypeInv, NEW d \in Dispatchers, NEW t \in Tokens, NEW batch \in SUBSET Events,
         Claim(d, t, batch)
  PROVE  TypeInv'
  <1> DEFINE taken == [e \in Events |-> IF e \in batch THEN "todo" ELSE "none"]
             read  == [e \in Events |-> IF e \in batch THEN failures[e] ELSE 0]
             n     == AtMost(Concurrency, Cardinality(batch))
  <1>0. TypeOK
    BY DEF TypeInv
  <1>1. /\ Lease(d, t, batch)
        /\ item' = [item EXCEPT ![t] = taken]
        /\ seen' = [seen EXCEPT ![t] = read]
        /\ workers' = [workers EXCEPT ![t] = n]
        /\ owner' = [owner EXCEPT ![t] = d]
        /\ awaiting' = [awaiting EXCEPT ![d] = t]
        /\ budget' = budget
    BY DEF Claim
  <1>2. taken \in [Events -> Phases] /\ \A e \in Events : taken[e] \notin Busy
    BY DEF Phases, Busy
  <1>3. read \in [Events -> Nat]
    BY <1>0 DEF TypeOK
  <1>4. n \in 0..Concurrency
    BY FiniteEvents, OutboxAssumption DEF AtMost
  <1> HIDE DEF taken, read, n
  <1>5. TypeOK'
    <2>1. item' \in [Tokens -> [Events -> Phases]]
      BY <1>0, <1>1, <1>2 DEF TypeOK
    <2>2. seen' \in [Tokens -> [Events -> Nat]]
      BY <1>0, <1>1, <1>3 DEF TypeOK
    <2>3. workers' \in [Tokens -> 0..Concurrency]
      BY <1>0, <1>1, <1>4 DEF TypeOK
    <2>4. /\ owner' \in [Tokens -> Dispatchers \cup {"nobody"}]
          /\ awaiting' \in [Dispatchers -> Tokens \cup {NoToken}]
          /\ budget' \in [FaultKinds -> Nat]
      BY <1>0, <1>1 DEF TypeOK
    <2> QED
      BY <1>0, <1>1, <2>1, <2>2, <2>3, <2>4, LeaseTypes DEF TypeOK
  <1>6. ASSUME NEW u \in Tokens PROVE Cardinality(BusyItems(u)') <= workers'[u]
    <2>1. CASE u = t
      <3>1. BusyItems(u)' = {}
        BY <1>0, <1>1, <1>2, <2>1 DEF TypeOK, BusyItems
      <3>2. workers'[u] = n
        BY <1>0, <1>1, <2>1 DEF TypeOK
      <3> QED
        BY <1>4, <3>1, <3>2, FS_EmptySet, OutboxAssumption
    <2>2. CASE u # t
      <3>1. BusyItems(u)' = BusyItems(u) /\ workers'[u] = workers[u]
        BY <1>0, <1>1, <2>2 DEF TypeOK, BusyItems
      <3> QED
        BY <3>1 DEF TypeInv, PoolInv
    <2> QED
      BY <2>1, <2>2
  <1> QED
    BY <1>5, <1>6 DEF TypeInv, PoolInv

\* Only a free worker takes an event.
LEMMA TypeTake ==
  ASSUME TypeInv, NEW t \in Tokens, NEW e \in Events, Take(t, e)
  PROVE  TypeInv'
  <1>1. /\ item[t][e] = "todo" /\ Cardinality(BusyItems(t)) < workers[t]
        /\ item' = [item EXCEPT ![t][e] = IF e \in Poison THEN "dead" ELSE "add"]
        /\ UNCHANGED <<rowVars, enqueued, cycleVars, workers, awaiting, budget>>
    BY DEF Take
  <1>2. TypeOK'
    BY <1>1 DEF TypeInv, TypeOK, rowVars, cycleVars, Phases
  <1>3. /\ BusyItems(t)' = BusyItems(t) \cup {e} /\ e \notin BusyItems(t)
        /\ \A u \in Tokens \ {t} : BusyItems(u)' = BusyItems(u)
    BY <1>1 DEF TypeInv, TypeOK, BusyItems, Busy
  <1>4. /\ IsFiniteSet(BusyItems(t)) /\ Cardinality(BusyItems(t)) \in Nat
        /\ Cardinality(BusyItems(t)') = Cardinality(BusyItems(t)) + 1
    <2>1. BusyItems(t) \in SUBSET Events
      BY DEF BusyItems
    <2> QED
      BY <1>3, <2>1, FiniteEvents, FS_AddElement
  <1>5. workers[t] \in Nat /\ workers' = workers
    BY <1>1, OutboxAssumption DEF TypeInv, TypeOK
  <1> QED
    BY <1>1, <1>2, <1>3, <1>4, <1>5, SMTT(30) DEF TypeInv, PoolInv

\* A worker that goes on with its event stays busy with it.
LEMMA TypeGoesOn ==
  ASSUME TypeInv, NEW t \in Tokens, NEW e \in Events, NEW phase \in Busy,
         item[t][e] \in Busy, item' = [item EXCEPT ![t][e] = phase], workers' = workers
  PROVE  item' \in [Tokens -> [Events -> Phases]] /\ PoolInv'
  <1>1. item' \in [Tokens -> [Events -> Phases]]
    BY DEF TypeInv, TypeOK, Phases, Busy
  <1>2. \A u \in Tokens : BusyItems(u)' = BusyItems(u)
    BY DEF TypeInv, TypeOK, BusyItems
  <1> QED
    BY <1>1, <1>2 DEF TypeInv, PoolInv

\* queue.add returns, or it fails with or without effect.
LEMMA TypeAdd ==
  ASSUME TypeInv, NEW t \in Tokens, NEW e \in Events, Add(t, e) \/ AddFails(t, e)
  PROVE  TypeInv'
  <1>1. PICK phase \in {"mark", "retry"} : item' = [item EXCEPT ![t][e] = phase]
    BY DEF Add, AddFails
  <1>2. /\ item[t][e] = "add" /\ enqueued' \in {enqueued, enqueued \cup {e}}
        /\ UNCHANGED <<rowVars, cycleVars, workers, awaiting>>
    BY DEF Add, AddFails
  <1>3. budget' \in [FaultKinds -> Nat]
    BY SpendTypes DEF Add, AddFails, TypeInv, TypeOK, FaultKinds
  <1>4. item' \in [Tokens -> [Events -> Phases]] /\ PoolInv'
    BY <1>1, <1>2, TypeGoesOn DEF Busy
  <1> QED
    BY <1>2, <1>3, <1>4 DEF TypeInv, TypeOK, rowVars, cycleVars

\* The worker records the outcome and looks for its next event.
LEMMA TypeMark ==
  ASSUME TypeInv, NEW t \in Tokens, NEW e \in Events, Mark(t, e)
  PROVE  TypeInv'
  <1>0. TypeOK
    BY DEF TypeInv
  <1>1. /\ Recording(t, e) /\ Record(t, e)
        /\ item' = [item EXCEPT ![t] = ItemsLeft(t, e, workers[t])]
        /\ UNCHANGED <<cycleVars, workers, enqueued, budget>>
    BY DEF Mark, Finish, Recording
  <1>2. awaiting' \in [Dispatchers -> Tokens \cup {NoToken}]
    BY <1>0, LoopTypes DEF Mark, Finish
  <1>3. /\ item' \in [Tokens -> [Events -> Phases]]
        /\ BusyItems(t)' \subseteq BusyItems(t) \ {e}
        /\ \A u \in Tokens \ {t} : BusyItems(u)' = BusyItems(u)
    BY <1>0, <1>1, ItemsLeftTypes
  <1>4. TypeOK'
    BY <1>0, <1>1, <1>2, <1>3, RecordTypes DEF TypeOK, cycleVars
  <1>5. Cardinality(BusyItems(t)') \in Nat /\ Cardinality(BusyItems(t)') <= workers[t] - 1
    BY <1>1, <1>3, PoolShrinks
  <1>6. workers[t] \in Nat
    BY <1>0, OutboxAssumption DEF TypeOK
  <1> QED
    BY <1>1, <1>3, <1>4, <1>5, <1>6 DEF TypeInv, PoolInv

\* markPublished throws, and the worker goes on to schedule a retry.
LEMMA TypeMarkPublishedFails ==
  ASSUME TypeInv, NEW t \in Tokens, NEW e \in Events, MarkPublishedFails(t, e)
  PROVE  TypeInv'
  <1>0. TypeOK
    BY DEF TypeInv
  <1>1. /\ item[t][e] = "mark" /\ item' = [item EXCEPT ![t][e] = "retry"]
        /\ Record(t, e) \/ UNCHANGED rowVars
        /\ UNCHANGED <<enqueued, cycleVars, workers, awaiting>>
    BY DEF MarkPublishedFails
  <1>2. budget' \in [FaultKinds -> Nat]
    BY <1>0, SpendTypes DEF MarkPublishedFails, FaultKinds
  <1>3. item' \in [Tokens -> [Events -> Phases]] /\ PoolInv'
    BY <1>1, TypeGoesOn DEF Busy
  <1>4. Recording(t, e)
    BY <1>1 DEF Recording
  <1> QED
    BY <1>0, <1>1, <1>2, <1>3, <1>4, RecordTypes DEF TypeInv, TypeOK, cycleVars

\* markRetry or markDeadLettered throws, and the pool loses the worker.
LEMMA TypeMarkRejects ==
  ASSUME TypeInv, NEW t \in Tokens, NEW e \in Events, MarkRejects(t, e)
  PROVE  TypeInv'
  <1>0. TypeOK
    BY DEF TypeInv
  <1>1. /\ Recording(t, e) /\ (Record(t, e) \/ UNCHANGED rowVars)
        /\ item' = [item EXCEPT ![t] = ItemsLeft(t, e, workers[t] - 1)]
        /\ workers' = [workers EXCEPT ![t] = @ - 1]
        /\ UNCHANGED <<cycleVars, enqueued>>
    BY DEF MarkRejects, Reject, Recording
  <1>2. awaiting' \in [Dispatchers -> Tokens \cup {NoToken}]
    BY <1>0, LoopTypes DEF MarkRejects, Reject
  <1>3. budget' \in [FaultKinds -> Nat]
    BY <1>0, SpendTypes DEF MarkRejects, FaultKinds
  <1>4. /\ item' \in [Tokens -> [Events -> Phases]]
        /\ BusyItems(t)' \subseteq BusyItems(t) \ {e}
        /\ \A u \in Tokens \ {t} : BusyItems(u)' = BusyItems(u)
    BY <1>0, <1>1, ItemsLeftTypes
  <1>5. /\ Cardinality(BusyItems(t)') <= workers[t] - 1
        /\ workers[t] - 1 \in 0..Concurrency
    BY <1>1, <1>4, PoolShrinks
  <1>6. workers' \in [Tokens -> 0..Concurrency] /\ workers'[t] = workers[t] - 1
    BY <1>0, <1>1, <1>5 DEF TypeOK
  <1>7. TypeOK'
    BY <1>0, <1>1, <1>2, <1>3, <1>4, <1>6, RecordTypes DEF TypeOK, cycleVars
  <1> QED
    BY <1>0, <1>1, <1>4, <1>5, <1>6, <1>7 DEF TypeInv, PoolInv, TypeOK

\* A crash empties the cycles of the process.
LEMMA TypeCrash ==
  ASSUME TypeInv, NEW d \in Dispatchers, Crash(d)
  PROVE  TypeInv'
  <1>0. TypeOK
    BY DEF TypeInv
  <1>1. /\ item' = [t \in Tokens |-> IF owner[t] = d THEN [e \in Events |-> "none"] ELSE item[t]]
        /\ awaiting' = [awaiting EXCEPT ![d] = NoToken]
        /\ UNCHANGED <<rowVars, enqueued, cycleVars, workers>>
    BY DEF Crash
  <1>2. budget' \in [FaultKinds -> Nat]
    BY <1>0, SpendTypes DEF Crash, FaultKinds
  <1>3. TypeOK'
    BY <1>0, <1>1, <1>2 DEF TypeOK, rowVars, cycleVars, Phases
  <1>4. ASSUME NEW t \in Tokens PROVE Cardinality(BusyItems(t)') <= workers'[t]
    <2>1. CASE owner[t] = d
      <3>1. BusyItems(t)' = {}
        BY <1>1, <2>1 DEF BusyItems, Busy
      <3> QED
        BY <1>0, <1>1, <3>1, FS_EmptySet, OutboxAssumption DEF TypeOK
    <2>2. CASE owner[t] # d
      <3>1. BusyItems(t)' = BusyItems(t)
        BY <1>1, <2>2 DEF BusyItems
      <3> QED
        BY <1>1, <3>1 DEF TypeInv, PoolInv
    <2> QED
      BY <2>1, <2>2
  <1> QED
    BY <1>3, <1>4 DEF TypeInv, PoolInv

\* A lost claim leases the rows and starts no cycle.
LEMMA TypeClaimIsLost ==
  ASSUME TypeInv, NEW d \in Dispatchers, NEW t \in Tokens, NEW batch \in SUBSET Events,
         ClaimIsLost(d, t, batch)
  PROVE  TypeInv'
  <1>1. /\ TypeOK /\ Lease(d, t, batch) /\ Spend("database")
        /\ UNCHANGED <<item, cycleVars, workers, awaiting>>
    BY DEF TypeInv, ClaimIsLost
  <1>2. budget' \in [FaultKinds -> Nat]
    BY <1>1, SpendTypes DEF FaultKinds
  <1>3. TypeOK'
    BY <1>1, <1>2, LeaseTypes DEF TypeOK, cycleVars
  <1> QED
    BY <1>1, <1>3 DEF TypeInv, PoolInv, BusyItems

\* Time counts leases and delays down to zero.
LEMMA TypeTick ==
  ASSUME TypeInv, Tick PROVE TypeInv'
  <1>1. /\ lease' = [e \in Events |-> Earlier(lease[e])]
        /\ wait' = [e \in Events |-> Earlier(wait[e])]
        /\ UNCHANGED <<verdict, failures, token, enqueued, item, cycleVars, workers, awaiting, budget>>
    BY DEF Tick
  <1>2. ASSUME NEW m \in Nat, NEW n \in 0..m PROVE Earlier(n) \in 0..m
    BY <1>2 DEF Earlier
  <1>3. \A e \in Events : Earlier(lease[e]) \in 0..LeaseTicks /\ Earlier(wait[e]) \in 0..MaxDelay
    BY <1>2, OutboxAssumption DEF TypeInv, TypeOK
  <1>4. lease' \in [Events -> 0..LeaseTicks] /\ wait' \in [Events -> 0..MaxDelay]
    BY <1>1, <1>3
  <1> QED
    BY <1>1, <1>4 DEF TypeInv, TypeOK, PoolInv, BusyItems, cycleVars

\* TypeInv is inductive.
LEMMA TypeNext ==
  ASSUME TypeInv, [Next]_vars PROVE TypeInv'
  <1>1. CASE Next
    BY <1>1, TypeClaim, TypeTake, TypeAdd, TypeMark, TypeMarkPublishedFails, TypeMarkRejects,
       TypeClaimIsLost, TypeCrash, TypeTick
    DEF Next, SomeClaim, Work, Faults
  <1>2. CASE UNCHANGED vars
    BY <1>2 DEF vars, TypeInv, TypeOK, PoolInv, BusyItems
  <1> QED
    BY <1>1, <1>2

\* The types and the pools at the start.
LEMMA TypeInit ==
  ASSUME Init PROVE TypeInv
  <1>1. TypeOK
    BY OutboxAssumption DEF Init, TypeOK, Phases
  <1>2. \A t \in Tokens : BusyItems(t) = {} /\ workers[t] = 0
    BY DEF Init, BusyItems, Busy
  <1> QED
    BY <1>1, <1>2, FS_EmptySet DEF TypeInv, PoolInv

\* Every variable stays in its type, whatever fails; in particular a pool never
\* counts its workers below zero, and a retry is never delayed beyond the maximum.
THEOREM OutboxTypeCorrect == Spec => []TypeOK
  <1>1. Init => TypeInv
    BY TypeInit
  <1>2. TypeInv /\ [Next]_vars => TypeInv'
    BY TypeNext
  <1>3. TypeInv => TypeOK
    BY DEF TypeInv
  <1> QED
    BY <1>1, <1>2, <1>3, PTL DEF Spec

-----------------------------------------------------------------------------
(* The counters and leases of a cycle in flight.                            *)

\* Leases are the fresher information: a claim of other events, by another
\* cycle, ends what an older cycle may say about them.
OwnRow(t, e)  == token[e] = t /\ verdict[e] = "open"
Handles(t, e) == item[t][e] # "none"

BackoffInv == TypeInv /\ BackoffIsCurrent

\* What one step of worker t on event e does to the rows and to the items, if it
\* records at all: the row is let go, or left as it was.
LetGo(t, e) ==
  /\ token[e] = t /\ verdict[e] = "open"
  /\ verdict' = [verdict EXCEPT ![e] = verdict'[e]]
  /\ failures' = [failures EXCEPT ![e] = failures'[e]]
  /\ token' = [token EXCEPT ![e] = NoToken]
  /\ lease' = [lease EXCEPT ![e] = 0]
  /\ item[t][e] # "retry" => verdict'[e] # "open"
LeftAlone == UNCHANGED <<verdict, failures, token, lease>>

\* Recording lets the row go, if it is still the worker's, and only a retry
\* leaves it open.
LEMMA RecordLetsGo ==
  ASSUME TypeOK, NEW t \in Tokens, NEW e \in Events, Recording(t, e),
         Record(t, e) \/ UNCHANGED rowVars
  PROVE  LetGo(t, e) \/ LeftAlone
  <1>1. CASE UNCHANGED rowVars \/ ~MayMark(t, e)
    BY <1>1 DEF Record, rowVars, LeftAlone
  <1>2. ASSUME MayMark(t, e), NEW v, NEW n, NEW w, Release(e, v, n, w),
               item[t][e] # "retry" => v # "open"
        PROVE  LetGo(t, e)
    BY <1>2 DEF MayMark, Release, LetGo, TypeOK
  <1>3. CASE Record(t, e) /\ MayMark(t, e) /\ item[t][e] = "mark"
    <2>1. Release(e, "published", failures[e], 0)
      BY <1>3 DEF Record
    <2> QED
      BY <2>1, <1>2, <1>3
  <1>4. CASE Record(t, e) /\ MayMark(t, e) /\ item[t][e] = "retry"
    <2>1. Release(e, "open", failures[e] + 1, Delay(seen[t][e]))
      BY <1>4 DEF Record
    <2> QED
      BY <2>1, <1>2, <1>4
  <1>5. CASE Record(t, e) /\ MayMark(t, e) /\ item[t][e] = "dead"
    <2>1. Release(e, "dead", failures[e] + 1, wait[e])
      BY <1>5 DEF Record
    <2> QED
      BY <2>1, <1>2, <1>5
  <1> QED
    BY <1>1, <1>3, <1>4, <1>5 DEF Recording

\* After a step no cycle handles an event it did not handle.
FewerHandled ==
  /\ item' \in [Tokens -> [Events -> Phases]]
  /\ \A t \in Tokens, e \in Events : Handles(t, e)' => Handles(t, e)

\* A worker's steps hand out no event.
LEMMA WorkersHandleFewer ==
  ASSUME TypeOK, NEW t \in Tokens, NEW e \in Events,
         \/ Take(t, e) \/ Add(t, e) \/ AddFails(t, e)
         \/ Mark(t, e) \/ MarkPublishedFails(t, e) \/ MarkRejects(t, e)
  PROVE  FewerHandled
  <1>1. CASE \/ Take(t, e) \/ Add(t, e) \/ AddFails(t, e) \/ MarkPublishedFails(t, e)
    <2>1. /\ item[t][e] # "none"
          /\ \E phase \in Phases : item' = [item EXCEPT ![t][e] = phase]
      BY <1>1 DEF Take, Add, AddFails, MarkPublishedFails, Phases
    <2> QED
      BY <2>1 DEF FewerHandled, Handles, TypeOK
  <1>2. CASE Mark(t, e) \/ MarkRejects(t, e)
    <2>1. PICK n : item' = [item EXCEPT ![t] = ItemsLeft(t, e, n)]
      BY <1>2 DEF Mark, Finish, MarkRejects, Reject
    <2>2. item' \in [Tokens -> [Events -> Phases]]
      BY <2>1, ItemsLeftTypes
    <2>3. \A x \in Events : ItemsLeft(t, e, n)[x] \in {item[t][x], "none"}
      BY DEF ItemsLeft
    <2> QED
      BY <2>1, <2>2, <2>3 DEF FewerHandled, Handles, TypeOK
  <1> QED
    BY <1>1, <1>2

\* What the rest of the argument needs of a worker's step: nothing is handed
\* out, no cycle reads a count again, and the row is let go or left alone.
LEMMA WorkerStep ==
  ASSUME TypeInv, NEW t \in Tokens, NEW e \in Events,
         \/ Take(t, e) \/ Add(t, e) \/ AddFails(t, e)
         \/ Mark(t, e) \/ MarkPublishedFails(t, e) \/ MarkRejects(t, e)
  PROVE  FewerHandled /\ seen' = seen /\ owner' = owner /\ (LetGo(t, e) \/ LeftAlone)
  <1>0. TypeOK
    BY DEF TypeInv
  <1>1. FewerHandled
    BY <1>0, WorkersHandleFewer
  <1>2. seen' = seen /\ owner' = owner
    BY DEF Take, Add, AddFails, Mark, MarkPublishedFails, MarkRejects, Finish, Reject, cycleVars
  <1>3. CASE Take(t, e) \/ Add(t, e) \/ AddFails(t, e)
    BY <1>1, <1>2, <1>3 DEF Take, Add, AddFails, rowVars, LeftAlone
  <1>4. CASE Mark(t, e) \/ MarkPublishedFails(t, e) \/ MarkRejects(t, e)
    <2>1. Recording(t, e) /\ (Record(t, e) \/ UNCHANGED rowVars)
      BY <1>4 DEF Mark, MarkPublishedFails, MarkRejects, Recording
    <2> QED
      BY <1>0, <1>1, <1>2, <2>1, RecordLetsGo
  <1> QED
    BY <1>3, <1>4

\* A worker lets go of its own rows only, so the counts of the others stand.
LEMMA BackoffWorker ==
  ASSUME BackoffInv, NEW t \in Tokens, NEW e \in Events,
         \/ Take(t, e) \/ Add(t, e) \/ AddFails(t, e)
         \/ Mark(t, e) \/ MarkPublishedFails(t, e) \/ MarkRejects(t, e)
  PROVE  BackoffIsCurrent'
  <1>1. FewerHandled /\ seen' = seen /\ (LetGo(t, e) \/ LeftAlone)
    BY WorkerStep DEF BackoffInv
  <1>2. SUFFICES ASSUME NEW u \in Tokens, NEW x \in Events,
                        item'[u][x] # "none" /\ token'[x] = u /\ verdict'[x] = "open"
                 PROVE  seen'[u][x] = failures'[x]
    BY DEF BackoffIsCurrent
  <1>3. item[u][x] # "none"
    BY <1>1, <1>2 DEF FewerHandled, Handles
  <1>4. CASE LeftAlone
    BY <1>1, <1>2, <1>3, <1>4 DEF LeftAlone, BackoffInv, BackoffIsCurrent
  <1>5. CASE LetGo(t, e)
    <2>1. x # e
      BY <1>2, <1>5, OutboxAssumption DEF LetGo, BackoffInv, TypeInv, TypeOK
    <2>2. token[x] = u /\ verdict[x] = "open" /\ failures'[x] = failures[x]
      BY <1>2, <1>5, <2>1 DEF LetGo, BackoffInv, TypeInv, TypeOK
    <2> QED
      BY <1>1, <1>3, <2>2 DEF BackoffInv, BackoffIsCurrent
  <1> QED
    BY <1>1, <1>4, <1>5

\* A lease under an unused token is no other cycle's.
LEMMA LeasedByNewCycle ==
  ASSUME TypeOK, NEW d \in Dispatchers, NEW t \in Tokens, NEW batch \in SUBSET Events,
         Lease(d, t, batch)
  PROVE  /\ \A e \in Events : token'[e] = IF e \in batch THEN t ELSE token[e]
         /\ \A e \in Events : lease'[e] = IF e \in batch THEN LeaseTicks ELSE lease[e]
         /\ \A e \in Events : token[e] # t /\ item[t][e] = "none"
         /\ \A e \in batch : lease[e] = 0 /\ verdict[e] = "open"
         /\ UNCHANGED <<verdict, failures>>
  BY DEF Lease, Unused, InFlight, Due

\* A claim reads the counts with its lease, in one statement.
LEMMA BackoffClaim ==
  ASSUME BackoffInv, NEW d \in Dispatchers, NEW t \in Tokens, NEW batch \in SUBSET Events,
         Claim(d, t, batch)
  PROVE  BackoffIsCurrent'
  <1> DEFINE taken == [e \in Events |-> IF e \in batch THEN "todo" ELSE "none"]
             read  == [e \in Events |-> IF e \in batch THEN failures[e] ELSE 0]
  <1>1. /\ Lease(d, t, batch) /\ TypeOK
        /\ item' = [item EXCEPT ![t] = taken] /\ seen' = [seen EXCEPT ![t] = read]
    BY DEF Claim, BackoffInv, TypeInv
  <1>2. \A e \in Events : /\ taken[e] # "none" => e \in batch
                          /\ e \in batch => read[e] = failures[e]
    OBVIOUS
  <1> HIDE DEF taken, read
  <1>3. SUFFICES ASSUME NEW u \in Tokens, NEW x \in Events,
                        item'[u][x] # "none" /\ token'[x] = u /\ verdict'[x] = "open"
                 PROVE  seen'[u][x] = failures'[x]
    BY DEF BackoffIsCurrent
  <1>4. CASE u = t
    <2>1. item'[u][x] = taken[x] /\ seen'[u][x] = read[x]
      BY <1>1, <1>4 DEF TypeOK
    <2> QED
      BY <1>1, <1>2, <1>3, <2>1, LeasedByNewCycle
  <1>5. CASE u # t
    <2>1. item'[u] = item[u] /\ seen'[u] = seen[u]
      BY <1>1, <1>5 DEF TypeOK
    <2>2. token[x] = u /\ verdict[x] = "open" /\ failures'[x] = failures[x]
      BY <1>1, <1>3, <1>5, LeasedByNewCycle
    <2> QED
      BY <1>3, <2>1, <2>2 DEF BackoffInv, BackoffIsCurrent
  <1> QED
    BY <1>4, <1>5

\* A claim whose answer is lost starts no cycle that could act on it.
LEMMA BackoffClaimIsLost ==
  ASSUME BackoffInv, NEW d \in Dispatchers, NEW t \in Tokens, NEW batch \in SUBSET Events,
         ClaimIsLost(d, t, batch)
  PROVE  BackoffIsCurrent'
  <1>1. Lease(d, t, batch) /\ TypeOK /\ item' = item /\ seen' = seen
    BY DEF ClaimIsLost, cycleVars, BackoffInv, TypeInv
  <1>2. SUFFICES ASSUME NEW u \in Tokens, NEW x \in Events,
                        item[u][x] # "none" /\ token'[x] = u /\ verdict'[x] = "open"
                 PROVE  seen[u][x] = failures'[x]
    BY <1>1 DEF BackoffIsCurrent
  <1>3. u # t
    BY <1>1, <1>2, LeasedByNewCycle
  <1>4. token[x] = u /\ verdict[x] = "open" /\ failures'[x] = failures[x]
    BY <1>1, <1>2, <1>3, LeasedByNewCycle
  <1> QED
    BY <1>2, <1>4 DEF BackoffInv, BackoffIsCurrent

\* A crash forgets items; time touches neither counts nor tokens.
LEMMA BackoffElse ==
  ASSUME BackoffInv, Tick \/ (\E d \in Dispatchers : Crash(d)) \/ UNCHANGED vars
  PROVE  BackoffIsCurrent'
  <1>1. UNCHANGED <<verdict, failures, token, seen>>
    BY DEF Tick, Crash, vars, rowVars, cycleVars
  <1>2. \A u \in Tokens, x \in Events : item'[u][x] # "none" => item[u][x] # "none"
    <2>1. CASE item' = item
      BY <2>1
    <2>2. ASSUME NEW d \in Dispatchers, Crash(d)
          PROVE  \A u \in Tokens, x \in Events : item'[u][x] # "none" => item[u][x] # "none"
      BY <2>2 DEF Crash
    <2> QED
      BY <2>1, <2>2 DEF Tick, vars
  <1> QED
    BY <1>1, <1>2 DEF BackoffInv, BackoffIsCurrent

\* The count a cycle computes its retry delay from is the row's, as long as the
\* lease is its own: another cycle that recorded a failure meanwhile has taken
\* the lease away, and then nothing is recorded with the old count.
THEOREM BackoffCurrent == Spec => []BackoffIsCurrent
  <1>1. Init => BackoffInv
    BY TypeInit DEF Init, BackoffInv, BackoffIsCurrent
  <1>2. BackoffInv /\ [Next]_vars => BackoffInv'
    <2> SUFFICES ASSUME BackoffInv, [Next]_vars PROVE BackoffInv'
      OBVIOUS
    <2>1. TypeInv'
      BY TypeNext DEF BackoffInv
    <2>2. CASE Next
      <3>1. BackoffIsCurrent'
        BY <2>2, BackoffClaim, BackoffWorker, BackoffClaimIsLost, BackoffElse
        DEF Next, SomeClaim, Work, Faults
      <3> QED
        BY <2>1, <3>1 DEF BackoffInv
    <2>3. CASE UNCHANGED vars
      BY <2>1, <2>3, BackoffElse DEF BackoffInv
    <2> QED
      BY <2>2, <2>3
  <1>3. BackoffInv => BackoffIsCurrent
    BY DEF BackoffInv
  <1> QED
    BY <1>1, <1>2, <1>3, PTL DEF Spec

-----------------------------------------------------------------------------
(* One cycle per event, while leases outlast the batches.                   *)

\* An awaited cycle holds a running lease on every open event it handles, and
\* so no two of them handle the same event.
AwaitedHold ==
  \A t \in Tokens, e \in Events :
    Awaited(t) /\ Handles(t, e) /\ verdict[e] = "open" => token[e] = t /\ lease[e] > 0
AwaitedApart ==
  \A t, u \in Tokens, e \in Events :
    Awaited(t) /\ Awaited(u) /\ Handles(t, e) /\ Handles(u, e) => t = u

CycleInv == TypeInv /\ (LeaseCovers => AwaitedHold /\ AwaitedApart)

\* A worker's step makes no loop wait for a cycle it did not wait for.
LEMMA WorkersAwaitFewer ==
  ASSUME TypeInv, NEW t \in Tokens, NEW e \in Events,
         \/ Take(t, e) \/ Add(t, e) \/ AddFails(t, e)
         \/ Mark(t, e) \/ MarkPublishedFails(t, e) \/ MarkRejects(t, e)
  PROVE  \A u \in Tokens : Awaited(u)' => Awaited(u)
  <1>1. CASE awaiting' = awaiting
    BY <1>1 DEF Awaited
  <1>2. ASSUME NEW condition, LoopContinues(t, condition)
        PROVE  \A u \in Tokens : Awaited(u)' => Awaited(u)
    BY <1>2, OutboxAssumption DEF LoopContinues, Awaited
  <1> QED
    BY <1>1, <1>2
    DEF Take, Add, AddFails, Mark, MarkPublishedFails, MarkRejects, Finish, Reject

\* A cycle that records an outcome and goes on with the event records a publication.
LEMMA LetGoEndsHandling ==
  ASSUME TypeInv, NEW t \in Tokens, NEW e \in Events,
         \/ Take(t, e) \/ Add(t, e) \/ AddFails(t, e)
         \/ Mark(t, e) \/ MarkPublishedFails(t, e) \/ MarkRejects(t, e)
  PROVE  (LetGo(t, e) /\ verdict'[e] = "open") => ~Handles(t, e)'
  <1>1. SUFFICES ASSUME LetGo(t, e), verdict'[e] = "open" PROVE ~Handles(t, e)'
    OBVIOUS
  <1>2. item[t][e] = "retry"
    BY <1>1 DEF LetGo
  <1>3. Mark(t, e) \/ MarkRejects(t, e)
    BY <1>2 DEF Take, Add, AddFails, MarkPublishedFails
  <1>4. PICK n : item' = [item EXCEPT ![t] = ItemsLeft(t, e, n)]
    BY <1>3 DEF Mark, Finish, MarkRejects, Reject
  <1>5. ItemsLeft(t, e, n)[e] = "none"
    BY DEF ItemsLeft
  <1> QED
    BY <1>4, <1>5 DEF TypeInv, TypeOK, Handles

\* A worker's step, of an awaited cycle or of one that was rejected, ends no
\* other cycle's lease.
LEMMA CycleWorker ==
  ASSUME CycleInv, LeaseCovers, NEW t \in Tokens, NEW e \in Events,
         \/ Take(t, e) \/ Add(t, e) \/ AddFails(t, e)
         \/ Mark(t, e) \/ MarkPublishedFails(t, e) \/ MarkRejects(t, e)
  PROVE  AwaitedHold' /\ AwaitedApart'
  <1>1. FewerHandled /\ (LetGo(t, e) \/ LeftAlone)
    BY WorkerStep DEF CycleInv
  <1>2. \A u \in Tokens : Awaited(u)' => Awaited(u)
    BY WorkersAwaitFewer DEF CycleInv
  <1>3. AwaitedApart'
    BY <1>1, <1>2 DEF CycleInv, AwaitedApart, FewerHandled
  <1>4. ASSUME NEW u \in Tokens, NEW x \in Events,
               Awaited(u)', Handles(u, x)', verdict'[x] = "open"
        PROVE  token'[x] = u /\ lease'[x] > 0
    <2>1. Awaited(u) /\ Handles(u, x)
      BY <1>1, <1>2, <1>4 DEF FewerHandled
    <2>2. CASE LeftAlone
      BY <1>4, <2>1, <2>2 DEF LeftAlone, CycleInv, AwaitedHold
    <2>3. CASE LetGo(t, e)
      <3>1. CASE x # e
        <4>1. verdict'[x] = verdict[x] /\ token'[x] = token[x] /\ lease'[x] = lease[x]
          BY <2>3, <3>1 DEF LetGo, CycleInv, TypeInv, TypeOK
        <4> QED
          BY <1>4, <2>1, <4>1 DEF CycleInv, AwaitedHold
      <3>2. CASE x = e
        <4>1. verdict[e] = "open" /\ token[e] = t
          BY <2>3 DEF LetGo
        <4>2. u = t
          BY <2>1, <3>2, <4>1 DEF CycleInv, AwaitedHold
        <4>3. ~Handles(t, e)'
          BY <1>4, <2>3, <3>2, LetGoEndsHandling DEF CycleInv
        <4> QED
          BY <1>4, <3>2, <4>2, <4>3
      <3> QED
        BY <3>1, <3>2
    <2> QED
      BY <1>1, <2>2, <2>3
  <1>5. AwaitedHold'
    BY <1>4 DEF AwaitedHold
  <1> QED
    BY <1>3, <1>5

\* A claim takes no event of an awaited cycle, because its lease still runs.
LEMMA DueIsNotHandled ==
  ASSUME CycleInv, LeaseCovers, NEW d \in Dispatchers, NEW t \in Tokens,
         NEW batch \in SUBSET Events, Lease(d, t, batch)
  PROVE  \A u \in Tokens, e \in batch : ~(Awaited(u) /\ Handles(u, e))
  <1>1. \A e \in batch : lease[e] = 0 /\ verdict[e] = "open"
    BY LeasedByNewCycle DEF CycleInv, TypeInv
  <1> QED
    BY <1>1 DEF CycleInv, AwaitedHold

\* The new cycle has its leases, and the others keep theirs.
LEMMA CycleClaim ==
  ASSUME CycleInv, LeaseCovers, NEW d \in Dispatchers, NEW t \in Tokens,
         NEW batch \in SUBSET Events, Claim(d, t, batch)
  PROVE  AwaitedHold' /\ AwaitedApart'
  <1> DEFINE taken == [e \in Events |-> IF e \in batch THEN "todo" ELSE "none"]
  <1>1. /\ Lease(d, t, batch) /\ TypeOK
        /\ item' = [item EXCEPT ![t] = taken]
        /\ awaiting' = [awaiting EXCEPT ![d] = t]
    BY DEF Claim, CycleInv, TypeInv
  <1>2. \A e \in Events : taken[e] # "none" <=> e \in batch
    OBVIOUS
  <1> HIDE DEF taken
  <1>3. \A e \in Events : Handles(t, e)' <=> e \in batch
    BY <1>1, <1>2 DEF Handles, TypeOK
  <1>4. \A u \in Tokens \ {t}, e \in Events : Handles(u, e)' <=> Handles(u, e)
    BY <1>1 DEF Handles, TypeOK
  <1>5. \A u \in Tokens \ {t} : Awaited(u)' => Awaited(u)
    BY <1>1 DEF Awaited, TypeOK
  <1>6. \A u \in Tokens, e \in batch : ~(Awaited(u) /\ Handles(u, e))
    BY <1>1, DueIsNotHandled
  <1>7. AwaitedApart'
    BY <1>3, <1>4, <1>5, <1>6 DEF AwaitedApart, CycleInv
  <1>8. ASSUME NEW u \in Tokens, NEW e \in Events,
               Awaited(u)', Handles(u, e)', verdict'[e] = "open"
        PROVE  token'[e] = u /\ lease'[e] > 0
    <2>1. CASE u = t
      BY <1>1, <1>3, <1>8, <2>1, LeasedByNewCycle, OutboxAssumption
    <2>2. CASE u # t
      <3>1. Awaited(u) /\ Handles(u, e) /\ e \notin batch
        BY <1>4, <1>5, <1>6, <1>8, <2>2
      <3>2. token'[e] = token[e] /\ lease'[e] = lease[e] /\ verdict[e] = "open"
        BY <1>1, <1>8, <3>1, LeasedByNewCycle
      <3> QED
        BY <3>1, <3>2 DEF CycleInv, AwaitedHold
    <2> QED
      BY <2>1, <2>2
  <1>9. AwaitedHold'
    BY <1>8 DEF AwaitedHold
  <1> QED
    BY <1>7, <1>9

\* A claim whose answer is lost starts no cycle and takes no awaited event.
LEMMA CycleClaimIsLost ==
  ASSUME CycleInv, LeaseCovers, NEW d \in Dispatchers, NEW t \in Tokens,
         NEW batch \in SUBSET Events, ClaimIsLost(d, t, batch)
  PROVE  AwaitedHold' /\ AwaitedApart'
  <1>1. Lease(d, t, batch) /\ TypeOK /\ item' = item /\ awaiting' = awaiting
    BY DEF ClaimIsLost, CycleInv, TypeInv
  <1>2. AwaitedApart'
    BY <1>1 DEF AwaitedApart, CycleInv, Awaited, Handles
  <1>3. ASSUME NEW u \in Tokens, NEW e \in Events,
               Awaited(u)', Handles(u, e)', verdict'[e] = "open"
        PROVE  token'[e] = u /\ lease'[e] > 0
    <2>1. Awaited(u) /\ Handles(u, e)
      BY <1>1, <1>3 DEF Awaited, Handles
    <2>2. e \notin batch
      BY <1>1, <2>1, DueIsNotHandled
    <2>3. token'[e] = token[e] /\ lease'[e] = lease[e] /\ verdict[e] = "open"
      BY <1>1, <1>3, <2>2, LeasedByNewCycle
    <2> QED
      BY <2>1, <2>3 DEF CycleInv, AwaitedHold
  <1> QED
    BY <1>2, <1>3 DEF AwaitedHold

\* A crash ends the wait and the handling together.
LEMMA CycleCrash ==
  ASSUME CycleInv, LeaseCovers, NEW d \in Dispatchers, Crash(d)
  PROVE  AwaitedHold' /\ AwaitedApart'
  <1>1. /\ TypeOK /\ UNCHANGED rowVars
        /\ item' = [t \in Tokens |-> IF owner[t] = d THEN [e \in Events |-> "none"] ELSE item[t]]
        /\ awaiting' = [awaiting EXCEPT ![d] = NoToken]
    BY DEF Crash, CycleInv, TypeInv
  <1>2. \A u \in Tokens : Awaited(u)' => Awaited(u)
    BY <1>1, OutboxAssumption DEF Awaited, TypeOK
  <1>3. \A u \in Tokens, e \in Events : Handles(u, e)' => Handles(u, e)
    BY <1>1 DEF Handles
  <1> QED
    BY <1>1, <1>2, <1>3 DEF CycleInv, AwaitedHold, AwaitedApart, rowVars

\* Time does not pass beyond the lease of an awaited cycle.
LEMMA CycleTick ==
  ASSUME CycleInv, LeaseCovers, Tick
  PROVE  AwaitedHold' /\ AwaitedApart'
  <1>1. /\ \A e \in Events, t \in Tokens :
             Handles(t, e) /\ token[e] = t /\ Awaited(t) => lease[e] > 1
        /\ lease' = [e \in Events |-> Earlier(lease[e])]
        /\ UNCHANGED <<verdict, token, item, awaiting>>
    BY DEF Tick, Handles
  <1>2. \A e \in Events : lease[e] > 1 => lease'[e] > 0
    BY <1>1, OutboxAssumption DEF CycleInv, TypeInv, TypeOK, Earlier
  <1>3. \A u \in Tokens : /\ Awaited(u)' <=> Awaited(u)
                          /\ \A e \in Events : Handles(u, e)' <=> Handles(u, e)
    BY <1>1 DEF Awaited, Handles
  <1> QED
    BY <1>1, <1>2, <1>3 DEF CycleInv, AwaitedHold, AwaitedApart

\* CycleInv is inductive.
LEMMA CycleNext ==
  ASSUME CycleInv, [Next]_vars PROVE CycleInv'
  <1>1. TypeInv'
    BY TypeNext DEF CycleInv
  <1>2. CASE ~LeaseCovers
    BY <1>1, <1>2 DEF CycleInv
  <1>3. CASE LeaseCovers /\ Next
    <2>1. AwaitedHold' /\ AwaitedApart'
      BY <1>3, CycleClaim, CycleWorker, CycleClaimIsLost, CycleCrash, CycleTick
      DEF Next, SomeClaim, Work, Faults
    <2> QED
      BY <1>1, <2>1 DEF CycleInv
  <1>4. CASE LeaseCovers /\ UNCHANGED vars
    BY <1>1, <1>4 DEF vars, CycleInv, AwaitedHold, AwaitedApart, Awaited, Handles
  <1> QED
    BY <1>2, <1>3, <1>4

\* While leases outlast the awaited batches, an event is in the hands of one
\* awaited cycle at most, whatever is lost, however many dispatchers poll, and
\* also when rejected cycles carry on behind them.
THEOREM OneAwaitedCycle == Spec => []OneCyclePerEvent
  <1>1. Init => CycleInv
    <2> SUFFICES ASSUME Init PROVE CycleInv
      OBVIOUS
    <2>1. \A t \in Tokens, e \in Events : ~Handles(t, e)
      BY DEF Init, Handles
    <2> QED
      BY <2>1, TypeInit DEF CycleInv, AwaitedHold, AwaitedApart
  <1>2. CycleInv /\ [Next]_vars => CycleInv'
    BY CycleNext
  <1>3. CycleInv => OneCyclePerEvent
    <2> SUFFICES ASSUME CycleInv, LeaseCovers, NEW e \in Events
                 PROVE  Cardinality({t \in Tokens : Awaited(t) /\ item[t][e] # "none"}) <= 1
      BY DEF OneCyclePerEvent
    <2> DEFINE handling == {t \in Tokens : Awaited(t) /\ item[t][e] # "none"}
    <2>1. \A t, u \in handling : t = u
      BY DEF CycleInv, AwaitedApart, Handles
    <2>2. CASE handling = {}
      BY <2>2, FS_EmptySet
    <2>3. CASE handling # {}
      <3>1. PICK t \in handling : TRUE
        BY <2>3
      <3>2. handling = {t}
        BY <2>1, <3>1
      <3> HIDE DEF handling
      <3>3. Cardinality(handling) = 1
        BY <3>2, FS_Singleton
      <3> QED
        BY <3>3 DEF handling
    <2> QED
      BY <2>2, <2>3
  <1> QED
    BY <1>1, <1>2, <1>3, PTL DEF Spec
=============================================================================
