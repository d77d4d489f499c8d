----------------------------- MODULE BackendProofs -----------------------------
(***************************************************************************)
(* Proofs about the parts of the backend that share no state: the pool that  *)
(* works off a batch of events, for every batch size, concurrency, lease and *)
(* time per event; the conversion of local times, the contract of events and *)
(* consumers, the recovery cycle and the catalogue; and their types, with    *)
(* those of the pool and of the ranking, in the composition of the parts.    *)
(***************************************************************************)
EXTENDS MCBackend, JourneyRankingProofs

-----------------------------------------------------------------------------
(* An accepted lease outlasts every batch that is awaited.                   *)
(*                                                                          *)
(* The events of a batch are taken in order.  When all k workers are busy,   *)
(* the oldest event in work is k or more places before the next one, so the  *)
(* next one is taken at most PerEvent after it: an event of the q-th group   *)
(* of k, counted from 0, is taken by q * PerEvent.                          *)

\* t is in time for the i-th event.
InTime(i, t) == \A q \in Nat : i < (q + 1) * pool => t <= q * PerEvent

PoolInv ==
  /\ PoolTypeOK
  /\ config.leaseMs > MinimumLease(config)
  /\ Cardinality(inWork) <= pool
  /\ \A i \in inWork : clock <= since[i] + PerEvent
  /\ awaited =>
       /\ pool = PoolSize(config, claimed)
       /\ \A i \in inWork : InTime(i, since[i])
       /\ nextIndex < claimed => InTime(nextIndex, clock)

\* A product of natural numbers is one.
LEMMA ProductIsNatural ==
  ASSUME NEW a \in Nat, NEW b \in Nat
  PROVE  a * b \in Nat
OBVIOUS

\* The fields of a configuration are numbers.
LEMMA ConfigNumbers ==
  ASSUME config \in Configurations
  PROVE  /\ config.batchSize \in Nat \ {0}
         /\ config.publishConcurrency \in Nat \ {0}
         /\ config.leaseMs \in Nat
         /\ PerEvent \in Nat \ {0}
BY PoolAssumption

\* The waves of minimumOutboxLeaseMs hold a whole batch, and there is one at least.
LEMMA WavesHoldBatch ==
  ASSUME config \in Configurations
  PROVE  /\ Waves(config) \in Nat \ {0}
         /\ config.batchSize <= Waves(config) * config.publishConcurrency
<1>. DEFINE b == config.batchSize
            k == config.publishConcurrency
            w == (b + k - 1) \div k
<1>1. b \in Nat \ {0} /\ k \in Nat \ {0}
  BY ConfigNumbers
<1>. HIDE DEF b, k
<1>2. w \in Int /\ k * w <= b + k - 1 /\ b + k - 1 < k * w + k
  BY <1>1
<1>. HIDE DEF w
<1>3. b <= w * k
  BY <1>1, <1>2
<1>4. w > 0
  BY <1>1, <1>2
<1>. QED
  BY <1>2, <1>3, <1>4 DEF Waves, b, k, w

\* What is in work is finite, and lies before the next event.
LEMMA InWorkIsFinite ==
  ASSUME PoolTypeOK
  PROVE  /\ IsFiniteSet(inWork)
         /\ Cardinality(inWork) \in Nat
<1>1. nextIndex \in Int
  BY DEF PoolTypeOK
<1>2. IsFiniteSet(0 .. nextIndex - 1)
  BY <1>1, FS_Interval
<1>3. IsFiniteSet(inWork)
  BY <1>2, FS_Subset DEF PoolTypeOK
<1>. QED
  BY <1>3, FS_CardinalityType

\* When no worker is free, one of the events in work was taken a whole pool ago.
LEMMA OldestIsAPoolBehind ==
  ASSUME PoolTypeOK, Cardinality(inWork) >= pool, pool > 0
  PROVE  \E i \in inWork : i <= nextIndex - pool
<1>. SUFFICES ASSUME \A i \in inWork : i > nextIndex - pool
              PROVE  FALSE
  BY DEF PoolTypeOK
<1>. DEFINE recent == (nextIndex - pool + 1) .. (nextIndex - 1)
<1>1. nextIndex \in Int /\ pool \in Nat
  BY DEF PoolTypeOK, PoolSize
<1>2. inWork \in SUBSET recent
  BY <1>1 DEF PoolTypeOK
<1>3. IsFiniteSet(recent) /\ Cardinality(recent) = pool - 1
  <2>. DEFINE first == nextIndex - pool + 1
              last == nextIndex - 1
  <2>1. first \in Int /\ last \in Int /\ last - first + 1 = pool - 1 /\ (first > last => pool - 1 = 0)
    BY <1>1
  <2>. HIDE DEF first, last
  <2>2. /\ IsFiniteSet(first .. last)
        /\ Cardinality(first .. last) = IF first > last THEN 0 ELSE last - first + 1
    BY <2>1, FS_Interval
  <2>. QED
    BY <2>1, <2>2 DEF first, last
<1>4. Cardinality(inWork) <= Cardinality(recent)
  BY <1>2, <1>3, FS_Subset
<1>. QED
  BY <1>1, <1>3, <1>4, InWorkIsFinite

\* An accepted configuration starts a pool that is in time.
LEMMA InitEstablishesPoolInv ==
  PoolInit => PoolInv
<1>. SUFFICES ASSUME PoolInit
              PROVE  PoolInv
  OBVIOUS
<1>1. config \in Configurations /\ config.leaseMs > MinimumLease(config)
  BY DEF PoolInit
<1>2. claimed \in 0 .. config.batchSize
  BY DEF PoolInit
<1>3. Cardinality(inWork) = 0 /\ inWork = {}
  BY FS_EmptySet DEF PoolInit
<1>4. PoolSize(config, claimed) \in Nat
  BY <1>1, <1>2, ConfigNumbers DEF PoolSize
<1>5. PoolTypeOK
  BY <1>1, <1>2, <1>3, <1>4, ConfigNumbers DEF PoolInit, PoolTypeOK
<1>6. InTime(nextIndex, clock)
  BY ProductIsNatural, PoolAssumption DEF PoolInit, InTime
<1>. QED
  BY <1>1, <1>3, <1>4, <1>5, <1>6 DEF PoolInit, PoolInv

\* A worker takes the next event: it is in time, and so is the one after it.
LEMMA TakeNextKeepsPoolInv ==
  ASSUME PoolInv, TakeNext
  PROVE  PoolInv'
<1>1. /\ nextIndex \in Nat /\ claimed \in Nat /\ clock \in Nat /\ pool \in Nat
      /\ nextIndex < claimed /\ nextIndex \in 0 .. claimed - 1
  BY ConfigNumbers DEF PoolInv, PoolTypeOK, TakeNext, PoolSize
<1>2. nextIndex \notin inWork
  BY <1>1 DEF PoolInv, PoolTypeOK
<1>3. PoolTypeOK'
  <2>1. inWork' \in SUBSET (0 .. nextIndex' - 1)
    BY <1>1 DEF PoolInv, PoolTypeOK, TakeNext
  <2>. QED
    BY <1>1, <2>1 DEF PoolInv, PoolTypeOK, TakeNext
<1>4. Cardinality(inWork') <= pool'
  <2>1. Cardinality(inWork') = Cardinality(inWork) + 1
    BY <1>2, InWorkIsFinite, FS_AddElement DEF PoolInv, TakeNext
  <2>. QED
    BY <1>1, <2>1, InWorkIsFinite DEF PoolInv, TakeNext, HasFreeWorker
<1>5. /\ since'[nextIndex] = clock
      /\ \A i \in inWork : since'[i] = since[i]
  BY <1>1, <1>2 DEF PoolInv, PoolTypeOK, TakeNext
<1>6. \A i \in inWork' : clock' <= since'[i] + PerEvent
  BY <1>1, <1>5, PoolAssumption DEF PoolInv, TakeNext
<1>7. ASSUME awaited
      PROVE  /\ \A i \in inWork' : InTime(i, since[i])'
             /\ InTime(nextIndex, clock)'
  <2>1. InTime(nextIndex, clock)
    BY <1>1, <1>7 DEF PoolInv
  <2>2. \A i \in inWork' : InTime(i, since'[i])
    BY <1>5, <1>7, <2>1 DEF PoolInv, TakeNext
  <2>3. InTime(nextIndex + 1, clock)
    BY <1>1, <2>1, ProductIsNatural DEF InTime
  <2>. QED
    BY <2>2, <2>3 DEF InTime, TakeNext
<1>. QED
  BY <1>3, <1>4, <1>6, <1>7 DEF PoolInv, TakeNext

\* A worker is done with its event, or throws.
LEMMA EndKeepsPoolInv ==
  ASSUME PoolInv, NEW i \in inWork, Settle(i) \/ Throw(i)
  PROVE  PoolInv'
<1>1. Cardinality(inWork') = Cardinality(inWork) - 1
  BY InWorkIsFinite, FS_RemoveElement DEF PoolInv, Settle, Throw
<1>2. Cardinality(inWork) \in Nat /\ Cardinality(inWork') \in Nat
  <2>1. IsFiniteSet(inWork')
    BY InWorkIsFinite, FS_RemoveElement DEF PoolInv, Settle, Throw
  <2>. QED
    BY <2>1, InWorkIsFinite, FS_CardinalityType DEF PoolInv
<1>3. pool \in Nat /\ PoolSize(config, claimed) \in Nat
  BY ConfigNumbers DEF PoolInv, PoolTypeOK, PoolSize
<1>4. pool' \in 0 .. PoolSize(config, claimed) /\ Cardinality(inWork') <= pool'
  <2>1. PICK n, m, size : n = Cardinality(inWork) /\ m = Cardinality(inWork')
                          /\ size = PoolSize(config, claimed)
    OBVIOUS
  <2>2. pool \in 0 .. size /\ n <= pool /\ m = n - 1 /\ n \in Nat /\ m \in Nat /\ size \in Nat
    BY <1>1, <1>2, <1>3, <2>1 DEF PoolInv, PoolTypeOK
  <2>3. pool' = pool \/ pool' = pool - 1
    BY DEF Settle, Throw
  <2>4. pool' \in 0 .. size /\ m <= pool'
    BY <2>2, <2>3
  <2>. QED
    BY <2>1, <2>4
<1>5. PoolTypeOK'
  BY <1>4 DEF PoolInv, PoolTypeOK, Settle, Throw, PoolSize
<1>. QED
  BY <1>4, <1>5 DEF PoolInv, Settle, Throw, InTime, MinimumLease, Waves, PoolSize

\* Time passes: no event in work is over its time, and while events wait the one
\* taken a pool ago is still in work, so the next one is not late either.
LEMMA TimePassesKeepsPoolInv ==
  ASSUME PoolInv, TimePasses
  PROVE  PoolInv'
<1>1. /\ nextIndex \in Nat /\ claimed \in Nat /\ clock \in Nat /\ pool \in Nat
      /\ PerEvent \in Nat
  BY ConfigNumbers DEF PoolInv, PoolTypeOK, PoolSize
<1>2. \A i \in inWork : i \in Nat /\ since[i] \in Nat /\ clock + 1 <= since[i] + PerEvent
  BY <1>1 DEF PoolInv, PoolTypeOK, TimePasses
<1>3. PoolTypeOK'
  BY <1>1 DEF PoolInv, PoolTypeOK, TimePasses
<1>4. ASSUME awaited, nextIndex < claimed, NEW q \in Nat, nextIndex < (q + 1) * pool
      PROVE  clock + 1 <= q * PerEvent
  <2>1. Cardinality(inWork) >= pool
    BY <1>1, <1>4, InWorkIsFinite DEF PoolInv, TimePasses, HasFreeWorker
  <2>2. pool > 0
    BY <1>1, <1>4
  <2>3. PICK i \in inWork : i <= nextIndex - pool
    BY <2>1, <2>2, OldestIsAPoolBehind DEF PoolInv
  <2>4. i < q * pool
    BY <1>1, <1>2, <1>4, <2>3
  <2>5. q # 0
    BY <1>1, <1>2, <2>4
  <2>6. PICK p \in Nat : q = p + 1
    <3>1. q - 1 \in Nat /\ q = (q - 1) + 1
      BY <2>5
    <3>. QED
      BY <3>1
  <2>7. since[i] <= p * PerEvent
    BY <1>4, <2>4, <2>6 DEF PoolInv, InTime
  <2>. QED
    BY <1>1, <1>2, <2>6, <2>7, ProductIsNatural
<1>5. awaited /\ nextIndex < claimed => InTime(nextIndex, clock)'
  BY <1>4 DEF InTime, TimePasses
<1>. QED
  BY <1>2, <1>3, <1>5 DEF PoolInv, TimePasses, InTime, MinimumLease, Waves, PoolSize

\* Every step of the pool keeps the time of its workers.
LEMMA StepKeepsPoolInv ==
  PoolInv /\ [PoolNext]_poolVars => PoolInv'
<1>. SUFFICES ASSUME PoolInv, [PoolNext]_poolVars
              PROVE  PoolInv'
  OBVIOUS
<1>1. CASE TakeNext
  BY <1>1, TakeNextKeepsPoolInv
<1>2. ASSUME NEW i \in inWork, Settle(i) \/ Throw(i)
      PROVE  PoolInv'
  BY <1>2, EndKeepsPoolInv
<1>3. CASE TimePasses
  BY <1>3, TimePassesKeepsPoolInv
<1>4. CASE UNCHANGED poolVars
  BY <1>4 DEF poolVars, PoolInv, PoolTypeOK, InTime, MinimumLease, Waves, PoolSize
<1>. QED
  BY <1>1, <1>2, <1>3, <1>4 DEF PoolNext

\* An awaited batch that is not done is within the waves the lease was measured by.
LEMMA PoolInvOutlasts ==
  PoolInv => LeaseOutlastsBatch
<1>. SUFFICES ASSUME PoolInv, awaited, nextIndex < claimed \/ inWork # {}
              PROVE  clock < config.leaseMs
  BY DEF LeaseOutlastsBatch
<1>1. /\ nextIndex \in Nat /\ claimed \in Nat /\ clock \in Nat /\ pool \in Nat
      /\ PerEvent \in Nat /\ claimed <= config.batchSize
      /\ pool = PoolSize(config, claimed)
  BY ConfigNumbers DEF PoolInv, PoolTypeOK, PoolSize
<1>2. \A i \in inWork : i \in Nat /\ i < claimed /\ since[i] \in Nat
  BY <1>1 DEF PoolInv, PoolTypeOK
<1>3. Waves(config) \in Nat \ {0} /\ claimed <= Waves(config) * pool
  <2>1. /\ Waves(config) \in Nat \ {0}
        /\ config.batchSize <= Waves(config) * config.publishConcurrency
    BY WavesHoldBatch DEF PoolInv, PoolTypeOK
  <2>2. CASE claimed <= config.publishConcurrency
    <3>1. pool = claimed
      BY <1>1, <2>2 DEF PoolSize
    <3>. QED
      BY <1>1, <2>1, <3>1
  <2>3. CASE ~(claimed <= config.publishConcurrency)
    <3>1. pool = config.publishConcurrency
      BY <1>1, <2>3 DEF PoolSize
    <3>2. config.batchSize \in Nat /\ Waves(config) * pool \in Nat
      BY <1>1, <2>1, ConfigNumbers, ProductIsNatural DEF PoolInv, PoolTypeOK
    <3>. QED
      BY <1>1, <2>1, <3>1, <3>2
  <2>. QED
    BY <2>2, <2>3
<1>4. PICK q \in Nat : Waves(config) = q + 1
  <2>1. Waves(config) - 1 \in Nat /\ Waves(config) = (Waves(config) - 1) + 1
    BY <1>3
  <2>. QED
    BY <2>1
<1>5. clock <= q * PerEvent + PerEvent
  <2>1. CASE nextIndex < claimed
    <3>1. nextIndex < (q + 1) * pool
      BY <1>1, <1>3, <1>4, <2>1, ProductIsNatural
    <3>2. clock <= q * PerEvent
      BY <2>1, <3>1 DEF PoolInv, InTime
    <3>. QED
      BY <1>1, <3>2, ProductIsNatural
  <2>2. CASE inWork # {}
    <3>1. PICK i \in inWork : TRUE
      BY <2>2
    <3>2. i < (q + 1) * pool
      BY <1>1, <1>2, <1>3, <1>4, ProductIsNatural
    <3>3. since[i] <= q * PerEvent /\ clock <= since[i] + PerEvent
      BY <3>2 DEF PoolInv, InTime
    <3>. QED
      BY <1>1, <1>2, <3>3, ProductIsNatural
  <2>. QED
    BY <2>1, <2>2
<1>6. config.leaseMs > (q + 1) * PerEvent /\ config.leaseMs \in Nat
  BY <1>4, ConfigNumbers DEF PoolInv, PoolTypeOK, MinimumLease
<1>. QED
  BY <1>1, <1>5, <1>6, ProductIsNatural

\* The check of the configuration keeps its word (schema.ts:63-82, 248-260): an
\* accepted lease runs as long as its batch is awaited.
THEOREM LeasesOutlastBatches == PoolSpec => []LeaseOutlastsBatch
<1>. QED
  BY InitEstablishesPoolInv, StepKeepsPoolInv, PoolInvOutlasts, PTL DEF PoolSpec

\* Every variable of the pool keeps its type.
THEOREM PoolTypeCorrect == PoolSpec => []PoolTypeOK
<1>1. PoolInv => PoolTypeOK
  BY DEF PoolInv
<1>. QED
  BY <1>1, InitEstablishesPoolInv, StepKeepsPoolInv, PTL DEF PoolSpec

-----------------------------------------------------------------------------
(* The conversion of local times is exact in every zone that changes its     *)
(* clocks once near the time asked for, by any amount in either direction.   *)
(*                                                                           *)
(* A correction can only answer local - before or local - before - shift.    *)
(* From either of the two, the next correction reaches a guess at which the  *)
(* clocks show the local time, which no later correction moves, unless the   *)
(* change of the clocks skips the local time: then the guesses alternate.    *)

BeforeChange == asked.local - asked.zone.before
AfterChange == asked.local - asked.zone.before - asked.zone.shift

Shown == LocalTime(asked.zone, utc) = asked.local

WallTimeTypeOK ==
  /\ asked \in [zone : Zones, local : LocalTimes]
  /\ utc \in Int
  /\ turns \in 0 .. Corrections

GuessInv ==
  /\ WallTimeTypeOK
  /\ turns >= 1 => utc \in {BeforeChange, AfterChange}
  /\ turns >= 2 => Shown \/ ~Exists(asked.zone, asked.local)

\* The fields of what is asked for are numbers.
LEMMA AskedNumbers ==
  ASSUME WallTimeTypeOK
  PROVE  /\ asked.zone.before \in Int
         /\ asked.zone.shift \in Int
         /\ asked.local \in Int
BY WallTimeAssumption DEF WallTimeTypeOK

\* One turn of the loop (wall-time.ts:20-48) answers one of two instants.
LEMMA CorrectAnswersOneOfTwo ==
  ASSUME WallTimeTypeOK, Correct
  PROVE  utc' = IF utc < 0 THEN BeforeChange ELSE AfterChange
BY AskedNumbers DEF WallTimeTypeOK, Correct, LocalTime, Offset, BeforeChange, AfterChange

\* A guess that is one of the two is right, or the next one is, or there is none.
LEMMA CorrectReachesLocalTime ==
  ASSUME WallTimeTypeOK, Correct, utc \in {BeforeChange, AfterChange}
  PROVE  Shown' \/ ~Exists(asked.zone, asked.local)
<1>1. asked' = asked
  BY DEF Correct
<1>2. CASE utc < 0
  <2>1. utc' = BeforeChange
    BY <1>2, CorrectAnswersOneOfTwo
  <2>. QED
    BY <1>1, <1>2, <2>1, AskedNumbers
    DEF WallTimeTypeOK, Shown, LocalTime, Offset, Exists, BeforeChange, AfterChange
<1>3. CASE ~(utc < 0)
  <2>1. utc' = AfterChange
    BY <1>3, CorrectAnswersOneOfTwo
  <2>. QED
    BY <1>1, <1>3, <2>1, AskedNumbers
    DEF WallTimeTypeOK, Shown, LocalTime, Offset, Exists, BeforeChange, AfterChange
<1>. QED
  BY <1>2, <1>3

\* Nothing is claimed of a local time before its first correction.
LEMMA GuessInit ==
  ASSUME WallTimeInit
  PROVE  GuessInv
BY WallTimeAssumption DEF WallTimeInit, GuessInv, WallTimeTypeOK, Corrections

\* The correction ends at one of the two instants that show the time.
LEMMA GuessStep ==
  ASSUME GuessInv, [Correct]_wallTimeVars
  PROVE  GuessInv'
<1>1. CASE Correct
  <2>. USE <1>1
  <2>0. WallTimeTypeOK
    BY DEF GuessInv
  <2>1. asked' = asked
    BY DEF Correct
  <2>2. utc' \in {BeforeChange, AfterChange}
    BY <2>0, CorrectAnswersOneOfTwo
  <2>3. WallTimeTypeOK'
    <3>1. BeforeChange \in Int /\ AfterChange \in Int
      BY <2>0, AskedNumbers DEF BeforeChange, AfterChange
    <3>2. turns' \in 0 .. Corrections
      BY <2>0 DEF WallTimeTypeOK, Correct, Corrections
    <3>. QED
      BY <2>0, <2>1, <2>2, <3>1, <3>2 DEF WallTimeTypeOK
  <2>4. (turns >= 1 => utc \in {BeforeChange, AfterChange})'
    BY <2>1, <2>2 DEF BeforeChange, AfterChange
  <2>5. (turns >= 2 => Shown \/ ~Exists(asked.zone, asked.local))'
    <3>1. SUFFICES ASSUME turns' >= 2
                   PROVE  Shown' \/ ~Exists(asked.zone, asked.local)
      BY <2>1
    <3>2. turns >= 1
      BY <2>0, <3>1 DEF WallTimeTypeOK, Correct, Corrections
    <3>. QED
      BY <2>0, <3>2, CorrectReachesLocalTime DEF GuessInv
  <2>. QED
    BY <2>3, <2>4, <2>5 DEF GuessInv
<1>2. CASE UNCHANGED wallTimeVars
  BY <1>2 DEF GuessInv, WallTimeTypeOK, Shown, BeforeChange, AfterChange, wallTimeVars
<1>. QED
  BY <1>1, <1>2

\* In the gap the two instants are off by exactly what the clocks skip.
LEMMA GuessesAreExact ==
  ASSUME GuessInv
  PROVE  WallTimesAreExact
<1>1. SUFFICES ASSUME turns = Corrections, ~Shown
               PROVE  /\ ~Exists(asked.zone, asked.local)
                      /\ LocalTime(asked.zone, utc)
                           \in {asked.local - asked.zone.shift, asked.local + asked.zone.shift}
  BY DEF WallTimesAreExact, Shown
<1>2. ~Exists(asked.zone, asked.local) /\ utc \in {BeforeChange, AfterChange}
  BY <1>1 DEF GuessInv, Corrections
<1>3. LocalTime(asked.zone, utc)
        \in {asked.local - asked.zone.shift, asked.local + asked.zone.shift}
  BY <1>1, <1>2, AskedNumbers
  DEF GuessInv, WallTimeTypeOK, LocalTime, Offset, Exists, Shown, BeforeChange, AfterChange
<1>. QED
  BY <1>2, <1>3

\* wallTimeInZoneToUtc (wall-time.ts:5-51): a local time that exists becomes an
\* instant at which the clocks show it, and one that is skipped an instant at
\* the edge of the gap, for every offset and every change of it.
THEOREM LocalTimesAreExact == WallTimeSpec => []WallTimesAreExact
<1>1. WallTimeInit => GuessInv
  BY GuessInit
<1>2. GuessInv /\ [Correct]_wallTimeVars => GuessInv'
  BY GuessStep
<1>3. GuessInv => WallTimesAreExact
  BY GuessesAreExact
<1>. QED
  BY <1>1, <1>2, <1>3, PTL DEF WallTimeSpec

-----------------------------------------------------------------------------
(* Events and their consumers.                                              *)

\* The events are told apart.
LEMMA EventsDiffer ==
  /\ CandidatesRequested # KickoffRequested
  /\ GenerationFinished \notin {KickoffRequested, CandidatesRequested}
  /\ \A w \in WorkIds :
       /\ RoutingRequested(w) \notin {KickoffRequested, CandidatesRequested, GenerationFinished}
       /\ WorkFinished(w) \notin {KickoffRequested, CandidatesRequested, GenerationFinished}
       /\ \A v \in WorkIds : RoutingRequested(w) # WorkFinished(v)
  BY DEF KickoffRequested, CandidatesRequested, GenerationFinished, RoutingRequested, WorkFinished

\* The row that each of the five inserts writes.
LEMMA RowsWritten ==
  /\ Row(KickoffRequested) = WrittenRow("meeting-search.requested", "default", Search, NoWork)
  /\ Row(CandidatesRequested) =
       WrittenRow("meeting-search.candidates-requested", "default", Search, NoWork)
  /\ Row(GenerationFinished) =
       WrittenRow("meeting-search.finalization-requested", "candidate-generation", Search, NoWork)
  /\ \A w \in WorkIds :
       /\ Row(RoutingRequested(w)) = WrittenRow("routing.requested", "id", w, w)
       /\ Row(WorkFinished(w)) =
            WrittenRow("meeting-search.finalization-requested", "routing-work", w, NoWork)
  <1>1. Row(KickoffRequested) = WrittenRow("meeting-search.requested", "default", Search, NoWork)
    <2>1. KickoffRequested[1] = "requested"
      BY DEF KickoffRequested
    <2> QED
      BY <2>1, EventsDiffer DEF Row
  <1>2. Row(CandidatesRequested) =
          WrittenRow("meeting-search.candidates-requested", "default", Search, NoWork)
    <2>1. CandidatesRequested[1] = "candidates-requested"
      BY DEF CandidatesRequested
    <2> QED
      BY <2>1, EventsDiffer DEF Row
  <1>3. Row(GenerationFinished) =
          WrittenRow("meeting-search.finalization-requested", "candidate-generation", Search, NoWork)
    <2>1. GenerationFinished[1] = "generation-finished"
      BY DEF GenerationFinished
    <2> QED
      BY <2>1, EventsDiffer DEF Row
  <1>4. ASSUME NEW w \in WorkIds
        PROVE  Row(RoutingRequested(w)) = WrittenRow("routing.requested", "id", w, w)
    <2>1. RoutingRequested(w)[1] = "routing-requested" /\ RoutingRequested(w)[2] = w
      BY DEF RoutingRequested
    <2> QED
      BY <2>1, EventsDiffer DEF Row
  <1>5. ASSUME NEW w \in WorkIds
        PROVE  Row(WorkFinished(w)) =
                 WrittenRow("meeting-search.finalization-requested", "routing-work", w, NoWork)
    <2>1. WorkFinished(w)[1] = "work-finished" /\ WorkFinished(w)[2] = w
      BY DEF WorkFinished
    <2> QED
      BY <2>1, EventsDiffer DEF Row
  <1> QED
    BY <1>1, <1>2, <1>3, <1>4, <1>5

\* Whatever is written becomes a job that its consumer takes.
LEMMA WrittenRowFits ==
  ASSUME NEW e \in OutboxEvents
  PROVE  MapsToJob(Row(e)) /\ IsAccepted(Job(Row(e)))
  <1>1. ASSUME NEW type \in {"meeting-search.requested", "meeting-search.candidates-requested"},
               NEW row, row = WrittenRow(type, "default", Search, NoWork)
        PROVE  MapsToJob(row) /\ IsAccepted(Job(row))
    BY <1>1
    DEF WrittenRow, MapsToJob, PayloadFits, EventTypes, SchemaVersion, Job, QueueOf, IsAccepted,
        AcceptsKickoff, AcceptsCandidates, IsSearchData, IsUuid
  <1>2. ASSUME NEW kind \in {"candidate-generation", "routing-work"}, NEW id, NEW row,
               row = WrittenRow("meeting-search.finalization-requested", kind, id, NoWork)
        PROVE  MapsToJob(row) /\ IsAccepted(Job(row))
    BY <1>2
    DEF WrittenRow, MapsToJob, PayloadFits, EventTypes, SchemaVersion, Job, QueueOf, IsAccepted,
        AcceptsFinalization, IsSearchData, IsUuid
  <1>3. ASSUME NEW w \in WorkIds, NEW row, row = WrittenRow("routing.requested", "id", w, w)
        PROVE  MapsToJob(row) /\ IsAccepted(Job(row))
    BY <1>3, JobContractAssumption
    DEF WrittenRow, MapsToJob, PayloadFits, EventTypes, SchemaVersion, Job, QueueOf, IsAccepted,
        AcceptsRouting, IsRoutingData, IsUuid
  <1> QED
    BY <1>1, <1>2, <1>3, RowsWritten DEF OutboxEvents, FinalizationEvents

\* Every event the repositories write has a consumer that accepts it, whatever
\* the ids, and whenever it is written.
THEOREM EventsHaveConsumers == RecoverySpec => []EveryEventHasItsConsumer
  <1>1. EveryEventHasItsConsumer
    BY WrittenRowFits DEF EveryEventHasItsConsumer
  <1> QED
    BY <1>1, PTL

-----------------------------------------------------------------------------
(* The recovery cycle and the handlers it races with.                       *)

RowStatus == {"absent"} \cup Open \cup Ended
Ages      == {"fresh", "stale", "abandoned"}

\* A search that is queued has no generation row yet, and no handler at work on it:
\* a handler starts on a row it has found open.
QueuedHasNoRow ==
  searchStatus = "queued" => rowStatus[Generation] = "absent" /\ CandidatesRequested \notin executing

\* A step that starts the generation's handler finds its row open.
StartsOnOpenRow ==
  CandidatesRequested \in executing' =>
    CandidatesRequested \in executing \/ rowStatus[Generation] \in Open

RecoveryInv == RecoveryTypeOK /\ QueuedHasNoRow

\* What a step may do to the rows.
EndedRowsKept ==
  \A x \in Rows :
    rowStatus[x] \in Ended /\ rowStatus'[x] # rowStatus[x] =>
      /\ x = Generation /\ CandidatesRequested \in executing
      /\ rowStatus[x] = "failed" /\ rowStatus'[x] = "succeeded"
RowsStepped == rowStatus' \in [Rows -> RowStatus] /\ EndedRowsKept
OthersTyped ==
  /\ searchStatus' \in {"queued", "running", "ended"}
  /\ age' \in [AllRows -> Ages]
  /\ outbox' \in [OutboxEvents -> {"none", "unpublished", "published"}]
  /\ queued' \in [OutboxEvents -> JobStates]
  /\ executing' \subseteq OutboxEvents
  /\ cycle' \in [at : CycleStages, stale : SUBSET (AllRows \cup {Finalization}),
                 abandoned : SUBSET Rows, selected : SUBSET OutboxEvents]
  /\ faults' \in 0 .. MaxFaults

\* What every step has to show.
GoodStep == RecoveryInv' /\ EndedRowsKept

\* Steps that change no row.
LEMMA RowsAlone ==
  ASSUME RecoveryInv, OthersTyped, StartsOnOpenRow, rowStatus' = rowStatus,
         searchStatus' = "queued" => searchStatus = "queued"
  PROVE  GoodStep
  BY DEF StartsOnOpenRow, Open, RecoveryInv, RecoveryTypeOK, QueuedHasNoRow, OthersTyped, GoodStep, EndedRowsKept, Ages

\* Steps that change one row, which is open.
LEMMA RowMoves ==
  ASSUME RecoveryInv, OthersTyped, NEW x \in Rows, rowStatus[x] \in Open,
         NEW status \in Open \cup Ended, rowStatus' = [rowStatus EXCEPT ![x] = status],
         StartsOnOpenRow, searchStatus' = searchStatus
  PROVE  GoodStep
  <1>1. Generation \in Rows
    BY DEF Rows
  <1>2. searchStatus = "queued" => x # Generation
    BY DEF RecoveryInv, QueuedHasNoRow, Open
  <1>3. rowStatus' \in [Rows -> RowStatus]
    BY DEF RecoveryInv, RecoveryTypeOK, RowStatus
  <1>4. EndedRowsKept
    BY DEF RecoveryInv, RecoveryTypeOK, EndedRowsKept, Open, Ended
  <1>5. QueuedHasNoRow'
    BY <1>1, <1>2 DEF StartsOnOpenRow, Open, RecoveryInv, RecoveryTypeOK, QueuedHasNoRow
  <1> QED
    BY <1>3, <1>4, <1>5
    DEF RecoveryInv, RecoveryTypeOK, OthersTyped, GoodStep, RowStatus, Ages

\* The helpers keep the types.
LEMMA HelpersTyped ==
  ASSUME RecoveryInv
  PROVE  /\ \A events : WithEvents(events) \in [OutboxEvents -> {"none", "unpublished", "published"}]
         /\ \A rows : Touched(rows) \in [AllRows -> Ages]
         /\ \A e \in OutboxEvents : Added(e) \in [OutboxEvents -> JobStates]
         /\ Resting \in [at : CycleStages, stale : SUBSET (AllRows \cup {Finalization}),
                         abandoned : SUBSET Rows, selected : SUBSET OutboxEvents]
  BY DEF JobStates, RecoveryInv, RecoveryTypeOK, WithEvents, Touched, Added, Ages, Resting, CycleStages

\* A job that has ended is no longer executed and may be kept.
LEMMA HandledTyped ==
  ASSUME RecoveryInv, NEW e \in OutboxEvents, Handled(e)
  PROVE  /\ queued' \in [OutboxEvents -> JobStates]
         /\ executing' \subseteq OutboxEvents
         /\ StartsOnOpenRow
  BY DEF JobStates, RecoveryInv, RecoveryTypeOK, Handled, StartsOnOpenRow

\* The queue and the dispatcher.
LEMMA QueueSteps ==
  ASSUME RecoveryInv, NEW e \in OutboxEvents,
         \/ Dispatch(e) \/ LoseJob(e) \/ RemoveKept(e) \/ DieInJob(e) \/ RepublishFails(e)
         \/ Republish(e)
  PROVE  GoodStep
  <1>1. rowStatus' = rowStatus /\ searchStatus' = searchStatus
    BY DEF Dispatch, LoseJob, RemoveKept, DieInJob, RepublishFails, Republish
  <1>2. CASE Dispatch(e)
    BY <1>1, <1>2, HelpersTyped, RowsAlone
    DEF Dispatch, JobStates, StartsOnOpenRow, RecoveryInv, RecoveryTypeOK, OthersTyped, Ages
  <1>3. CASE LoseJob(e)
    BY <1>1, <1>3, RecoveryAssumption, RowsAlone
    DEF LoseJob, JobStates, StartsOnOpenRow, RecoveryInv, RecoveryTypeOK, OthersTyped, Ages
  <1>4. CASE RemoveKept(e)
    BY <1>1, <1>4, RowsAlone
    DEF RemoveKept, JobStates, StartsOnOpenRow, RecoveryInv, RecoveryTypeOK, OthersTyped, Ages
  <1>5. CASE DieInJob(e)
    BY <1>1, <1>5, RecoveryAssumption, RowsAlone
    DEF DieInJob, JobStates, StartsOnOpenRow, RecoveryInv, RecoveryTypeOK, OthersTyped, Ages
  <1>6. CASE RepublishFails(e)
    BY <1>1, <1>6, RecoveryAssumption, RowsAlone
    DEF RepublishFails, JobStates, StartsOnOpenRow, RecoveryInv, RecoveryTypeOK, OthersTyped, Ages
  <1>7. CASE Republish(e)
    BY <1>1, <1>7, HelpersTyped, RowsAlone
    DEF Republish, JobStates, StartsOnOpenRow, RecoveryInv, RecoveryTypeOK, OthersTyped, Ages
  <1> QED
    BY <1>2, <1>3, <1>4, <1>5, <1>6, <1>7

\* A handler that starts finds its row open, and claims it when it is pending.
LEMMA StartSteps ==
  ASSUME RecoveryInv, NEW e \in OutboxEvents, StartJob(e)
  PROVE  GoodStep
  <1>1. /\ executing' = executing \cup {e} /\ rowStatus[RowOf(e)] \in Open
        /\ UNCHANGED <<searchStatus, outbox, queued, cycle, faults>>
    BY DEF StartJob
  <1>2. RowOf(e) \in Rows /\ executing' \subseteq OutboxEvents
    BY <1>1, EventsDiffer
    DEF StartJob, HasRow, RowOf, Rows, RoutingRequested, RecoveryInv, RecoveryTypeOK
  <1>3. StartsOnOpenRow
    BY <1>1 DEF RowOf, StartsOnOpenRow
  <1>4. CASE rowStatus[RowOf(e)] = "pending"
    <2>1. /\ rowStatus' = [rowStatus EXCEPT ![RowOf(e)] = "running"]
          /\ age' = Touched({RowOf(e)})
      BY <1>4 DEF StartJob
    <2>2. OthersTyped
      BY <1>1, <1>2, <2>1, HelpersTyped DEF RecoveryInv, RecoveryTypeOK, OthersTyped
    <2> QED
      BY <1>1, <1>2, <1>3, <2>1, <2>2, RowMoves DEF Open
  <1>5. CASE rowStatus[RowOf(e)] # "pending"
    BY <1>1, <1>2, <1>3, <1>5, RowsAlone
    DEF StartJob, RecoveryInv, RecoveryTypeOK, OthersTyped, Ages
  <1> QED
    BY <1>4, <1>5

\* A handler that finds its row ended leaves it.
LEMMA LateSteps ==
  ASSUME RecoveryInv, NEW e \in OutboxEvents, FindsRowEnded(e)
  PROVE  GoodStep
  <1>1. /\ Handled(e)
        /\ UNCHANGED <<searchStatus, rowStatus, age, outbox, cycle, faults>>
    BY DEF FindsRowEnded
  <1> QED
    BY <1>1, HandledTyped, RowsAlone DEF RecoveryInv, RecoveryTypeOK, OthersTyped, Ages

\* Kickoff writes the generation row of a search that had none.
LEMMA KickoffSteps ==
  ASSUME RecoveryInv, HandleKickoff
  PROVE  GoodStep
  <1>1. /\ queued' \in [OutboxEvents -> JobStates]
        /\ executing' \subseteq OutboxEvents /\ StartsOnOpenRow
        /\ UNCHANGED <<cycle, faults>>
    BY HandledTyped DEF HandleKickoff, OutboxEvents
  <1>2. CASE searchStatus = "queued"
    <2>1. /\ searchStatus' = "running"
          /\ rowStatus' = [rowStatus EXCEPT ![Generation] = "pending"]
          /\ age' = Touched({SearchRow, Generation})
          /\ outbox' = WithEvents({CandidatesRequested})
      BY <1>2 DEF HandleKickoff
    <2>2. rowStatus[Generation] = "absent" /\ Generation \in Rows
      BY <1>2 DEF RecoveryInv, QueuedHasNoRow, Rows
    <2>3. OthersTyped
      BY <1>1, <2>1, HelpersTyped DEF RecoveryInv, RecoveryTypeOK, OthersTyped
    <2>4. rowStatus' \in [Rows -> RowStatus]
      BY <2>1 DEF RecoveryInv, RecoveryTypeOK, RowStatus, Open
    <2>5. EndedRowsKept
      BY <2>1, <2>2 DEF RecoveryInv, RecoveryTypeOK, EndedRowsKept, Ended
    <2> QED
      BY <2>1, <2>3, <2>4, <2>5
      DEF OthersTyped, GoodStep, RecoveryInv, RecoveryTypeOK, QueuedHasNoRow, RowStatus, Ages
  <1>3. CASE searchStatus # "queued"
    BY <1>1, <1>3, RowsAlone DEF HandleKickoff, RecoveryInv, RecoveryTypeOK, OthersTyped, Ages
  <1> QED
    BY <1>2, <1>3

\* The fan-out adds the rows that are not there yet, and lets the generation succeed,
\* whatever its status.
LEMMA FanOutSteps ==
  ASSUME RecoveryInv, CandidatesRequested \in executing, OthersTyped, FanOut,
         searchStatus' = searchStatus
  PROVE  GoodStep
  <1>1. PICK found \in {{}, WorkIds} : rowStatus' = FannedOut(found)
    BY DEF FanOut
  <1>2. \A x \in Rows : rowStatus'[x] = IF x = Generation THEN "succeeded"
                                        ELSE IF x \in found /\ rowStatus[x] = "absent" THEN "pending"
                                        ELSE rowStatus[x]
    BY <1>1 DEF FannedOut
  <1>3. rowStatus' \in [Rows -> RowStatus]
    <2>1. \A x \in Rows : rowStatus'[x] \in RowStatus
      BY <1>2 DEF RecoveryInv, RecoveryTypeOK, RowStatus, Open, Ended
    <2> QED
      BY <1>1, <2>1 DEF FannedOut
  <1>4. EndedRowsKept
    BY <1>2 DEF EndedRowsKept, Ended
  <1>5. searchStatus # "queued"
    BY DEF RecoveryInv, QueuedHasNoRow
  <1> QED
    BY <1>3, <1>4, <1>5
    DEF OthersTyped, GoodStep, RecoveryInv, RecoveryTypeOK, QueuedHasNoRow, RowStatus, Ages

\* The end of the generation's handler.
LEMMA CandidatesSteps ==
  ASSUME RecoveryInv, EndCandidates
  PROVE  GoodStep
  <1>1. /\ queued' \in [OutboxEvents -> JobStates]
        /\ executing' \subseteq OutboxEvents /\ StartsOnOpenRow
        /\ CandidatesRequested \in executing
        /\ UNCHANGED <<searchStatus, cycle, faults>>
    BY HandledTyped DEF EndCandidates, OutboxEvents
  <1>2. CASE FanOut
    <2>1. OthersTyped
      BY <1>1, <1>2, HelpersTyped DEF FanOut, RecoveryInv, RecoveryTypeOK, OthersTyped
    <2> QED
      BY <1>1, <1>2, <2>1, FanOutSteps
  <1>3. CASE FailGeneration
    <2>1. OthersTyped
      BY <1>1, <1>3, HelpersTyped
      DEF FailGeneration, RecoveryInv, RecoveryTypeOK, OthersTyped, Ages
    <2>2. CASE rowStatus[Generation] \in Open
      BY <1>1, <1>3, <2>1, <2>2, RowMoves DEF FailGeneration, Rows, Ended
    <2>3. CASE rowStatus[Generation] \notin Open
      BY <1>1, <1>3, <2>1, <2>3, RowsAlone DEF FailGeneration
    <2> QED
      BY <2>2, <2>3
  <1> QED
    BY <1>2, <1>3 DEF EndCandidates

\* The end of routing work, and finalization.
LEMMA RoutingSteps ==
  ASSUME RecoveryInv, NEW w \in WorkIds, EndRouting(w)
  PROVE  GoodStep
  <1>1. /\ queued' \in [OutboxEvents -> JobStates]
        /\ executing' \subseteq OutboxEvents /\ StartsOnOpenRow
        /\ UNCHANGED <<searchStatus, cycle, faults>>
    BY HandledTyped DEF EndRouting, OutboxEvents
  <1>2. OthersTyped
    BY <1>1, HelpersTyped DEF EndRouting, RecoveryInv, RecoveryTypeOK, OthersTyped, Ages
  <1>3. CASE rowStatus[w] \in Open
    <2>1. PICK status \in Ended : rowStatus' = [rowStatus EXCEPT ![w] = status]
      BY <1>3 DEF EndRouting
    <2> QED
      BY <1>1, <1>2, <1>3, <2>1, RowMoves DEF Rows
  <1>4. CASE rowStatus[w] \notin Open
    BY <1>1, <1>2, <1>4, RowsAlone DEF EndRouting
  <1> QED
    BY <1>3, <1>4

\* Finalization changes no row of the pipeline.
LEMMA FinalizationSteps ==
  ASSUME RecoveryInv, NEW e \in OutboxEvents, HandleFinalization(e)
  PROVE  GoodStep
  <1>1. /\ queued' \in [OutboxEvents -> JobStates]
        /\ executing' \subseteq OutboxEvents /\ StartsOnOpenRow
        /\ UNCHANGED <<rowStatus, outbox, cycle, faults>>
        /\ searchStatus' \in {searchStatus, "ended"}
        /\ age' \in {age, Touched({SearchRow})}
    BY HandledTyped DEF HandleFinalization
  <1>2. OthersTyped
    BY <1>1, HelpersTyped DEF RecoveryInv, RecoveryTypeOK, OthersTyped, Ages
  <1> QED
    BY <1>1, <1>2, RowsAlone

\* Rows grow old.
LEMMA AgeSteps ==
  ASSUME RecoveryInv, NEW x \in AllRows, GrowOld(x)
  PROVE  GoodStep
  <1>1. UNCHANGED <<searchStatus, rowStatus, outbox, queued, executing, cycle, faults>>
    BY DEF GrowOld
  <1>2. age' \in [AllRows -> Ages]
    BY DEF GrowOld, RecoveryInv, RecoveryTypeOK, Ages
  <1> QED
    BY <1>1, <1>2, RowsAlone DEF StartsOnOpenRow, RecoveryInv, RecoveryTypeOK, OthersTyped

\* A cycle gives a row up only if the row is still open when it is given up,
\* whatever the query said that found it.
LEMMA AbandonSteps ==
  ASSUME RecoveryInv, NEW x \in Rows, Abandon(x)
  PROVE  GoodStep
  <1>1. /\ GiveUp(x) /\ UNCHANGED <<searchStatus, queued, executing, faults>>
        /\ cycle' = [cycle EXCEPT !.abandoned = @ \ {x}, !.stale = @ \ {x}]
    BY DEF Abandon
  <1>2. cycle' \in [at : CycleStages, stale : SUBSET (AllRows \cup {Finalization}),
                    abandoned : SUBSET Rows, selected : SUBSET OutboxEvents]
    BY <1>1 DEF RecoveryInv, RecoveryTypeOK
  <1>3. OthersTyped
    BY <1>1, <1>2, HelpersTyped DEF GiveUp, RecoveryInv, RecoveryTypeOK, OthersTyped, Ages
  <1>4. CASE rowStatus[x] \in Open
    BY <1>1, <1>3, <1>4, RowMoves DEF StartsOnOpenRow, GiveUp, Ended
  <1>5. CASE rowStatus[x] \notin Open
    BY <1>1, <1>3, <1>5, RowsAlone DEF StartsOnOpenRow, GiveUp
  <1> QED
    BY <1>4, <1>5

\* The cycle's own steps.
LEMMA CycleSteps ==
  ASSUME RecoveryInv, ListStale \/ SelectEvents \/ EndCycle \/ CycleFails
  PROVE  GoodStep
  <1>1. UNCHANGED <<searchStatus, rowStatus, age, outbox, queued, executing>>
        /\ faults' \in 0 .. MaxFaults
    BY RecoveryAssumption DEF ListStale, SelectEvents, EndCycle, CycleFails, RecoveryInv, RecoveryTypeOK
  <1>2. cycle' \in [at : CycleStages, stale : SUBSET (AllRows \cup {Finalization}),
                    abandoned : SUBSET Rows, selected : SUBSET OutboxEvents]
    <2>1. CASE ListStale
      <3>1. PICK stale \in SUBSET (AllRows \cup {Finalization}), abandoned \in SUBSET Rows :
              cycle' = [Resting EXCEPT !.at = "abandon", !.stale = stale, !.abandoned = abandoned]
        <4> DEFINE found == {x \in Rows : rowStatus[x] \in Open /\ IsStale(x)}
                   queuedSearch == {x \in {SearchRow} : searchStatus = "queued" /\ IsStale(x)}
                   finalization == {x \in {Finalization} :
                                      /\ searchStatus = "running" /\ IsStale(SearchRow)
                                      /\ \E e \in FinalizationEvents : outbox[e] = "published"}
                   old == {x \in found : age[x] = "abandoned"}
        <4>1. cycle' = [Resting EXCEPT !.at = "abandon",
                                       !.stale = found \cup queuedSearch \cup finalization,
                                       !.abandoned = old]
          BY <2>1 DEF ListStale
        <4>2. /\ found \cup queuedSearch \cup finalization \in SUBSET (AllRows \cup {Finalization})
              /\ old \in SUBSET Rows
          BY DEF AllRows
        <4> QED
          BY <4>1, <4>2
      <3> QED
        BY <3>1, HelpersTyped DEF Resting, CycleStages
    <2>2. CASE SelectEvents
      <3>1. PICK selected \in SUBSET OutboxEvents :
              cycle' = [cycle EXCEPT !.at = "publish", !.selected = selected]
        BY <2>2 DEF SelectEvents
      <3> QED
        BY <3>1 DEF RecoveryInv, RecoveryTypeOK, CycleStages
    <2>3. CASE EndCycle \/ CycleFails
      BY <2>3, HelpersTyped DEF EndCycle, CycleFails
    <2> QED
      BY <2>1, <2>2, <2>3
  <1> QED
    BY <1>1, <1>2, RowsAlone DEF StartsOnOpenRow, RecoveryInv, RecoveryTypeOK, OthersTyped, Ages

\* Every step of handlers, queue and recovery is a good one.
LEMMA RecoverySound ==
  ASSUME RecoveryInv, RecoveryNext PROVE GoodStep
  <1>1. ASSUME NEW e \in OutboxEvents,
               \/ Dispatch(e) \/ LoseJob(e) \/ RemoveKept(e) \/ StartJob(e)
               \/ FindsRowEnded(e) \/ DieInJob(e) \/ RepublishFails(e)
        PROVE  GoodStep
    BY <1>1, QueueSteps, StartSteps, LateSteps
  <1>2. ASSUME NEW e \in OutboxEvents, HandleJob(e) PROVE GoodStep
    BY <1>2, KickoffSteps, CandidatesSteps, RoutingSteps, FinalizationSteps DEF HandleJob
  <1>3. ASSUME NEW x \in AllRows, GrowOld(x) PROVE GoodStep
    BY <1>3, AgeSteps
  <1>4. CASE RecoverySteps
    BY <1>4, CycleSteps, AbandonSteps, QueueSteps DEF RecoverySteps
  <1>5. CASE CycleFails
    BY <1>5, CycleSteps
  <1> QED
    BY <1>1, <1>2, <1>3, <1>4, <1>5 DEF RecoveryNext

\* Nothing has happened at first.
LEMMA RecoveryStart ==
  ASSUME RecoveryInit PROVE RecoveryInv
  <1>1. Resting \in [at : CycleStages, stale : SUBSET (AllRows \cup {Finalization}),
                     abandoned : SUBSET Rows, selected : SUBSET OutboxEvents]
    BY DEF Resting, CycleStages
  <1> QED
    BY <1>1, RecoveryAssumption
    DEF RecoveryInit, JobStates, RecoveryInv, RecoveryTypeOK, QueuedHasNoRow, Rows

\* RecoveryInv is inductive.
LEMMA RecoveryInductive ==
  ASSUME RecoveryInv, [RecoveryNext]_recoveryVars PROVE RecoveryInv'
  <1>1. CASE RecoveryNext
    BY <1>1, RecoverySound DEF GoodStep
  <1>2. CASE UNCHANGED recoveryVars
    BY <1>2 DEF recoveryVars, RecoveryInv, RecoveryTypeOK, QueuedHasNoRow
  <1> QED
    BY <1>1, <1>2

\* The variables of recovery stay in their types.
THEOREM RecoveryTypeCorrect == RecoverySpec => []RecoveryTypeOK
  <1>1. RecoveryInit => RecoveryInv
    BY RecoveryStart
  <1>2. RecoveryInv /\ [RecoveryNext]_recoveryVars => RecoveryInv'
    BY RecoveryInductive
  <1>3. RecoveryInv => RecoveryTypeOK
    BY DEF RecoveryInv
  <1> QED
    BY <1>1, <1>2, <1>3, PTL DEF RecoverySpec

\* A row that has ended stays as it is: a recovery cycle that goes by an old query, a
\* late handler of routing work and a generation that fails look at the row before they
\* change it.  A late handler whose generation succeeds does not, so that a generation
\* that was given up may succeed after all.
THEOREM EndedRowsAreFinal == RecoverySpec => EndedRowsStay
  <1>1. RecoveryInit => RecoveryInv
    BY RecoveryStart
  <1>2. RecoveryInv /\ [RecoveryNext]_recoveryVars => RecoveryInv'
    BY RecoveryInductive
  <1>3. RecoveryInv /\ [RecoveryNext]_recoveryVars => [EndedRowsKept]_recoveryVars
    BY RecoverySound DEF GoodStep
  <1>4. [][EndedRowsKept]_recoveryVars => EndedRowsStay
    <2>1. [EndedRowsKept]_recoveryVars =>
            [\A x \in Rows :
               rowStatus[x] \in Ended /\ rowStatus'[x] # rowStatus[x] =>
                 /\ x = Generation /\ CandidatesRequested \in executing
                 /\ rowStatus[x] = "failed" /\ rowStatus'[x] = "succeeded"]_recoveryVars
      BY DEF EndedRowsKept
    <2> QED
      BY <2>1, PTL DEF EndedRowsStay
  <1> QED
    BY <1>1, <1>2, <1>3, <1>4, PTL DEF RecoverySpec

-----------------------------------------------------------------------------
(* The hub that the enrichment chooses for a city.                          *)

\* The rank of a stop is a number.
LEMMA RankType == \A modes : CapabilityRank(modes) \in Nat
  <1> SUFFICES ASSUME NEW modes PROVE CapabilityRank(modes) \in Nat
    OBVIOUS
  <1> DEFINE S == {Len(CapabilityGroups) + 1} \cup
                  {g \in DOMAIN CapabilityGroups : CapabilityGroups[g].modes \cap modes # {}}
  <1>1. Len(CapabilityGroups) = 6 /\ DOMAIN CapabilityGroups = 1 .. 6
    BY DEF CapabilityGroups
  <1>2. S \in SUBSET Nat /\ S # {}
    BY <1>1
  <1>3. CapabilityRank(modes) = CHOOSE x \in S : \A y \in S : x <= y
    BY DEF CapabilityRank, Min
  <1> HIDE DEF S
  <1> QED
    BY <1>2, <1>3, LeastNumber

\* What the geocoder has been asked for, and its answer has passed its schema.
AreMatches(stops) == \A s \in stops : s.distance \in Nat /\ s.id \in Nat

\* One of several stops comes first.
LEMMA FirstIsAmong ==
  ASSUME NEW stops, AreMatches(stops), stops # {}
  PROVE  First(stops) \in stops
  <1> DEFINE ranks == {CapabilityRank(s.modes) : s \in stops}
  <1>1. PICK r \in ranks : \A x \in ranks : r <= x
    <2>1. ranks \in SUBSET Nat /\ ranks # {}
      BY RankType
    <2> HIDE DEF ranks
    <2> QED
      BY <2>1, LeastNumber
  <1> DEFINE able == {s \in stops : CapabilityRank(s.modes) = r}
             distances == {s.distance : s \in able}
  <1>2. able # {} /\ able \subseteq stops
    BY <1>1
  <1>3. PICK d \in distances : \A x \in distances : d <= x
    <2>1. distances \in SUBSET Nat /\ distances # {}
      BY <1>2 DEF AreMatches
    <2> HIDE DEF distances
    <2> QED
      BY <2>1, LeastNumber
  <1> DEFINE near == {s \in able : s.distance = d}
             ids  == {s.id : s \in near}
  <1>4. near # {} /\ near \subseteq able
    BY <1>3
  <1>5. PICK i \in ids : \A x \in ids : i <= x
    <2>1. ids \in SUBSET Nat /\ ids # {}
      BY <1>2, <1>4 DEF AreMatches
    <2> HIDE DEF ids
    <2> QED
      BY <2>1, LeastNumber
  <1>6. PICK s \in near : s.id = i
    BY <1>5
  <1>7. s \in stops /\ CapabilityRank(s.modes) = r /\ s.distance = d
    BY <1>6
  <1>8. ASSUME NEW t \in stops
        PROVE  ComesBefore(s, t)
    <2>1. /\ r \in Nat /\ d \in Nat /\ i \in Nat
          /\ CapabilityRank(t.modes) \in Nat /\ t.distance \in Nat /\ t.id \in Nat
      BY <1>7, <1>6, RankType DEF AreMatches
    <2>2. r <= CapabilityRank(t.modes)
      BY <1>1
    <2>3. CASE CapabilityRank(t.modes) # r
      BY <1>7, <2>1, <2>2, <2>3 DEF ComesBefore
    <2>4. CASE CapabilityRank(t.modes) = r
      <3>1. t \in able
        BY <2>4
      <3>2. d <= t.distance
        BY <1>3, <3>1
      <3>3. CASE t.distance # d
        BY <1>7, <2>1, <2>4, <3>2, <3>3 DEF ComesBefore
      <3>4. CASE t.distance = d
        <4>1. i <= t.id
          BY <1>5, <3>1, <3>4
        <4> QED
          BY <1>6, <1>7, <2>1, <2>4, <3>4, <4>1 DEF ComesBefore
      <3> QED
        BY <3>3, <3>4
    <2> QED
      BY <2>3, <2>4
  <1> QED
    BY <1>7, <1>8 DEF First

\* A hub that is picked is near enough.
LEMMA PickedIsValid ==
  ASSUME NEW stops, AreMatches(stops), NEW regional \in BOOLEAN,
         PickFrom(stops, regional) # NoHub
  PROVE  HubIsValid(PickFrom(stops, regional))
  <1> DEFINE first == First(stops)
  <1>1. stops # {} /\ PickFrom(stops, regional) = Match(first, regional)
    BY DEF PickFrom
  <1>2. first \in stops /\ first.distance \in Nat
    BY <1>1, FirstIsAmong DEF AreMatches
  <1> HIDE DEF first
  <1>3. /\ ~(first.distance > MaxDistance(regional))
        /\ Match(first, regional) =
             [stop |-> first.id, distance |-> first.distance, regional |-> regional]
    BY <1>1 DEF Match
  <1>4. MaxDistance(regional) \in Nat
    BY HubAssociationAssumption DEF MaxDistance, HubAssociationAssumption
  <1> QED
    BY <1>1, <1>2, <1>3, <1>4 DEF HubIsValid

\* So is what a city is associated with, whichever stops are looked at.
LEMMA AssociatedIsValid ==
  ASSUME NEW stops, AreMatches(stops), Associate(stops) # NoHub
  PROVE  HubIsValid(Associate(stops))
  <1>1. PICK some \in SUBSET stops, regional \in BOOLEAN :
          Associate(stops) = PickFrom(some, regional)
    <2> DEFINE eligible == {s \in stops : s.type = "STOP" /\ s.sameCountry /\ IsPrimary(s)}
               exact    == {s \in eligible : s.named}
               locality == {s \in eligible : s.local}
               rail(max) == {s \in {t \in eligible : t.distance <= max} : IsRail(s)}
    <2>1. /\ exact \subseteq stops /\ locality \subseteq stops
          /\ rail(SoftMax) \subseteq stops /\ rail(HardMax) \subseteq stops
      OBVIOUS
    <2>2. \/ Associate(stops) = PickFrom(exact, FALSE)
          \/ Associate(stops) = PickFrom(locality, FALSE)
          \/ Associate(stops) = PickFrom(rail(SoftMax), FALSE)
          \/ Associate(stops) = PickFrom(rail(HardMax), TRUE)
      BY DEF Associate
    <2> HIDE DEF exact, locality, rail
    <2> QED
      BY <2>1, <2>2
  <1>2. AreMatches(some)
    BY <1>1 DEF AreMatches
  <1> QED
    BY <1>1, <1>2, PickedIsValid

-----------------------------------------------------------------------------
(* The catalogue.                                                           *)

CityFamilies == {"geonames", "railmeet-fixture"}

\* The first part of the provider identities that the rows of an owner have.
KeyFamily(ownership) ==
  IF ownership = "catalog:geonames" THEN "geonames"
  ELSE IF ownership = "fixture:offline-europe-v1" THEN "railmeet-fixture"
  ELSE IF ownership = "catalog:transitous" THEN "motis" ELSE "railmeet-hub"

IsRow(row) ==
  row = [kind |-> row.kind, key |-> row.key, ownership |-> row.ownership,
         details |-> row.details, parent |-> row.parent, version |-> row.version,
         active |-> row.active]

\* The id of a row tells its provider identity, and that its kind.  What an
\* operator has pinned or a traveler picked is nobody else's, and active.
RowFits(id, row) ==
  /\ IsRow(row) /\ row.active \in BOOLEAN
  /\ \/ id = CityId(row.key) /\ row.kind = "city" /\ row.key[1] \in CityFamilies
        /\ row.ownership \in CityOwnerships \cup {"manual"}
     \/ id \in {HubId(row.key), PickedId(row.key)}
        /\ row.kind = "station" /\ row.key[1] \notin CityFamilies
        /\ row.ownership \in HubOwnerships \cup {"manual"}
  /\ IF row.ownership = "manual" THEN row.active
     ELSE row.key[1] = KeyFamily(row.ownership) /\ id # PickedId(row.key)

OneRowPerKey == \A a, b \in DOMAIN places : places[a].key = places[b].key => a = b

\* A row refers to its city, if it has one.
RowsInv ==
  /\ IsFiniteSet(DOMAIN places)
  /\ \A id \in DOMAIN places :
       RowFits(id, places[id]) /\ places[id].parent \in {NoPlace} \cup DOMAIN places
  /\ OneRowPerKey

\* What refers to rows, and what does not.
ReferencesInv ==
  /\ DOMAIN links \subseteq (DOMAIN places) \X (DOMAIN places)
  /\ \A pair \in DOMAIN links :
       links[pair] = [source |-> links[pair].source, active |-> links[pair].active]
         /\ links[pair].active \in BOOLEAN
  /\ search.refs \subseteq DOMAIN places
  /\ search = [at |-> search.at, refs |-> search.refs, cities |-> search.cities]
  /\ search.at \in {"none", "created", "cities", "generated", "failed"}
  /\ DOMAIN sidecar \subseteq CityNames
  /\ commands \in 0 .. MaxCommands

PlacesInv == RowsInv /\ ReferencesInv

\* What every artifact is like, whatever the enrichment has found for it.
IsArtifact(a) ==
  /\ a.ownership \in CityOwnerships /\ a.source # "none"
  /\ \A h \in a.hubs :
       /\ h.ownership \in HubOwnerships /\ h.key[1] = KeyFamily(h.ownership)
       /\ \E c \in a.cities : c.name = h.city
  /\ \A h, g \in a.hubs : h.city = g.city => h = g
  /\ a.source # Fixture.source =>
       /\ a.ownership = "catalog:geonames"
       /\ \A h \in a.hubs : h.ownership = "catalog:transitous"

\* With these ids a city's row can only have the id of its identity.
CityOf(name) == CityId(CityKey(importing.artifact.ownership, name))

HubRowOf(h) ==
  [kind |-> "station", key |-> h.key, ownership |-> h.ownership, details |-> 0,
   parent |-> CityOf(h.city), version |-> NoVersion, active |-> TRUE]

\* A row still to be written is new, or not an operator's.
WriteIsSafe(w) == w.id \in DOMAIN places => places[w.id].ownership # "manual"

IsActiveRow(id, key) == id \in DOMAIN places /\ places[id].key = key /\ places[id].active

\* The row of a hub of the artifact: still to be written, or written.
IsHubOf(id, h) ==
  \/ [id |-> id, row |-> HubRowOf(h)] \in Plans("hubs")
  \/ IsActiveRow(id, h.key)

CityIsPlanned(c) ==
  LET id == CityOf(c.name) IN
  \/ [id |-> id, row |-> CityRow(importing.artifact, c)] \in Plans("cities")
  \/ IsActiveRow(id, CityKey(importing.artifact.ownership, c.name))

HubIsPlanned(h) ==
  \E id \in Plans("hubIds") :
    /\ IsHubOf(id, h)
    /\ \/ <<CityOf(h.city), id>> \in Plans("links")
       \/ /\ Plans("unlinks") = {} /\ <<CityOf(h.city), id>> \in DOMAIN links
          /\ links[<<CityOf(h.city), id>>].active

\* An association that leads from a city of the artifact to its hub.
IsAssociation(pair) ==
  \E h \in importing.artifact.hubs : pair = <<CityOf(h.city), pair[2]>> /\ IsHubOf(pair[2], h)

PlanFields == {"cities", "hubs", "unlinks", "links", "cityIds", "hubIds"}
ImportPhases == {"writing", "cities retired", "hubs retired"}

PlanHolds ==
  LET artifact == importing.artifact IN
  /\ \A w \in Plans("cities") : WriteIsSafe(w) /\ \E c \in artifact.cities :
       w = [id |-> CityOf(c.name), row |-> CityRow(artifact, c)]
  /\ \A w \in Plans("hubs") : WriteIsSafe(w) /\ \E h \in artifact.hubs :
       w = [id |-> HubId(h.key), row |-> HubRowOf(h)]
  /\ Plans("cityIds") = {CityOf(c.name) : c \in artifact.cities}
  /\ \A c \in artifact.cities : CityIsPlanned(c)
  /\ \A h \in artifact.hubs : HubIsPlanned(h)
  /\ \A id \in Plans("hubIds") : \E h \in artifact.hubs : IsHubOf(id, h)
  /\ \A pair \in Plans("links") : IsAssociation(pair)
  /\ \A h \in artifact.hubs : CityOf(h.city) \notin Plans("unlinks") =>
       \A pair \in DOMAIN links :
         pair[1] = CityOf(h.city) /\ links[pair].active => IsAssociation(pair)

\* What an import has already retired, by its phase.
RetiredHolds ==
  /\ importing.at # "writing" =>
       /\ Written({"cities", "hubs", "unlinks", "links"})
       /\ \A id \in DOMAIN places :
            places[id].active /\ places[id].ownership = importing.artifact.ownership
              => id \in Plans("cityIds")
  /\ importing.at = "hubs retired" /\ Plans("hubIds") # {} =>
       \A id \in DOMAIN places :
         places[id].active /\ places[id].ownership \in HubOwnerships => id \in Plans("hubIds")

ImportInv ==
  importing # Idle =>
    /\ importing.at \in ImportPhases
    /\ importing = [at |-> importing.at, artifact |-> importing.artifact, plan |-> importing.plan]
    /\ importing.plan = [f \in PlanFields |-> importing.plan[f]]
    /\ IsArtifact(importing.artifact)
    /\ imported = NoArtifact /\ cleanup = Idle
    /\ PlanHolds /\ RetiredHolds

CleanupInv ==
  cleanup # Idle =>
    /\ cleanup = [at |-> cleanup.at, cities |-> FixtureCities, stations |-> cleanup.stations]
    /\ \A id \in cleanup.stations : id \in DOMAIN places /\ places[id].ownership = "catalog:hub"

ImportedInv ==
  imported # NoArtifact => IsArtifact(imported) /\ CompletedImportHolds

CatalogueInv ==
  /\ PlacesInv
  /\ EnrichedHubsAreValid
  /\ ImportInv
  /\ CleanupInv
  /\ ImportedInv

-----------------------------------------------------------------------------
(* Places and their ids.                                                    *)

\* Ids of different kinds, or made from different identities, differ.
LEMMA IdsAreApart ==
  \A k, j :
    /\ CityId(k) # HubId(j) /\ CityId(k) # PickedId(j) /\ HubId(k) # PickedId(j)
    /\ CityId(k) = CityId(j) => k = j
    /\ HubId(k) = HubId(j) => k = j
    /\ PickedId(k) = PickedId(j) => k = j
    /\ CityId(k) # NoPlace /\ HubId(k) # NoPlace /\ PickedId(k) # NoPlace
  BY DEF CityId, HubId, PickedId, NoPlace

\* What the families of identities are.
LEMMA Families ==
  /\ \A o \in CityOwnerships : KeyFamily(o) \in CityFamilies
  /\ \A o \in HubOwnerships : KeyFamily(o) \notin CityFamilies
  /\ \A o \in CityOwnerships : \A name : CityKey(o, name) = <<KeyFamily(o), name>>
  /\ CityOwnerships \cap HubOwnerships = {}
  /\ "manual" \notin CityOwnerships \cup HubOwnerships
  BY DEF CityOwnerships, HubOwnerships, KeyFamily, CityFamilies, CityKey

\* The row with an identity is found by it.
IdsAreFound ==
  /\ \A r \in DOMAIN places : \A id : StableId(id, places[r].key) = r
  /\ \A key : HasKey(key) = {} =>
       /\ CityId(key) \notin DOMAIN places /\ HubId(key) \notin DOMAIN places
       /\ StableId(CityId(key), key) = CityId(key) /\ StableId(HubId(key), key) = HubId(key)
  /\ \A key : key[1] \in CityFamilies => StableId(CityId(key), key) = CityId(key)

\* It is the only one, and an id that is not found by identity is free.
LEMMA IdsFound == RowsInv => IdsAreFound
  <1> SUFFICES ASSUME RowsInv PROVE IdsAreFound
    OBVIOUS
  <1>1. \A id \in DOMAIN places : RowFits(id, places[id]) /\ id # NoPlace
    BY IdsAreApart DEF RowsInv, RowFits
  <1>2. ASSUME NEW r \in DOMAIN places, NEW id
        PROVE  StableId(id, places[r].key) = r
    <2>1. HasKey(places[r].key) = {r}
      BY DEF HasKey, RowsInv, OneRowPerKey
    <2>2. Existing(id, places[r].key) = r
      BY <2>1 DEF Existing
    <2> QED
      BY <1>1, <2>2 DEF StableId
  <1>3. ASSUME NEW key, HasKey(key) = {}
        PROVE  /\ CityId(key) \notin DOMAIN places /\ HubId(key) \notin DOMAIN places
               /\ StableId(CityId(key), key) = CityId(key)
               /\ StableId(HubId(key), key) = HubId(key)
    <2>1. \A id \in DOMAIN places : places[id].key # key
      BY <1>3 DEF HasKey
    <2>2. CityId(key) \notin DOMAIN places /\ HubId(key) \notin DOMAIN places
      BY <1>1, <2>1, IdsAreApart DEF RowFits
    <2> QED
      BY <1>3, <2>2 DEF StableId, Existing
  <1>4. ASSUME NEW key, key[1] \in CityFamilies
        PROVE  StableId(CityId(key), key) = CityId(key)
    <2>1. CASE HasKey(key) = {}
      BY <1>3, <2>1
    <2>2. CASE HasKey(key) # {}
      <3>1. PICK r \in DOMAIN places : places[r].key = key
        BY <2>2 DEF HasKey
      <3>2. r = CityId(key)
        BY <1>1, <1>4, <3>1 DEF RowFits
      <3> QED
        BY <1>2, <3>1, <3>2
    <2> QED
      BY <2>1, <2>2
  <1> QED
    BY <1>2, <1>3, <1>4 DEF IdsAreFound

\* So it is after a step.
LEMMA IdsFoundNext == RowsInv' => IdsAreFound'
  BY IdsFound, PTL

\* What every artifact is like.
LEMMA ArtifactsAreSound == \A a \in Artifacts : IsArtifact(a)
  <1>1. IsArtifact(Fixture)
    <2> DEFINE hub == [key |-> <<"railmeet-hub", "Testville Hbf">>, city |-> "Testville",
                       ownership |-> "catalog:hub", distance |-> 0, regional |-> FALSE]
               city == [name |-> "Testville", population |-> 500]
    <2>1. /\ Fixture.ownership = "fixture:offline-europe-v1"
          /\ Fixture.source = "fixture:offline-europe-v1"
          /\ Fixture.cities = {city} /\ Fixture.hubs = {hub}
      BY DEF Fixture
    <2>2. /\ hub.ownership = "catalog:hub" /\ hub.key[1] = "railmeet-hub"
          /\ hub.city = "Testville" /\ city.name = "Testville"
      OBVIOUS
    <2> HIDE DEF hub, city
    <2> QED
      BY <2>1, <2>2 DEF IsArtifact, CityOwnerships, HubOwnerships, KeyFamily
  <1>2. ASSUME NEW list \in CityLists
        PROVE  IsArtifact(Production(list))
    <2> DEFINE a == Production(list)
    <2>1. /\ a.ownership = "catalog:geonames" /\ a.source = "catalog:geonames+transitous"
          /\ a.cities = list.cities
      BY DEF Production
    <2>2. \A h \in a.hubs : \E c \in DOMAIN sidecar \cap {city.name : city \in list.cities} :
            h = [key |-> <<"motis", sidecar[c].stop>>, city |-> c,
                 ownership |-> "catalog:transitous",
                 distance |-> sidecar[c].distance, regional |-> sidecar[c].regional]
      BY DEF Production
    <2> HIDE DEF a
    <2>3. \A h \in a.hubs :
            /\ h.ownership = "catalog:transitous" /\ h.key[1] = "motis"
            /\ \E c \in list.cities : c.name = h.city
      BY <2>2
    <2>4. \A h, g \in a.hubs : h.city = g.city => h = g
      BY <2>2
    <2> QED
      BY <2>1, <2>3, <2>4 DEF IsArtifact, CityOwnerships, HubOwnerships, KeyFamily, a
  <1> QED
    BY <1>1, <1>2 DEF Artifacts

\* The types are part of it.
LEMMA PlacesTypes == PlacesInv => CatalogueTypeOK
  BY DEF PlacesInv, RowsInv, ReferencesInv, RowFits, CatalogueTypeOK

-----------------------------------------------------------------------------
(* What a step does to the rows.                                            *)

\* A row is written, or inserted, that no other row has the identity of.
LEMMA RowPut ==
  ASSUME RowsInv, NEW id, NEW row,
         RowFits(id, row), row.parent \in {NoPlace} \cup DOMAIN places,
         HasKey(row.key) \subseteq {id},
         places' = [i \in DOMAIN places \cup {id} |-> IF i = id THEN row ELSE places[i]]
  PROVE  /\ RowsInv'
         /\ DOMAIN places' = DOMAIN places \cup {id} /\ places'[id] = row
         /\ \A i \in DOMAIN places : i # id => places'[i] = places[i]
         /\ id \in DOMAIN places => places[id].key = row.key /\ places[id].kind = row.kind
  <1>1. /\ DOMAIN places' = DOMAIN places \cup {id} /\ places'[id] = row
        /\ \A i \in DOMAIN places : i # id => places'[i] = places[i]
    OBVIOUS
  <1>2. IsFiniteSet(DOMAIN places')
    BY <1>1, FS_AddElement DEF RowsInv
  <1>3. \A i \in DOMAIN places' :
          /\ RowFits(i, places'[i])
          /\ places'[i].parent \in {NoPlace} \cup DOMAIN places'
    BY <1>1 DEF RowsInv
  <1>4. OneRowPerKey'
    BY <1>1 DEF RowsInv, OneRowPerKey, HasKey
  <1>5. id \in DOMAIN places => places[id].key = row.key /\ places[id].kind = row.kind
    <2> SUFFICES ASSUME id \in DOMAIN places
                 PROVE  places[id].key = row.key /\ places[id].kind = row.kind
      OBVIOUS
    <2>1. RowFits(id, places[id])
      BY DEF RowsInv
    <2> QED
      BY <2>1, IdsAreApart DEF RowFits
  <1> QED
    BY <1>1, <1>2, <1>3, <1>4, <1>5 DEF RowsInv

\* Rows are retired.
LEMMA RowsRetire ==
  ASSUME RowsInv, NEW owners, NEW keep, "manual" \notin owners,
         places' = Retired(owners, keep)
  PROVE  /\ RowsInv'
         /\ DOMAIN places' = DOMAIN places
         /\ \A id \in DOMAIN places :
              /\ places'[id].key = places[id].key /\ places'[id].kind = places[id].kind
              /\ places'[id].ownership = places[id].ownership
              /\ places[id].ownership \notin owners \/ id \in keep => places'[id] = places[id]
              /\ places'[id].active => places[id].active /\
                                       (places[id].ownership \notin owners \/ id \in keep)
  <1>1. /\ DOMAIN places' = DOMAIN places
        /\ \A id \in DOMAIN places :
             places'[id] = IF places[id].ownership \in owners /\ id \notin keep
                           THEN [places[id] EXCEPT !.active = FALSE] ELSE places[id]
    BY DEF Retired
  <1>2. ASSUME NEW id \in DOMAIN places, places[id].ownership \in owners, id \notin keep
        PROVE  places'[id] = [kind |-> places[id].kind, key |-> places[id].key,
                              ownership |-> places[id].ownership,
                              details |-> places[id].details, parent |-> places[id].parent,
                              version |-> places[id].version, active |-> FALSE]
    <2> DEFINE row == places[id]
    <2>1. row = [kind |-> row.kind, key |-> row.key, ownership |-> row.ownership,
                 details |-> row.details, parent |-> row.parent, version |-> row.version,
                 active |-> row.active]
      BY DEF RowsInv, RowFits, IsRow
    <2>2. places'[id] = [row EXCEPT !.active = FALSE]
      BY <1>1, <1>2
    <2> HIDE DEF row
    <2>3. places'[id] = [kind |-> row.kind, key |-> row.key, ownership |-> row.ownership,
                         details |-> row.details, parent |-> row.parent, version |-> row.version,
                         active |-> FALSE]
      BY <2>1, <2>2
    <2> QED
      BY <2>3 DEF row
  <1>3. ASSUME NEW id \in DOMAIN places
        PROVE  /\ places'[id].key = places[id].key /\ places'[id].kind = places[id].kind
               /\ places'[id].ownership = places[id].ownership
               /\ places'[id].parent = places[id].parent
               /\ places[id].ownership \notin owners \/ id \in keep => places'[id] = places[id]
               /\ places'[id].active => places[id].active /\
                                        (places[id].ownership \notin owners \/ id \in keep)
               /\ RowFits(id, places'[id])
    <2>1. RowFits(id, places[id])
      BY DEF RowsInv
    <2>2. CASE places[id].ownership \notin owners \/ id \in keep
      BY <1>1, <2>1, <2>2
    <2>3. CASE places[id].ownership \in owners /\ id \notin keep
      <3>1. /\ places'[id].key = places[id].key /\ places'[id].kind = places[id].kind
            /\ places'[id].ownership = places[id].ownership
            /\ places'[id].parent = places[id].parent
            /\ places'[id].active = FALSE
            /\ IsRow(places'[id])
        <4> DEFINE old == places[id]
        <4>1. places'[id] = [kind |-> old.kind, key |-> old.key, ownership |-> old.ownership,
                             details |-> old.details, parent |-> old.parent,
                             version |-> old.version, active |-> FALSE]
          BY <1>2, <2>3
        <4> HIDE DEF old
        <4>2. /\ places'[id].key = old.key /\ places'[id].kind = old.kind
              /\ places'[id].ownership = old.ownership /\ places'[id].parent = old.parent
              /\ places'[id].active = FALSE /\ places'[id].details = old.details
          BY <4>1
        <4>3. IsRow(places'[id])
          BY <4>1, <4>2 DEF IsRow
        <4> QED
          BY <4>2, <4>3 DEF old
      <3>2. RowFits(id, places'[id])
        BY <2>1, <2>3, <3>1 DEF RowFits
      <3> QED
        BY <2>3, <3>1, <3>2
    <2> QED
      BY <2>2, <2>3
  <1>4. RowsInv'
    BY <1>1, <1>3 DEF RowsInv, OneRowPerKey
  <1> QED
    BY <1>1, <1>3, <1>4

\* Rows that no other row refers to are deleted.
LEMMA RowsDelete ==
  ASSUME RowsInv, NEW ids, \A id \in DOMAIN places \ ids : places[id].parent \notin ids,
         places' = Restrict(places, DOMAIN places \ ids)
  PROVE  /\ RowsInv'
         /\ DOMAIN places' = DOMAIN places \ ids
         /\ \A id \in DOMAIN places' : places'[id] = places[id]
  <1>1. /\ DOMAIN places' = DOMAIN places \ ids
        /\ \A id \in DOMAIN places' : places'[id] = places[id]
    BY DEF Restrict
  <1>2. IsFiniteSet(DOMAIN places')
    BY <1>1, FS_Difference DEF RowsInv
  <1> QED
    BY <1>1, <1>2, ZenonT(60) DEF RowsInv, OneRowPerKey

-----------------------------------------------------------------------------
(* Steps that leave places and associations alone.                          *)

\* What a step keeps of the places.
OthersKept ==
  \A id \in DOMAIN places :
    id \in search.refs \/ IsManual(id) =>
      /\ id \in DOMAIN places'
      /\ places'[id].key = places[id].key /\ places'[id].kind = places[id].kind
      /\ IsManual(id) => places'[id] = places[id]

CleanKept == cleanup # Idle /\ cleanup' = Idle /\ places' # places => StateIsClean'

\* While an import or a clean-up rests, so does what is known about it.
LEMMA ImportSame == ImportInv /\ UNCHANGED <<places, links, importing, imported, cleanup>> => ImportInv'
  <1> SUFFICES ASSUME ImportInv, UNCHANGED <<places, links, importing, imported, cleanup>>,
                      importing # Idle
               PROVE  ImportInv'
    BY DEF ImportInv
  <1>1. /\ \A f : Plans(f)' = Plans(f)
        /\ \A name : CityOf(name)' = CityOf(name)
        /\ \A h : HubRowOf(h)' = HubRowOf(h)
        /\ \A id, key : IsActiveRow(id, key)' <=> IsActiveRow(id, key)
        /\ \A w : WriteIsSafe(w)' <=> WriteIsSafe(w)
    BY DEF Plans, CityOf, HubRowOf, IsActiveRow, WriteIsSafe
  <1>2. \A id, h : IsHubOf(id, h)' <=> IsHubOf(id, h)
    BY <1>1 DEF IsHubOf
  <1>3. /\ \A pair : IsAssociation(pair)' <=> IsAssociation(pair)
        /\ \A h : HubIsPlanned(h)' <=> HubIsPlanned(h)
        /\ \A c : CityIsPlanned(c)' <=> CityIsPlanned(c)
    BY <1>1, <1>2 DEF IsAssociation, HubIsPlanned, CityIsPlanned
  <1>4. PlanHolds'
    BY <1>1, <1>3, <1>2 DEF ImportInv, PlanHolds
  <1>5. RetiredHolds'
    BY <1>1 DEF ImportInv, RetiredHolds, Written
  <1> QED
    BY <1>4, <1>5 DEF ImportInv

\* The same of what the last import has left.
LEMMA ImportedSame == ImportedInv /\ UNCHANGED <<places, links, imported>> => ImportedInv'
  <1> SUFFICES ASSUME ImportedInv, UNCHANGED <<places, links, imported>> PROVE ImportedInv'
    OBVIOUS
  <1>1. \A id, key : StableId(id, key)' = StableId(id, key)
    BY DEF StableId, Existing, HasKey
  <1>2. /\ \A name : IdOfCity(imported, name)' = IdOfCity(imported, name)
        /\ \A h : IdOfHub(h)' = IdOfHub(h)
    BY <1>1 DEF IdOfCity, IdOfHub
  <1> QED
    BY <1>2 DEF ImportedInv, CompletedImportHolds

\* The same of a clean-up.
LEMMA CleanupSame == CleanupInv /\ UNCHANGED <<places, cleanup>> => CleanupInv'
  BY DEF CleanupInv, FixtureCities

\* The same of the rows.
LEMMA RowsSame == RowsInv /\ UNCHANGED places => RowsInv' /\ OthersKept /\ CleanKept
  BY DEF RowsInv, OneRowPerKey, OthersKept, CleanKept

\* The enrichment writes its artifact and nothing else.
LEMMA EnrichStep ==
  ASSUME CatalogueInv, NEW answer \in Geocodes, Enrich(answer.city, answer.stops)
  PROVE  CatalogueInv' /\ OthersKept /\ CleanKept
  <1> DEFINE hub == Associate(StopsAmong(answer.stops))
  <1>1. AreMatches(StopsAmong(answer.stops)) /\ answer.city \in CityNames
    BY CatalogueAssumption DEF AreMatches, StopsAmong
  <1>2. /\ hub # NoHub
        /\ sidecar' = [c \in DOMAIN sidecar \cup {answer.city} |->
                         IF c = answer.city THEN hub ELSE sidecar[c]]
        /\ commands < MaxCommands /\ commands' = commands + 1
        /\ UNCHANGED <<places, links, importing, imported, cleanup, search>>
    BY DEF Enrich, Run
  <1>3. HubIsValid(hub)
    BY <1>1, <1>2, AssociatedIsValid
  <1> HIDE DEF hub
  <1>4. EnrichedHubsAreValid'
    BY <1>2, <1>3 DEF CatalogueInv, EnrichedHubsAreValid, HubIsValid
  <1>5. ReferencesInv'
    BY <1>1, <1>2, CatalogueAssumption DEF CatalogueInv, PlacesInv, ReferencesInv
  <1> QED
    BY <1>2, <1>4, <1>5, RowsSame, ImportSame, ImportedSame, CleanupSame
    DEF CatalogueInv, PlacesInv

\* An operator interrupts an import, or the process dies.
LEMMA InterruptStep ==
  ASSUME CatalogueInv, Interrupt
  PROVE  CatalogueInv' /\ OthersKept /\ CleanKept
  <1>1. importing' = Idle /\ UNCHANGED <<places, links, sidecar, imported, cleanup, search, commands>>
    BY DEF Interrupt
  <1>2. ImportInv'
    BY <1>1 DEF ImportInv
  <1>3. ReferencesInv' /\ EnrichedHubsAreValid'
    BY <1>1 DEF CatalogueInv, PlacesInv, ReferencesInv, EnrichedHubsAreValid
  <1> QED
    BY <1>1, <1>2, <1>3, RowsSame, ImportedSame, CleanupSame DEF CatalogueInv, PlacesInv

\* A clean-up begins with what it finds.
LEMMA LoadStep ==
  ASSUME CatalogueInv, LoadFixture
  PROVE  CatalogueInv' /\ OthersKept /\ CleanKept
  <1>1. /\ importing = Idle /\ commands < MaxCommands /\ commands' = commands + 1
        /\ cleanup' = [at |-> "loaded", cities |-> FixtureCities,
                       stations |-> {id \in StationsOf(FixtureCities) : IsFixtureStation(id)}]
        /\ UNCHANGED <<places, links, sidecar, importing, imported, search>>
    BY DEF LoadFixture, Run
  <1>2. CleanupInv'
    BY <1>1 DEF CleanupInv, FixtureCities, StationsOf, IsFixtureStation
  <1>3. ImportInv'
    BY <1>1 DEF ImportInv
  <1>4. ReferencesInv' /\ EnrichedHubsAreValid'
    BY <1>1, CatalogueAssumption
    DEF CatalogueInv, PlacesInv, ReferencesInv, EnrichedHubsAreValid
  <1> QED
    BY <1>1, <1>2, <1>3, <1>4, RowsSame, ImportedSame DEF CatalogueInv, PlacesInv

\* A clean-up goes on, or gives up.
LEMMA InspectStep ==
  ASSUME CatalogueInv, Inspect
  PROVE  CatalogueInv' /\ OthersKept /\ CleanKept
  <1>1. /\ cleanup.at = "loaded" /\ cleanup # Idle
        /\ cleanup' = IF IsBlocking THEN Idle ELSE [cleanup EXCEPT !.at = "inspected"]
        /\ UNCHANGED <<places, links, sidecar, importing, imported, search, commands>>
    BY DEF Inspect, Idle
  <1>2. CleanupInv'
    <2>1. /\ cleanup = [at |-> cleanup.at, cities |-> FixtureCities, stations |-> cleanup.stations]
          /\ \A id \in cleanup.stations : id \in DOMAIN places /\ places[id].ownership = "catalog:hub"
      BY <1>1 DEF CatalogueInv, CleanupInv
    <2>2. FixtureCities' = FixtureCities
      BY <1>1 DEF FixtureCities
    <2>3. CASE cleanup' = Idle
      BY <2>3 DEF CleanupInv
    <2>4. CASE cleanup' = [cleanup EXCEPT !.at = "inspected"]
      <3>1. cleanup' = [at |-> "inspected", cities |-> FixtureCities, stations |-> cleanup.stations]
        BY <2>1, <2>4
      <3> QED
        BY <1>1, <2>1, <2>2, <3>1 DEF CleanupInv
    <2> QED
      BY <1>1, <2>3, <2>4
  <1>3. ImportInv'
    BY <1>1 DEF CatalogueInv, ImportInv
  <1>4. ReferencesInv' /\ EnrichedHubsAreValid'
    BY <1>1 DEF CatalogueInv, PlacesInv, ReferencesInv, EnrichedHubsAreValid
  <1> QED
    BY <1>1, <1>2, <1>3, <1>4, RowsSame, ImportedSame DEF CatalogueInv, PlacesInv

\* A search reads the catalogue, and refers to places that are there.
LEMMA ReadSteps ==
  ASSUME CatalogueInv,
         FindCities \/ ChooseHubs \/ \E id \in DOMAIN places : CreateSearchAt(id)
  PROVE  CatalogueInv' /\ OthersKept /\ CleanKept
  <1>1. UNCHANGED <<places, links, sidecar, importing, imported, cleanup, commands>>
    BY DEF FindCities, ChooseHubs, CreateSearchAt
  <1>2. /\ search'.refs \subseteq DOMAIN places
        /\ search' = [at |-> search'.at, refs |-> search'.refs, cities |-> search'.cities]
        /\ search'.at \in {"none", "created", "cities", "generated", "failed"}
    <2>1. CASE FindCities
      <3>1. search = [at |-> search.at, refs |-> search.refs, cities |-> search.cities]
        BY DEF CatalogueInv, PlacesInv, ReferencesInv
      <3>2. \E cities, at : at \in {"cities", "failed"} /\
              search' = [at |-> at, refs |-> search.refs, cities |-> cities]
        BY <2>1, <3>1 DEF FindCities
      <3> QED
        BY <3>2 DEF CatalogueInv, PlacesInv, ReferencesInv
    <2>2. CASE ChooseHubs
      <3>1. PICK chosen \in SUBSET ActiveHubsOf(search.cities) :
              search' = [at |-> "generated", cities |-> {},
                         refs |-> search.refs \cup UNION {{c[1], c[2]} : c \in chosen}]
        BY <2>2 DEF ChooseHubs
      <3>2. \A c \in chosen : c[1] \in DOMAIN places /\ c[2] \in DOMAIN places
        BY DEF ActiveHubsOf, CatalogueInv, PlacesInv, ReferencesInv
      <3> QED
        BY <3>1, <3>2 DEF CatalogueInv, PlacesInv, ReferencesInv
    <2>3. CASE \E id \in DOMAIN places : CreateSearchAt(id)
      BY <2>3 DEF CreateSearchAt
    <2> QED
      BY <2>1, <2>2, <2>3
  <1>3. ReferencesInv' /\ EnrichedHubsAreValid'
    BY <1>1, <1>2 DEF CatalogueInv, PlacesInv, ReferencesInv, EnrichedHubsAreValid
  <1> QED
    BY <1>1, <1>3, RowsSame, ImportSame, ImportedSame, CleanupSame DEF CatalogueInv, PlacesInv

-----------------------------------------------------------------------------
(* Searches and clean-ups, which change places.                             *)

\* What the last import has left is there, with the identities of the artifact.
ImportedRows ==
  imported # NoArtifact =>
    /\ \A c \in imported.cities :
         LET key == CityKey(imported.ownership, c.name) IN
         IdOfCity(imported, c.name) = CityId(key) /\ IsActiveRow(CityId(key), key)
    /\ \A h \in imported.hubs :
         /\ IsActiveRow(IdOfHub(h), h.key)
         /\ IdOfCity(imported, h.city) = CityId(CityKey(imported.ownership, h.city))
         /\ IsActiveRow(IdOfCity(imported, h.city), CityKey(imported.ownership, h.city))

\* A city's id is that of its identity, whoever has it.
LEMMA CityIdsFixed ==
  RowsInv => \A o \in CityOwnerships : \A name :
               StableId(CityId(CityKey(o, name)), CityKey(o, name)) = CityId(CityKey(o, name))
  <1> SUFFICES ASSUME RowsInv, NEW o \in CityOwnerships, NEW name
               PROVE  StableId(CityId(CityKey(o, name)), CityKey(o, name)) = CityId(CityKey(o, name))
    OBVIOUS
  <1> DEFINE key == CityKey(o, name)
  <1>1. key[1] \in CityFamilies
    <2>1. key = <<KeyFamily(o), name>> /\ KeyFamily(o) \in CityFamilies
      BY Families
    <2> QED
      BY <2>1
  <1> HIDE DEF key
  <1> QED
    BY <1>1, IdsFound DEF IdsAreFound, key

\* The rows of a completed import.
LEMMA ImportedRowsThere == RowsInv /\ ImportedInv => ImportedRows
  <1> SUFFICES ASSUME RowsInv, ImportedInv, imported # NoArtifact
               PROVE  ImportedRows
    BY DEF ImportedRows
  <1>1. IsArtifact(imported) /\ CompletedImportHolds /\ imported.ownership \in CityOwnerships
    BY DEF ImportedInv, IsArtifact
  <1>2. \A name : IdOfCity(imported, name) = CityId(CityKey(imported.ownership, name))
    BY <1>1, CityIdsFixed DEF IdOfCity
  <1>3. ASSUME NEW c \in imported.cities
        PROVE  LET key == CityKey(imported.ownership, c.name) IN
               IdOfCity(imported, c.name) = CityId(key) /\ IsActiveRow(CityId(key), key)
    <2> DEFINE id == CityId(CityKey(imported.ownership, c.name))
    <2>1. IdOfCity(imported, c.name) = id
      BY <1>2
    <2>2. IdOfCity(imported, c.name) \in {IdOfCity(imported, x.name) : x \in imported.cities}
      OBVIOUS
    <2>3. id \in DOMAIN places /\ places[id].active
      BY <1>1, <2>1, <2>2 DEF CompletedImportHolds
    <2>4. places[id].key = CityKey(imported.ownership, c.name)
      BY <2>3, IdsAreApart DEF RowsInv, RowFits
    <2> QED
      BY <2>1, <2>3, <2>4 DEF IsActiveRow
  <1>4. ASSUME NEW h \in imported.hubs
        PROVE  IsActiveRow(IdOfHub(h), h.key)
    <2>1. IdOfHub(h) \in DOMAIN places /\ places[IdOfHub(h)].active
      <3>1. IdOfHub(h) \in {IdOfHub(x) : x \in imported.hubs}
        OBVIOUS
      <3> QED
        BY <1>1, <3>1 DEF CompletedImportHolds
    <2>2. HasKey(h.key) # {}
      BY <2>1, IdsFound DEF IdsAreFound, IdOfHub
    <2>3. PICK r \in DOMAIN places : places[r].key = h.key
      BY <2>2 DEF HasKey
    <2>4. IdOfHub(h) = r
      BY <2>3, IdsFound DEF IdsAreFound, IdOfHub
    <2> QED
      BY <2>1, <2>3, <2>4 DEF IsActiveRow
  <1>5. ASSUME NEW h \in imported.hubs
        PROVE  IsActiveRow(IdOfCity(imported, h.city), CityKey(imported.ownership, h.city))
    <2>1. PICK c \in imported.cities : c.name = h.city
      BY <1>1 DEF IsArtifact
    <2> QED
      BY <1>3, <2>1
  <1> QED
    BY <1>2, <1>3, <1>4, <1>5 DEF ImportedRows

\* What a completed import has left stays while its rows do and no others become
\* active, and the associations of its cities stay.
LEMMA ImportedStays ==
  ASSUME RowsInv, RowsInv', ImportedInv, imported # NoArtifact, imported' = imported,
         \A c \in imported.cities :
           LET id == IdOfCity(imported, c.name) IN
           id \in DOMAIN places' /\ places'[id] = places[id],
         \A h \in imported.hubs :
           IdOfHub(h) \in DOMAIN places' /\ places'[IdOfHub(h)] = places[IdOfHub(h)],
         \A id \in DOMAIN places' : places'[id].ownership # "manual" =>
           id \in DOMAIN places /\ places'[id] = places[id],
         \A h \in imported.hubs : \A pair : pair[1] = IdOfCity(imported, h.city) =>
           (pair \in DOMAIN links' /\ links'[pair].active <=>
              pair \in DOMAIN links /\ links[pair].active)
  PROVE  ImportedInv'
  <1>1. /\ IsArtifact(imported) /\ CompletedImportHolds /\ imported.ownership \in CityOwnerships
        /\ ImportedRows
    BY ImportedRowsThere DEF ImportedInv, IsArtifact
  <1>2. \A name : IdOfCity(imported, name)' = IdOfCity(imported, name)
    <2>1. \A name : IdOfCity(imported, name) = CityId(CityKey(imported.ownership, name))
      BY <1>1, CityIdsFixed DEF IdOfCity
    <2>2. IdsAreFound'
      BY IdsFoundNext
    <2>3. ASSUME NEW name
          PROVE  IdOfCity(imported, name)' = CityId(CityKey(imported.ownership, name))
      <3>1. PICK own \in CityOwnerships : own = imported.ownership
        BY <1>1
      <3> DEFINE key == CityKey(own, name)
      <3>2. key[1] \in CityFamilies
        <4>1. key = <<KeyFamily(own), name>> /\ KeyFamily(own) \in CityFamilies
          BY Families
        <4> QED
          BY <4>1
      <3> HIDE DEF key
      <3>3. StableId(CityId(key), key)' = CityId(key)
        BY <2>2, <3>2 DEF IdsAreFound
      <3> QED
        BY <3>1, <3>3 DEF IdOfCity, key
    <2> QED
      BY <2>1, <2>3
  <1>3. ASSUME NEW h \in imported.hubs
        PROVE  IdOfHub(h)' = IdOfHub(h)
    <2>1. places'[IdOfHub(h)].key = h.key
      BY <1>1 DEF ImportedRows, IsActiveRow
    <2>2. IdsAreFound'
      BY IdsFoundNext
    <2>3. \A id : StableId(id, h.key)' = IdOfHub(h)
      BY <2>1, <2>2 DEF IdsAreFound
    <2> QED
      BY <2>3 DEF IdOfHub
  <1> DEFINE cityIds == {IdOfCity(imported, c.name) : c \in imported.cities}
             hubIds  == {IdOfHub(h) : h \in imported.hubs}
             activeOf(ownerships) ==
               {id \in DOMAIN places : places[id].active /\ places[id].ownership \in ownerships}
             activeNow(ownerships) ==
               {id \in DOMAIN places' : places'[id].active /\ places'[id].ownership \in ownerships}
  <1>4. /\ {IdOfCity(imported, c.name)' : c \in imported.cities} = cityIds
        /\ {IdOfHub(h)' : h \in imported.hubs} = hubIds
    BY <1>2, <1>3
  <1>5. \A id \in cityIds \cup hubIds : id \in DOMAIN places' /\ places'[id].active
    BY <1>1 DEF ImportedRows, IsActiveRow
  <1>6. ASSUME NEW ownerships, "manual" \notin ownerships
        PROVE  activeNow(ownerships) \subseteq activeOf(ownerships)
    BY <1>6
  <1>7. activeNow({imported.ownership}) \subseteq cityIds
    <2>1. "manual" \notin {imported.ownership}
      BY <1>1, Families
    <2>2. activeOf({imported.ownership}) \subseteq cityIds
      BY <1>1 DEF CompletedImportHolds
    <2> HIDE DEF activeNow, activeOf, cityIds
    <2> QED
      BY <1>6, <2>1, <2>2
  <1>8. hubIds # {} => activeNow(HubOwnerships) \subseteq hubIds
    <2>1. "manual" \notin HubOwnerships
      BY Families
    <2>2. hubIds # {} => activeOf(HubOwnerships) \subseteq hubIds
      BY <1>1 DEF CompletedImportHolds
    <2> HIDE DEF activeNow, activeOf, hubIds
    <2> QED
      BY <1>6, <2>1, <2>2
  <1>9. ASSUME NEW h \in imported.hubs
        PROVE  {pair[2] : pair \in {p \in DOMAIN links' :
                  p[1] = IdOfCity(imported, h.city) /\ links'[p].active}} = {IdOfHub(h)}
    <2>1. {pair[2] : pair \in {p \in DOMAIN links :
                  p[1] = IdOfCity(imported, h.city) /\ links[p].active}} = {IdOfHub(h)}
      BY <1>1 DEF CompletedImportHolds
    <2>2. {p \in DOMAIN links' : p[1] = IdOfCity(imported, h.city) /\ links'[p].active}
            = {p \in DOMAIN links : p[1] = IdOfCity(imported, h.city) /\ links[p].active}
      OBVIOUS
    <2> QED
      BY <2>1, <2>2
  <1>10. CompletedImportHolds'
    <2>1. /\ {IdOfCity(imported, c.name)' : c \in imported'.cities} = cityIds
          /\ {IdOfHub(h)' : h \in imported'.hubs} = hubIds
      BY <1>4
    <2>2. \A h \in imported'.hubs :
            {pair[2] : pair \in {p \in DOMAIN links' :
               p[1] = IdOfCity(imported, h.city)' /\ links'[p].active}} = {IdOfHub(h)'}
      BY <1>2, <1>3, <1>9
    <2>3. /\ activeNow({imported'.ownership}) \subseteq cityIds
          /\ hubIds # {} => activeNow(HubOwnerships) \subseteq hubIds
      BY <1>7, <1>8
    <2> HIDE DEF cityIds, hubIds, activeOf
    <2> QED
      BY <1>5, <2>1, <2>2, <2>3 DEF CompletedImportHolds
  <1> QED
    BY <1>1, <1>10 DEF ImportedInv

\* What an import has planned stays planned while its writes stay safe, its rows
\* stay to be written or written, and its associations rest.
LEMMA PlanStays ==
  ASSUME PlanHolds, importing'.artifact = importing.artifact, links' = links,
         Plans("cities")' \subseteq Plans("cities"), Plans("hubs")' \subseteq Plans("hubs"),
         \A f \in {"unlinks", "links", "cityIds", "hubIds"} : Plans(f)' = Plans(f),
         \A w \in Plans("cities")' \cup Plans("hubs")' : WriteIsSafe(w)',
         \A c \in importing.artifact.cities : CityIsPlanned(c)',
         \A h \in importing.artifact.hubs : \A id : IsHubOf(id, h) => IsHubOf(id, h)'
  PROVE  PlanHolds'
  <1>1. /\ \A name : CityOf(name)' = CityOf(name)
        /\ \A h : HubRowOf(h)' = HubRowOf(h)
    BY DEF CityOf, HubRowOf
  <1>2. /\ Plans("unlinks")' = Plans("unlinks") /\ Plans("links")' = Plans("links")
        /\ Plans("cityIds")' = Plans("cityIds") /\ Plans("hubIds")' = Plans("hubIds")
    OBVIOUS
  <1>3. ASSUME NEW h \in importing.artifact.hubs
        PROVE  HubIsPlanned(h)'
    <2>1. HubIsPlanned(h)
      BY DEF PlanHolds
    <2> QED
      BY <1>1, <1>2, <2>1 DEF HubIsPlanned
  <1>4. \A pair : IsAssociation(pair) => IsAssociation(pair)'
    BY <1>1 DEF IsAssociation
  <1>5. \A w \in Plans("cities")' : WriteIsSafe(w)' /\ \E c \in importing.artifact.cities :
           w = [id |-> CityOf(c.name), row |-> CityRow(importing.artifact, c)]
    BY DEF PlanHolds
  <1>6. \A w \in Plans("hubs")' : WriteIsSafe(w)' /\ \E h \in importing.artifact.hubs :
           w = [id |-> HubId(h.key), row |-> HubRowOf(h)]
    BY DEF PlanHolds
  <1>7. \A id \in Plans("hubIds") : \E h \in importing.artifact.hubs : IsHubOf(id, h)'
    BY DEF PlanHolds
  <1>8. \A pair \in Plans("links") : IsAssociation(pair)'
    BY <1>4 DEF PlanHolds
  <1>9. \A h \in importing.artifact.hubs : CityOf(h.city) \notin Plans("unlinks") =>
          \A pair \in DOMAIN links :
            pair[1] = CityOf(h.city) /\ links[pair].active => IsAssociation(pair)'
    BY <1>4 DEF PlanHolds
  <1>10. Plans("cityIds") = {CityOf(c.name) : c \in importing.artifact.cities}
    BY DEF PlanHolds
  <1> QED
    BY <1>1, <1>2, <1>3, <1>5, <1>6, <1>7, <1>8, <1>9, <1>10 DEF PlanHolds

\* The row of a place that a traveler picked fits.
LEMMA PickedRowFits ==
  ASSUME NEW stop,
         NEW row, row = [kind |-> "station", key |-> <<"motis", stop>>, ownership |-> "manual",
                         details |-> 0, parent |-> NoPlace, version |-> NoVersion, active |-> TRUE]
  PROVE  RowFits(PickedId(row.key), row)
  <1>1. /\ row.kind = "station" /\ row.key = <<"motis", stop>> /\ row.ownership = "manual"
        /\ row.active = TRUE /\ row.key[1] = "motis"
    OBVIOUS
  <1>2. IsRow(row)
    BY DEF IsRow
  <1> QED
    BY <1>1, <1>2 DEF RowFits, CityFamilies

\* A traveler's place is refreshed, or becomes a row of its own.
LEMMA CreateStep ==
  ASSUME CatalogueInv, NEW stop \in Stops, CreateSearch(stop)
  PROVE  CatalogueInv' /\ OthersKept /\ CleanKept
  <1> DEFINE key == <<"motis", stop>>
             new == [kind |-> "station", key |-> key, ownership |-> "manual", details |-> 0,
                     parent |-> NoPlace, version |-> NoVersion, active |-> TRUE]
             id  == IF HasKey(key) = {} THEN PickedId(key)
                    ELSE CHOOSE row \in HasKey(key) : TRUE
  <1>1. /\ places' = IF id \in DOMAIN places THEN places
                     ELSE [i \in DOMAIN places \cup {id} |-> IF i = id THEN new ELSE places[i]]
        /\ search' = [at |-> "created", refs |-> {id}, cities |-> {}]
        /\ UNCHANGED <<links, sidecar, importing, imported, cleanup, commands>>
    BY DEF CreateSearch
  <1>2. RowsInv /\ ReferencesInv /\ EnrichedHubsAreValid
    BY DEF CatalogueInv, PlacesInv
  <1>3. CleanKept /\ EnrichedHubsAreValid'
    BY <1>1, <1>2 DEF CleanKept, EnrichedHubsAreValid
  <1>4. CASE id \in DOMAIN places
    <2>1. places' = places
      BY <1>1, <1>4
    <2>2. ReferencesInv'
      BY <1>1, <1>2, <1>4, <2>1 DEF ReferencesInv
    <2> QED
      BY <1>1, <1>2, <1>3, <2>1, <2>2, RowsSame, ImportSame, ImportedSame, CleanupSame
      DEF CatalogueInv, PlacesInv
  <1>5. CASE id \notin DOMAIN places
    <2>1. HasKey(key) = {} /\ id = PickedId(key) /\ new.key = key
      BY <1>5 DEF HasKey
    <2>2. RowFits(PickedId(new.key), new)
      BY PickedRowFits
    <2>3. /\ places' = [i \in DOMAIN places \cup {id} |-> IF i = id THEN new ELSE places[i]]
          /\ RowFits(id, new) /\ new.parent \in {NoPlace} \cup DOMAIN places
          /\ HasKey(new.key) \subseteq {id}
          /\ new.ownership = "manual" /\ new.kind = "station"
      BY <1>1, <1>5, <2>1, <2>2
    <2> HIDE DEF id, new, key
    <2>4. /\ RowsInv'
          /\ DOMAIN places' = DOMAIN places \cup {id} /\ places'[id] = new
          /\ \A i \in DOMAIN places : i # id => places'[i] = places[i]
      BY <1>2, <2>3, RowPut
    <2>5. \A i \in DOMAIN places : i \in DOMAIN places' /\ places'[i] = places[i]
      BY <1>5, <2>4
    <2>6. OthersKept
      BY <2>5 DEF OthersKept
    <2>7. ReferencesInv'
      BY <1>1, <1>2, <2>4 DEF ReferencesInv
    <2>8. CleanupInv'
      <3>1. FixtureCities' = FixtureCities
        BY <2>3, <2>4, <2>5 DEF FixtureCities
      <3> QED
        BY <1>1, <2>5, <3>1 DEF CatalogueInv, CleanupInv
    <2>9. ImportedInv'
      <3> SUFFICES ASSUME imported # NoArtifact PROVE ImportedInv'
        BY <1>1 DEF ImportedInv
      <3>1. ImportedInv /\ ImportedRows
        BY <1>2, ImportedRowsThere DEF CatalogueInv
      <3>2. \A c \in imported.cities : IdOfCity(imported, c.name) \in DOMAIN places
        BY <3>1 DEF ImportedRows, IsActiveRow
      <3>3. \A h \in imported.hubs : IdOfHub(h) \in DOMAIN places
        BY <3>1 DEF ImportedRows, IsActiveRow
      <3>4. \A i \in DOMAIN places' : places'[i].ownership # "manual" =>
              i \in DOMAIN places /\ places'[i] = places[i]
        BY <2>3, <2>4, <2>5
      <3> QED
        BY <1>1, <1>2, <2>4, <2>5, <3>1, <3>2, <3>3, <3>4, ImportedStays
    <2>10. ImportInv'
      <3> SUFFICES ASSUME importing # Idle PROVE ImportInv'
        BY <1>1 DEF ImportInv
      <3>1. PlanHolds /\ RetiredHolds
        BY DEF CatalogueInv, ImportInv
      <3>2. /\ \A f : Plans(f)' = Plans(f)
            /\ \A name : CityOf(name)' = CityOf(name)
            /\ \A h : HubRowOf(h)' = HubRowOf(h)
            /\ \A i, k : IsActiveRow(i, k) => IsActiveRow(i, k)'
        BY <1>1, <2>5 DEF Plans, CityOf, HubRowOf, IsActiveRow
      <3>3. \A w \in Plans("cities") \cup Plans("hubs") : WriteIsSafe(w)'
        <4> SUFFICES ASSUME NEW w \in Plans("cities") \cup Plans("hubs") PROVE WriteIsSafe(w)'
          OBVIOUS
        <4>1. WriteIsSafe(w) /\ \E k : w.id = CityId(k) \/ w.id = HubId(k)
          BY <3>1 DEF PlanHolds, CityOf
        <4>2. w.id # id
          BY <2>1, <4>1, IdsAreApart
        <4> QED
          BY <2>4, <4>1, <4>2 DEF WriteIsSafe
      <3>4. \A h \in importing.artifact.hubs : \A i : IsHubOf(i, h) => IsHubOf(i, h)'
        BY <3>2 DEF IsHubOf
      <3>5. \A c \in importing.artifact.cities : CityIsPlanned(c)'
        BY <1>1, <3>1, <3>2 DEF CityIsPlanned, PlanHolds
      <3>6. PlanHolds'
        BY <1>1, <3>1, <3>2, <3>3, <3>4, <3>5, PlanStays
      <3>7. RetiredHolds'
        <4>1. "manual" # importing.artifact.ownership /\ "manual" \notin HubOwnerships
          BY Families DEF CatalogueInv, ImportInv, IsArtifact
        <4>2. \A i \in DOMAIN places' : (i \in DOMAIN places /\ places'[i] = places[i])
                                        \/ places'[i].ownership = "manual"
          BY <2>3, <2>4, <2>5
        <4> QED
          BY <1>1, <3>1, <3>2, <4>1, <4>2 DEF RetiredHolds, Written
      <3> QED
        BY <1>1, <3>6, <3>7 DEF CatalogueInv, ImportInv
    <2> QED
      BY <1>3, <2>4, <2>6, <2>7, <2>8, <2>9, <2>10 DEF CatalogueInv, PlacesInv
  <1> QED
    BY <1>4, <1>5

\* A clean-up deletes the fixture's places, if nothing refers to them, and leaves no
\* loose ends.
LEMMA DeleteStep ==
  ASSUME CatalogueInv, Delete
  PROVE  CatalogueInv' /\ OthersKept /\ CleanKept
  <1> DEFINE ids  == FixturePlaces
             kept == {pair \in DOMAIN links :
                        pair[1] \notin cleanup.cities /\ pair[2] \notin cleanup.stations}
  <1>1. /\ cleanup.at = "inspected" /\ cleanup # Idle /\ cleanup' = Idle
        /\ IF MayDelete(ids)
           THEN places' = Restrict(places, DOMAIN places \ ids) /\ links' = Restrict(links, kept)
           ELSE UNCHANGED <<places, links>>
        /\ imported' = IF imported.source = Fixture.source THEN NoArtifact ELSE imported
        /\ UNCHANGED <<sidecar, importing, search, commands>>
    BY DEF Delete, Idle
  <1>2. /\ RowsInv /\ ReferencesInv /\ EnrichedHubsAreValid /\ ImportInv /\ ImportedInv
        /\ cleanup.cities = FixtureCities
        /\ \A id \in cleanup.stations : id \in DOMAIN places /\ places[id].ownership = "catalog:hub"
    BY <1>1 DEF CatalogueInv, PlacesInv, CleanupInv
  <1>3. importing = Idle
    BY <1>1, <1>2 DEF ImportInv
  <1>4. ImportInv' /\ CleanupInv' /\ EnrichedHubsAreValid'
    BY <1>1, <1>2, <1>3 DEF ImportInv, CleanupInv, EnrichedHubsAreValid
  <1>5. CASE ~MayDelete(ids)
    <2>1. UNCHANGED <<places, links>>
      BY <1>1, <1>5
    <2>2. ReferencesInv'
      BY <1>1, <1>2, <2>1 DEF ReferencesInv
    <2>3. ImportedInv'
      <3>1. CASE imported' = NoArtifact
        BY <3>1 DEF ImportedInv
      <3>2. CASE imported' = imported
        BY <1>2, <2>1, <3>2, ImportedSame
      <3> QED
        BY <1>1, <3>1, <3>2
    <2> QED
      BY <1>2, <1>4, <2>1, <2>2, <2>3, RowsSame DEF CatalogueInv, PlacesInv
  <1>6. CASE MayDelete(ids)
    <2>1. /\ places' = Restrict(places, DOMAIN places \ ids) /\ links' = Restrict(links, kept)
          /\ search.refs \cap ids = {}
          /\ \A id \in DOMAIN places \ ids : places[id].parent \notin ids
          /\ \A pair \in kept : pair[1] \notin ids /\ pair[2] \notin ids
      BY <1>1, <1>6 DEF MayDelete
    <2>2. \A id \in ids : id \in DOMAIN places /\
            places[id].ownership \in {"fixture:offline-europe-v1", "catalog:hub"}
      BY <1>2 DEF FixturePlaces, FixtureCities
    <2>3. /\ DOMAIN links' = kept /\ \A pair \in kept : links'[pair] = links[pair]
          /\ kept \subseteq DOMAIN links
      BY <2>1 DEF Restrict
    <2>4. cleanup.cities \subseteq ids /\ cleanup.stations \subseteq ids
      BY DEF FixturePlaces
    <2> HIDE DEF ids
    <2>5. /\ RowsInv'
          /\ DOMAIN places' = DOMAIN places \ ids
          /\ \A id \in DOMAIN places' : places'[id] = places[id]
      BY <1>2, <2>1, RowsDelete
    <2>6. ReferencesInv'
      <3>1. DOMAIN links' \subseteq (DOMAIN places') \X (DOMAIN places')
        <4> SUFFICES ASSUME NEW pair \in kept
                     PROVE  pair \in (DOMAIN places') \X (DOMAIN places')
          BY <2>3
        <4>1. pair \in (DOMAIN places) \X (DOMAIN places)
          BY <1>2, <2>3 DEF ReferencesInv
        <4> QED
          BY <2>1, <2>5, <4>1
      <3>2. search.refs \subseteq DOMAIN places'
        BY <1>2, <2>1, <2>5 DEF ReferencesInv
      <3>3. \A pair \in DOMAIN links' :
              links'[pair] = [source |-> links'[pair].source, active |-> links'[pair].active]
                /\ links'[pair].active \in BOOLEAN
        BY <1>2, <2>3 DEF ReferencesInv
      <3> QED
        BY <1>1, <1>2, <3>1, <3>2, <3>3 DEF ReferencesInv
    <2>7. OthersKept
      BY <2>1, <2>2, <2>5 DEF OthersKept, IsManual
    <2>8. CleanKept
      <3>1. FixtureCities' = {}
        BY <1>2, <2>4, <2>5 DEF FixtureCities
      <3>2. \A id \in DOMAIN places' : places'[id].parent \in {NoPlace} \cup DOMAIN places'
        BY <2>5 DEF RowsInv
      <3>3. ASSUME NEW id \in DOMAIN places'
            PROVE  HasKey(places[id].key)' = {id}
        BY <2>5 DEF RowsInv, OneRowPerKey, HasKey
      <3> QED
        BY <3>1, <3>2, <3>3 DEF CleanKept, StateIsClean
    <2>9. ImportedInv'
      <3>1. CASE imported' = NoArtifact
        BY <3>1 DEF ImportedInv
      <3>2. CASE imported' = imported /\ imported # NoArtifact /\ imported.source # Fixture.source
        <4>1. /\ IsArtifact(imported) /\ CompletedImportHolds /\ ImportedRows
              /\ imported.ownership = "catalog:geonames"
              /\ \A h \in imported.hubs : h.ownership = "catalog:transitous" /\ h.key[1] = "motis"
          BY <1>2, <3>2, ImportedRowsThere DEF ImportedInv, IsArtifact, KeyFamily
        <4>2. \A id \in DOMAIN places : places[id].key[1] = "geonames" => id \notin ids
          <5> SUFFICES ASSUME NEW id \in DOMAIN places, places[id].key[1] = "geonames", id \in ids
                       PROVE  FALSE
            OBVIOUS
          <5>1. /\ RowFits(id, places[id])
                /\ places[id].ownership \in {"fixture:offline-europe-v1", "catalog:hub"}
            BY <1>2, <2>2 DEF RowsInv
          <5> QED
            BY <5>1 DEF RowFits, KeyFamily
        <4>3. \A id \in DOMAIN places : places[id].key[1] = "motis" => id \notin ids
          <5> SUFFICES ASSUME NEW id \in DOMAIN places, places[id].key[1] = "motis", id \in ids
                       PROVE  FALSE
            OBVIOUS
          <5>1. /\ RowFits(id, places[id])
                /\ places[id].ownership \in {"fixture:offline-europe-v1", "catalog:hub"}
            BY <1>2, <2>2 DEF RowsInv
          <5> QED
            BY <5>1 DEF RowFits, KeyFamily
        <4>4. \A name : CityKey(imported.ownership, name)[1] = "geonames"
          BY <4>1 DEF CityKey
        <4>5. ASSUME NEW c \in imported.cities
              PROVE  LET id == IdOfCity(imported, c.name) IN
                     id \in DOMAIN places' /\ places'[id] = places[id]
          <5>1. /\ IdOfCity(imported, c.name) \in DOMAIN places
                /\ places[IdOfCity(imported, c.name)].key = CityKey(imported.ownership, c.name)
            BY <3>2, <4>1 DEF ImportedRows, IsActiveRow
          <5> QED
            BY <2>5, <4>2, <4>4, <5>1
        <4>6. ASSUME NEW h \in imported.hubs
              PROVE  IdOfHub(h) \in DOMAIN places' /\ places'[IdOfHub(h)] = places[IdOfHub(h)]
          <5>1. IdOfHub(h) \in DOMAIN places /\ places[IdOfHub(h)].key = h.key
            BY <3>2, <4>1 DEF ImportedRows, IsActiveRow
          <5> QED
            BY <2>5, <4>1, <4>3, <5>1
        <4>7. ASSUME NEW h \in imported.hubs, NEW pair, pair[1] = IdOfCity(imported, h.city)
              PROVE  pair \in DOMAIN links' /\ links'[pair].active <=>
                       pair \in DOMAIN links /\ links[pair].active
          <5>1. pair[1] \notin ids
            <6>1. /\ IdOfCity(imported, h.city) \in DOMAIN places
                  /\ places[IdOfCity(imported, h.city)].key = CityKey(imported.ownership, h.city)
              BY <3>2, <4>1 DEF ImportedRows, IsActiveRow
            <6> QED
              BY <4>2, <4>4, <4>7, <6>1
          <5>2. ASSUME pair \in DOMAIN links, links[pair].active
                PROVE  pair[2] \notin ids
            <6>1. pair[2] \in {p[2] : p \in {q \in DOMAIN links :
                     q[1] = IdOfCity(imported, h.city) /\ links[q].active}}
              BY <4>7, <5>2
            <6>2. pair[2] = IdOfHub(h)
              BY <3>2, <4>1, <6>1 DEF CompletedImportHolds
            <6> QED
              BY <2>5, <4>6, <6>2
          <5>3. pair \in DOMAIN links /\ links[pair].active => pair \in kept
            BY <2>4, <5>1, <5>2
          <5> HIDE DEF kept
          <5> QED
            BY <2>3, <5>3
        <4>8. \A id \in DOMAIN places' : id \in DOMAIN places /\ places'[id] = places[id]
          BY <2>5
        <4> QED
          BY <1>2, <2>5, <3>2, <4>5, <4>6, <4>7, <4>8, ImportedStays
      <3> QED
        BY <1>1, <3>1, <3>2
    <2> QED
      BY <1>4, <2>5, <2>6, <2>7, <2>8, <2>9 DEF CatalogueInv, PlacesInv
  <1> QED
    BY <1>5, <1>6

-----------------------------------------------------------------------------
(* Imports.                                                                 *)

\* The row of a city of an artifact fits, and so does that of a hub.
LEMMA CityRowFits ==
  ASSUME NEW artifact, IsArtifact(artifact), NEW c
  PROVE  LET row == CityRow(artifact, c) IN
         /\ row.key = CityKey(artifact.ownership, c.name) /\ row.kind = "city"
         /\ row.parent = NoPlace /\ row.active = TRUE /\ row.ownership = artifact.ownership
         /\ RowFits(CityId(row.key), row)
  <1> DEFINE row == CityRow(artifact, c)
  <1>1. /\ row = [kind |-> "city", key |-> CityKey(artifact.ownership, c.name),
                  ownership |-> artifact.ownership, details |-> c.population,
                  parent |-> NoPlace, version |-> artifact.version, active |-> TRUE]
        /\ artifact.ownership \in CityOwnerships
    BY DEF CityRow, IsArtifact
  <1> HIDE DEF row
  <1>2. /\ row.key = CityKey(artifact.ownership, c.name) /\ row.kind = "city"
        /\ row.parent = NoPlace /\ row.active = TRUE /\ row.ownership = artifact.ownership
        /\ row.details = c.population
    BY <1>1
  <1>3. IsRow(row)
    BY <1>1, <1>2 DEF IsRow
  <1>4. /\ row.key[1] = KeyFamily(artifact.ownership)
        /\ KeyFamily(artifact.ownership) \in CityFamilies
        /\ row.ownership # "manual"
    <2>1. row.key = <<KeyFamily(artifact.ownership), c.name>>
      BY <1>1, <1>2, Families
    <2>2. row.key[1] = KeyFamily(artifact.ownership)
      BY <2>1
    <2> QED
      BY <1>1, <1>2, <2>2, Families
  <1>5. CityId(row.key) # PickedId(row.key)
    BY IdsAreApart
  <1>6. RowFits(CityId(row.key), row)
    BY <1>1, <1>2, <1>3, <1>4, <1>5 DEF RowFits
  <1> QED
    BY <1>2, <1>6 DEF row

\* A hub has its city for a parent.
LEMMA HubRowFits ==
  ASSUME IsArtifact(importing.artifact), NEW h \in importing.artifact.hubs
  PROVE  LET row == HubRowOf(h) IN
         /\ row.key = h.key /\ row.kind = "station" /\ row.parent = CityOf(h.city)
         /\ row.active = TRUE /\ row.ownership = h.ownership
         /\ RowFits(HubId(row.key), row)
  <1> DEFINE row == HubRowOf(h)
  <1>1. /\ row = [kind |-> "station", key |-> h.key, ownership |-> h.ownership, details |-> 0,
                  parent |-> CityOf(h.city), version |-> NoVersion, active |-> TRUE]
        /\ h.ownership \in HubOwnerships /\ h.key[1] = KeyFamily(h.ownership)
    BY DEF HubRowOf, IsArtifact
  <1> HIDE DEF row
  <1>2. /\ row.key = h.key /\ row.kind = "station" /\ row.parent = CityOf(h.city)
        /\ row.active = TRUE /\ row.ownership = h.ownership /\ row.details = 0
    BY <1>1
  <1>3. IsRow(row)
    BY <1>1, <1>2 DEF IsRow
  <1>4. row.key[1] \notin CityFamilies /\ row.ownership # "manual"
    BY <1>1, <1>2, Families
  <1>5. HubId(row.key) # PickedId(row.key)
    BY IdsAreApart
  <1>6. RowFits(HubId(row.key), row)
    BY <1>1, <1>2, <1>3, <1>4, <1>5 DEF RowFits
  <1> QED
    BY <1>2, <1>6 DEF row

\* A row that an import does not plan to write is an operator's, or is as the
\* artifact has it: either way it is there and active.
LEMMA UnplannedIsActive ==
  ASSUME RowsInv, NEW id, NEW row, id \in DOMAIN places => places[id].key = row.key,
         IsManual(id) \/ IsUnchanged(id, row)
  PROVE  IsActiveRow(id, row.key)
  <1>1. id \in DOMAIN places
    BY DEF IsManual, IsUnchanged
  <1>2. places[id].active
    BY <1>1 DEF RowsInv, RowFits, IsManual, IsUnchanged
  <1> QED
    BY <1>1, <1>2 DEF IsActiveRow

\* An import begins with its plan.
LEMMA StartStep ==
  ASSUME CatalogueInv, NEW artifact \in Artifacts, Start(artifact)
  PROVE  CatalogueInv' /\ OthersKept /\ CleanKept
  <1>1. /\ importing = Idle /\ cleanup = Idle /\ commands < MaxCommands /\ commands' = commands + 1
        /\ importing' = [at |-> "writing", artifact |-> artifact, plan |-> Plan(artifact)]
        /\ imported' = NoArtifact
        /\ UNCHANGED <<places, links, sidecar, cleanup, search>>
    BY DEF Start, Run
  <1>2. RowsInv /\ ReferencesInv /\ EnrichedHubsAreValid /\ CleanupInv /\ IsArtifact(artifact)
    BY ArtifactsAreSound DEF CatalogueInv, PlacesInv
  <1>3. ReferencesInv' /\ EnrichedHubsAreValid' /\ ImportedInv'
    BY <1>1, <1>2, CatalogueAssumption DEF ReferencesInv, EnrichedHubsAreValid, ImportedInv
  <1> DEFINE plan == Plan(artifact)
             cities == {[id |-> IdOfCity(artifact, c.name), row |-> CityRow(artifact, c)] :
                          c \in artifact.cities}
             hubs == {[id |-> IdOfHub(h), row |-> HubRow(artifact, h)] : h \in artifact.hubs}
             Writes(rows) == {w \in rows : ~IsManual(w.id) /\ ~IsUnchanged(w.id, w.row)}
  <1>4. plan = [cities  |-> Writes(cities),
                hubs    |-> Writes(hubs),
                unlinks |-> {IdOfCity(artifact, h.city) : h \in artifact.hubs},
                links   |-> {<<IdOfCity(artifact, h.city), IdOfHub(h)>> : h \in artifact.hubs},
                cityIds |-> {w.id : w \in cities},
                hubIds  |-> {w.id : w \in hubs}]
    BY DEF Plan
  <1> HIDE DEF plan, cities, hubs, Writes
  <1>5. /\ plan.cities = Writes(cities) /\ plan.hubs = Writes(hubs)
        /\ plan.unlinks = {IdOfCity(artifact, h.city) : h \in artifact.hubs}
        /\ plan.links = {<<IdOfCity(artifact, h.city), IdOfHub(h)>> : h \in artifact.hubs}
        /\ plan.cityIds = {w.id : w \in cities} /\ plan.hubIds = {w.id : w \in hubs}
        /\ plan = [f \in PlanFields |-> plan[f]]
    BY <1>4 DEF PlanFields
  <1>6. /\ importing'.at = "writing" /\ importing'.artifact = artifact /\ importing'.plan = plan
        /\ \A f : Plans(f)' = plan[f]
    BY <1>1 DEF plan, Plans
  <1>7. \A name : /\ IdOfCity(artifact, name) = CityId(CityKey(artifact.ownership, name))
                  /\ CityOf(name)' = IdOfCity(artifact, name)
    BY <1>2, <1>6, CityIdsFixed DEF IdOfCity, CityOf, IsArtifact
  <1>8. \A h : HubRowOf(h)' = HubRow(artifact, h)
    BY <1>7 DEF HubRowOf, HubRow
  <1>9. \A id, key : IsActiveRow(id, key) => IsActiveRow(id, key)'
    BY <1>1 DEF IsActiveRow
  <1>10. ASSUME NEW c \in artifact.cities
         PROVE  CityIsPlanned(c)'
    <2> DEFINE id == IdOfCity(artifact, c.name)
               row == CityRow(artifact, c)
               w == [id |-> id, row |-> row]
    <2>1. w \in cities
      BY DEF cities
    <2>2. row.key = CityKey(artifact.ownership, c.name) /\ id = CityId(row.key)
      BY <1>2, <1>7, CityRowFits
    <2>3. id \in DOMAIN places => places[id].key = row.key
      BY <1>2, <2>2, IdsAreApart DEF RowsInv, RowFits
    <2>4. w.id = id /\ w.row = row
      OBVIOUS
    <2> HIDE DEF id, row, w
    <2>5. w \in plan.cities \/ IsActiveRow(id, row.key)
      BY <1>2, <1>5, <2>1, <2>3, <2>4, UnplannedIsActive DEF Writes
    <2>6. w = [id |-> CityOf(c.name)', row |-> CityRow(importing'.artifact, c)]
      BY <1>6, <1>7 DEF w, id, row
    <2>7. CityKey(importing'.artifact.ownership, c.name) = row.key /\ CityOf(c.name)' = id
      BY <1>6, <1>7, <2>2 DEF id
    <2> QED
      BY <1>6, <1>9, <2>5, <2>6, <2>7 DEF CityIsPlanned
  <1>11. ASSUME NEW h \in artifact.hubs, NEW id, id = IdOfHub(h)
         PROVE  /\ id \in plan.hubIds /\ IsHubOf(id, h)'
                /\ ~IsManual(id) => id = HubId(h.key)
    <2>9. PICK row : row = HubRow(artifact, h)
      OBVIOUS
    <2> DEFINE w == [id |-> id, row |-> row]
    <2>1. w \in hubs /\ w.id = id /\ w.row = row
      BY <1>11, <2>9 DEF hubs
    <2>2. row.key = h.key
      BY <2>9 DEF HubRow
    <2>3. \/ id \in DOMAIN places /\ places[id].key = h.key
          \/ id \notin DOMAIN places /\ id = HubId(h.key)
      <3>1. CASE HasKey(h.key) = {}
        BY <1>2, <1>11, <3>1, IdsFound DEF IdsAreFound, IdOfHub
      <3>2. CASE HasKey(h.key) # {}
        <4>1. PICK r \in DOMAIN places : places[r].key = h.key
          BY <3>2 DEF HasKey
        <4>2. id = r
          BY <1>2, <1>11, <4>1, IdsFound DEF IdsAreFound, IdOfHub
        <4> QED
          BY <4>1, <4>2
      <3> QED
        BY <3>1, <3>2
    <2>4. ~IsManual(id) => id = HubId(h.key)
      <3> SUFFICES ASSUME id \in DOMAIN places, places[id].ownership # "manual"
                   PROVE  id = HubId(h.key)
        BY <2>3 DEF IsManual
      <3>1. RowFits(id, places[id]) /\ places[id].key = h.key
        BY <1>2, <2>3 DEF RowsInv
      <3>2. h.key[1] \notin CityFamilies
        BY <1>2, Families DEF IsArtifact
      <3> QED
        BY <3>1, <3>2 DEF RowFits
    <2>5. id \in plan.hubIds
      BY <1>5, <2>1
    <2> HIDE DEF w
    <2>6. w \in plan.hubs \/ IsActiveRow(id, row.key)
      BY <1>2, <1>5, <2>1, <2>2, <2>3, UnplannedIsActive DEF Writes
    <2>7. w = [id |-> id, row |-> HubRowOf(h)']
      BY <1>8, <2>9 DEF w
    <2>8. IsHubOf(id, h)'
      BY <1>6, <1>9, <2>2, <2>6, <2>7 DEF IsHubOf
    <2> QED
      BY <1>11, <2>4, <2>5, <2>8
  <1>12. ASSUME NEW w \in plan.cities
         PROVE  /\ WriteIsSafe(w)'
                /\ \E c \in artifact.cities : w = [id |-> CityOf(c.name)', row |-> CityRow(artifact, c)]
    <2>1. w \in cities /\ ~IsManual(w.id)
      BY <1>5 DEF Writes
    <2>2. WriteIsSafe(w)'
      BY <1>1, <2>1 DEF WriteIsSafe, IsManual
    <2> QED
      BY <1>7, <2>1, <2>2 DEF cities
  <1>13. ASSUME NEW w \in plan.hubs
         PROVE  /\ WriteIsSafe(w)'
                /\ \E h \in artifact.hubs : w = [id |-> HubId(h.key), row |-> HubRowOf(h)']
    <2>1. w \in hubs /\ ~IsManual(w.id)
      BY <1>5 DEF Writes
    <2>2. WriteIsSafe(w)'
      BY <1>1, <2>1 DEF WriteIsSafe, IsManual
    <2>3. PICK h \in artifact.hubs : w = [id |-> IdOfHub(h), row |-> HubRow(artifact, h)]
      BY <2>1 DEF hubs
    <2>4. w.id = HubId(h.key)
      BY <1>11, <2>1, <2>3
    <2>5. w = [id |-> HubId(h.key), row |-> HubRowOf(h)']
      BY <1>8, <2>3, <2>4
    <2> QED
      BY <2>2, <2>5
  <1>14. plan.cityIds = {CityOf(c.name)' : c \in artifact.cities}
    <2>1. \A w \in cities : \E c \in artifact.cities : w.id = CityOf(c.name)'
      BY <1>7 DEF cities
    <2>2. \A c \in artifact.cities : \E w \in cities : w.id = CityOf(c.name)'
      <3> SUFFICES ASSUME NEW c \in artifact.cities
                   PROVE  \E w \in cities : w.id = CityOf(c.name)'
        OBVIOUS
      <3> DEFINE w == [id |-> IdOfCity(artifact, c.name), row |-> CityRow(artifact, c)]
      <3>1. w \in cities /\ w.id = IdOfCity(artifact, c.name)
        BY DEF cities
      <3> HIDE DEF w
      <3> QED
        BY <1>7, <3>1
    <2> QED
      BY <1>5, <2>1, <2>2
  <1>15. ASSUME NEW h \in artifact.hubs
         PROVE  HubIsPlanned(h)'
    <2>0. PICK id : id = IdOfHub(h)
      OBVIOUS
    <2>1. id \in plan.hubIds /\ IsHubOf(id, h)'
      BY <1>11, <2>0
    <2>2. <<CityOf(h.city)', id>> \in plan.links
      BY <1>5, <1>7, <2>0
    <2> QED
      BY <1>6, <2>1, <2>2 DEF HubIsPlanned
  <1>16. ASSUME NEW id \in plan.hubIds
         PROVE  \E h \in artifact.hubs : IsHubOf(id, h)'
    <2>1. PICK h \in artifact.hubs : id = IdOfHub(h)
      BY <1>5 DEF hubs
    <2> QED
      BY <1>11, <2>1
  <1>17. ASSUME NEW pair \in plan.links
         PROVE  IsAssociation(pair)'
    <2>1. PICK h \in artifact.hubs : pair = <<IdOfCity(artifact, h.city), IdOfHub(h)>>
      BY <1>5
    <2>0. PICK id : id = IdOfHub(h)
      OBVIOUS
    <2>2. IsHubOf(id, h)'
      BY <1>11, <2>0
    <2>3. pair[2] = id /\ pair = <<CityOf(h.city)', pair[2]>>
      BY <1>7, <2>0, <2>1
    <2> QED
      BY <1>6, <2>2, <2>3 DEF IsAssociation
  <1>18. \A h \in artifact.hubs : CityOf(h.city)' \in plan.unlinks
    BY <1>5, <1>7
  <1>19. PlanHolds'
    BY <1>6, <1>10, <1>12, <1>13, <1>14, <1>15, <1>16, <1>17, <1>18 DEF PlanHolds
  <1>20. RetiredHolds'
    BY <1>6 DEF RetiredHolds
  <1>21. ImportInv'
    <2>1. importing' = [at |-> importing'.at, artifact |-> importing'.artifact,
                        plan |-> importing'.plan]
      BY <1>1
    <2> QED
      BY <1>1, <1>2, <1>5, <1>6, <1>19, <1>20, <2>1 DEF ImportInv, ImportPhases
  <1> QED
    BY <1>1, <1>2, <1>3, <1>21, RowsSame, CleanupSame DEF CatalogueInv, PlacesInv

\* One thing that was planned is done.
LEMMA DoneFields ==
  ASSUME ImportInv, importing.at = "writing", NEW field \in PlanFields, NEW x, Done(field, x)
  PROVE  /\ importing # Idle /\ importing' # Idle
         /\ importing'.at = "writing" /\ importing'.artifact = importing.artifact
         /\ importing' = [at |-> importing'.at, artifact |-> importing'.artifact,
                          plan |-> importing'.plan]
         /\ importing'.plan = [f \in PlanFields |-> importing'.plan[f]]
         /\ Plans(field)' = Plans(field) \ {x}
         /\ \A f \in PlanFields : f # field => Plans(f)' = Plans(f)
  <1>1. importing # Idle
    BY DEF Idle
  <1>2. /\ importing = [at |-> importing.at, artifact |-> importing.artifact, plan |-> importing.plan]
        /\ importing.plan = [f \in PlanFields |-> importing.plan[f]]
    BY <1>1 DEF ImportInv
  <1> DEFINE artifact == importing.artifact
             plan == importing.plan
             next == [f \in PlanFields |-> IF f = field THEN plan[f] \ {x} ELSE plan[f]]
  <1>3. importing' = [importing EXCEPT !.plan = [plan EXCEPT ![field] = @ \ {x}]]
    BY <1>2 DEF Done
  <1>4. [plan EXCEPT ![field] = @ \ {x}] = next
    <2> HIDE DEF plan
    <2>1. plan = [f \in PlanFields |-> plan[f]]
      BY <1>2 DEF plan
    <2> QED
      BY <2>1
  <1>5. importing' = [at |-> "writing", artifact |-> artifact, plan |-> next]
    <2> HIDE DEF next, artifact, plan
    <2>1. importing = [at |-> "writing", artifact |-> artifact, plan |-> plan]
      BY <1>2 DEF artifact, plan
    <2> QED
      BY <1>3, <1>4, <2>1
  <1>6. /\ importing'.at = "writing" /\ importing'.artifact = artifact /\ importing'.plan = next
    <2> HIDE DEF next, artifact, plan
    <2> QED
      BY <1>5
  <1>7. importing' # Idle
    BY <1>6 DEF Idle
  <1>8. /\ next[field] = plan[field] \ {x}
        /\ \A f \in PlanFields : f # field => next[f] = plan[f]
        /\ next = [f \in PlanFields |-> next[f]]
    <2> HIDE DEF plan
    <2> QED
      OBVIOUS
  <1> HIDE DEF next
  <1> QED
    BY <1>1, <1>5, <1>6, <1>7, <1>8 DEF Plans

\* What a row that is written changes: the row of a city or a hub of the artifact,
\* which was nobody else's.
LEMMA RowWritten ==
  ASSUME CatalogueInv, importing.at = "writing", NEW field \in {"cities", "hubs"},
         NEW w, w \in Plans(field), WriteRow(field, w),
         RowFits(w.id, w.row), w.row.parent \in {NoPlace} \cup DOMAIN places,
         w.row.active = TRUE, w.row.ownership # "manual",
         UNCHANGED <<sidecar, imported, cleanup, search, commands>>
  PROVE  CatalogueInv' /\ OthersKept /\ CleanKept
  <1>1. importing # Idle
    BY DEF Idle
  <1>2. /\ RowsInv /\ ReferencesInv /\ EnrichedHubsAreValid /\ ImportInv
        /\ PlanHolds /\ IsArtifact(importing.artifact)
        /\ imported = NoArtifact /\ cleanup = Idle
    BY <1>1 DEF CatalogueInv, PlacesInv, ImportInv
  <1>3. CleanKept /\ CleanupInv' /\ ImportedInv' /\ EnrichedHubsAreValid'
    BY <1>2 DEF CleanKept, CleanupInv, ImportedInv, EnrichedHubsAreValid
  <1>4. links' = links
    BY DEF WriteRow
  <1>5. CASE ~(HasKey(w.row.key) \subseteq {w.id})
    <2>1. importing' = Idle /\ places' = places
      BY <1>5 DEF WriteRow
    <2>2. ImportInv' /\ ReferencesInv'
      BY <1>2, <1>4, <2>1 DEF ImportInv, ReferencesInv
    <2> QED
      BY <1>2, <1>3, <2>1, <2>2, RowsSame DEF CatalogueInv, PlacesInv
  <1>6. CASE HasKey(w.row.key) \subseteq {w.id}
    <2>1. /\ places' = [id \in DOMAIN places \cup {w.id} |-> IF id = w.id THEN w.row ELSE places[id]]
          /\ Done(field, w)
      BY <1>6 DEF WriteRow
    <2>2. PICK id, row : id = w.id /\ row = w.row
      OBVIOUS
    <2>3. /\ RowsInv'
          /\ DOMAIN places' = DOMAIN places \cup {id} /\ places'[id] = row
          /\ \A i \in DOMAIN places : i # id => places'[i] = places[i]
          /\ id \in DOMAIN places => places[id].key = row.key /\ places[id].kind = row.kind
      <3>1. /\ RowFits(id, row) /\ row.parent \in {NoPlace} \cup DOMAIN places
            /\ HasKey(row.key) \subseteq {id}
            /\ places' = [i \in DOMAIN places \cup {id} |-> IF i = id THEN row ELSE places[i]]
        BY <1>6, <2>1, <2>2
      <3> QED
        BY <1>2, <3>1, RowPut
    <2>4. /\ importing' # Idle
          /\ importing'.at = "writing" /\ importing'.artifact = importing.artifact
          /\ importing' = [at |-> importing'.at, artifact |-> importing'.artifact,
                           plan |-> importing'.plan]
          /\ importing'.plan = [f \in PlanFields |-> importing'.plan[f]]
          /\ Plans(field)' = Plans(field) \ {w}
          /\ \A f \in PlanFields : f # field => Plans(f)' = Plans(f)
      BY <1>2, <2>1, DoneFields DEF PlanFields
    <2>5. row.active = TRUE /\ row.ownership # "manual"
      BY <2>2
    <2>6. WriteIsSafe(w)
      BY <1>2 DEF PlanHolds
    <2>7. OthersKept
      BY <2>2, <2>3, <2>6 DEF OthersKept, IsManual, WriteIsSafe
    <2>8. ReferencesInv'
      BY <1>2, <1>4, <2>3 DEF ReferencesInv
    <2>9. \A i, key : IsActiveRow(i, key) => IsActiveRow(i, key)'
      BY <2>3, <2>5 DEF IsActiveRow
    <2>10. \A v \in Plans("cities")' \cup Plans("hubs")' : WriteIsSafe(v)'
      <3> SUFFICES ASSUME NEW v \in Plans("cities")' \cup Plans("hubs")' PROVE WriteIsSafe(v)'
        OBVIOUS
      <3>1. v \in Plans("cities") \cup Plans("hubs")
        BY <2>4 DEF PlanFields
      <3>2. WriteIsSafe(v)
        BY <1>2, <3>1 DEF PlanHolds
      <3> QED
        BY <2>3, <2>5, <3>2 DEF WriteIsSafe
    <2>11. \A name : CityOf(name)' = CityOf(name)
      BY <2>4 DEF CityOf
    <2>12. \A h : HubRowOf(h)' = HubRowOf(h)
      BY <2>11 DEF HubRowOf
    <2>13. IsActiveRow(id, row.key)'
      BY <2>3, <2>5 DEF IsActiveRow
    <2>14. ASSUME NEW c \in importing.artifact.cities
           PROVE  CityIsPlanned(c)'
      <3>1. PICK cid, key : cid = CityOf(c.name) /\ key = CityKey(importing.artifact.ownership, c.name)
        OBVIOUS
      <3>2. PICK planned : planned = [id |-> cid, row |-> CityRow(importing.artifact, c)]
        OBVIOUS
      <3>3. planned \in Plans("cities") \/ IsActiveRow(cid, key)
        BY <1>2, <3>1, <3>2 DEF PlanHolds, CityIsPlanned
      <3>4. ASSUME planned = w PROVE IsActiveRow(cid, key)'
        <4>1. id = cid /\ row = CityRow(importing.artifact, c)
          BY <2>2, <3>2, <3>4
        <4>2. row.key = key
          BY <3>1, <4>1 DEF CityRow
        <4> QED
          BY <2>13, <4>1, <4>2
      <3>5. planned \in Plans("cities")' \/ IsActiveRow(cid, key)'
        <4>1. CASE IsActiveRow(cid, key)
          BY <2>9, <4>1
        <4>2. CASE planned \in Plans("cities")
          <5>1. planned \in Plans("cities")' \/ planned = w
            BY <2>4, <4>2 DEF PlanFields
          <5> QED
            BY <3>4, <5>1
        <4> QED
          BY <3>3, <4>1, <4>2
      <3> QED
        BY <2>4, <2>11, <3>1, <3>2, <3>5 DEF CityIsPlanned
    <2>15. ASSUME NEW h \in importing.artifact.hubs, NEW i, IsHubOf(i, h)
           PROVE  IsHubOf(i, h)'
      <3> DEFINE planned == [id |-> i, row |-> HubRowOf(h)]
      <3>1. planned \in Plans("hubs") \/ IsActiveRow(i, h.key)
        BY <2>15 DEF IsHubOf
      <3>2. planned = w => IsActiveRow(i, h.key)'
        <4> SUFFICES ASSUME planned = w PROVE IsActiveRow(i, h.key)'
          OBVIOUS
        <4>1. id = i /\ row = HubRowOf(h)
          BY <2>2
        <4>2. row.key = h.key
          BY <4>1 DEF HubRowOf
        <4> QED
          BY <2>13, <4>1, <4>2
      <3>3. planned \in Plans("hubs")' \/ IsActiveRow(i, h.key)'
        <4> HIDE DEF planned
        <4>1. CASE IsActiveRow(i, h.key)
          BY <2>9, <4>1
        <4>2. CASE planned \in Plans("hubs")
          <5>1. planned \in Plans("hubs")' \/ planned = w
            BY <2>4, <4>2 DEF PlanFields
          <5> QED
            BY <3>2, <5>1
        <4> QED
          BY <3>1, <4>1, <4>2
      <3> QED
        BY <2>12, <3>3 DEF IsHubOf
    <2>16. PlanHolds'
      <3>1. /\ Plans("cities")' \subseteq Plans("cities") /\ Plans("hubs")' \subseteq Plans("hubs")
            /\ \A f \in {"unlinks", "links", "cityIds", "hubIds"} : Plans(f)' = Plans(f)
        BY <2>4 DEF PlanFields
      <3> QED
        BY <1>2, <1>4, <2>4, <2>10, <2>14, <2>15, <3>1, PlanStays
    <2>17. RetiredHolds'
      BY <2>4 DEF RetiredHolds
    <2>18. ImportInv'
      BY <1>2, <2>4, <2>16, <2>17 DEF ImportInv, ImportPhases
    <2> QED
      BY <1>3, <2>3, <2>7, <2>8, <2>18 DEF CatalogueInv, PlacesInv
  <1> QED
    BY <1>5, <1>6

\* The rows of the cities are written first, then those of the hubs, each below a
\* city that is there.
LEMMA WriteRowSteps ==
  ASSUME CatalogueInv, importing.at = "writing",
         \/ Plans("cities") # {} /\ WriteRow("cities", NextOf("cities"))
         \/ Written({"cities"}) /\ Plans("hubs") # {} /\ WriteRow("hubs", NextOf("hubs")),
         UNCHANGED <<sidecar, imported, cleanup, search, commands>>
  PROVE  CatalogueInv' /\ OthersKept /\ CleanKept
  <1>1. importing # Idle
    BY DEF Idle
  <1>2. PlanHolds /\ IsArtifact(importing.artifact)
    BY <1>1 DEF CatalogueInv, ImportInv
  <1>3. CASE Plans("cities") # {} /\ WriteRow("cities", NextOf("cities"))
    <2>1. PICK w \in Plans("cities") : WriteRow("cities", w)
      BY <1>3 DEF NextOf
    <2>2. PICK c \in importing.artifact.cities :
            w = [id |-> CityOf(c.name), row |-> CityRow(importing.artifact, c)]
      BY <1>2 DEF PlanHolds
    <2>3. PICK row : row = CityRow(importing.artifact, c)
      OBVIOUS
    <2>4. /\ row.key = CityKey(importing.artifact.ownership, c.name)
          /\ row.parent = NoPlace /\ row.active = TRUE /\ row.ownership = importing.artifact.ownership
          /\ RowFits(CityId(row.key), row)
      BY <1>2, <2>3, CityRowFits
    <2>5. w.id = CityId(row.key) /\ w.row = row
      BY <2>2, <2>3, <2>4 DEF CityOf
    <2>6. row.ownership # "manual"
      BY <1>2, <2>4, Families DEF IsArtifact
    <2> QED
      BY <2>1, <2>4, <2>5, <2>6, RowWritten
  <1>4. CASE Written({"cities"}) /\ Plans("hubs") # {} /\ WriteRow("hubs", NextOf("hubs"))
    <2>1. PICK w \in Plans("hubs") : WriteRow("hubs", w)
      BY <1>4 DEF NextOf
    <2>2. PICK h \in importing.artifact.hubs : w = [id |-> HubId(h.key), row |-> HubRowOf(h)]
      BY <1>2 DEF PlanHolds
    <2>3. PICK row : row = HubRowOf(h)
      OBVIOUS
    <2>4. /\ row.key = h.key /\ row.parent = CityOf(h.city) /\ row.active = TRUE
          /\ row.ownership = h.ownership
          /\ RowFits(HubId(row.key), row)
      BY <1>2, <2>3, HubRowFits
    <2>5. w.id = HubId(row.key) /\ w.row = row
      BY <2>2, <2>3, <2>4
    <2>6. row.ownership # "manual"
      BY <1>2, <2>4, Families DEF IsArtifact
    <2>7. row.parent \in DOMAIN places
      <3>1. PICK c \in importing.artifact.cities : c.name = h.city
        BY <1>2 DEF IsArtifact
      <3>2. CityIsPlanned(c) /\ Plans("cities") = {}
        BY <1>2, <1>4 DEF PlanHolds, Written
      <3> QED
        BY <2>4, <3>1, <3>2 DEF CityIsPlanned, IsActiveRow
    <2> QED
      BY <2>1, <2>4, <2>5, <2>6, <2>7, RowWritten
  <1> QED
    BY <1>3, <1>4

\* The associations of an import's plan are written: the rows rest.
LEMMA LinksMove ==
  ASSUME CatalogueInv, importing.at = "writing", NEW field \in {"unlinks", "links"},
         NEW x, Done(field, x),
         UNCHANGED <<places, sidecar, imported, cleanup, search, commands>>,
         ReferencesInv',
         \A h \in importing.artifact.hubs : HubIsPlanned(h)',
         \A h \in importing.artifact.hubs : CityOf(h.city) \notin Plans("unlinks")' =>
           \A pair \in DOMAIN links' :
             pair[1] = CityOf(h.city) /\ links'[pair].active => IsAssociation(pair)
  PROVE  CatalogueInv' /\ OthersKept /\ CleanKept
  <1>1. importing # Idle
    BY DEF Idle
  <1>2. /\ RowsInv /\ ReferencesInv /\ EnrichedHubsAreValid /\ ImportInv
        /\ PlanHolds /\ IsArtifact(importing.artifact)
        /\ imported = NoArtifact /\ cleanup = Idle
    BY <1>1 DEF CatalogueInv, PlacesInv, ImportInv
  <1>3. /\ importing' # Idle
        /\ importing'.at = "writing" /\ importing'.artifact = importing.artifact
        /\ importing' = [at |-> importing'.at, artifact |-> importing'.artifact,
                         plan |-> importing'.plan]
        /\ importing'.plan = [f \in PlanFields |-> importing'.plan[f]]
        /\ Plans(field)' = Plans(field) \ {x}
        /\ \A f \in PlanFields : f # field => Plans(f)' = Plans(f)
    BY <1>2, DoneFields DEF PlanFields
  <1>4. /\ \A name : CityOf(name)' = CityOf(name)
        /\ \A id, key : IsActiveRow(id, key)' <=> IsActiveRow(id, key)
        /\ \A w : WriteIsSafe(w)' <=> WriteIsSafe(w)
        /\ Plans("cities")' = Plans("cities") /\ Plans("hubs")' = Plans("hubs")
        /\ Plans("cityIds")' = Plans("cityIds") /\ Plans("hubIds")' = Plans("hubIds")
        /\ Plans("links")' \subseteq Plans("links")
    BY <1>3 DEF CityOf, IsActiveRow, WriteIsSafe, PlanFields
  <1>5. \A h : HubRowOf(h)' = HubRowOf(h)
    BY <1>4 DEF HubRowOf
  <1>6. \A id, h : IsHubOf(id, h)' <=> IsHubOf(id, h)
    BY <1>4, <1>5 DEF IsHubOf
  <1>7. \A pair : IsAssociation(pair)' <=> IsAssociation(pair)
    BY <1>3, <1>4, <1>6 DEF IsAssociation
  <1>8. \A c : CityIsPlanned(c)' <=> CityIsPlanned(c)
    BY <1>3, <1>4 DEF CityIsPlanned
  <1>9. /\ \A w \in Plans("cities") : WriteIsSafe(w)' /\ \E c \in importing.artifact.cities :
             w = [id |-> CityOf(c.name), row |-> CityRow(importing.artifact, c)]
        /\ \A w \in Plans("hubs") : WriteIsSafe(w)' /\ \E h \in importing.artifact.hubs :
             w = [id |-> HubId(h.key), row |-> HubRowOf(h)]
        /\ Plans("cityIds") = {CityOf(c.name) : c \in importing.artifact.cities}
        /\ \A c \in importing.artifact.cities : CityIsPlanned(c)'
        /\ \A id \in Plans("hubIds") : \E h \in importing.artifact.hubs : IsHubOf(id, h)'
        /\ \A pair \in Plans("links")' : IsAssociation(pair)'
    BY <1>2, <1>4, <1>6, <1>7, <1>8 DEF PlanHolds
  <1>10. \A h \in importing.artifact.hubs : CityOf(h.city)' \notin Plans("unlinks")' =>
           \A pair \in DOMAIN links' :
             pair[1] = CityOf(h.city)' /\ links'[pair].active => IsAssociation(pair)'
    BY <1>4, <1>7
  <1>11. PlanHolds'
    BY <1>3, <1>4, <1>5, <1>9, <1>10 DEF PlanHolds
  <1>12. RetiredHolds'
    BY <1>3 DEF RetiredHolds
  <1>13. ImportInv'
    BY <1>2, <1>3, <1>11, <1>12 DEF ImportInv, ImportPhases
  <1>14. CleanupInv' /\ ImportedInv' /\ EnrichedHubsAreValid'
    BY <1>2 DEF CleanupInv, ImportedInv, EnrichedHubsAreValid
  <1> QED
    BY <1>2, <1>13, <1>14, RowsSame DEF CatalogueInv, PlacesInv

\* The older associations of a city are retired before it is given its hub.
LEMMA UnlinkStep ==
  ASSUME CatalogueInv, importing.at = "writing", NEW city \in Plans("unlinks"), Unlink(city),
         UNCHANGED <<sidecar, imported, cleanup, search, commands>>
  PROVE  CatalogueInv' /\ OthersKept /\ CleanKept
  <1>1. importing # Idle
    BY DEF Idle
  <1>2. ReferencesInv /\ ImportInv /\ PlanHolds
    BY <1>1 DEF CatalogueInv, PlacesInv, ImportInv
  <1>3. /\ links' = [pair \in DOMAIN links |->
                       IF pair[1] = city THEN [links[pair] EXCEPT !.active = FALSE] ELSE links[pair]]
        /\ Done("unlinks", city) /\ places' = places
    BY DEF Unlink
  <1>4. /\ DOMAIN links' = DOMAIN links
        /\ \A pair \in DOMAIN links : pair[1] # city => links'[pair] = links[pair]
    BY <1>3
  <1>5. \A pair \in DOMAIN links : pair[1] = city =>
          links'[pair] = [source |-> links[pair].source, active |-> FALSE]
    <2> SUFFICES ASSUME NEW pair \in DOMAIN links, pair[1] = city
                 PROVE  links'[pair] = [source |-> links[pair].source, active |-> FALSE]
      OBVIOUS
    <2>1. PICK link : link = links[pair]
      OBVIOUS
    <2>2. link = [source |-> link.source, active |-> link.active]
      BY <1>2, <2>1 DEF ReferencesInv
    <2>3. links'[pair] = [link EXCEPT !.active = FALSE]
      BY <1>3, <2>1
    <2> QED
      BY <2>1, <2>2, <2>3
  <1>6. /\ Plans("unlinks")' = Plans("unlinks") \ {city} /\ Plans("links")' = Plans("links")
        /\ Plans("hubIds")' = Plans("hubIds") /\ Plans("hubs")' = Plans("hubs")
        /\ importing'.artifact = importing.artifact
    BY <1>2, <1>3, DoneFields DEF PlanFields
  <1>7. /\ \A name : CityOf(name)' = CityOf(name)
        /\ \A id, key : IsActiveRow(id, key)' <=> IsActiveRow(id, key)
    BY <1>3, <1>6 DEF CityOf, IsActiveRow
  <1>8. \A id, h : IsHubOf(id, h)' <=> IsHubOf(id, h)
    BY <1>6, <1>7 DEF IsHubOf, HubRowOf
  <1>9. ASSUME NEW h \in importing.artifact.hubs
        PROVE  HubIsPlanned(h)'
    <2>1. PICK id \in Plans("hubIds") :
            IsHubOf(id, h) /\ <<CityOf(h.city), id>> \in Plans("links")
      BY <1>2 DEF PlanHolds, HubIsPlanned
    <2> QED
      BY <1>6, <1>7, <1>8, <2>1 DEF HubIsPlanned
  <1>10. ASSUME NEW h \in importing.artifact.hubs, CityOf(h.city) \notin Plans("unlinks")',
                NEW pair \in DOMAIN links', pair[1] = CityOf(h.city), links'[pair].active
         PROVE  IsAssociation(pair)
    <2>1. pair[1] # city /\ CityOf(h.city) \notin Plans("unlinks")
      BY <1>4, <1>5, <1>6, <1>10
    <2> QED
      BY <1>2, <1>4, <1>10, <2>1 DEF PlanHolds
  <1>11. ReferencesInv'
    <2>1. \A pair \in DOMAIN links' :
            links'[pair] = [source |-> links'[pair].source, active |-> links'[pair].active]
              /\ links'[pair].active \in BOOLEAN
      <3> SUFFICES ASSUME NEW pair \in DOMAIN links
                   PROVE  /\ links'[pair] = [source |-> links'[pair].source,
                                             active |-> links'[pair].active]
                          /\ links'[pair].active \in BOOLEAN
        BY <1>4
      <3>1. CASE pair[1] = city
        <4>1. PICK source : links'[pair] = [source |-> source, active |-> FALSE]
          BY <1>5, <3>1
        <4> QED
          BY <4>1
      <3>2. CASE pair[1] # city
        BY <1>2, <1>4, <3>2 DEF ReferencesInv
      <3> QED
        BY <3>1, <3>2
    <2> QED
      BY <1>2, <1>3, <1>4, <2>1 DEF ReferencesInv
  <1> QED
    BY <1>3, <1>9, <1>10, <1>11, LinksMove

\* An association leads from a row to a row, and to the hub that the artifact has.
LEMMA LinkStep ==
  ASSUME CatalogueInv, importing.at = "writing", Written({"cities", "hubs", "unlinks"}),
         NEW pair \in Plans("links"), Link(pair),
         UNCHANGED <<sidecar, imported, cleanup, search, commands>>
  PROVE  CatalogueInv' /\ OthersKept /\ CleanKept
  <1>1. importing # Idle
    BY DEF Idle
  <1>2. /\ ReferencesInv /\ ImportInv /\ PlanHolds /\ IsArtifact(importing.artifact)
        /\ Plans("cities") = {} /\ Plans("hubs") = {} /\ Plans("unlinks") = {}
    BY <1>1 DEF CatalogueInv, PlacesInv, ImportInv, Written
  <1>3. PICK link : link = [source |-> importing.artifact.source, active |-> TRUE]
    OBVIOUS
  <1>4. /\ links' = [p \in DOMAIN links \cup {pair} |-> IF p = pair THEN link ELSE links[p]]
        /\ Done("links", pair) /\ places' = places
    BY <1>3 DEF Link
  <1>5. /\ DOMAIN links' = DOMAIN links \cup {pair} /\ links'[pair] = link
        /\ \A p \in DOMAIN links : p # pair => links'[p] = links[p]
        /\ link = [source |-> link.source, active |-> link.active] /\ link.active = TRUE
    BY <1>3, <1>4
  <1>6. /\ Plans("unlinks")' = {} /\ Plans("links")' = Plans("links") \ {pair}
        /\ Plans("hubIds")' = Plans("hubIds") /\ Plans("hubs")' = Plans("hubs")
        /\ importing'.artifact = importing.artifact
    BY <1>2, <1>4, DoneFields DEF PlanFields
  <1>7. /\ \A name : CityOf(name)' = CityOf(name)
        /\ \A id, key : IsActiveRow(id, key)' <=> IsActiveRow(id, key)
    BY <1>4, <1>6 DEF CityOf, IsActiveRow
  <1>8. \A id, h : IsHubOf(id, h)' <=> IsHubOf(id, h)
    BY <1>6, <1>7 DEF IsHubOf, HubRowOf
  <1>9. ASSUME NEW h \in importing.artifact.hubs
        PROVE  HubIsPlanned(h)'
    <2>1. PICK id \in Plans("hubIds") :
            /\ IsHubOf(id, h)
            /\ \/ <<CityOf(h.city), id>> \in Plans("links")
               \/ <<CityOf(h.city), id>> \in DOMAIN links /\ links[<<CityOf(h.city), id>>].active
      BY <1>2 DEF PlanHolds, HubIsPlanned
    <2>2. PICK p : p = <<CityOf(h.city), id>>
      OBVIOUS
    <2>3. p \in Plans("links")' \/ (p \in DOMAIN links' /\ links'[p].active)
      BY <1>5, <1>6, <2>1, <2>2
    <2> QED
      BY <1>6, <1>7, <1>8, <2>1, <2>2, <2>3 DEF HubIsPlanned
  <1>10. IsAssociation(pair)
    BY <1>2 DEF PlanHolds
  <1>11. ASSUME NEW h \in importing.artifact.hubs,
                NEW p \in DOMAIN links', p[1] = CityOf(h.city), links'[p].active
         PROVE  IsAssociation(p)
    BY <1>2, <1>5, <1>10, <1>11 DEF PlanHolds
  <1>12. pair \in (DOMAIN places) \X (DOMAIN places)
    <2>1. PICK h \in importing.artifact.hubs :
            pair = <<CityOf(h.city), pair[2]>> /\ IsHubOf(pair[2], h)
      BY <1>10 DEF IsAssociation
    <2>2. pair[2] \in DOMAIN places
      BY <1>2, <2>1 DEF IsHubOf, IsActiveRow
    <2>3. PICK c \in importing.artifact.cities : c.name = h.city
      BY <1>2 DEF IsArtifact
    <2>4. CityIsPlanned(c)
      BY <1>2 DEF PlanHolds
    <2>5. CityOf(h.city) \in DOMAIN places
      BY <1>2, <2>3, <2>4 DEF CityIsPlanned, IsActiveRow
    <2>6. PICK a, b : a = CityOf(h.city) /\ b = pair[2]
      OBVIOUS
    <2>7. pair = <<a, b>> /\ a \in DOMAIN places /\ b \in DOMAIN places
      BY <2>1, <2>2, <2>5, <2>6
    <2> QED
      BY <2>7
  <1>13. ReferencesInv'
    <2>1. \A p \in DOMAIN links' :
            links'[p] = [source |-> links'[p].source, active |-> links'[p].active]
              /\ links'[p].active \in BOOLEAN
      BY <1>2, <1>5 DEF ReferencesInv
    <2>2. DOMAIN links' \subseteq (DOMAIN places) \X (DOMAIN places)
      BY <1>2, <1>5, <1>12 DEF ReferencesInv
    <2> QED
      BY <1>2, <1>4, <2>1, <2>2 DEF ReferencesInv
  <1> QED
    BY <1>4, <1>9, <1>11, <1>13, LinksMove

\* So every write keeps the invariant.
LEMMA WriteStep ==
  ASSUME CatalogueInv, Write
  PROVE  CatalogueInv' /\ OthersKept /\ CleanKept
  <1>1. /\ importing.at = "writing"
        /\ UNCHANGED <<sidecar, imported, cleanup, search, commands>>
    BY DEF Write
  <1>2. CASE \/ Plans("cities") # {} /\ WriteRow("cities", NextOf("cities"))
             \/ Written({"cities"}) /\ Plans("hubs") # {} /\ WriteRow("hubs", NextOf("hubs"))
    BY <1>1, <1>2, WriteRowSteps
  <1>3. CASE Plans("unlinks") # {} /\ Unlink(NextOf("unlinks"))
    <2>1. PICK city \in Plans("unlinks") : Unlink(city)
      BY <1>3 DEF NextOf
    <2> QED
      BY <1>1, <2>1, UnlinkStep
  <1>4. CASE /\ Written({"cities", "hubs", "unlinks"}) /\ Plans("links") # {}
             /\ Link(NextOf("links"))
    <2>1. PICK pair \in Plans("links") : Link(pair)
      BY <1>4 DEF NextOf
    <2> QED
      BY <1>1, <1>4, <2>1, LinkStep
  <1> QED
    BY <1>2, <1>3, <1>4 DEF Write

\* Rows are retired behind the plan: those of the artifact rest, and an operator's.
LEMMA RowsRetired ==
  ASSUME CatalogueInv, importing # Idle, Written({"cities", "hubs", "unlinks", "links"}),
         NEW phase \in ImportPhases, importing' = [importing EXCEPT !.at = phase],
         UNCHANGED <<links, sidecar, imported, cleanup, search, commands>>,
         RowsInv', DOMAIN places' = DOMAIN places,
         \A id \in DOMAIN places :
           /\ places'[id].key = places[id].key /\ places'[id].kind = places[id].kind
           /\ places[id].ownership = "manual" => places'[id] = places[id],
         \A c \in importing.artifact.cities : places'[CityOf(c.name)] = places[CityOf(c.name)],
         \A h \in importing.artifact.hubs : \A id \in DOMAIN places :
           places[id].key = h.key => places'[id] = places[id],
         RetiredHolds'
  PROVE  CatalogueInv' /\ OthersKept /\ CleanKept
  <1>1. /\ RowsInv /\ ReferencesInv /\ EnrichedHubsAreValid /\ ImportInv
        /\ PlanHolds /\ IsArtifact(importing.artifact)
        /\ imported = NoArtifact /\ cleanup = Idle
        /\ importing = [at |-> importing.at, artifact |-> importing.artifact,
                        plan |-> importing.plan]
        /\ importing.plan = [f \in PlanFields |-> importing.plan[f]]
    BY DEF CatalogueInv, PlacesInv, ImportInv
  <1>2. PICK artifact, plan : artifact = importing.artifact /\ plan = importing.plan
    OBVIOUS
  <1>3. importing' = [at |-> phase, artifact |-> artifact, plan |-> plan]
    BY <1>1, <1>2
  <1>4. /\ importing'.at = phase /\ importing'.artifact = artifact /\ importing'.plan = plan
        /\ \A f : Plans(f)' = Plans(f)
    BY <1>2, <1>3 DEF Plans
  <1>5. Plans("cities") = {} /\ Plans("hubs") = {}
    BY DEF Written
  <1>6. ASSUME NEW c \in artifact.cities
        PROVE  CityIsPlanned(c)'
    <2>1. CityIsPlanned(c)
      BY <1>1, <1>2 DEF PlanHolds
    <2>2. PICK id, key : id = CityOf(c.name) /\ key = CityKey(artifact.ownership, c.name)
      OBVIOUS
    <2>3. IsActiveRow(id, key)
      BY <1>2, <1>5, <2>1, <2>2 DEF CityIsPlanned
    <2>4. IsActiveRow(id, key)'
      BY <1>2, <2>2, <2>3 DEF IsActiveRow
    <2>5. CityOf(c.name)' = id
      BY <1>2, <1>4, <2>2 DEF CityOf
    <2> QED
      BY <1>4, <2>2, <2>4, <2>5 DEF CityIsPlanned
  <1>7. ASSUME NEW h \in artifact.hubs, NEW id, IsHubOf(id, h)
        PROVE  IsHubOf(id, h)'
    <2>1. IsActiveRow(id, h.key)
      BY <1>5, <1>7 DEF IsHubOf
    <2> QED
      BY <1>2, <2>1 DEF IsHubOf, IsActiveRow
  <1>8. PlanHolds'
    BY <1>1, <1>2, <1>4, <1>5, <1>6, <1>7, PlanStays
  <1>9. ImportInv'
    BY <1>1, <1>2, <1>3, <1>4, <1>8 DEF ImportInv
  <1>10. OthersKept
    BY <1>1 DEF OthersKept, IsManual, ReferencesInv
  <1>11. ReferencesInv' /\ EnrichedHubsAreValid' /\ CleanupInv' /\ ImportedInv' /\ CleanKept
    BY <1>1 DEF ReferencesInv, EnrichedHubsAreValid, CleanupInv, ImportedInv, CleanKept
  <1> QED
    BY <1>9, <1>10, <1>11 DEF CatalogueInv, PlacesInv

\* Once everything is written: the rows of the artifact's cities and hubs.
LEMMA WrittenRows ==
  ASSUME PlanHolds, Written({"cities", "hubs", "unlinks", "links"})
  PROVE  /\ \A c \in importing.artifact.cities :
              IsActiveRow(CityOf(c.name), CityKey(importing.artifact.ownership, c.name))
         /\ \A h \in importing.artifact.hubs : \A id : IsHubOf(id, h) => IsActiveRow(id, h.key)
         /\ \A h \in importing.artifact.hubs : \E id \in Plans("hubIds") :
              /\ IsActiveRow(id, h.key)
              /\ <<CityOf(h.city), id>> \in DOMAIN links /\ links[<<CityOf(h.city), id>>].active
  <1>1. Plans("cities") = {} /\ Plans("hubs") = {} /\ Plans("links") = {}
    BY DEF Written
  <1>2. \A c \in importing.artifact.cities :
          IsActiveRow(CityOf(c.name), CityKey(importing.artifact.ownership, c.name))
    BY <1>1 DEF PlanHolds, CityIsPlanned
  <1>3. \A h \in importing.artifact.hubs : \A id : IsHubOf(id, h) => IsActiveRow(id, h.key)
    BY <1>1 DEF IsHubOf
  <1>4. \A h \in importing.artifact.hubs : \E id \in Plans("hubIds") :
              /\ IsHubOf(id, h)
              /\ <<CityOf(h.city), id>> \in DOMAIN links /\ links[<<CityOf(h.city), id>>].active
    BY <1>1 DEF PlanHolds, HubIsPlanned
  <1> QED
    BY <1>2, <1>3, <1>4

\* The kind of a row tells its owners, and its identity does.
LEMMA KindsOfRows ==
  ASSUME RowsInv, IsArtifact(importing.artifact)
  PROVE  /\ \A id \in DOMAIN places : \A h \in importing.artifact.hubs :
              places[id].key = h.key => places[id].ownership \notin CityOwnerships
         /\ \A name : CityOf(name) \in DOMAIN places =>
              places[CityOf(name)].ownership \notin HubOwnerships
  <1>1. \A id \in DOMAIN places : RowFits(id, places[id])
    BY DEF RowsInv
  <1>2. ASSUME NEW id \in DOMAIN places, NEW h \in importing.artifact.hubs, places[id].key = h.key
        PROVE  places[id].ownership \notin CityOwnerships
    <2>1. h.key[1] \notin CityFamilies
      BY Families DEF IsArtifact
    <2> QED
      BY <1>1, <1>2, <2>1, Families DEF RowFits
  <1>3. ASSUME NEW name, CityOf(name) \in DOMAIN places
        PROVE  places[CityOf(name)].ownership \notin HubOwnerships
    <2>1. RowFits(CityOf(name), places[CityOf(name)])
      BY <1>1, <1>3
    <2>2. places[CityOf(name)].ownership \in CityOwnerships \cup {"manual"}
      BY <2>1, IdsAreApart DEF RowFits, CityOf
    <2> QED
      BY <2>2, Families
  <1> QED
    BY <1>2, <1>3

\* The cities of the source that the artifact does not have are retired.
LEMMA RetireCitiesStep ==
  ASSUME CatalogueInv, RetireCities
  PROVE  CatalogueInv' /\ OthersKept /\ CleanKept
  <1>0. importing # Idle
    <2>1. importing.at = "writing"
      BY DEF RetireCities
    <2>2. importing.at # "idle"
      BY <2>1
    <2> QED
      BY <2>2 DEF Idle
  <1>1. /\ importing.at = "writing"
        /\ Written({"cities", "hubs", "unlinks", "links"})
        /\ places' = Retired({importing.artifact.ownership}, Plans("cityIds"))
        /\ importing' = [importing EXCEPT !.at = "cities retired"]
        /\ UNCHANGED <<links, sidecar, imported, cleanup, search, commands>>
    BY DEF RetireCities
  <1>2. /\ RowsInv /\ PlanHolds /\ IsArtifact(importing.artifact)
        /\ importing = [at |-> importing.at, artifact |-> importing.artifact,
                        plan |-> importing.plan]
    BY <1>0 DEF CatalogueInv, PlacesInv, ImportInv
  <1>3. PICK own, keep : own = importing.artifact.ownership /\ keep = Plans("cityIds")
    OBVIOUS
  <1>4. own \in CityOwnerships /\ "manual" \notin {own}
    BY <1>2, <1>3, Families DEF IsArtifact
  <1>5. /\ RowsInv'
        /\ DOMAIN places' = DOMAIN places
        /\ \A id \in DOMAIN places :
             /\ places'[id].key = places[id].key /\ places'[id].kind = places[id].kind
             /\ places'[id].ownership = places[id].ownership
             /\ places[id].ownership \notin {own} \/ id \in keep => places'[id] = places[id]
             /\ places'[id].active => places[id].active /\
                                      (places[id].ownership \notin {own} \/ id \in keep)
    <2>1. places' = Retired({own}, keep)
      BY <1>1, <1>3
    <2> QED
      BY <1>2, <1>4, <2>1, RowsRetire
  <1>6. \A c \in importing.artifact.cities : places'[CityOf(c.name)] = places[CityOf(c.name)]
    <2> SUFFICES ASSUME NEW c \in importing.artifact.cities
                 PROVE  places'[CityOf(c.name)] = places[CityOf(c.name)]
      OBVIOUS
    <2>1. CityOf(c.name) \in keep
      BY <1>2, <1>3 DEF PlanHolds
    <2>2. CityOf(c.name) \in DOMAIN places
      BY <1>1, <1>2, WrittenRows DEF IsActiveRow
    <2> QED
      BY <1>5, <2>1, <2>2
  <1>7. \A h \in importing.artifact.hubs : \A id \in DOMAIN places :
          places[id].key = h.key => places'[id] = places[id]
    BY <1>2, <1>4, <1>5, KindsOfRows
  <1>8. /\ importing'.at = "cities retired" /\ importing'.artifact = importing.artifact
        /\ \A f : Plans(f)' = Plans(f)
    <2>1. PICK artifact, plan : artifact = importing.artifact /\ plan = importing.plan
      OBVIOUS
    <2>2. importing' = [at |-> "cities retired", artifact |-> artifact, plan |-> plan]
      BY <1>1, <1>2, <2>1
    <2> QED
      BY <2>1, <2>2 DEF Plans
  <1>9. RetiredHolds'
    BY <1>1, <1>3, <1>5, <1>8 DEF RetiredHolds, Written
  <1>10. \A id \in DOMAIN places :
           /\ places'[id].key = places[id].key /\ places'[id].kind = places[id].kind
           /\ places[id].ownership = "manual" => places'[id] = places[id]
    BY <1>4, <1>5
  <1>11. "cities retired" \in ImportPhases
    BY DEF ImportPhases
  <1> QED
    BY <1>0, <1>1, <1>5, <1>6, <1>7, <1>9, <1>10, <1>11, RowsRetired

\* And the hubs that it does not have.
LEMMA RetireHubsStep ==
  ASSUME CatalogueInv, RetireHubs
  PROVE  CatalogueInv' /\ OthersKept /\ CleanKept
  <1>0. importing # Idle
    <2>1. importing.at = "cities retired"
      BY DEF RetireHubs
    <2>2. importing.at # "idle"
      BY <2>1
    <2> QED
      BY <2>2 DEF Idle
  <1>1. /\ importing.at = "cities retired"
        /\ places' = IF Plans("hubIds") = {} THEN places ELSE Retired(HubOwnerships, Plans("hubIds"))
        /\ importing' = [importing EXCEPT !.at = "hubs retired"]
        /\ UNCHANGED <<links, sidecar, imported, cleanup, search, commands>>
    BY DEF RetireHubs
  <1>2. /\ RowsInv /\ PlanHolds /\ RetiredHolds /\ IsArtifact(importing.artifact)
        /\ importing = [at |-> importing.at, artifact |-> importing.artifact,
                        plan |-> importing.plan]
        /\ Written({"cities", "hubs", "unlinks", "links"})
    BY <1>0, <1>1 DEF CatalogueInv, PlacesInv, ImportInv, RetiredHolds
  <1>3. PICK keep : keep = Plans("hubIds")
    OBVIOUS
  <1>4. "manual" \notin HubOwnerships
    BY Families
  <1>5. /\ RowsInv'
        /\ DOMAIN places' = DOMAIN places
        /\ \A id \in DOMAIN places :
             /\ places'[id].key = places[id].key /\ places'[id].kind = places[id].kind
             /\ places'[id].ownership = places[id].ownership
             /\ places[id].ownership \notin HubOwnerships \/ id \in keep => places'[id] = places[id]
             /\ places'[id].active => places[id].active
             /\ keep # {} /\ places'[id].active =>
                  places[id].ownership \notin HubOwnerships \/ id \in keep
    <2>1. CASE keep = {}
      <3>1. places' = places
        BY <1>1, <1>3, <2>1
      <3> QED
        BY <1>2, <2>1, <3>1, RowsSame
    <2>2. CASE keep # {}
      <3>1. places' = Retired(HubOwnerships, keep)
        BY <1>1, <1>3, <2>2
      <3> QED
        BY <1>2, <1>4, <3>1, RowsRetire
    <2> QED
      BY <2>1, <2>2
  <1>6. \A c \in importing.artifact.cities : places'[CityOf(c.name)] = places[CityOf(c.name)]
    <2> SUFFICES ASSUME NEW c \in importing.artifact.cities
                 PROVE  places'[CityOf(c.name)] = places[CityOf(c.name)]
      OBVIOUS
    <2>1. CityOf(c.name) \in DOMAIN places
      BY <1>2, WrittenRows DEF IsActiveRow
    <2> QED
      BY <1>2, <1>5, <2>1, KindsOfRows
  <1>7. ASSUME NEW h \in importing.artifact.hubs, NEW id \in DOMAIN places, places[id].key = h.key
        PROVE  places'[id] = places[id]
    <2>1. PICK other \in keep : IsActiveRow(other, h.key)
      BY <1>2, <1>3, WrittenRows
    <2>2. id = other
      BY <1>2, <1>7, <2>1 DEF RowsInv, OneRowPerKey, IsActiveRow
    <2> QED
      BY <1>5, <2>1, <2>2
  <1>8. /\ importing'.at = "hubs retired" /\ importing'.artifact = importing.artifact
        /\ \A f : Plans(f)' = Plans(f)
    <2>1. PICK artifact, plan : artifact = importing.artifact /\ plan = importing.plan
      OBVIOUS
    <2>2. importing' = [at |-> "hubs retired", artifact |-> artifact, plan |-> plan]
      BY <1>1, <1>2, <2>1
    <2> QED
      BY <2>1, <2>2 DEF Plans
  <1>9. RetiredHolds'
    <2>1. \A id \in DOMAIN places : places[id].active /\ places[id].ownership = importing.artifact.ownership
            => id \in Plans("cityIds")
      BY <1>1, <1>2 DEF RetiredHolds
    <2>2. Written({"cities", "hubs", "unlinks", "links"})'
      BY <1>2, <1>8 DEF Written
    <2> QED
      BY <1>3, <1>5, <1>8, <2>1, <2>2 DEF RetiredHolds
  <1>10. \A id \in DOMAIN places :
           /\ places'[id].key = places[id].key /\ places'[id].kind = places[id].kind
           /\ places[id].ownership = "manual" => places'[id] = places[id]
    BY <1>4, <1>5
  <1>11. "hubs retired" \in ImportPhases
    BY DEF ImportPhases
  <1> QED
    BY <1>0, <1>1, <1>2, <1>5, <1>6, <1>7, <1>9, <1>10, <1>11, RowsRetired

\* Last the associations: then the artifact is what is in the tables.
LEMMA RetireLinksStep ==
  ASSUME CatalogueInv, RetireLinks
  PROVE  CatalogueInv' /\ OthersKept /\ CleanKept
  <1>0. importing # Idle
    <2>1. importing.at = "hubs retired"
      BY DEF RetireLinks
    <2>2. importing.at # "idle"
      BY <2>1
    <2> QED
      BY <2>2 DEF Idle
  <1>1. PICK artifact, keep : artifact = importing.artifact /\ keep = Plans("hubIds")
    OBVIOUS
  <1>2. /\ importing.at = "hubs retired"
        /\ links' = [pair \in DOMAIN links |->
                       IF /\ keep # {} /\ links[pair].source = artifact.source
                          /\ pair[2] \notin keep
                       THEN [links[pair] EXCEPT !.active = FALSE] ELSE links[pair]]
        /\ importing' = Idle
        /\ imported' = artifact
        /\ UNCHANGED <<places, sidecar, cleanup, search, commands>>
    BY <1>1 DEF RetireLinks
  <1>3. /\ RowsInv /\ ReferencesInv /\ EnrichedHubsAreValid
        /\ PlanHolds /\ RetiredHolds /\ IsArtifact(artifact)
        /\ cleanup = Idle /\ Written({"cities", "hubs", "unlinks", "links"})
        /\ Plans("unlinks") = {}
    BY <1>0, <1>1, <1>2
    DEF CatalogueInv, PlacesInv, ImportInv, RetiredHolds, Written
  <1>4. /\ DOMAIN links' = DOMAIN links
        /\ \A pair \in DOMAIN links :
             /\ links'[pair] = [source |-> links'[pair].source, active |-> links'[pair].active]
             /\ links'[pair].active \in BOOLEAN
             /\ links'[pair].active => links[pair].active
             /\ pair[2] \in keep => links'[pair] = links[pair]
    <2>1. DOMAIN links' = DOMAIN links
      BY <1>2
    <2>2. ASSUME NEW pair \in DOMAIN links
          PROVE  /\ links'[pair] = [source |-> links'[pair].source, active |-> links'[pair].active]
                 /\ links'[pair].active \in BOOLEAN
                 /\ links'[pair].active => links[pair].active
                 /\ pair[2] \in keep => links'[pair] = links[pair]
      <3>1. PICK link : link = links[pair]
        OBVIOUS
      <3>2. link = [source |-> link.source, active |-> link.active] /\ link.active \in BOOLEAN
        BY <1>3, <3>1 DEF ReferencesInv
      <3>3. CASE links'[pair] = link
        BY <3>1, <3>2, <3>3
      <3>4. CASE links'[pair] = [link EXCEPT !.active = FALSE] /\ pair[2] \notin keep
        <4>1. links'[pair] = [source |-> link.source, active |-> FALSE]
          BY <3>2, <3>4
        <4> QED
          BY <3>4, <4>1
      <3> QED
        BY <1>2, <3>1, <3>3, <3>4
    <2> QED
      BY <2>1, <2>2
  <1>5. \A id, key : StableId(id, key)' = StableId(id, key)
    <2>1. places' = places
      BY <1>2
    <2> QED
      BY <2>1 DEF StableId, Existing, HasKey
  <1>6. \A name : IdOfCity(imported, name)' = CityOf(name)
    <2>1. \A name : IdOfCity(artifact, name) = CityOf(name)
      BY <1>1, <1>3, CityIdsFixed DEF IdOfCity, CityOf, IsArtifact
    <2>2. imported' = artifact
      BY <1>2
    <2>3. \A name : IdOfCity(imported, name)' = IdOfCity(artifact, name)
      BY <1>5, <2>2 DEF IdOfCity
    <2> QED
      BY <2>1, <2>3
  <1>7. ASSUME NEW h \in artifact.hubs, NEW id, IsHubOf(id, h) \/ IsActiveRow(id, h.key)
        PROVE  IdOfHub(h) = id /\ IdOfHub(h)' = id /\ IsActiveRow(id, h.key)
    <2>1. IsActiveRow(id, h.key)
      BY <1>1, <1>3, <1>7, WrittenRows
    <2>2. IdOfHub(h) = id
      BY <1>3, <2>1, IdsFound DEF IdsAreFound, IdOfHub, IsActiveRow
    <2>4. IdOfHub(h)' = IdOfHub(h)
      BY <1>5 DEF IdOfHub
    <2> QED
      BY <2>1, <2>2, <2>4
  <1>8. \A h \in artifact.hubs : \E id \in keep :
          /\ IsActiveRow(id, h.key) /\ IdOfHub(h)' = id
          /\ <<CityOf(h.city), id>> \in DOMAIN links /\ links[<<CityOf(h.city), id>>].active
    <2> SUFFICES ASSUME NEW h \in artifact.hubs
                 PROVE  \E id \in keep :
                          /\ IsActiveRow(id, h.key) /\ IdOfHub(h)' = id
                          /\ <<CityOf(h.city), id>> \in DOMAIN links
                          /\ links[<<CityOf(h.city), id>>].active
      OBVIOUS
    <2>1. PICK id \in keep :
            /\ IsActiveRow(id, h.key)
            /\ <<CityOf(h.city), id>> \in DOMAIN links /\ links[<<CityOf(h.city), id>>].active
      BY <1>1, <1>3, WrittenRows
    <2> QED
      BY <1>7, <2>1
  <1> DEFINE cityIds == {CityOf(c.name) : c \in artifact.cities}
             activeOf(ownerships) ==
               {id \in DOMAIN places : places[id].active /\ places[id].ownership \in ownerships}
  <1>9. cityIds = Plans("cityIds")
    BY <1>1, <1>3 DEF PlanHolds
  <1>10. {IdOfHub(h)' : h \in artifact.hubs} = keep
    <2>1. \A id \in keep : \E h \in artifact.hubs : IdOfHub(h)' = id
      <3> SUFFICES ASSUME NEW id \in keep PROVE \E h \in artifact.hubs : IdOfHub(h)' = id
        OBVIOUS
      <3>1. PICK h \in artifact.hubs : IsHubOf(id, h)
        BY <1>1, <1>3 DEF PlanHolds
      <3> QED
        BY <1>7, <3>1
    <2> QED
      BY <1>8, <2>1
  <1>11. \A id \in cityIds \cup keep : id \in DOMAIN places /\ places[id].active
    <2>1. \A id \in cityIds : id \in DOMAIN places /\ places[id].active
      BY <1>1, <1>3, WrittenRows DEF IsActiveRow
    <2>2. ASSUME NEW id \in keep
          PROVE  id \in DOMAIN places /\ places[id].active
      <3>1. PICK h \in artifact.hubs : IsHubOf(id, h)
        BY <1>1, <1>3 DEF PlanHolds
      <3> QED
        BY <1>7, <3>1 DEF IsActiveRow
    <2> QED
      BY <2>1, <2>2
  <1>12. activeOf({artifact.ownership}) \subseteq cityIds
    BY <1>1, <1>2, <1>3, <1>9 DEF RetiredHolds
  <1>13. keep # {} => activeOf(HubOwnerships) \subseteq keep
    BY <1>1, <1>2, <1>3 DEF RetiredHolds
  <1>14. ASSUME NEW h \in artifact.hubs
         PROVE  {pair[2] : pair \in {p \in DOMAIN links' :
                   p[1] = CityOf(h.city) /\ links'[p].active}} = {IdOfHub(h)'}
    <2>1. PICK id \in keep :
            /\ IsActiveRow(id, h.key) /\ IdOfHub(h)' = id
            /\ <<CityOf(h.city), id>> \in DOMAIN links /\ links[<<CityOf(h.city), id>>].active
      BY <1>8
    <2>2. PICK city, own : city = CityOf(h.city) /\ own = <<city, id>>
      OBVIOUS
    <2>3. own \in DOMAIN links' /\ links'[own].active /\ own[1] = city /\ own[2] = id
      BY <1>4, <2>1, <2>2
    <2>4. ASSUME NEW p \in DOMAIN links', p[1] = city, links'[p].active
          PROVE  p[2] = id
      <3>1. IsAssociation(p)
        BY <1>1, <1>3, <1>4, <2>2, <2>4 DEF PlanHolds
      <3>2. PICK g \in artifact.hubs : p = <<CityOf(g.city), p[2]>> /\ IsHubOf(p[2], g)
        BY <1>1, <3>1 DEF IsAssociation
      <3>3. CityOf(g.city) = CityOf(h.city)
        <4>1. PICK a, b : a = CityOf(g.city) /\ b = p[2]
          OBVIOUS
        <4>2. p[1] = a
          BY <3>2, <4>1
        <4> QED
          BY <2>2, <2>4, <4>1, <4>2
      <3>4. g.city = h.city
        BY <3>3, IdsAreApart DEF CityOf, CityKey
      <3>5. g = h
        BY <1>3, <3>4 DEF IsArtifact
      <3> QED
        BY <1>7, <2>1, <3>2, <3>5
    <2>5. {pair[2] : pair \in {p \in DOMAIN links' : p[1] = city /\ links'[p].active}} = {id}
      BY <2>3, <2>4
    <2> QED
      BY <2>1, <2>2, <2>5
  <1>15. ImportedInv'
    <2>0. imported' = artifact
      BY <1>2
    <2>1. /\ {IdOfCity(imported, c.name)' : c \in imported'.cities} = cityIds
          /\ {IdOfHub(h)' : h \in imported'.hubs} = keep
      BY <1>6, <1>10, <2>0
    <2>2. /\ \A id \in cityIds \cup keep : id \in DOMAIN places' /\ places'[id].active
          /\ {id \in DOMAIN places' : places'[id].active /\ places'[id].ownership \in {imported'.ownership}}
               \subseteq cityIds
          /\ keep # {} =>
               {id \in DOMAIN places' : places'[id].active /\ places'[id].ownership \in HubOwnerships}
                 \subseteq keep
      BY <1>2, <1>11, <1>12, <1>13
    <2>3. \A h \in imported'.hubs :
            {pair[2] : pair \in {p \in DOMAIN links' :
               p[1] = IdOfCity(imported, h.city)' /\ links'[p].active}} = {IdOfHub(h)'}
      BY <1>6, <1>14, <2>0
    <2> HIDE DEF cityIds, activeOf
    <2>4. CompletedImportHolds'
      BY <2>1, <2>2, <2>3 DEF CompletedImportHolds
    <2> QED
      BY <1>3, <2>0, <2>4 DEF ImportedInv
  <1>16. ReferencesInv'
    BY <1>2, <1>3, <1>4 DEF ReferencesInv
  <1>17. ImportInv' /\ CleanupInv' /\ EnrichedHubsAreValid'
    BY <1>2, <1>3 DEF ImportInv, CleanupInv, EnrichedHubsAreValid
  <1> QED
    BY <1>2, <1>3, <1>15, <1>16, <1>17, RowsSame DEF CatalogueInv, PlacesInv

\* The plan is through: the import ends.
LEMMA ImportStep ==
  ASSUME CatalogueInv, ImportSteps
  PROVE  CatalogueInv' /\ OthersKept /\ CleanKept
  BY WriteStep, RetireCitiesStep, RetireHubsStep, RetireLinksStep DEF ImportSteps

-----------------------------------------------------------------------------
(* The catalogue as a whole.                                                *)

\* At first there are the cities that an operator has pinned.
LEMMA CatalogueStart == CatalogueInit => CatalogueInv
  <1> SUFFICES ASSUME CatalogueInit PROVE CatalogueInv
    OBVIOUS
  <1>1. /\ links = <<>> /\ sidecar = <<>> /\ importing = Idle /\ imported = NoArtifact
        /\ cleanup = Idle /\ search = [at |-> "none", refs |-> {}, cities |-> {}] /\ commands = 0
    BY DEF CatalogueInit
  <1>2. PICK names \in SUBSET PinnedCities :
          places = [id \in {CityId(CityKey("catalog:geonames", n)) : n \in names} |->
                      PinnedCity(id[2][2])]
    BY DEF CatalogueInit
  <1>3. IsFiniteSet(DOMAIN places)
    <2> DEFINE f == [n \in names |-> CityId(CityKey("catalog:geonames", n))]
               T == {CityId(CityKey("catalog:geonames", n)) : n \in names}
    <2>1. DOMAIN places = T
      BY <1>2
    <2>2. f \in Surjection(names, T)
      BY DEF Surjection
    <2>3. IsFiniteSet(names)
      BY CatalogueAssumption, FS_Subset
    <2> HIDE DEF f, T
    <2> QED
      BY <2>1, <2>2, <2>3, FS_Surjection
  <1>4. ASSUME NEW id \in DOMAIN places
        PROVE  /\ RowFits(id, places[id]) /\ places[id].parent = NoPlace
               /\ id = CityId(places[id].key)
    <2>1. PICK n \in names : id = CityId(CityKey("catalog:geonames", n))
      BY <1>2
    <2>2. id[2][2] = n
      BY <2>1 DEF CityId, CityKey
    <2>3. PICK row : row = PinnedCity(n)
      OBVIOUS
    <2>4. places[id] = row
      BY <1>2, <2>2, <2>3
    <2>5. row = [kind |-> "city", key |-> CityKey("catalog:geonames", n), ownership |-> "manual",
                 details |-> 500, parent |-> NoPlace, version |-> NoVersion, active |-> TRUE]
      BY <2>3 DEF PinnedCity
    <2>6. /\ row.kind = "city" /\ row.key = CityKey("catalog:geonames", n)
          /\ row.ownership = "manual" /\ row.parent = NoPlace /\ row.active = TRUE
          /\ IsRow(row)
      BY <2>5 DEF IsRow
    <2>7. row.key[1] = "geonames"
      BY <2>6 DEF CityKey
    <2>8. RowFits(id, row)
      BY <2>1, <2>6, <2>7 DEF RowFits, CityFamilies, CityOwnerships
    <2> QED
      BY <2>1, <2>4, <2>6, <2>8
  <1>5. RowsInv
    BY <1>3, <1>4 DEF RowsInv, OneRowPerKey
  <1>6. DOMAIN links = {} /\ DOMAIN sidecar = {}
    BY <1>1
  <1>7. ReferencesInv /\ EnrichedHubsAreValid
    BY <1>1, <1>6, CatalogueAssumption DEF ReferencesInv, EnrichedHubsAreValid
  <1>8. ImportInv /\ CleanupInv /\ ImportedInv
    BY <1>1 DEF ImportInv, CleanupInv, ImportedInv
  <1> QED
    BY <1>5, <1>7, <1>8 DEF CatalogueInv, PlacesInv

\* Every step keeps the invariant, and keeps what is not the catalogue's.
LEMMA CatalogueStep ==
  CatalogueInv /\ [CatalogueNext]_catalogueVars => CatalogueInv' /\ OthersKept /\ CleanKept
  <1> SUFFICES ASSUME CatalogueInv, [CatalogueNext]_catalogueVars
               PROVE  CatalogueInv' /\ OthersKept /\ CleanKept
    OBVIOUS
  <1>1. CASE CatalogueNext
    BY <1>1, EnrichStep, StartStep, ImportStep, InterruptStep, CreateStep, ReadSteps,
       LoadStep, InspectStep, DeleteStep
    DEF CatalogueNext
  <1>2. CASE UNCHANGED catalogueVars
    <2>1. UNCHANGED <<places, links, sidecar, importing, imported, cleanup, search, commands>>
      BY <1>2 DEF catalogueVars
    <2>2. ReferencesInv' /\ EnrichedHubsAreValid'
      BY <2>1 DEF CatalogueInv, PlacesInv, ReferencesInv, EnrichedHubsAreValid
    <2> QED
      BY <2>1, <2>2, RowsSame, ImportSame, ImportedSame, CleanupSame DEF CatalogueInv, PlacesInv
  <1> QED
    BY <1>1, <1>2

\* The status and the searches judge the catalogue alike, where no mixed versions hide
\* how it stands.
LEMMA StatusIsHonest == RowsInv => ReadinessIsHonest
  <1> SUFFICES ASSUME RowsInv PROVE ReadinessIsHonest
    OBVIOUS
  <1> DEFINE production == ActiveCities({"catalog:geonames"})
             hubbed     == MeetingCities({"catalog:geonames"})
             isMixed    == \E a, b \in production : places[a].version # places[b].version
             gaps       == \E id \in production : IsTierEligible(places[id]) /\ id \notin hubbed
             isPartial  == gaps \/ Cardinality(CitiesWithoutHub) > Cardinality(hubbed)
  <1>1. hubbed \subseteq production /\ hubbed \subseteq DOMAIN places
    BY DEF MeetingCities, ActiveCities
  <1>2. Cardinality(hubbed) \in Nat
    BY <1>1, FS_Subset, FS_CardinalityType DEF RowsInv
  <1>3. IsReady <=> hubbed # {} /\ Cardinality(hubbed) >= MinCities
    BY DEF IsReady
  <1>4. ProductionReadiness =
          CASE production = {} ->
                 IF ActiveCities({"fixture:offline-europe-v1"}) # {} THEN "fixture only" ELSE "absent"
            [] isMixed -> "stale"
            [] production # {} /\ ~isMixed /\ hubbed = {} -> "unusable"
            [] ~isMixed /\ hubbed # {} /\ isPartial  -> IF IsReady THEN "partial" ELSE "unusable"
            [] ~isMixed /\ hubbed # {} /\ ~isPartial ->
                 IF Cardinality(hubbed) < MinCities THEN "unusable" ELSE "ready"
    BY DEF ProductionReadiness
  <1>5. isMixed => production # {}
    OBVIOUS
  <1>6. ~isPartial => \A id \in production : IsTierEligible(places[id]) => id \in hubbed
    OBVIOUS
  <1>7. ReadinessIsHonest <=>
          /\ ProductionReadiness \in {"partial", "ready"} => IsReady
          /\ IsReady => ProductionReadiness \in {"partial", "ready", "stale"}
          /\ ProductionReadiness = "ready" =>
               \A id \in production : IsTierEligible(places[id]) => id \in hubbed
    BY DEF ReadinessIsHonest
  <1> HIDE DEF production, hubbed, isMixed, isPartial
  <1>8. CASE production = {}
    <2>1. hubbed = {}
      BY <1>1, <1>8
    <2>2. ProductionReadiness \in {"fixture only", "absent"}
      BY <1>4, <1>5, <1>8, <2>1
    <2> QED
      BY <1>3, <1>7, <2>1, <2>2
  <1>9. CASE isMixed
    <2>1. ProductionReadiness = "stale"
      BY <1>4, <1>5, <1>9
    <2> QED
      BY <1>7, <2>1
  <1>10. CASE production # {} /\ ~isMixed /\ hubbed = {}
    <2>1. ProductionReadiness = "unusable"
      BY <1>4, <1>10
    <2> QED
      BY <1>3, <1>7, <1>10, <2>1
  <1>11. CASE ~isMixed /\ hubbed # {} /\ isPartial
    <2>1. production # {}
      BY <1>1, <1>11
    <2>2. ProductionReadiness = IF IsReady THEN "partial" ELSE "unusable"
      BY <1>4, <1>11, <2>1
    <2> QED
      BY <1>7, <2>2
  <1>12. CASE ~isMixed /\ hubbed # {} /\ ~isPartial
    <2>1. production # {}
      BY <1>1, <1>12
    <2>2. ProductionReadiness = IF Cardinality(hubbed) < MinCities THEN "unusable" ELSE "ready"
      BY <1>4, <1>12, <2>1
    <2>3. MinCities \in Nat
      BY CatalogueAssumption
    <2>4. IsReady <=> ~(Cardinality(hubbed) < MinCities)
      BY <1>2, <1>3, <1>12, <2>3
    <2> QED
      BY <1>6, <1>7, <1>12, <2>2, <2>4
  <1> QED
    BY <1>8, <1>9, <1>10, <1>11, <1>12

\* A catalogue alone.
LEMMA CatalogueHoldsAlone == CatalogueInit /\ [][CatalogueNext]_catalogueVars => CatalogueHolds
  <1>1. CatalogueInv =>
          /\ CompletedImportHolds /\ EnrichedHubsAreValid /\ ReadinessIsHonest
    BY StatusIsHonest DEF CatalogueInv, PlacesInv, ImportedInv, CompletedImportHolds
  <1>2. CatalogueInv /\ [CatalogueNext]_catalogueVars => [OthersKept]_catalogueVars
    BY CatalogueStep
  <1>3. CatalogueInv /\ [CatalogueNext]_catalogueVars => [CleanKept]_catalogueVars
    BY CatalogueStep
  <1>4. [][OthersKept]_catalogueVars => OthersPlacesStay
    <2>1. [OthersKept]_catalogueVars =>
            [\A id \in DOMAIN places :
               id \in search.refs \/ IsManual(id) =>
                 /\ id \in DOMAIN places'
                 /\ places'[id].key = places[id].key /\ places'[id].kind = places[id].kind
                 /\ IsManual(id) => places'[id] = places[id]]_catalogueVars
      BY DEF OthersKept
    <2> QED
      BY <2>1, PTL DEF OthersPlacesStay
  <1>5. [][CleanKept]_catalogueVars => CleanUpIsClean
    <2>1. [CleanKept]_catalogueVars =>
            [cleanup # Idle /\ cleanup' = Idle /\ places' # places => StateIsClean']_catalogueVars
      BY DEF CleanKept
    <2> QED
      BY <2>1, PTL DEF CleanUpIsClean
  <1>6. CatalogueInit => CatalogueInv
    BY CatalogueStart
  <1>7. CatalogueInv /\ [CatalogueNext]_catalogueVars => CatalogueInv'
    BY CatalogueStep
  <1> QED
    BY <1>1, <1>2, <1>3, <1>4, <1>5, <1>6, <1>7, PTL DEF CatalogueHolds

\* However imports are interrupted, repeated and mixed with searches, picked places
\* and clean-ups: a completed import leaves its artifact, what enrichment finds may be
\* imported, the status agrees with the searches, places that searches refer to or
\* that are not the catalogue's stay, and a clean-up leaves no loose ends
\* (import.ts:290-723, cleanup-fixture.ts:431-539, readiness.ts:108-112).
THEOREM CatalogueStaysTrue == Spec => CatalogueHolds
  <1>1. Init => CatalogueInit
    BY DEF Init, NoCatalogue
  <1>2. [Next]_vars => [CatalogueNext]_catalogueVars
    BY DEF Next, vars, catalogueVars
  <1> QED
    BY <1>1, <1>2, CatalogueHoldsAlone, PTL DEF Spec

-----------------------------------------------------------------------------
(* The types of the parts, in their composition.                            *)

\* What is left of a search that has ended is of its types.
LEMMA NoRecoveryFits == NoRecovery => RecoveryInv
  <1> SUFFICES ASSUME NoRecovery PROVE RecoveryInv
    OBVIOUS
  <1>1. Stopped \in [at : CycleStages, stale : SUBSET (AllRows \cup {Finalization}),
                     abandoned : SUBSET Rows, selected : SUBSET OutboxEvents]
    BY DEF Stopped, Resting, CycleStages
  <1> QED
    BY <1>1, RecoveryAssumption
    DEF NoRecovery, JobStates, RecoveryInv, RecoveryTypeOK, QueuedHasNoRow

\* The invariants of the parts.
PartsInv == RecoveryInv /\ RankingInv /\ CatalogueInv /\ PoolInv

\* Rows, events, answers, places and workers are what their types say, and no row
\* refers to one that is gone, whichever part the behaviour is about.
THEOREM BackendTypeCorrect == Spec => []BackendTypeOK
  <1>1. Init => PartsInv
    <2>1. Init => RecoveryInit \/ NoRecovery
      BY DEF Init
    <2>2. Init => RankingInit
      BY DEF Init, NoRanking
    <2>3. Init => CatalogueInit
      BY DEF Init, NoCatalogue
    <2>4. Init => PoolInit
      BY DEF Init, NoPool
    <2> QED
      BY <2>1, <2>2, <2>3, <2>4, RecoveryStart, NoRecoveryFits, RankingStart, CatalogueStart,
         InitEstablishesPoolInv
      DEF PartsInv
  <1>2. PartsInv /\ [Next]_vars => PartsInv'
    <2>1. [Next]_vars => [RecoveryNext]_recoveryVars
      BY DEF Next, vars, recoveryVars
    <2>2. [Next]_vars => [RankingNext]_rankingVars
      BY DEF Next, vars, rankingVars
    <2>3. [Next]_vars => [CatalogueNext]_catalogueVars
      BY DEF Next, vars, catalogueVars
    <2>4. [Next]_vars => [PoolNext]_poolVars
      BY DEF Next, vars, poolVars
    <2>5. RecoveryInv /\ [RecoveryNext]_recoveryVars => RecoveryInv'
      BY RecoveryInductive
    <2>6. CatalogueInv /\ [CatalogueNext]_catalogueVars => CatalogueInv'
      BY CatalogueStep
    <2> QED
      BY <2>1, <2>2, <2>3, <2>4, <2>5, <2>6, RankingStep, StepKeepsPoolInv DEF PartsInv
  <1>3. PartsInv => BackendTypeOK
    BY PlacesTypes
    DEF PartsInv, BackendTypeOK, RecoveryInv, RankingInv, CatalogueInv, PoolInv
  <1> QED
    BY <1>1, <1>2, <1>3, PTL DEF Spec
=============================================================================
