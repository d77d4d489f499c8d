----------------------------- MODULE BrowserProofs -----------------------------
(***************************************************************************)
(* Proofs about the parts that share no state with the database.  Of one     *)
(* worker process: the journey planner's slots and its shared requests, and   *)
(* the order in which the process shuts down; for any number of callers,     *)
(* cache keys, queues and signals, and any limit.  Of the browser: the map,   *)
(* the place field, the form and the page of a search; for any number of      *)
(* requests, retries, themes, scenes and viewports.  And, of the composition  *)
(* of the parts, what several of them promise together.                      *)
(***************************************************************************)
EXTENDS MCFrontend, ItineraryProofs

-----------------------------------------------------------------------------
(* The limiter.                                                             *)

LimiterTypes ==
  /\ running \in [Callers -> Stages]
  /\ slots \in Nat
  /\ waiters \in Seq(Callers)

\* No caller waits twice.
WaitersDiffer == \A i, j \in DOMAIN waiters : waiters[i] = waiters[j] => i = j

LimiterInv == LimiterTypes /\ WaitersDiffer /\ SlotsAreExact

InLine(c) == \E i \in DOMAIN waiters : waiters[i] = c

\* The limit is positive.
LEMMA LimitType == Limit \in Nat /\ Limit > 0
  BY JourneyPlanningAssumption DEF Limit

\* Requests in flight are finitely many.
LEMMA FiniteRequests ==
  ASSUME NEW U \in SUBSET Callers
  PROVE  IsFiniteSet(U) /\ Cardinality(U) \in Nat
  BY JourneyPlanningAssumption, FS_Subset, FS_CardinalityType

\* A caller that neither queues nor requests may do so, without the limiter
\* noticing.
LEMMA LimiterElsewhere ==
  ASSUME LimiterInv, NEW c \in Callers, NEW stage \in Stages,
         running[c] \notin {"queued", "requesting"}, stage \notin {"queued", "requesting"},
         running' = [running EXCEPT ![c] = stage], UNCHANGED <<slots, waiters>>
  PROVE  LimiterInv'
  <1>1. LimiterTypes' /\ WaitersDiffer'
    BY DEF LimiterInv, LimiterTypes, WaitersDiffer
  <1>2. RequestsInFlight' = RequestsInFlight
    BY DEF LimiterInv, LimiterTypes, RequestsInFlight
  <1>3. \A d \in Callers : running'[d] = "queued" <=> running[d] = "queued"
    BY DEF LimiterInv, LimiterTypes
  <1> QED
    BY <1>1, <1>2, <1>3 DEF LimiterInv, SlotsAreExact

\* A free slot is taken and counted; without one, the caller queues behind
\* the others.
LEMMA LimiterAcquire ==
  ASSUME LimiterInv, NEW c \in Callers, running[c] = "reading", Acquire(c)
  PROVE  LimiterInv' /\ \A d \in Callers : running'[d] = "none" <=> running[d] = "none"
  <1>1. CASE /\ slots < Limit /\ slots' = slots + 1 /\ waiters' = waiters
             /\ running' = [running EXCEPT ![c] = "requesting"]
    <2>1. LimiterTypes' /\ WaitersDiffer'
      BY <1>1 DEF LimiterInv, LimiterTypes, WaitersDiffer, Stages
    <2>2. RequestsInFlight' = RequestsInFlight \cup {c} /\ c \notin RequestsInFlight
      BY <1>1 DEF LimiterInv, LimiterTypes, RequestsInFlight
    <2>3. RequestsInFlight \in SUBSET Callers
      BY DEF RequestsInFlight
    <2>4. slots' = Cardinality(RequestsInFlight')
      BY <1>1, <2>2, <2>3, FiniteRequests, FS_AddElement DEF LimiterInv, SlotsAreExact
    <2>5. slots' <= Limit /\ (waiters' # <<>> => slots' = Limit)
      BY <1>1, LimitType DEF LimiterInv, LimiterTypes, SlotsAreExact
    <2>6. \A d \in Callers : running'[d] = "queued" <=> running[d] = "queued"
      BY <1>1 DEF LimiterInv, LimiterTypes
    <2>7. \A d \in Callers : running'[d] = "none" <=> running[d] = "none"
      BY <1>1 DEF LimiterInv, LimiterTypes
    <2> QED
      BY <1>1, <2>1, <2>4, <2>5, <2>6, <2>7 DEF LimiterInv, SlotsAreExact
  <1>2. CASE /\ slots >= Limit /\ waiters' = Append(waiters, c) /\ slots' = slots
             /\ running' = [running EXCEPT ![c] = "queued"]
    <2>1. LimiterTypes'
      BY <1>2 DEF LimiterInv, LimiterTypes, Stages
    <2>2. /\ waiters \in Seq(Callers) /\ Len(waiters) \in Nat
          /\ DOMAIN waiters = 1..Len(waiters) /\ DOMAIN waiters' = 1..Len(waiters) + 1
          /\ \A i \in 1..Len(waiters) : waiters'[i] = waiters[i]
          /\ waiters'[Len(waiters) + 1] = c
      BY <1>2 DEF LimiterInv, LimiterTypes
    <2>3. \A i \in 1..Len(waiters) : waiters[i] # c
      BY <2>2 DEF LimiterInv, SlotsAreExact
    <2>4. WaitersDiffer'
      BY <2>2, <2>3 DEF WaitersDiffer, LimiterInv
    <2>5. RequestsInFlight' = RequestsInFlight
      BY <1>2 DEF LimiterInv, LimiterTypes, RequestsInFlight
    <2>6. slots' = Limit
      BY <1>2, LimitType DEF LimiterInv, LimiterTypes, SlotsAreExact
    <2>7. \A d \in Callers : InLine(d)' <=> InLine(d) \/ d = c
      BY <2>2 DEF InLine
    <2>8. \A d \in Callers : running'[d] = "queued" <=> running[d] = "queued" \/ d = c
      BY <1>2 DEF LimiterInv, LimiterTypes
    <2>9. \A d \in Callers : running'[d] = "none" <=> running[d] = "none"
      BY <1>2 DEF LimiterInv, LimiterTypes
    <2> QED
      BY <1>2, <2>1, <2>4, <2>5, <2>6, <2>7, <2>8, <2>9, LimitType
      DEF LimiterInv, SlotsAreExact, InLine
  <1> QED
    BY <1>1, <1>2 DEF Acquire

\* A slot that is given back is free if nobody waits, and else the oldest
\* waiter's.
LEMMA LimiterRelease ==
  ASSUME LimiterInv, NEW c \in Callers, NEW next \in {"none", "writing"},
         running[c] = "requesting", Release(c, next)
  PROVE  /\ LimiterInv'
         /\ running'[c] = next
         /\ \A d \in Callers \ {c} : running'[d] = "none" <=> running[d] = "none"
  <1>1. /\ IsFiniteSet(RequestsInFlight) /\ c \in RequestsInFlight
        /\ slots = Cardinality(RequestsInFlight) /\ slots \in Nat /\ slots <= Limit
    <2>1. RequestsInFlight \in SUBSET Callers /\ c \in RequestsInFlight
      BY DEF RequestsInFlight
    <2> QED
      BY <2>1, FiniteRequests DEF LimiterInv, LimiterTypes, SlotsAreExact
  <1>2. /\ IsFiniteSet(RequestsInFlight \ {c})
        /\ Cardinality(RequestsInFlight \ {c}) = slots - 1
    BY <1>1, FS_RemoveElement
  <1>3. slots - 1 \in Nat /\ Decremented = slots - 1
    <2>1. Cardinality(RequestsInFlight \ {c}) \in Nat
      BY <1>2, FS_CardinalityType
    <2> QED
      BY <1>1, <1>2, <2>1 DEF Decremented
  <1>4. CASE waiters = <<>>
    <2>1. slots' = slots - 1 /\ running' = [running EXCEPT ![c] = next] /\ waiters' = waiters
      BY <1>3, <1>4 DEF Release
    <2>2. LimiterTypes' /\ WaitersDiffer'
      BY <1>3, <2>1 DEF LimiterInv, LimiterTypes, WaitersDiffer, Stages
    <2>3. RequestsInFlight' = RequestsInFlight \ {c}
      BY <2>1 DEF LimiterInv, LimiterTypes, RequestsInFlight
    <2>4. \A d \in Callers : running'[d] = "queued" <=> running[d] = "queued"
      BY <2>1 DEF LimiterInv, LimiterTypes
    <2>5. slots' <= Limit
      BY <1>1, <2>1, LimitType
    <2>6. SlotsAreExact'
      BY <1>2, <1>4, <2>1, <2>3, <2>4, <2>5 DEF LimiterInv, SlotsAreExact
    <2> QED
      BY <2>1, <2>2, <2>6 DEF LimiterInv, LimiterTypes
  <1>5. CASE waiters # <<>>
    <2> DEFINE h == Head(waiters)
    <2>1. /\ slots' = slots
          /\ running' = [running EXCEPT ![c] = next, ![h] = "requesting"]
          /\ waiters' = Tail(waiters)
      BY <1>1, <1>3, <1>5 DEF Release
    <2>2. /\ Len(waiters) \in Nat \ {0} /\ DOMAIN waiters = 1..Len(waiters)
          /\ h \in Callers /\ h = waiters[1]
          /\ waiters' \in Seq(Callers)
          /\ DOMAIN waiters' = 1..(Len(waiters) - 1)
          /\ \A i \in 1..(Len(waiters) - 1) : waiters'[i] = waiters[i + 1]
      <3>1. waiters \in Seq(Callers)
        BY DEF LimiterInv, LimiterTypes
      <3>2. Len(waiters) \in Nat \ {0} /\ DOMAIN waiters = 1..Len(waiters)
        BY <1>5, <3>1, EmptySeq, LenProperties
      <3>3. /\ Tail(waiters) \in Seq(Callers) /\ Len(Tail(waiters)) = Len(waiters) - 1
            /\ \A i \in 1..Len(Tail(waiters)) : Tail(waiters)[i] = waiters[i + 1]
            /\ h \in Callers
        BY <1>5, <3>1, HeadTailProperties
      <3>4. DOMAIN Tail(waiters) = 1..Len(Tail(waiters))
        BY <3>3, LenProperties
      <3> QED
        BY <2>1, <3>1, <3>2, <3>3, <3>4
    <2>3. running[h] = "queued" /\ h # c
      BY <2>2 DEF LimiterInv, SlotsAreExact
    <2> HIDE DEF h
    <2>4. \A d \in Callers :
            running'[d] = IF d = c THEN next ELSE IF d = h THEN "requesting" ELSE running[d]
      BY <2>1, <2>2, <2>3 DEF LimiterInv, LimiterTypes
    <2>5. LimiterTypes'
      BY <2>1, <2>2 DEF LimiterInv, LimiterTypes, Stages
    <2>6. WaitersDiffer'
      <3>1. SUFFICES ASSUME NEW i \in 1..(Len(waiters) - 1), NEW j \in 1..(Len(waiters) - 1),
                            waiters[i + 1] = waiters[j + 1]
                     PROVE  i = j
        BY <2>2 DEF WaitersDiffer
      <3>2. i + 1 \in 1..Len(waiters) /\ j + 1 \in 1..Len(waiters)
        BY <2>2
      <3>3. i + 1 = j + 1
        BY <2>2, <3>1, <3>2 DEF LimiterInv, WaitersDiffer
      <3> QED
        BY <3>3
    <2>7. RequestsInFlight' = (RequestsInFlight \ {c}) \cup {h} /\ h \notin RequestsInFlight \ {c}
      BY <2>2, <2>3, <2>4 DEF RequestsInFlight
    <2>8. slots' = Cardinality(RequestsInFlight')
      <3> DEFINE rest == RequestsInFlight \ {c}
      <3>1. IsFiniteSet(rest) /\ Cardinality(rest) = slots - 1 /\ h \notin rest
        BY <1>2, <2>7
      <3> HIDE DEF rest
      <3>2. Cardinality(rest \cup {h}) = Cardinality(rest) + 1
        BY <3>1, FS_AddElement
      <3>3. slots' = Cardinality(rest \cup {h})
        BY <1>1, <2>1, <3>1, <3>2
      <3> QED
        BY <2>7, <3>3 DEF rest
    <2>9. ASSUME NEW d \in Callers PROVE running'[d] = "queued" <=> InLine(d)'
      <3>1. running[d] = "queued" <=> \E i \in 1..Len(waiters) : waiters[i] = d
        BY <2>2 DEF LimiterInv, SlotsAreExact
      <3>2. InLine(d)' <=> \E i \in 1..(Len(waiters) - 1) : waiters[i + 1] = d
        BY <2>2 DEF InLine
      <3>3. CASE d = h
        <4>1. ~InLine(d)'
          <5>1. SUFFICES ASSUME NEW i \in 1..(Len(waiters) - 1), waiters[i + 1] = waiters[1]
                         PROVE  FALSE
            BY <2>2, <3>2, <3>3
          <5>2. i + 1 \in 1..Len(waiters) /\ 1 \in 1..Len(waiters)
            BY <2>2
          <5>3. i + 1 = 1
            BY <2>2, <5>1, <5>2 DEF LimiterInv, WaitersDiffer
          <5> QED
            BY <5>3
        <4> QED
          BY <2>3, <2>4, <3>3, <4>1
      <3>4. CASE d = c
        <4>1. ~InLine(d)'
          BY <2>2, <3>1, <3>2, <3>4
        <4> QED
          BY <2>4, <3>4, <4>1
      <3>5. CASE d # h /\ d # c
        <4>1. running'[d] = running[d]
          BY <2>4, <3>5
        <4>2. (\E i \in 1..Len(waiters) : waiters[i] = d)
                <=> \E i \in 1..(Len(waiters) - 1) : waiters[i + 1] = d
          <5>1. ASSUME NEW i \in 1..Len(waiters), waiters[i] = d
                PROVE  \E j \in 1..(Len(waiters) - 1) : waiters[j + 1] = d
            <6>1. i # 1
              BY <2>2, <3>5, <5>1
            <6>2. i - 1 \in 1..(Len(waiters) - 1) /\ (i - 1) + 1 = i
              BY <2>2, <6>1
            <6> QED
              BY <5>1, <6>2
          <5>2. ASSUME NEW i \in 1..(Len(waiters) - 1), waiters[i + 1] = d
                PROVE  \E j \in 1..Len(waiters) : waiters[j] = d
            BY <2>2, <5>2
          <5> QED
            BY <5>1, <5>2
        <4> QED
          BY <3>1, <3>2, <4>1, <4>2
      <3> QED
        BY <3>3, <3>4, <3>5
    <2>10. slots' = Limit
      BY <1>5, <2>1 DEF LimiterInv, SlotsAreExact
    <2>11. SlotsAreExact'
      BY <2>8, <2>9, <2>10, LimitType DEF SlotsAreExact, InLine
    <2> QED
      BY <2>3, <2>4, <2>5, <2>6, <2>11 DEF LimiterInv
  <1> QED
    BY <1>4, <1>5

-----------------------------------------------------------------------------
(* The requests that callers share.                                         *)

KeyTypes ==
  /\ call \in [Callers -> [waitsFor : Keys \cup {"nothing"}, outcome : Outcomes]]
  /\ inFlight \in [Keys -> Callers \cup {NoCaller}]
  /\ cached \in [Keys -> Payloads]

\* A caller whose request runs owns the promise of the key it asked for; the
\* promise of a key is of such a caller; and whoever waits, waits for a promise.
RunnersOwn == \A c \in Callers :
  running[c] # "none" => Waiting(c) /\ inFlight[call[c].waitsFor] = c
OwnersRun == \A k \in Keys :
  inFlight[k] # NoCaller => running[inFlight[k]] # "none" /\ call[inFlight[k]].waitsFor = k
WaitersHavePromise == \A c \in Callers : Waiting(c) => inFlight[call[c].waitsFor] # NoCaller

KeyInv == KeyTypes /\ RunnersOwn /\ OwnersRun /\ WaitersHavePromise

PlanInv == LimiterInv /\ KeyInv

\* What a caller waits for is a key.
LEMMA KeyOf ==
  ASSUME KeyInv, NEW c \in Callers, Waiting(c)
  PROVE  call[c].waitsFor \in Keys
  BY DEF KeyInv, KeyTypes, Waiting

\* The keys do not notice which stage a request is in.
LEMMA KeysElsewhere ==
  ASSUME KeyInv, cached' \in [Keys -> Payloads], UNCHANGED <<call, inFlight>>,
         \A c \in Callers : running'[c] = "none" <=> running[c] = "none"
  PROVE  KeyInv'
  <1>1. \A c \in Callers : Waiting(c)' <=> Waiting(c)
    BY DEF Waiting
  <1> QED
    BY <1>1 DEF KeyInv, KeyTypes, RunnersOwn, OwnersRun, WaitersHavePromise

\* A caller that settles its promise lets go of all that wait for it, and of
\* nobody else.
LEMMA KeysSettle ==
  ASSUME KeyInv, NEW c \in Callers, NEW outcome \in Outcomes, running[c] # "none",
         Settle(c, outcome), cached' \in [Keys -> Payloads], running'[c] = "none",
         \A d \in Callers \ {c} : running'[d] = "none" <=> running[d] = "none"
  PROVE  KeyInv'
  <1> DEFINE k == call[c].waitsFor
  <1>1. /\ call' = [d \in Callers |->
                      IF call[d].waitsFor = k THEN [waitsFor |-> "nothing", outcome |-> outcome]
                      ELSE call[d]]
        /\ inFlight' = [inFlight EXCEPT ![k] = NoCaller]
    BY DEF Settle
  <1>2. k \in Keys /\ inFlight[k] = c
    BY KeyOf DEF KeyInv, RunnersOwn
  <1> HIDE DEF k
  <1>3. KeyTypes'
    <2>1. [waitsFor |-> "nothing", outcome |-> outcome]
             \in [waitsFor : Keys \cup {"nothing"}, outcome : Outcomes]
      OBVIOUS
    <2>2. call' \in [Callers -> [waitsFor : Keys \cup {"nothing"}, outcome : Outcomes]]
      BY <1>1, <2>1 DEF KeyInv, KeyTypes
    <2> QED
      BY <1>1, <1>2, <2>2 DEF KeyInv, KeyTypes
  <1>4. \A d \in Callers :
          /\ call[d].waitsFor = k => ~Waiting(d)'
          /\ call[d].waitsFor # k => call'[d] = call[d] /\ (Waiting(d)' <=> Waiting(d))
    BY <1>1 DEF Waiting
  <1>5. inFlight'[k] = NoCaller /\ \A l \in Keys \ {k} : inFlight'[l] = inFlight[l]
    BY <1>1, <1>2 DEF KeyInv, KeyTypes
  <1>6. \A d \in Callers \ {c} : running[d] # "none" => call[d].waitsFor # k
    BY <1>2 DEF KeyInv, RunnersOwn
  <1>7. RunnersOwn'
    <2>1. SUFFICES ASSUME NEW d \in Callers, running'[d] # "none"
                   PROVE  Waiting(d)' /\ inFlight'[call'[d].waitsFor] = d
      BY DEF RunnersOwn
    <2>2. d # c /\ running[d] # "none"
      BY <2>1
    <2>3. Waiting(d) /\ call[d].waitsFor # k /\ inFlight[call[d].waitsFor] = d
      BY <1>6, <2>2 DEF KeyInv, RunnersOwn
    <2> QED
      BY <1>4, <1>5, <2>3, KeyOf
  <1>8. OwnersRun'
    <2>1. SUFFICES ASSUME NEW l \in Keys, inFlight'[l] # NoCaller
                   PROVE  running'[inFlight'[l]] # "none" /\ call'[inFlight'[l]].waitsFor = l
      BY DEF OwnersRun
    <2>2. l # k /\ inFlight'[l] = inFlight[l] /\ inFlight[l] \in Callers
      BY <1>5, <2>1 DEF KeyInv, KeyTypes
    <2>3. running[inFlight[l]] # "none" /\ call[inFlight[l]].waitsFor = l
      BY <2>1, <2>2 DEF KeyInv, OwnersRun
    <2>4. inFlight[l] # c
      BY <2>2, <2>3 DEF k
    <2> QED
      BY <1>4, <2>2, <2>3, <2>4
  <1>9. WaitersHavePromise'
    <2>1. SUFFICES ASSUME NEW d \in Callers, Waiting(d)'
                   PROVE  inFlight'[call'[d].waitsFor] # NoCaller
      BY DEF WaitersHavePromise
    <2>2. call[d].waitsFor # k /\ Waiting(d) /\ call'[d] = call[d]
      BY <1>4, <2>1
    <2> QED
      BY <1>5, <2>2, KeyOf DEF KeyInv, WaitersHavePromise
  <1> QED
    BY <1>3, <1>7, <1>8, <1>9 DEF KeyInv

-----------------------------------------------------------------------------
(* The steps of the planner.                                                *)

\* A call that finds no promise starts one, in a caller that ran no request.
LEMMA StepPlanJourney ==
  ASSUME PlanInv, NEW c \in Callers, NEW k \in Keys, PlanJourney(c, k)
  PROVE  PlanInv'
  <1> DEFINE asking == [waitsFor |-> k, outcome |-> "none"]
  <1>1. /\ ~Waiting(c) /\ call' = [call EXCEPT ![c] = asking]
        /\ UNCHANGED <<slots, waiters, cached>>
    BY DEF PlanJourney
  <1>2. asking \in [waitsFor : Keys \cup {"nothing"}, outcome : Outcomes] /\ asking.waitsFor = k
    BY DEF Outcomes
  <1> HIDE DEF asking
  <1>3. running[c] = "none"
    BY <1>1 DEF PlanInv, KeyInv, RunnersOwn
  <1>4. /\ call' \in [Callers -> [waitsFor : Keys \cup {"nothing"}, outcome : Outcomes]]
        /\ call'[c].waitsFor = k /\ Waiting(c)'
        /\ \A d \in Callers \ {c} : call'[d] = call[d] /\ (Waiting(d)' <=> Waiting(d))
    BY <1>1, <1>2, JourneyPlanningAssumption DEF PlanInv, KeyInv, KeyTypes, Waiting
  <1>5. CASE inFlight[k] # NoCaller /\ UNCHANGED <<running, inFlight>>
    <2>1. LimiterInv'
      BY <1>1, <1>5
      DEF PlanInv, LimiterInv, LimiterTypes, WaitersDiffer, SlotsAreExact, RequestsInFlight
    <2>2. \A l \in Keys : inFlight[l] # NoCaller => inFlight[l] # c
      BY <1>3 DEF PlanInv, KeyInv, OwnersRun
    <2>3. RunnersOwn' /\ WaitersHavePromise'
      BY <1>3, <1>4, <1>5 DEF PlanInv, KeyInv, RunnersOwn, WaitersHavePromise
    <2>4. OwnersRun'
      BY <1>4, <1>5, <2>2 DEF PlanInv, KeyInv, KeyTypes, OwnersRun
    <2> QED
      BY <1>1, <1>4, <1>5, <2>1, <2>3, <2>4 DEF PlanInv, KeyInv, KeyTypes
  <1>6. CASE /\ inFlight[k] = NoCaller
             /\ inFlight' = [inFlight EXCEPT ![k] = c]
             /\ running' = [running EXCEPT ![c] = "reading"]
    <2>1. LimiterInv'
      BY <1>1, <1>3, <1>6, LimiterElsewhere DEF PlanInv, Stages
    <2>2. inFlight'[k] = c /\ \A l \in Keys \ {k} : inFlight'[l] = inFlight[l]
      BY <1>6 DEF PlanInv, KeyInv, KeyTypes
    <2>3. /\ running'[c] = "reading"
          /\ \A d \in Callers \ {c} : running'[d] = running[d]
      BY <1>6 DEF PlanInv, LimiterInv, LimiterTypes
    <2>4. \A d \in Callers : Waiting(d) => call[d].waitsFor # k
      BY <1>6 DEF PlanInv, KeyInv, WaitersHavePromise
    <2>5. RunnersOwn'
      <3>1. SUFFICES ASSUME NEW d \in Callers \ {c}, running'[d] # "none"
                     PROVE  Waiting(d)' /\ inFlight'[call'[d].waitsFor] = d
        BY <1>4, <2>2 DEF RunnersOwn
      <3>2. Waiting(d) /\ inFlight[call[d].waitsFor] = d
        BY <2>3, <3>1 DEF PlanInv, KeyInv, RunnersOwn
      <3> QED
        BY <1>4, <2>2, <2>4, <3>2, KeyOf DEF PlanInv
    <2>6. OwnersRun'
      <3>1. SUFFICES ASSUME NEW l \in Keys \ {k}, inFlight'[l] # NoCaller
                     PROVE  running'[inFlight'[l]] # "none" /\ call'[inFlight'[l]].waitsFor = l
        BY <1>4, <2>2, <2>3 DEF OwnersRun
      <3>2. inFlight[l] \in Callers /\ inFlight'[l] = inFlight[l]
        BY <2>2, <3>1 DEF PlanInv, KeyInv, KeyTypes
      <3>3. running[inFlight[l]] # "none" /\ call[inFlight[l]].waitsFor = l
        BY <3>1, <3>2 DEF PlanInv, KeyInv, OwnersRun
      <3>4. inFlight[l] # c
        BY <1>3, <3>3
      <3> QED
        BY <1>4, <2>3, <3>2, <3>3, <3>4
    <2>7. WaitersHavePromise'
      <3>1. SUFFICES ASSUME NEW d \in Callers \ {c}, Waiting(d)'
                     PROVE  inFlight'[call'[d].waitsFor] # NoCaller
        BY <1>4, <2>2, JourneyPlanningAssumption DEF WaitersHavePromise
      <3>2. Waiting(d) /\ call[d].waitsFor # k
        BY <1>4, <2>4, <3>1
      <3> QED
        BY <1>4, <2>2, <3>2, KeyOf DEF PlanInv, KeyInv, WaitersHavePromise
    <2>8. KeyTypes'
      BY <1>1, <1>4, <1>6 DEF PlanInv, KeyInv, KeyTypes
    <2> QED
      BY <2>1, <2>5, <2>6, <2>7, <2>8 DEF PlanInv, KeyInv
  <1> QED
    BY <1>5, <1>6 DEF PlanJourney

\* A usable entry of the cache settles the promise.
LEMMA StepCacheHit ==
  ASSUME PlanInv, NEW c \in Callers, CacheHit(c)
  PROVE  PlanInv'
  <1>1. /\ running[c] = "reading" /\ Settle(c, "journeys")
        /\ running' = [running EXCEPT ![c] = "none"]
        /\ UNCHANGED <<slots, waiters, cached>>
    BY DEF CacheHit
  <1>2. LimiterInv'
    BY <1>1, LimiterElsewhere DEF PlanInv, Stages
  <1>3. running'[c] = "none" /\ \A d \in Callers \ {c} : running'[d] = running[d]
    BY <1>1 DEF PlanInv, LimiterInv, LimiterTypes
  <1>4. "journeys" \in Outcomes /\ cached' \in [Keys -> Payloads]
    BY <1>1 DEF Outcomes, PlanInv, KeyInv, KeyTypes
  <1>5. KeyInv'
    BY <1>1, <1>3, <1>4, KeysSettle DEF PlanInv
  <1> QED
    BY <1>2, <1>5 DEF PlanInv

\* A miss leads to the limiter.
LEMMA StepCacheMiss ==
  ASSUME PlanInv, NEW c \in Callers, CacheMiss(c)
  PROVE  PlanInv'
  <1>1. running[c] = "reading" /\ Acquire(c) /\ UNCHANGED <<call, inFlight, cached>>
    BY DEF CacheMiss
  <1>2. LimiterInv' /\ \A d \in Callers : running'[d] = "none" <=> running[d] = "none"
    BY <1>1, LimiterAcquire DEF PlanInv
  <1>3. KeyInv'
    BY <1>1, <1>2, KeysElsewhere DEF PlanInv, KeyInv, KeyTypes
  <1> QED
    BY <1>2, <1>3 DEF PlanInv

\* The write settles the promise, whatever Redis made of it.
LEMMA StepCacheWrite ==
  ASSUME PlanInv, NEW c \in Callers, NEW stored \in Payloads, CacheWrite(c, stored)
  PROVE  PlanInv'
  <1>1. /\ running[c] = "writing" /\ Settle(c, "journeys")
        /\ running' = [running EXCEPT ![c] = "none"]
        /\ cached' = [cached EXCEPT ![call[c].waitsFor] = stored]
        /\ UNCHANGED <<slots, waiters>>
    BY DEF CacheWrite
  <1>2. LimiterInv'
    BY <1>1, LimiterElsewhere DEF PlanInv, Stages
  <1>3. running'[c] = "none" /\ \A d \in Callers \ {c} : running'[d] = running[d]
    BY <1>1 DEF PlanInv, LimiterInv, LimiterTypes
  <1>4. "journeys" \in Outcomes /\ cached' \in [Keys -> Payloads]
    BY <1>1 DEF Outcomes, PlanInv, KeyInv, KeyTypes
  <1>5. KeyInv'
    BY <1>1, <1>3, <1>4, KeysSettle DEF PlanInv
  <1> QED
    BY <1>2, <1>5 DEF PlanInv

\* Whatever the class of a failure, the caller learns of it.
LEMMA OutcomeType ==
  ASSUME NEW class PROVE Outcome(class) \in Outcomes
  BY DEF Outcome, Outcomes

\* A failed request gives its slot back and settles its promise.
LEMMA StepFailRequest ==
  ASSUME PlanInv, NEW c \in Callers, NEW class, FailRequest(c, class)
  PROVE  PlanInv'
  <1>1. /\ running[c] = "requesting" /\ Release(c, "none")
        /\ Settle(c, Outcome(class)) /\ cached' = cached
    BY DEF FailRequest
  <1>2. /\ LimiterInv' /\ running'[c] = "none"
        /\ \A d \in Callers \ {c} : running'[d] = "none" <=> running[d] = "none"
    BY <1>1, LimiterRelease DEF PlanInv
  <1>3. cached' \in [Keys -> Payloads]
    BY <1>1 DEF PlanInv, KeyInv, KeyTypes
  <1>4. KeyInv'
    BY <1>1, <1>2, <1>3, OutcomeType, KeysSettle DEF PlanInv
  <1> QED
    BY <1>2, <1>4 DEF PlanInv

\* An answer gives the slot back before it is written to the cache.
LEMMA StepResponseArrives ==
  ASSUME PlanInv, NEW c \in Callers, NEW class \in Classes, ResponseArrives(c, class)
  PROVE  PlanInv'
  <1>1. CASE /\ running[c] = "requesting" /\ Release(c, "writing")
             /\ UNCHANGED <<call, inFlight, cached>>
    <2>1. /\ LimiterInv' /\ running'[c] = "writing"
          /\ \A d \in Callers \ {c} : running'[d] = "none" <=> running[d] = "none"
      BY <1>1, LimiterRelease DEF PlanInv
    <2>2. KeyInv'
      BY <1>1, <2>1, KeysElsewhere DEF PlanInv, KeyInv, KeyTypes
    <2> QED
      BY <2>1, <2>2 DEF PlanInv
  <1> QED
    BY <1>1, StepFailRequest DEF ResponseArrives

\* An entry that expires takes nobody's promise away.
LEMMA StepExpire ==
  ASSUME PlanInv, NEW k \in Keys, Expire(k)
  PROVE  PlanInv'
  <1>1. /\ cached' = [cached EXCEPT ![k] = "absent"]
        /\ UNCHANGED <<call, running, inFlight, slots, waiters>>
    BY DEF Expire
  <1>2. KeyInv'
    BY <1>1, KeysElsewhere DEF PlanInv, KeyInv, KeyTypes, Payloads
  <1>3. LimiterInv'
    BY <1>1
    DEF PlanInv, LimiterInv, LimiterTypes, WaitersDiffer, SlotsAreExact, RequestsInFlight
  <1> QED
    BY <1>2, <1>3 DEF PlanInv

\* At first nobody waits and no slot is taken.
LEMMA PlanInit ==
  ASSUME PlanningInit PROVE PlanInv
  <1>1. RequestsInFlight = {}
    BY DEF PlanningInit, RequestsInFlight
  <1>2. KeyInv
    BY DEF PlanningInit, KeyInv, KeyTypes, RunnersOwn, OwnersRun, WaitersHavePromise, Waiting,
           Outcomes
  <1>3. LimiterTypes /\ WaitersDiffer
    BY DEF PlanningInit, LimiterTypes, WaitersDiffer, Stages
  <1>4. SlotsAreExact
    BY <1>1, LimitType, FS_EmptySet DEF PlanningInit, SlotsAreExact
  <1> QED
    BY <1>2, <1>3, <1>4 DEF PlanInv, LimiterInv

\* PlanInv is inductive.
LEMMA PlanNext ==
  ASSUME PlanInv, [PlanningNext]_planningVars PROVE PlanInv'
  <1>1. CASE PlanningNext
    BY <1>1, StepPlanJourney, StepCacheHit, StepCacheMiss, StepCacheWrite, StepResponseArrives,
       StepFailRequest, StepExpire
    DEF PlanningNext, TimeoutOrNetworkFailure
  <1>2. CASE UNCHANGED planningVars
    BY <1>2 DEF planningVars, PlanInv, LimiterInv, LimiterTypes, WaitersDiffer, SlotsAreExact,
                RequestsInFlight, KeyInv, KeyTypes, RunnersOwn, OwnersRun, WaitersHavePromise,
                Waiting
  <1> QED
    BY <1>1, <1>2

\* The planner's invariant is of the type.
LEMMA PlanTypes == PlanInv => PlanningTypeOK
  BY DEF PlanInv, LimiterInv, LimiterTypes, KeyInv, KeyTypes, PlanningTypeOK

\* The planner's variables stay in their types.
THEOREM PlanningTypeCorrect == PlanningSpec => []PlanningTypeOK
  <1>1. PlanningInit => PlanInv
    BY PlanInit
  <1>2. PlanInv /\ [PlanningNext]_planningVars => PlanInv'
    BY PlanNext
  <1> QED
    BY <1>1, <1>2, PlanTypes, PTL DEF PlanningSpec

\* The limiter's count is the number of requests at the provider, at most the
\* limit, with no slot free while a caller queues: whichever requests fail, time
\* out or hand their slot over.
THEOREM SlotsStayExact == PlanningSpec => []SlotsAreExact
  <1>1. PlanInv => SlotsAreExact
    BY DEF PlanInv, LimiterInv
  <1>2. PlanningInit => PlanInv
    BY PlanInit
  <1>3. PlanInv /\ [PlanningNext]_planningVars => PlanInv'
    BY PlanNext
  <1> QED
    BY <1>1, <1>2, <1>3, PTL DEF PlanningSpec

\* A request that runs is the one its key is waiting for.
LEMMA PlanIsOne == PlanInv => OneRequestPerKey
  <1> SUFFICES ASSUME PlanInv PROVE OneRequestPerKey
    OBVIOUS
  <1>1. \A c, d \in Callers :
          running[c] # "none" /\ running[d] # "none" /\ call[c].waitsFor = call[d].waitsFor
            => c = d
    BY DEF PlanInv, KeyInv, RunnersOwn
  <1>2. ASSUME NEW c \in Callers, Waiting(c)
        PROVE  /\ inFlight[call[c].waitsFor] # NoCaller
               /\ running[inFlight[call[c].waitsFor]] # "none"
    BY <1>2, KeyOf DEF PlanInv, KeyInv, OwnersRun, WaitersHavePromise
  <1> QED
    BY <1>1, <1>2 DEF OneRequestPerKey

\* A key has one request under way at most, and whoever waits for the key has
\* that request to wait for.
THEOREM OneRequestForKey == PlanningSpec => []OneRequestPerKey
  <1>1. PlanningInit => PlanInv
    BY PlanInit
  <1>2. PlanInv /\ [PlanningNext]_planningVars => PlanInv'
    BY PlanNext
  <1> QED
    BY <1>1, <1>2, PlanIsOne, PTL DEF PlanningSpec

-----------------------------------------------------------------------------
(* The shutdown of the process.                                             *)

\* What shutting down has reached: stop() goes on only when every consumer
\* has let go or was given up, and then only when the dispatcher's loop ended.
ConsumersAreDone == \A q \in Queues : consumer[q] \in {"closed", "timed_out"}

\* A cycle under way counts its workers, and a rejected one leaves all but one.
PoolIsCounted ==
  /\ dispatchLoop # "cycle" => pool = 0
  /\ leftover <= rejects * (PublishConcurrency - 1)

ShutdownInv ==
  /\ WorkerTypeOK
  /\ PoolIsCounted
  /\ \A q \in Queues : consumer[q] = "closed" => q \notin inHand
  /\ shutdown \in {"dispatcher", "resources", "closed"} => ConsumersAreDone
  /\ shutdown \in {"resources", "closed"} => dispatchLoop = "ended"
  /\ shutdown \in {"no", "consumers", "dispatcher"} => closed = 0
  /\ closed > 0 => ConsumersAreDone /\ dispatchLoop = "ended"

\* There are five resources to close.
LEMMA FiveResources == Len(ClosingOrder) = 5
  BY DEF ClosingOrder

\* The consumers' steps.
LEMMA ShutdownConsumers ==
  ASSUME ShutdownInv, NEW q \in Queues, TakeJob(q) \/ EndJob(q) \/ ConsumerCloses(q)
  PROVE  ShutdownInv'
  <1>1. CASE TakeJob(q)
    BY <1>1 DEF TakeJob, dispatcherVars, ShutdownInv, PoolIsCounted, WorkerTypeOK, ConsumersAreDone
  <1>2. CASE EndJob(q)
    BY <1>2 DEF EndJob, dispatcherVars, ShutdownInv, PoolIsCounted, WorkerTypeOK, ConsumersAreDone
  <1>3. CASE ConsumerCloses(q)
    <2>1. PICK end \in {"closed", "timed_out", "rejected"} :
            /\ consumer' = [consumer EXCEPT ![q] = end]
            /\ end = "closed" => q \notin inHand
      BY <1>3 DEF ConsumerCloses
    <2>2. /\ consumer[q] = "closing"
          /\ UNCHANGED <<inHand, dispatchLoop, pool, leftover, rejects, shutdown, closed, received, exitCode>>
      BY <1>3 DEF ConsumerCloses, dispatcherVars
    <2>3. ~ConsumersAreDone
      BY <2>2 DEF ConsumersAreDone
    <2> QED
      BY <2>1, <2>2, <2>3 DEF ShutdownInv, PoolIsCounted, WorkerTypeOK
  <1> QED
    BY <1>1, <1>2, <1>3

\* One more rejected cycle leaves all but one of its workers behind.
LEMMA OneMoreRejects ==
  ASSUME NEW left \in Nat, NEW cycles \in Nat, NEW others \in Nat, NEW more \in 0 .. others,
         left <= cycles * others
  PROVE  left + more <= (cycles + 1) * others
  <1>1. (cycles + 1) * others = cycles * others + others
    OBVIOUS
  <1>2. cycles * others \in Nat
    OBVIOUS
  <1> QED
    BY <1>1, <1>2

\* The dispatcher's loop, which stays ended, and the workers of its cycles.
LEMMA ShutdownLoop ==
  ASSUME ShutdownInv, PoolWorkerEnds \/ CycleEnds \/ CycleRejects \/ LeftoverEnds \/ SleepEnds
  PROVE  ShutdownInv'
  <1> DEFINE others == PublishConcurrency - 1
  <1>1. others \in Nat /\ PublishConcurrency \in Nat
    BY WorkerAssumption
  <1>2. /\ pool \in 0 .. PublishConcurrency /\ leftover \in Nat /\ rejects \in 0 .. MaxRejects
        /\ dispatchLoop \in {"cycle", "sleep", "ended"} /\ MaxRejects \in Nat
    BY WorkerAssumption DEF ShutdownInv, WorkerTypeOK
  <1>3. CASE PoolWorkerEnds
    BY <1>1, <1>2, <1>3
    DEF PoolWorkerEnds, ShutdownInv, PoolIsCounted, WorkerTypeOK, ConsumersAreDone
  <1>4. CASE CycleEnds
    BY <1>4 DEF CycleEnds, AfterCycle, DispatcherStops, ShutdownInv, PoolIsCounted, WorkerTypeOK,
                ConsumersAreDone
  <1>5. CASE CycleRejects
    <2>1. /\ pool' = 0 /\ leftover' = leftover + (pool - 1) /\ rejects' = rejects + 1
          /\ pool > 0 /\ rejects < MaxRejects /\ dispatchLoop = "cycle"
          /\ dispatchLoop' \in {"ended", "sleep"}
          /\ UNCHANGED <<consumer, inHand, shutdown, closed, received, exitCode>>
      BY <1>5 DEF CycleRejects, AfterCycle
    <2>2. leftover <= rejects * others
      BY DEF ShutdownInv, PoolIsCounted
    <2>3. rejects \in Nat /\ pool - 1 \in 0 .. others
      BY <1>1, <1>2, <2>1
    <2>4. leftover + (pool - 1) <= (rejects + 1) * others
      BY <1>1, <1>2, <2>2, <2>3, OneMoreRejects
    <2>5. PoolIsCounted'
      BY <2>1, <2>4 DEF PoolIsCounted
    <2>6. /\ pool' \in 0 .. PublishConcurrency /\ leftover' \in Nat /\ rejects' \in 0 .. MaxRejects
      BY <1>1, <1>2, <2>1, <2>3
    <2>7. WorkerTypeOK'
      BY <2>1, <2>6 DEF ShutdownInv, WorkerTypeOK
    <2> QED
      BY <2>1, <2>5, <2>7 DEF ShutdownInv, WorkerTypeOK, ConsumersAreDone
  <1>6. CASE LeftoverEnds
    <2>1. /\ leftover' = leftover - 1 /\ leftover > 0
          /\ UNCHANGED <<consumer, inHand, dispatchLoop, pool, rejects, shutdown, closed, received, exitCode>>
      BY <1>6 DEF LeftoverEnds
    <2>2. PICK bound : bound = rejects * others
      OBVIOUS
    <2>3. bound \in Nat /\ leftover <= bound
      BY <1>1, <1>2, <2>2 DEF ShutdownInv, PoolIsCounted
    <2>4. leftover' \in Nat /\ leftover' <= bound
      BY <1>2, <2>1, <2>3
    <2>5. PoolIsCounted'
      BY <2>1, <2>2, <2>4 DEF ShutdownInv, PoolIsCounted
    <2> QED
      BY <2>1, <2>4, <2>5 DEF ShutdownInv, WorkerTypeOK, ConsumersAreDone
  <1>7. CASE SleepEnds
    BY <1>2, <1>7 DEF SleepEnds, DispatcherStops, ShutdownInv, PoolIsCounted, WorkerTypeOK,
                      ConsumersAreDone
  <1> QED
    BY <1>3, <1>4, <1>5, <1>6, <1>7

\* Only the first signal touches the consumers, and then nothing is closed.
LEMMA ShutdownSignal ==
  ASSUME ShutdownInv, NEW s \in Signals, Signal(s)
  PROVE  ShutdownInv'
  <1>1. CASE shutdown = "no" /\ shutdown' = "consumers" /\ consumer' = [q \in Queues |-> "closing"]
             /\ exitCode' = exitCode
    BY <1>1 DEF Signal, dispatcherVars, ShutdownInv, PoolIsCounted, WorkerTypeOK, ConsumersAreDone
  <1>2. CASE shutdown # "no" /\ exitCode' = "0" /\ UNCHANGED <<shutdown, consumer>>
    BY <1>2 DEF Signal, dispatcherVars, ShutdownInv, PoolIsCounted, WorkerTypeOK, ConsumersAreDone
  <1> QED
    BY <1>1, <1>2 DEF Signal

\* The steps of stop() itself.
LEMMA ShutdownStop ==
  ASSUME ShutdownInv, ConsumersClosed \/ DispatcherStopped \/ CloseResource \/ Exit
  PROVE  ShutdownInv'
  <1>1. CASE ConsumersClosed
    BY <1>1 DEF ConsumersClosed, dispatcherVars, ShutdownInv, PoolIsCounted, WorkerTypeOK, ConsumersAreDone
  <1>2. CASE DispatcherStopped
    BY <1>2 DEF DispatcherStopped, dispatcherVars, ShutdownInv, PoolIsCounted, WorkerTypeOK, ConsumersAreDone
  <1>3. CASE CloseResource
    BY <1>3, FiveResources DEF CloseResource, dispatcherVars, ShutdownInv, PoolIsCounted, WorkerTypeOK, ConsumersAreDone
  <1>4. CASE Exit
    BY <1>4 DEF Exit, dispatcherVars, ShutdownInv, PoolIsCounted, WorkerTypeOK, ConsumersAreDone
  <1> QED
    BY <1>1, <1>2, <1>3, <1>4

\* A process that starts has closed nothing.
LEMMA ShutdownStart == WorkerInit => ShutdownInv
  BY FiveResources, WorkerAssumption DEF WorkerInit, ShutdownInv, PoolIsCounted, WorkerTypeOK, ConsumersAreDone

\* ShutdownInv is inductive.
LEMMA ShutdownStep == ShutdownInv /\ [WorkerNext]_workerVars => ShutdownInv'
  <1> SUFFICES ASSUME ShutdownInv, [WorkerNext]_workerVars PROVE ShutdownInv'
    OBVIOUS
  <1>1. CASE WorkerNext
    BY <1>1, ShutdownConsumers, ShutdownLoop, ShutdownSignal, ShutdownStop DEF WorkerNext
  <1>2. CASE UNCHANGED workerVars
    BY <1>2 DEF workerVars, dispatcherVars, ShutdownInv, PoolIsCounted, WorkerTypeOK, ConsumersAreDone
  <1> QED
    BY <1>1, <1>2

\* Wherever handlers, timeouts, cycles that end or reject and further signals interleave
\* with the shutdown, nothing is closed but under users it does not wait for:
\* handlers that were given up, and, for each rejected cycle, all workers of its pool
\* but the one that rejected.
THEOREM NothingClosesInUse == WorkerSpec => []NothingClosedInUse
  <1>1. ShutdownInv => NothingClosedInUse
    BY DEF ShutdownInv, PoolIsCounted, WorkerTypeOK, ConsumersAreDone, NothingClosedInUse
  <1> QED
    BY <1>1, ShutdownStart, ShutdownStep, PTL DEF WorkerSpec

-----------------------------------------------------------------------------
(* The map.                                                                 *)

MapShapes ==
  /\ style \in [wanted : Themes, loaded : Themes \cup {None}, ready : BOOLEAN]
  /\ overlays \in [due : BOOLEAN, bound : BOOLEAN]
  /\ scene \in Scenes
  /\ drawn = [routes |-> drawn.routes, stations |-> drawn.stations]
  /\ drawn.stations \in {Missing, Empty} \cup Viewports
  /\ camera = [key |-> camera.key, by |-> camera.by, preserve |-> camera.preserve]
  /\ camera.by \in {"fit", "user"} /\ camera.preserve \in BOOLEAN
  /\ view \in [shown : Viewports, pause : BOOLEAN]
  /\ stations \in [key : Viewports \cup {None}, request : Viewports \cup {None},
                   status : {"idle", "loading", "ready", "zoom", "error", "aggregated"}]
  /\ cache \in Seq(Viewports) /\ Len(cache) <= CacheMax + 1
  /\ mounted \in BOOLEAN

\* A style counts as ready from when it is loaded until it is replaced, and the
\* timer of a style that is loaded is set when it becomes ready.
ReadyIsLoaded ==
  /\ style.ready => style.loaded # None
  /\ overlays.due /\ style.loaded # None => style.ready

\* While overlays are drawn anew, or a new style is awaited, the camera is to stay.
RedrawPreserves ==
  overlays.bound /\ (overlays.due \/ ~style.ready) => camera.preserve

MapInv ==
  /\ MapShapes /\ ReadyIsLoaded /\ RedrawPreserves
  /\ SceneIsShown /\ LoadingHasRequest

\* The step's half of the camera's promise.
CameraStays ==
  camera.by = "user" /\ overlays.bound /\ scene'.key = camera.key => camera'.by = "user"

MapGoodStep == MapInv' /\ CameraStays

\* Every scene is a record, of which nothing but its fields is known.
LEMMA RefreshedStations ==
  ASSUME MapShapes, LoadingHasRequest, NEW now \in Viewports, NEW drawing,
         drawing = [routes |-> drawing.routes, stations |-> drawing.stations],
         drawing.stations \in {Missing, Empty} \cup Viewports,
         Refresh(now, drawing)
  PROVE  /\ stations' \in [key : Viewports \cup {None}, request : Viewports \cup {None},
                          status : {"idle", "loading", "ready", "zoom", "error", "aggregated"}]
         /\ LoadingHasRequest'
         /\ drawn' = [routes |-> drawing.routes, stations |-> drawn'.stations]
         /\ drawn'.stations \in {drawing.stations} \cup Viewports
  <1>1. now # None
    BY SearchMapAssumption
  <1>2. CASE now \in TooWide \/ now = stations.key
    BY <1>2, ZenonT(60) DEF Refresh, MapShapes, LoadingHasRequest
  <1>3. CASE now \notin TooWide /\ now # stations.key /\ now \in ToSet(cache)
    BY <1>3, ZenonT(60) DEF Refresh, MapShapes, LoadingHasRequest
  <1>4. CASE now \notin TooWide /\ now # stations.key /\ now \notin ToSet(cache)
    BY <1>1, <1>4, ZenonT(60) DEF Refresh, MapShapes, LoadingHasRequest
  <1> QED
    BY <1>2, <1>3, <1>4

\* What a new scene leaves of the map's types.
LEMMA SceneDrawn ==
  ASSUME MapShapes, NEW s \in Scenes
  PROVE  /\ WithScene(s) = [routes |-> s.content, stations |-> WithScene(s).stations]
         /\ WithScene(s).stations \in {Empty} \cup Viewports
         /\ WithScene(s).stations # Missing
  BY SearchMapAssumption DEF WithScene, MapShapes, Missing, Empty

\* A fit touches nothing but the key and who moved the camera.
LEMMA FitShape ==
  ASSUME MapShapes, NEW s \in Scenes, NEW force \in BOOLEAN
  PROVE  /\ Fit(s, force) = [key |-> Fit(s, force).key, by |-> Fit(s, force).by,
                            preserve |-> camera.preserve]
         /\ Fit(s, force).by \in {"fit", "user"}
         /\ ~force /\ s.key = camera.key => Fit(s, force) = camera
  BY DEF Fit, MapShapes

\* The page shows another scene.
LEMMA MapSceneChanges ==
  ASSUME MapInv, NEW s \in Scenes, SceneChanges(s) PROVE MapGoodStep
  <1> USE DEF MapInv
  <1>1. scene' = s /\ UNCHANGED <<style, overlays, view, stations, cache, mounted>>
    BY DEF SceneChanges
  <1>2. CASE style.ready
    <2>1. drawn' = WithScene(s) /\ camera' = Fit(s, FALSE)
      BY <1>2 DEF SceneChanges
    <2>2. /\ camera' = [key |-> camera'.key, by |-> camera'.by, preserve |-> camera'.preserve]
          /\ camera'.by \in {"fit", "user"} /\ camera'.preserve = camera.preserve
          /\ s.key = camera.key => camera' = camera
      <3> DEFINE fitted == Fit(s, FALSE)
      <3>1. /\ fitted = [key |-> fitted.key, by |-> fitted.by, preserve |-> camera.preserve]
            /\ fitted.by \in {"fit", "user"}
            /\ s.key = camera.key => fitted = camera
        BY FitShape
      <3>2. camera' = fitted
        BY <2>1
      <3> HIDE DEF fitted
      <3>3. fitted.preserve = camera.preserve
        BY <3>1
      <3> QED
        BY <3>1, <3>2, <3>3
    <2>3. /\ drawn' = [routes |-> drawn'.routes, stations |-> drawn'.stations]
          /\ drawn'.routes = s.content
          /\ drawn'.stations \in {Empty} \cup Viewports /\ drawn'.stations # Missing
      BY <2>1, SceneDrawn
    <2>4. MapShapes'
      BY <1>1, <2>2, <2>3 DEF MapShapes
    <2> QED
      BY <1>1, <2>2, <2>3, <2>4
      DEF MapGoodStep, ReadyIsLoaded, RedrawPreserves, SceneIsShown, LoadingHasRequest, CameraStays
  <1>3. CASE ~style.ready
    <2>1. UNCHANGED <<drawn, camera>>
      BY <1>3 DEF SceneChanges
    <2>2. MapShapes'
      BY <1>1, <2>1 DEF MapShapes
    <2> QED
      BY <1>1, <1>3, <2>1, <2>2
      DEF MapGoodStep, ReadyIsLoaded, RedrawPreserves, SceneIsShown, LoadingHasRequest, CameraStays
  <1> QED
    BY <1>2, <1>3

\* Another theme, and the ways of its style.
LEMMA MapStyles ==
  ASSUME MapInv,
         (\E theme \in Themes : ThemeChanges(theme)) \/ StyleLoads \/ StyleReady
  PROVE  MapGoodStep
  <1> USE DEF MapInv
  <1>1. ASSUME NEW theme \in Themes, ThemeChanges(theme) PROVE MapGoodStep
    BY <1>1 DEF ThemeChanges, AskedFor, Removed, MapGoodStep, MapShapes, ReadyIsLoaded,
               RedrawPreserves, SceneIsShown, LoadingHasRequest, CameraStays
  <1>2. CASE StyleLoads
    BY <1>2, SearchMapAssumption
    DEF StyleLoads, MapGoodStep, MapShapes, ReadyIsLoaded, RedrawPreserves, SceneIsShown,
        LoadingHasRequest, CameraStays
  <1>3. CASE StyleReady
    <2>1. /\ style' = [wanted |-> style.wanted, loaded |-> style.loaded, ready |-> TRUE]
          /\ overlays' = [due |-> TRUE, bound |-> overlays.bound]
          /\ UNCHANGED <<scene, drawn, camera, view, stations, cache, mounted>>
      BY <1>3 DEF StyleReady, MapShapes
    <2>2. MapShapes'
      BY <2>1 DEF MapShapes
    <2>3. ReadyIsLoaded' /\ SceneIsShown' /\ LoadingHasRequest' /\ CameraStays
      BY <1>3, <2>1 DEF StyleReady, ReadyIsLoaded, SceneIsShown, LoadingHasRequest, CameraStays
    <2>4. RedrawPreserves'
      BY <1>3, <2>1 DEF StyleReady, RedrawPreserves
    <2> QED
      BY <2>2, <2>3, <2>4 DEF MapGoodStep
  <1> QED
    BY <1>1, <1>2, <1>3

\* The timer's turn.
LEMMA MapDraws ==
  ASSUME MapInv, DrawOverlays PROVE MapGoodStep
  <1> USE DEF MapInv
  <1>1. CASE style.loaded = None
    BY <1>1 DEF DrawOverlays, MapGoodStep, MapShapes, ReadyIsLoaded, RedrawPreserves, SceneIsShown,
               LoadingHasRequest, CameraStays
  <1>2. CASE style.loaded # None
    <2>1. style.ready /\ overlays' = [due |-> FALSE, bound |-> TRUE]
      BY <1>2 DEF DrawOverlays, ReadyIsLoaded
    <2>2. /\ Refresh(view.shown, WithScene(scene))
          /\ camera' = CameraAfterStyle
          /\ UNCHANGED <<style, scene, view, cache, mounted>>
      BY <1>2 DEF DrawOverlays
    <2>3. /\ stations' \in [key : Viewports \cup {None}, request : Viewports \cup {None},
                           status : {"idle", "loading", "ready", "zoom", "error", "aggregated"}]
          /\ LoadingHasRequest'
          /\ drawn' = [routes |-> WithScene(scene).routes, stations |-> drawn'.stations]
          /\ drawn'.stations \in {WithScene(scene).stations} \cup Viewports
      BY <2>2, SceneDrawn, RefreshedStations DEF MapShapes
    <2>4. /\ camera' = [key |-> camera'.key, by |-> camera'.by, preserve |-> FALSE]
          /\ camera'.by \in {"fit", "user"}
          /\ camera.preserve /\ scene.key = camera.key => camera'.by = camera.by
      <3> DEFINE fitted == Fit(scene, ~camera.preserve)
      <3>1. (~camera.preserve) \in BOOLEAN /\ scene \in Scenes
        BY DEF MapShapes
      <3>2. /\ fitted = [key |-> fitted.key, by |-> fitted.by, preserve |-> camera.preserve]
            /\ fitted.by \in {"fit", "user"}
            /\ camera.preserve /\ scene.key = camera.key => fitted = camera
        BY <3>1, FitShape
      <3> HIDE DEF fitted
      <3>3. camera' = [fitted EXCEPT !.preserve = FALSE]
        BY <2>2 DEF CameraAfterStyle, fitted
      <3> QED
        BY <3>2, <3>3
    <2>5. drawn'.routes = scene.content /\ drawn'.stations # Missing
      BY <2>3, SceneDrawn, SearchMapAssumption DEF MapShapes
    <2>6. MapShapes'
      <3>1. WithScene(scene).stations \in {Empty} \cup Viewports
        BY SceneDrawn DEF MapShapes
      <3>2. /\ drawn' = [routes |-> drawn'.routes, stations |-> drawn'.stations]
            /\ drawn'.stations \in {Missing, Empty} \cup Viewports
        BY <2>3, <3>1
      <3>3. /\ camera' = [key |-> camera'.key, by |-> camera'.by, preserve |-> camera'.preserve]
            /\ camera'.preserve = FALSE
        BY <2>4
      <3> QED
        BY <2>1, <2>2, <2>3, <2>4, <3>2, <3>3 DEF MapShapes
    <2>7. CameraStays
      BY <2>2, <2>4 DEF CameraStays, RedrawPreserves, DrawOverlays
    <2> QED
      BY <2>1, <2>2, <2>3, <2>5, <2>6, <2>7
      DEF MapGoodStep, ReadyIsLoaded, RedrawPreserves, SceneIsShown
  <1> QED
    BY <1>1, <1>2

\* The cache holds viewports, one more than its limit at most.
LEMMA StoredFits ==
  ASSUME MapShapes, NEW v \in Viewports
  PROVE  Store(v) \in Seq(Viewports) /\ Len(Store(v)) <= CacheMax + 1
  <1>1. CacheMax \in Nat /\ cache \in Seq(Viewports) /\ Len(cache) <= CacheMax + 1
    BY SearchMapAssumption DEF MapShapes
  <1>2. CASE Len(cache) > CacheMax
    <2>1. cache # << >>
      BY <1>1, <1>2
    <2>2. Tail(cache) \in Seq(Viewports) /\ Len(Tail(cache)) = Len(cache) - 1
      BY <1>1, <2>1
    <2> QED
      BY <1>1, <1>2, <2>2 DEF Store
  <1>3. CASE ~(Len(cache) > CacheMax)
    BY <1>1, <1>3 DEF Store
  <1> QED
    BY <1>2, <1>3

\* The viewport: a move, and the end of the pause after it.
LEMMA MapMoves ==
  ASSUME MapInv,
         PauseEnds \/ \E v \in Viewports, by \in {"fit", "user"} : Moves(v, by)
  PROVE  MapGoodStep
  <1> USE DEF MapInv
  <1>1. ASSUME NEW v \in Viewports, NEW by \in {"fit", "user"}, Moves(v, by)
        PROVE  MapGoodStep
    <2>1. /\ view' = [shown |-> v, pause |-> overlays.bound]
          /\ camera' = [key |-> camera.key, by |-> by, preserve |-> camera.preserve]
          /\ by = "fit" => camera.by = "fit"
          /\ UNCHANGED <<style, overlays, scene, drawn, stations, cache, mounted>>
      BY <1>1 DEF Moves, MapShapes
    <2>2. MapShapes'
      BY <2>1 DEF MapShapes
    <2> QED
      BY <2>1, <2>2
      DEF MapGoodStep, ReadyIsLoaded, RedrawPreserves, SceneIsShown, LoadingHasRequest, CameraStays
  <1>2. CASE PauseEnds
    <2>1. /\ view' = [shown |-> view.shown, pause |-> FALSE]
          /\ Refresh(view.shown, drawn)
          /\ UNCHANGED <<style, overlays, scene, camera, cache, mounted>>
      BY <1>2 DEF PauseEnds, MapShapes
    <2>2. /\ stations' \in [key : Viewports \cup {None}, request : Viewports \cup {None},
                           status : {"idle", "loading", "ready", "zoom", "error", "aggregated"}]
          /\ LoadingHasRequest'
          /\ drawn' = [routes |-> drawn.routes, stations |-> drawn'.stations]
          /\ drawn'.stations \in {drawn.stations} \cup Viewports
      <3>1. /\ view.shown \in Viewports
            /\ drawn = [routes |-> drawn.routes, stations |-> drawn.stations]
            /\ drawn.stations \in {Missing, Empty} \cup Viewports
        BY DEF MapShapes
      <3> QED
        BY <2>1, <3>1, RefreshedStations
    <2>3. /\ drawn' = [routes |-> drawn'.routes, stations |-> drawn'.stations]
          /\ drawn'.routes = drawn.routes
          /\ drawn'.stations \in {Missing, Empty} \cup Viewports
          /\ drawn.stations # Missing => drawn'.stations # Missing
      BY <2>2, SearchMapAssumption DEF MapShapes
    <2>4. MapShapes'
      BY <2>1, <2>2, <2>3 DEF MapShapes
    <2> QED
      BY <2>1, <2>2, <2>3, <2>4
      DEF MapGoodStep, ReadyIsLoaded, RedrawPreserves, SceneIsShown, CameraStays
  <1> QED
    BY <1>1, <1>2

\* What becomes of a request.
LEMMA MapAnswers ==
  ASSUME MapInv, Answered \/ Refused PROVE MapGoodStep
  <1> USE DEF MapInv
  <1>1. CASE Answered
    <2> DEFINE v == stations.request
    <2>1. v \in Viewports
      BY <1>1 DEF Answered, MapShapes
    <2>2. /\ stations'.key = v /\ stations'.status \in {"aggregated", "ready"}
          /\ stations' = [key |-> stations'.key, status |-> stations'.status, request |-> None]
          /\ cache' = Store(v)
          /\ UNCHANGED <<style, overlays, scene, camera, view, mounted>>
      BY <1>1 DEF Answered
    <2>3. /\ drawn' = [routes |-> drawn'.routes, stations |-> drawn'.stations]
          /\ drawn'.routes = drawn.routes
          /\ drawn'.stations \in {Missing, Empty} \cup Viewports
          /\ drawn.stations # Missing => drawn'.stations # Missing
      BY <1>1, <2>1, SearchMapAssumption DEF Answered, MapShapes
    <2>4. Store(v) \in Seq(Viewports) /\ Len(Store(v)) <= CacheMax + 1
      BY <2>1, StoredFits
    <2> HIDE DEF v
    <2>5. MapShapes'
      BY <2>1, <2>2, <2>3, <2>4 DEF MapShapes
    <2> QED
      BY <2>2, <2>3, <2>5
      DEF MapGoodStep, ReadyIsLoaded, RedrawPreserves, SceneIsShown, LoadingHasRequest, CameraStays
  <1>2. CASE Refused
    <2>1. /\ stations' = [key |-> stations.key, status |-> "error", request |-> None]
          /\ UNCHANGED <<style, overlays, scene, drawn, camera, view, cache, mounted>>
      BY <1>2 DEF Refused, MapShapes
    <2>2. MapShapes'
      BY <2>1 DEF MapShapes
    <2> QED
      BY <2>1, <2>2
      DEF MapGoodStep, ReadyIsLoaded, RedrawPreserves, SceneIsShown, LoadingHasRequest, CameraStays
  <1> QED
    BY <1>1, <1>2

\* The component leaves the page.
LEMMA MapLeaves ==
  ASSUME MapInv, Unmounts PROVE MapGoodStep
  <1> USE DEF MapInv
  <1>1. /\ style' = [wanted |-> style.wanted, loaded |-> style.loaded, ready |-> FALSE]
        /\ overlays' = [due |-> FALSE, bound |-> FALSE]
        /\ drawn' = [routes |-> Missing, stations |-> Missing]
        /\ view' = [shown |-> view.shown, pause |-> FALSE]
        /\ stations' = [key |-> stations.key, status |-> "idle", request |-> None]
        /\ mounted' = FALSE
        /\ UNCHANGED <<scene, camera, cache>>
    BY DEF Unmounts, Removed, MapShapes
  <1>2. MapShapes'
    BY <1>1 DEF MapShapes
  <1> QED
    BY <1>1, <1>2
    DEF MapGoodStep, ReadyIsLoaded, RedrawPreserves, SceneIsShown, LoadingHasRequest, CameraStays

\* A map that has not been drawn yet.
LEMMA MapStart == SearchMapInit => MapInv
  <1> SUFFICES ASSUME SearchMapInit PROVE MapInv
    OBVIOUS
  <1>1. CacheMax \in Nat /\ << >> \in Seq(Viewports) /\ Len(<< >>) = 0
    BY SearchMapAssumption
  <1>2. MapShapes
    <2>1. /\ style \in [wanted : Themes, loaded : Themes \cup {None}, ready : BOOLEAN]
          /\ view \in [shown : Viewports, pause : BOOLEAN]
      BY DEF SearchMapInit
    <2>2. /\ drawn = [routes |-> Missing, stations |-> Missing]
          /\ overlays = [due |-> FALSE, bound |-> FALSE]
          /\ camera = [key |-> None, by |-> "fit", preserve |-> FALSE]
          /\ stations = [key |-> None, status |-> "idle", request |-> None]
          /\ scene \in Scenes /\ cache = << >> /\ mounted = TRUE
      BY DEF SearchMapInit, Removed
    <2> QED
      BY <1>1, <2>1, <2>2 DEF MapShapes
  <1> QED
    BY <1>2
    DEF SearchMapInit, MapInv, ReadyIsLoaded, RedrawPreserves, SceneIsShown, LoadingHasRequest

\* Every step of the map is good.
LEMMA MapStep == MapInv /\ [SearchMapNext]_mapVars => MapGoodStep
  <1> SUFFICES ASSUME MapInv, [SearchMapNext]_mapVars PROVE MapGoodStep
    OBVIOUS
  <1>1. CASE SearchMapNext
    BY <1>1, MapSceneChanges, MapStyles, MapDraws, MapMoves, MapAnswers, MapLeaves
    DEF SearchMapNext
  <1>2. CASE UNCHANGED mapVars
    <2>1. UNCHANGED <<style, overlays, scene, drawn, camera, view, stations, cache, mounted>>
      BY <1>2 DEF mapVars
    <2>2. MapShapes'
      BY <2>1 DEF MapInv, MapShapes
    <2> QED
      BY <2>1, <2>2
      DEF MapInv, MapGoodStep, ReadyIsLoaded, RedrawPreserves, SceneIsShown, LoadingHasRequest,
          CameraStays
  <1> QED
    BY <1>1, <1>2

\* The map's invariant, and its consequence for a type.
LEMMA MapInductive == SearchMapSpec => []MapInv
  <1>1. MapInv /\ [SearchMapNext]_mapVars => MapInv'
    BY MapStep DEF MapGoodStep
  <1> QED
    BY <1>1, MapStart, PTL DEF SearchMapSpec

\* The map's fields are of the type.
LEMMA MapTypes == MapInv => SearchMapTypeOK
  BY DEF MapInv, MapShapes, SearchMapTypeOK

\* The map shows the scene of the page whenever its style is ready and drawn over,
\* in whatever order themes, timers and scenes come (search-map.tsx).
THEOREM SceneStaysShown == SearchMapSpec => []SceneIsShown
  <1>1. MapInv => SceneIsShown
    BY DEF MapInv
  <1> QED
    BY <1>1, MapInductive, PTL

\* A camera the user has moved is moved again only for another scene
\* (search-map.tsx).
THEOREM CameraStaysPut == SearchMapSpec => CameraIsKept
  <1>1. MapInv /\ [SearchMapNext]_mapVars =>
          [camera.by = "user" /\ overlays.bound /\ scene'.key = camera.key
             => camera'.by = "user"]_mapVars
    BY MapStep DEF MapGoodStep, CameraStays
  <1>2. SearchMapSpec =>
          [][camera.by = "user" /\ overlays.bound /\ scene'.key = camera.key
               => camera'.by = "user"]_mapVars
    BY <1>1, MapInductive, PTL DEF SearchMapSpec
  <1> QED
    BY <1>2 DEF CameraIsKept

-----------------------------------------------------------------------------
(* The place field.                                                         *)

Queries == DOMAIN Found \cup {"short"}
PlaceCalls == [id : Nat, seq : Nat, query : Queries, retry : BOOLEAN, aborted : BOOLEAN]

IsArmed == debounce # Off

\* A call whose answer will be shown.
IsLive(c) == ~c.aborted /\ (c.retry \/ c.seq = seq)

FieldShapes ==
  /\ field = [text |-> field.text, selected |-> field.selected]
  /\ field.text \in Texts /\ field.selected \in Selectable \cup {Unset}
  /\ seq \in Nat /\ edits \in Nat /\ seq <= edits /\ edits <= MaxEdits
  /\ IsArmed =>
       /\ debounce = [on |-> TRUE, seq |-> debounce.seq, query |-> debounce.query]
       /\ debounce.seq \in Nat /\ debounce.seq <= seq
       /\ debounce.query \in Queries
  /\ calls \subseteq PlaceCalls /\ \A c \in calls : c.seq <= seq
  /\ abortable \in Nat
  /\ load.is \in {"idle", "loading", "ready", "empty", "error"}
  /\ open \in BOOLEAN

\* The timer is for the text that is in the field, and newer than any request
\* but a retry.
TimerIsNewest ==
  IsArmed =>
    /\ debounce.query = Query[field.text]
    /\ \A c \in calls : ~c.retry => c.seq < debounce.seq

\* With a place selected, nothing is under way that could cover it.
SelectionIsQuiet ==
  field.selected # Unset =>
    load.is = "idle" /\ ~IsArmed /\ \A c \in calls : ~c.aborted /\ ~IsLive(c)

\* A call that will be shown is the one that the next abort ends, and answers the
\* text in the field unless the timer runs for a newer one.
LiveIsCurrent ==
  \A c \in calls : IsLive(c) =>
    /\ c.id = abortable
    /\ load.is \in {"loading", "error"}
    /\ IsArmed \/ c.query = Query[field.text]

\* A retry is alone: what is shown can only come from it.
RetryIsAlone ==
  \A c \in calls : c.retry /\ ~c.aborted =>
    /\ load.is = "loading"
    /\ \A d \in calls : IF d.retry THEN d = c ELSE d.seq < seq

\* Every other call has a sequence number of its own.
CallsDiffer ==
  \A c, d \in calls : ~c.retry /\ ~d.retry /\ c.seq = d.seq => c = d

ComboInv ==
  /\ FieldShapes /\ TimerIsNewest /\ SelectionIsQuiet
  /\ LiveIsCurrent /\ RetryIsAlone /\ CallsDiffer
  /\ SuggestionsAnswerTheText

\* What is assumed of texts and places, but for the empty text.
LEMMA FieldConstants ==
  /\ Selectable \subseteq Texts /\ Unset \notin Selectable
  /\ Query \in [Texts -> Queries]
  /\ MaxEdits \in Nat
  BY ComboboxAssumption, Zenon DEF ComboboxAssumption, Queries

\* At most one call will be shown.
LEMMA OneLiveCall ==
  ASSUME ComboInv, NEW c \in calls, NEW d \in calls, IsLive(c), IsLive(d)
  PROVE  c = d
  <1>1. c \in PlaceCalls /\ d \in PlaceCalls /\ seq \in Nat
    BY DEF ComboInv, FieldShapes
  <1>2. CASE c.retry
    <2>1. ~c.aborted
      BY DEF IsLive
    <2>2. IF d.retry THEN d = c ELSE d.seq < seq
      BY <1>2, <2>1 DEF ComboInv, RetryIsAlone
    <2> QED
      BY <1>1, <2>2 DEF IsLive, PlaceCalls
  <1>3. CASE d.retry
    <2>1. ~d.aborted
      BY DEF IsLive
    <2>2. IF c.retry THEN c = d ELSE c.seq < seq
      BY <1>3, <2>1 DEF ComboInv, RetryIsAlone
    <2> QED
      BY <1>1, <2>2 DEF IsLive, PlaceCalls
  <1>4. CASE ~c.retry /\ ~d.retry
    BY <1>4 DEF IsLive, ComboInv, CallsDiffer
  <1> QED
    BY <1>2, <1>3, <1>4

\* An abort marks the calls of one number, and nothing else.
LEMMA AbortMarks ==
  ASSUME calls \subseteq PlaceCalls
  PROVE  /\ Aborted(calls) \subseteq PlaceCalls
         /\ \A d \in Aborted(calls) : \E c \in calls :
              /\ d.id = c.id /\ d.seq = c.seq /\ d.query = c.query /\ d.retry = c.retry
              /\ d.aborted <=> c.aborted \/ c.id = abortable
         /\ \A d, e \in Aborted(calls) :
              (\A b, c \in calls : ~b.retry /\ ~c.retry /\ b.seq = c.seq => b = c)
                /\ ~d.retry /\ ~e.retry /\ d.seq = e.seq => d = e
  <1> DEFINE Mark(c) == [c EXCEPT !.aborted = @ \/ c.id = abortable]
  <1>1. ASSUME NEW c \in calls
        PROVE  /\ Mark(c) \in PlaceCalls
               /\ Mark(c).id = c.id /\ Mark(c).seq = c.seq /\ Mark(c).query = c.query
               /\ Mark(c).retry = c.retry
               /\ Mark(c).aborted <=> c.aborted \/ c.id = abortable
    <2>1. c \in PlaceCalls
      OBVIOUS
    <2>2. (c.aborted \/ c.id = abortable) \in BOOLEAN
      OBVIOUS
    <2> QED
      BY <2>1, <2>2 DEF PlaceCalls
  <1>2. Aborted(calls) = {Mark(c) : c \in calls}
    BY DEF Aborted
  <1> HIDE DEF Mark
  <1> QED
    BY <1>1, <1>2

\* The text changes, by typing or by clearing a selection.
LEMMA TextChanges ==
  ASSUME ComboInv, NEW t \in Texts, FieldEffect(t, Unset), abortable' = abortable,
         \/ edits' = edits + 1 /\ edits < MaxEdits
         \/ edits' = edits /\ Query[t] = "short"
  PROVE  ComboInv'
  <1> USE DEF ComboInv
  <1>1. /\ field' = [text |-> t, selected |-> Unset]
        /\ field'.text = t /\ field'.selected = Unset
        /\ Query[t] \in Queries
    BY FieldConstants DEF FieldEffect, Queries
  <1>2. edits' \in Nat /\ edits <= edits' /\ edits' <= MaxEdits
    BY FieldConstants DEF FieldShapes
  <1>3. CASE Query[t] = "short"
    <2>1. /\ debounce' = Off /\ load' = Idle /\ open' = FALSE /\ seq' = seq
          /\ calls' = Aborted(calls)
      BY <1>3 DEF FieldEffect
    <2>2. load'.is = "idle" /\ ~IsArmed'
      BY <2>1 DEF Idle, IsArmed
    <2>3. ASSUME NEW d \in calls' PROVE ~(d.aborted = FALSE /\ (d.retry \/ d.seq = seq'))
      <3>1. PICK c \in calls :
              /\ d.id = c.id /\ d.seq = c.seq /\ d.query = c.query /\ d.retry = c.retry
              /\ d.aborted <=> c.aborted \/ c.id = abortable
        BY <2>1, AbortMarks DEF FieldShapes
      <3> QED
        BY <2>1, <3>1 DEF LiveIsCurrent, IsLive
    <2>4. ASSUME NEW d \in calls' PROVE d \in PlaceCalls /\ d.seq <= seq'
      BY <2>1, AbortMarks DEF FieldShapes
    <2>5. FieldShapes'
      <3>1. /\ field' = [text |-> field'.text, selected |-> field'.selected]
            /\ field'.text \in Texts /\ field'.selected \in Selectable \cup {Unset}
        BY <1>1
      <3>2. seq' \in Nat /\ edits' \in Nat /\ seq' <= edits' /\ edits' <= MaxEdits
        BY <1>2, <2>1, FieldConstants DEF FieldShapes
      <3>3. calls' \subseteq PlaceCalls /\ \A c \in calls' : c.seq <= seq'
        BY <2>4
      <3>4. abortable' \in Nat /\ open' \in BOOLEAN
        BY <2>1 DEF FieldShapes
      <3> QED
        BY <2>2, <3>1, <3>2, <3>3, <3>4 DEF FieldShapes
    <2>6. CallsDiffer'
      BY <2>1, AbortMarks DEF CallsDiffer, FieldShapes
    <2>7. LiveIsCurrent' /\ RetryIsAlone'
      BY <2>3, <2>4 DEF LiveIsCurrent, RetryIsAlone, IsLive, PlaceCalls
    <2> QED
      BY <1>1, <2>2, <2>5, <2>6, <2>7
      DEF TimerIsNewest, SelectionIsQuiet, SuggestionsAnswerTheText
  <1>4. CASE Query[t] # "short"
    <2>1. /\ seq' = seq + 1
          /\ debounce' = [on |-> TRUE, seq |-> seq + 1, query |-> Query[t]]
          /\ UNCHANGED <<calls, load, open>>
          /\ edits' = edits + 1
      BY <1>4 DEF FieldEffect
    <2>2. /\ IsArmed' /\ debounce'.seq = seq + 1 /\ debounce'.query = Query[t]
          /\ debounce'.on = TRUE /\ Off.on = FALSE
      BY <2>1 DEF IsArmed, Off
    <2>3. ASSUME NEW c \in calls PROVE c.seq \in Nat /\ c.seq < seq' /\ c \in PlaceCalls
      BY <2>1 DEF FieldShapes, PlaceCalls
    <2>4. FieldShapes'
      BY <1>1, <1>2, <2>1, <2>2, <2>3 DEF FieldShapes
    <2>5. TimerIsNewest'
      BY <1>1, <2>1, <2>2, <2>3 DEF TimerIsNewest, FieldShapes
    <2>6. ASSUME NEW c \in calls, IsLive(c)' PROVE IsLive(c)
      BY <2>3, <2>6 DEF IsLive
    <2>7. LiveIsCurrent'
      BY <2>1, <2>2, <2>6 DEF LiveIsCurrent
    <2>8. RetryIsAlone' /\ CallsDiffer'
      BY <2>1, <2>3 DEF RetryIsAlone, CallsDiffer
    <2> QED
      BY <1>1, <2>2, <2>4, <2>5, <2>7, <2>8 DEF SelectionIsQuiet, SuggestionsAnswerTheText
  <1> QED
    BY <1>3, <1>4

\* A suggestion is picked: a place, or one that cannot be used.
LEMMA PlacePicked == ComboInv /\ SelectPlace => ComboInv'
  <1> SUFFICES ASSUME ComboInv, SelectPlace PROVE ComboInv'
    OBVIOUS
  <1> USE DEF ComboInv
  <1>1. PICK p \in Offered :
          IF p \in Selectable
          THEN FieldEffect(p, p) /\ UNCHANGED <<abortable, edits>>
          ELSE load' = Failure
               /\ UNCHANGED <<field, seq, debounce, calls, abortable, open, edits>>
    BY DEF SelectPlace
  <1>2. load.is = "ready" /\ field.selected = Unset /\ \A c \in calls : ~c.aborted
    BY <1>1 DEF Offered, SelectPlace, IsSettled, SuggestionsAnswerTheText
  <1>3. \A c \in calls : ~IsLive(c)
    BY <1>2 DEF LiveIsCurrent
  <1>4. CASE p \in Selectable
    <2>1. /\ field' = [text |-> p, selected |-> p]
          /\ field'.text = p /\ field'.selected = p /\ p # Unset
          /\ debounce' = Off /\ load' = Idle /\ open' = FALSE
          /\ UNCHANGED <<seq, calls, abortable, edits>>
      BY <1>1, <1>4, FieldConstants DEF FieldEffect
    <2>2. load'.is = "idle" /\ ~IsArmed'
      BY <2>1 DEF Idle, IsArmed
    <2>3. \A c \in calls' : ~IsLive(c)'
      BY <1>3, <2>1 DEF IsLive
    <2>4. FieldShapes'
      <3>1. /\ field' = [text |-> field'.text, selected |-> field'.selected]
            /\ field'.text \in Texts /\ field'.selected \in Selectable \cup {Unset}
        BY <1>4, <2>1, FieldConstants
      <3>2. /\ seq' \in Nat /\ edits' \in Nat /\ seq' <= edits' /\ edits' <= MaxEdits
            /\ calls' \subseteq PlaceCalls /\ \A c \in calls' : c.seq <= seq'
            /\ abortable' \in Nat /\ open' \in BOOLEAN
        BY <2>1 DEF FieldShapes
      <3> QED
        BY <2>2, <3>1, <3>2 DEF FieldShapes
    <2>5. LiveIsCurrent' /\ RetryIsAlone' /\ CallsDiffer'
      BY <2>1, <2>3 DEF LiveIsCurrent, RetryIsAlone, CallsDiffer, IsLive
    <2>6. SelectionIsQuiet'
      BY <1>2, <2>1, <2>2, <2>3 DEF SelectionIsQuiet
    <2> QED
      BY <2>2, <2>4, <2>5, <2>6 DEF TimerIsNewest, SuggestionsAnswerTheText
  <1>5. CASE p \notin Selectable
    <2>1. /\ load' = Failure /\ load'.is = "error"
          /\ UNCHANGED <<field, seq, debounce, calls, abortable, open, edits>>
      BY <1>1, <1>5 DEF Failure
    <2>2. \A c \in calls' : ~IsLive(c)'
      BY <1>3, <2>1 DEF IsLive
    <2>3. FieldShapes' /\ TimerIsNewest'
      BY <2>1 DEF FieldShapes, TimerIsNewest, IsArmed
    <2>4. LiveIsCurrent' /\ RetryIsAlone' /\ CallsDiffer'
      BY <2>1, <2>2 DEF LiveIsCurrent, RetryIsAlone, CallsDiffer, IsLive
    <2> QED
      BY <1>2, <2>1, <2>3, <2>4 DEF SelectionIsQuiet, SuggestionsAnswerTheText
  <1> QED
    BY <1>4, <1>5

\* The timer runs out, and a request goes out in place of the one before.
LEMMA TimerEnds == ComboInv /\ DebounceEnds => ComboInv'
  <1> SUFFICES ASSUME ComboInv, DebounceEnds PROVE ComboInv'
    OBVIOUS
  <1> USE DEF ComboInv
  <1> DEFINE new == PlaceCall(debounce.seq, edits, debounce.query, FALSE)
  <1>1. /\ IsArmed /\ calls' = Aborted(calls) \cup {new}
        /\ abortable' = edits /\ load' = Loading /\ open' = TRUE /\ debounce' = Off
        /\ UNCHANGED <<field, seq, edits>>
    BY DEF DebounceEnds, IsArmed
  <1>2. load'.is = "loading" /\ ~IsArmed' /\ field.selected = Unset
    BY <1>1 DEF Loading, IsArmed, SelectionIsQuiet
  <1>3. /\ new \in PlaceCalls /\ new.seq = debounce.seq /\ new.id = edits
        /\ new.query = Query[field.text] /\ new.retry = FALSE /\ new.aborted = FALSE
    BY <1>1 DEF PlaceCall, PlaceCalls, FieldShapes, TimerIsNewest
  <1> HIDE DEF new
  <1>4. ASSUME NEW d \in Aborted(calls)
        PROVE  /\ d \in PlaceCalls /\ d.seq <= seq
               /\ ~d.retry => d.seq < debounce.seq
               /\ d.retry => d.aborted
               /\ ~(~d.aborted /\ d.seq = seq)
    <2>1. PICK c \in calls :
            /\ d.id = c.id /\ d.seq = c.seq /\ d.query = c.query /\ d.retry = c.retry
            /\ d.aborted <=> c.aborted \/ c.id = abortable
      BY AbortMarks DEF FieldShapes
    <2>2. d \in PlaceCalls
      BY AbortMarks DEF FieldShapes
    <2>3. IsLive(c) => d.aborted
      BY <2>1 DEF LiveIsCurrent
    <2>4. d.seq <= seq /\ (~d.retry => d.seq < debounce.seq)
      BY <1>1, <2>1 DEF TimerIsNewest, FieldShapes
    <2> QED
      BY <2>1, <2>2, <2>3, <2>4 DEF IsLive
  <1>5. debounce.seq \in Nat /\ debounce.seq <= seq /\ seq \in Nat /\ edits \in Nat
    BY <1>1 DEF FieldShapes
  <1>6. FieldShapes'
    <2>1. calls' \subseteq PlaceCalls /\ \A c \in calls' : c.seq <= seq'
      BY <1>1, <1>3, <1>4, <1>5
    <2>2. /\ abortable' \in Nat /\ open' \in BOOLEAN
          /\ seq' \in Nat /\ edits' \in Nat /\ seq' <= edits' /\ edits' <= MaxEdits
          /\ field' = [text |-> field'.text, selected |-> field'.selected]
          /\ field'.text \in Texts /\ field'.selected \in Selectable \cup {Unset}
      BY <1>1, <1>5 DEF FieldShapes
    <2> QED
      BY <1>2, <2>1, <2>2 DEF FieldShapes
  <1>7. ASSUME NEW c \in calls', ~c.aborted, c.retry \/ c.seq = seq PROVE c = new
    BY <1>1, <1>4, <1>7
  <1>8. LiveIsCurrent'
    BY <1>1, <1>2, <1>3, <1>7 DEF LiveIsCurrent, IsLive
  <1>9. RetryIsAlone'
    BY <1>3, <1>7 DEF RetryIsAlone
  <1>10. CallsDiffer'
    <2> SUFFICES ASSUME NEW c \in calls', NEW d \in calls', ~c.retry, ~d.retry, c.seq = d.seq
                 PROVE  c = d
      BY DEF CallsDiffer
    <2>1. CASE c \in Aborted(calls) /\ d \in Aborted(calls)
      BY <2>1, AbortMarks DEF CallsDiffer, FieldShapes
    <2>2. CASE c = new /\ d = new
      BY <2>2
    <2>3. CASE c = new /\ d \in Aborted(calls)
      BY <1>3, <1>4, <1>5, <2>3 DEF PlaceCalls
    <2>4. CASE d = new /\ c \in Aborted(calls)
      BY <1>3, <1>4, <1>5, <2>4 DEF PlaceCalls
    <2> QED
      BY <1>1, <2>1, <2>2, <2>3, <2>4
  <1> QED
    BY <1>1, <1>2, <1>6, <1>8, <1>9, <1>10
    DEF TimerIsNewest, SelectionIsQuiet, SuggestionsAnswerTheText

\* Retry: a request that no later number makes stale.
LEMMA Retried == ComboInv /\ RetrySuggestions => ComboInv'
  <1> SUFFICES ASSUME ComboInv, RetrySuggestions PROVE ComboInv'
    OBVIOUS
  <1> USE DEF ComboInv
  <1> DEFINE new == PlaceCall(seq + 1, edits + 1, Query[field.text], TRUE)
  <1>1. /\ load = Failure /\ edits < MaxEdits
        /\ edits' = edits + 1 /\ seq' = seq + 1 /\ calls' = calls \cup {new}
        /\ abortable' = edits + 1 /\ load' = Loading
        /\ UNCHANGED <<field, debounce, open>>
        /\ \A c \in calls : ~c.aborted
    BY DEF RetrySuggestions, IsSettled
  <1>2. load.is = "error" /\ load'.is = "loading"
    BY <1>1 DEF Failure, Loading
  <1>3. field.selected = Unset /\ field.text \in Texts /\ seq \in Nat /\ edits \in Nat
    BY <1>2 DEF SelectionIsQuiet, FieldShapes
  <1>4. /\ new \in PlaceCalls /\ new.seq = seq + 1 /\ new.id = edits + 1
        /\ new.query = Query[field.text] /\ new.retry = TRUE /\ new.aborted = FALSE
    <2>1. new = [id |-> edits + 1, seq |-> seq + 1, query |-> Query[field.text],
                 retry |-> TRUE, aborted |-> FALSE]
      BY DEF PlaceCall
    <2>2. Query[field.text] \in Queries /\ edits + 1 \in Nat /\ seq + 1 \in Nat
      BY <1>3, FieldConstants
    <2> HIDE DEF new
    <2> QED
      BY <2>1, <2>2 DEF PlaceCalls
  <1> HIDE DEF new
  <1>5. ASSUME NEW c \in calls
        PROVE  c \in PlaceCalls /\ c.retry = FALSE /\ c.seq \in Nat /\ c.seq <= seq
    BY <1>1, <1>2 DEF RetryIsAlone, FieldShapes, PlaceCalls
  <1>11. seq' = seq + 1 /\ seq \in Nat
    BY <1>1, <1>3
  <1>12. \A c \in calls : c.retry = FALSE /\ c.seq \in Nat /\ c.seq <= seq /\ c.seq < seq'
    <2> TAKE c \in calls
    <2>1. c.retry = FALSE /\ c.seq \in Nat /\ c.seq <= seq
      BY <1>5
    <2> QED
      BY <1>11, <2>1
  <1>6. FieldShapes'
    <2>1. calls' \subseteq PlaceCalls /\ \A c \in calls' : c.seq <= seq'
      <3>1. \A c \in calls : c.seq <= seq'
        BY <1>11, <1>12
      <3>2. new.seq <= seq'
        BY <1>1, <1>3, <1>4
      <3> QED
        BY <1>1, <1>4, <1>5, <3>1, <3>2
    <2>2. /\ abortable' \in Nat /\ open' \in BOOLEAN
          /\ seq' \in Nat /\ edits' \in Nat /\ seq' <= edits' /\ edits' <= MaxEdits
      BY <1>1, <1>3, FieldConstants DEF FieldShapes
    <2>3. /\ field' = [text |-> field'.text, selected |-> field'.selected]
          /\ field'.text \in Texts /\ field'.selected \in Selectable \cup {Unset}
      BY <1>1 DEF FieldShapes
    <2>4. IsArmed' =>
            /\ debounce' = [on |-> TRUE, seq |-> debounce'.seq, query |-> debounce'.query]
            /\ debounce'.seq \in Nat /\ debounce'.seq <= seq'
            /\ debounce'.query \in Queries
      BY <1>1, <1>3 DEF FieldShapes, IsArmed
    <2> QED
      BY <1>2, <2>1, <2>2, <2>3, <2>4 DEF FieldShapes
  <1>7. ASSUME NEW c \in calls', ~c.aborted, c.retry \/ c.seq = seq' PROVE c = new
    BY <1>1, <1>12, <1>7
  <1>8. LiveIsCurrent'
    BY <1>1, <1>2, <1>4, <1>7 DEF LiveIsCurrent, IsLive
  <1>9. RetryIsAlone'
    <2>1. \A d \in calls : d.retry = FALSE /\ d.seq < seq'
      BY <1>12
    <2>2. \A d \in calls' : IF d.retry THEN d = new ELSE d.seq < seq'
      BY <1>1, <1>4, <2>1
    <2> QED
      BY <1>2, <1>7, <2>2 DEF RetryIsAlone
  <1>10. CallsDiffer' /\ TimerIsNewest'
    BY <1>1, <1>4 DEF CallsDiffer, TimerIsNewest, IsArmed
  <1> QED
    BY <1>1, <1>2, <1>3, <1>6, <1>8, <1>9, <1>10 DEF SelectionIsQuiet, SuggestionsAnswerTheText

\* A call that ends without being shown leaves the others as they are.
LEMMA FewerCalls ==
  ASSUME ComboInv, calls' \subseteq calls,
         UNCHANGED <<field, seq, debounce, abortable, load, edits>>, open' \in BOOLEAN
  PROVE  ComboInv'
  <1> USE DEF ComboInv
  <1>1. FieldShapes'
    BY DEF FieldShapes, IsArmed
  <1>2. TimerIsNewest' /\ SelectionIsQuiet' /\ SuggestionsAnswerTheText'
    BY DEF TimerIsNewest, SelectionIsQuiet, SuggestionsAnswerTheText, IsArmed, IsLive
  <1>3. LiveIsCurrent'
    BY DEF LiveIsCurrent, IsArmed, IsLive
  <1>4. RetryIsAlone' /\ CallsDiffer'
    BY DEF RetryIsAlone, CallsDiffer
  <1> QED
    BY <1>1, <1>2, <1>3, <1>4

\* A call is shown: no other call is left to be.
LEMMA CallShown ==
  ASSUME ComboInv, NEW c \in calls, NEW shown, IsHeeded(c),
         ~c.aborted \/ (c.retry /\ shown = Failure),
         shown = Failure \/ (shown = Answer(c.query) /\ ~c.aborted),
         ShowAnswer(c, shown)
  PROVE  ComboInv'
  <1> USE DEF ComboInv
  <1>1. /\ calls' = calls \ {c} /\ load' = shown
        /\ open' = (open \/ ~c.retry)
        /\ UNCHANGED <<field, seq, debounce, abortable, edits>>
    BY DEF ShowAnswer
  <1>2. shown.is \in {"ready", "empty", "error"}
    BY DEF Failure, Answer
  <1>3. field.selected = Unset
    BY DEF SelectionIsQuiet, IsLive, IsHeeded
  <1>4. ASSUME NEW d \in calls', IsLive(d)' PROVE ~IsLive(c) /\ shown = Failure
    <2>1. IsLive(d) /\ d \in calls /\ d # c
      BY <1>1, <1>4 DEF IsLive
    <2>2. ~IsLive(c)
      BY <2>1, OneLiveCall
    <2> QED
      BY <2>2 DEF IsLive, IsHeeded
  <1>5. FieldShapes'
    <2>1. open' \in BOOLEAN
      BY <1>1
    <2>2. load'.is \in {"idle", "loading", "ready", "empty", "error"}
      BY <1>1, <1>2
    <2> QED
      BY <1>1, <2>1, <2>2 DEF FieldShapes, IsArmed
  <1>6. TimerIsNewest' /\ SelectionIsQuiet' /\ CallsDiffer'
    BY <1>1, <1>3 DEF TimerIsNewest, SelectionIsQuiet, CallsDiffer, IsArmed
  <1>7. LiveIsCurrent'
    <2> SUFFICES ASSUME NEW d \in calls', IsLive(d)'
                 PROVE  /\ d.id = abortable
                        /\ load'.is \in {"loading", "error"}
                        /\ IsArmed \/ d.query = Query[field.text]
      BY <1>1 DEF LiveIsCurrent, IsArmed
    <2>1. load'.is = "error"
      BY <1>1, <1>4 DEF Failure
    <2>2. IsLive(d) /\ d \in calls
      BY <1>1 DEF IsLive
    <2> QED
      BY <2>1, <2>2 DEF LiveIsCurrent
  <1>8. RetryIsAlone'
    <2> SUFFICES ASSUME NEW d \in calls', d.retry, ~d.aborted PROVE FALSE
      BY DEF RetryIsAlone
    <2>1. d \in calls /\ d # c
      BY <1>1
    <2>2. IF c.retry THEN c = d ELSE c.seq < seq
      BY <2>1 DEF RetryIsAlone
    <2>3. c.seq \in Nat /\ seq \in Nat
      BY DEF FieldShapes, PlaceCalls
    <2> QED
      BY <2>1, <2>2, <2>3 DEF IsHeeded
  <1>9. SuggestionsAnswerTheText'
    <2> SUFFICES ASSUME load'.is \in {"ready", "empty"}
                 PROVE  debounce = Off => load'.query = Query[field.text]
      BY <1>1, <1>3 DEF SuggestionsAnswerTheText
    <2>1. shown = Answer(c.query) /\ ~c.aborted
      BY <1>1 DEF Failure
    <2>2. IsLive(c) /\ load'.query = c.query
      BY <1>1, <2>1 DEF IsLive, IsHeeded, Answer
    <2> QED
      BY <2>2 DEF LiveIsCurrent, IsArmed
  <1> QED
    BY <1>5, <1>6, <1>7, <1>8, <1>9

\* Every end of a call.
LEMMA CallsEnd ==
  ASSUME ComboInv,
         \/ SuggestionsAnswered \/ SuggestionsRefused
         \/ SuggestionsRejected \/ SuggestionsRefusedInHalf
  PROVE  ComboInv'
  <1>1. ASSUME NEW c \in calls, NEW shown, ShowAnswer(c, shown),
               ~c.aborted \/ (c.retry /\ shown = Failure),
               shown = Failure \/ (shown = Answer(c.query) /\ ~c.aborted)
        PROVE  ComboInv'
    <2>1. CASE IsHeeded(c)
      BY <1>1, <2>1, CallShown
    <2>2. CASE ~IsHeeded(c)
      <3>1. /\ calls' \subseteq calls
            /\ UNCHANGED <<field, seq, debounce, abortable, load, open, edits>>
        BY <1>1, <2>2 DEF ShowAnswer
      <3> QED
        BY <3>1, FewerCalls DEF ComboInv, FieldShapes
    <2> QED
      BY <2>1, <2>2
  <1>2. ASSUME NEW c \in calls, Ignore(c) PROVE ComboInv'
    <2>1. /\ calls' \subseteq calls
          /\ UNCHANGED <<field, seq, debounce, abortable, load, open, edits>>
      BY <1>2 DEF Ignore
    <2> QED
      BY <2>1, FewerCalls DEF ComboInv, FieldShapes
  <1>3. CASE SuggestionsAnswered
    BY <1>1, <1>3 DEF SuggestionsAnswered
  <1>4. CASE SuggestionsRefused
    BY <1>1, <1>4 DEF SuggestionsRefused
  <1>5. CASE SuggestionsRejected
    BY <1>1, <1>2, <1>5 DEF SuggestionsRejected
  <1>6. CASE SuggestionsRefusedInHalf
    BY <1>1, <1>6 DEF SuggestionsRefusedInHalf
  <1> QED
    BY <1>3, <1>4, <1>5, <1>6

\* An empty field asks for nothing.
LEMMA FieldStart == ComboboxInit => ComboInv
  <1> SUFFICES ASSUME ComboboxInit PROVE ComboInv
    OBVIOUS
  <1>1. \E t \in Texts : field = [text |-> t, selected |-> Unset]
    BY ComboboxAssumption, Zenon DEF ComboboxAssumption, ComboboxInit
  <1>2. debounce = Off /\ calls = {} /\ load = Idle
    BY Zenon DEF ComboboxInit
  <1>6. seq = 0 /\ abortable = 0 /\ edits = 0
    BY Zenon DEF ComboboxInit
  <1>7. open \in BOOLEAN
    BY Zenon DEF ComboboxInit
  <1> HIDE DEF ComboboxInit
  <1>3. load.is = "idle" /\ ~IsArmed
    BY <1>2 DEF Idle, IsArmed
  <1>4. /\ field.text \in Texts /\ field = [text |-> field.text, selected |-> field.selected]
        /\ field.selected = Unset
    BY <1>1
  <1>5. FieldShapes
    <2>1. /\ seq \in Nat /\ edits \in Nat /\ seq <= edits /\ edits <= MaxEdits
          /\ calls \subseteq PlaceCalls /\ abortable \in Nat /\ open \in BOOLEAN
      BY <1>2, <1>6, <1>7, FieldConstants
    <2>2. \A c \in calls : c.seq <= seq
      BY <1>2
    <2> QED
      BY <1>3, <1>4, <2>1, <2>2 DEF FieldShapes
  <1> QED
    BY <1>2, <1>3, <1>4, <1>5
    DEF ComboInv, TimerIsNewest, SelectionIsQuiet, LiveIsCurrent, RetryIsAlone,
        CallsDiffer, SuggestionsAnswerTheText

\* Every step of the field keeps the invariant.
LEMMA FieldStep == ComboInv /\ [ComboboxNext]_comboboxVars => ComboInv'
  <1> SUFFICES ASSUME ComboInv, [ComboboxNext]_comboboxVars PROVE ComboInv'
    OBVIOUS
  <1>1. CASE Edit
    <2>1. edits < MaxEdits /\ edits' = edits + 1 /\ abortable' = abortable
      BY <1>1 DEF Edit
    <2>2. PICK t \in Texts : FieldEffect(t, Unset)
      BY <1>1 DEF Edit
    <2> QED
      BY <2>1, <2>2, TextChanges
  <1>2. CASE ClearSelection
    <2>1. \E t \in Texts : Query[t] = "short" /\ FieldEffect(t, Unset)
      BY <1>2, ComboboxAssumption, Zenon DEF ComboboxAssumption, ClearSelection
    <2>2. PICK t \in Texts : Query[t] = "short" /\ FieldEffect(t, Unset)
      BY <2>1
    <2>3. abortable' = abortable /\ edits' = edits
      BY <1>2, Zenon DEF ClearSelection
    <2> QED
      BY <2>2, <2>3, TextChanges
  <1>3. CASE CloseList \/ OpenList
    <2>1. UNCHANGED <<field, seq, debounce, calls, abortable, load, edits>> /\ open' \in BOOLEAN
      BY <1>3 DEF CloseList, OpenList
    <2> QED
      BY <2>1, FewerCalls
  <1>4. CASE UNCHANGED comboboxVars
    <2>1. UNCHANGED <<field, seq, debounce, calls, abortable, load, open, edits>>
      BY <1>4 DEF comboboxVars
    <2> QED
      BY <2>1, FewerCalls DEF ComboInv, FieldShapes
  <1>5. CASE ComboboxNext
    BY <1>1, <1>2, <1>3, <1>5, PlacePicked, TimerEnds, Retried, CallsEnd DEF ComboboxNext
  <1> QED
    BY <1>4, <1>5

\* The field's invariant is of the type.
LEMMA FieldTypes == ComboInv => ComboboxTypeOK
  <1> SUFFICES ASSUME ComboInv PROVE ComboboxTypeOK
    OBVIOUS
  <1>1. FieldShapes
    BY DEF ComboInv
  <1>2. seq \in 0 .. MaxEdits /\ edits \in 0 .. MaxEdits
    BY <1>1, FieldConstants DEF FieldShapes
  <1>3. \A c \in calls : c.seq <= seq /\ c.query \in DOMAIN Found \cup {"short"}
    BY <1>1 DEF FieldShapes, PlaceCalls, Queries
  <1> QED
    BY <1>1, <1>2, <1>3 DEF FieldShapes, ComboboxTypeOK, IsArmed

\* What the panel offers answers the text in the field, and a place that has been
\* selected is not covered by a late answer (place-combobox.tsx).
THEOREM SuggestionsStayCurrent == ComboboxSpec => []SuggestionsAnswerTheText
  <1>1. ComboInv => SuggestionsAnswerTheText
    BY DEF ComboInv
  <1> QED
    BY <1>1, FieldStart, FieldStep, PTL DEF ComboboxSpec

-----------------------------------------------------------------------------
(* The form.                                                                *)

\* Every step of the form keeps it waited for.
LEMMA FormStep == FormIsWaitedFor /\ [FormNext]_formVars => FormIsWaitedFor'
  <1> SUFFICES ASSUME FormIsWaitedFor, [FormNext]_formVars PROVE FormIsWaitedFor'
    OBVIOUS
  <1>1. CASE AddTraveler \/ RemoveTraveler \/ OriginChanges \/ OtherFieldsChange
    BY <1>1 DEF AddTraveler, RemoveTraveler, OriginChanges, OtherFieldsChange, FormIsWaitedFor
  <1>2. CASE Submit
    <2>1. Sent.is = "sent" /\ NoCreation.is = "none"
      BY DEF Sent, NoCreation
    <2>2. creation' = Sent \/ ~submitting'
      BY <1>2 DEF Submit
    <2> QED
      BY <2>1, <2>2 DEF FormIsWaitedFor
  <1>3. CASE Stores
    <2>1. UNCHANGED <<submitting, route>> /\ (creation' = creation \/ creation'.is = "accepted")
      BY <1>3 DEF Stores
    <2>2. NoCreation.is = "none"
      BY DEF NoCreation
    <2> QED
      BY <2>1, <2>2 DEF FormIsWaitedFor
  <1>4. CASE Refuses
    <2>1. creation'.is = "refused" /\ NoCreation.is = "none"
      BY <1>4 DEF Refuses, NoCreation
    <2> QED
      BY <2>1 DEF FormIsWaitedFor
  <1>5. CASE Accepted
    BY <1>5 DEF Accepted, FormIsWaitedFor
  <1>6. CASE CreationRefused \/ Breaks
    BY <1>6 DEF CreationRefused, Breaks, Fails, FormIsWaitedFor
  <1>7. CASE UNCHANGED formVars
    BY <1>7 DEF formVars, FormIsWaitedFor
  <1>8. CASE FormNext
    BY <1>1, <1>2, <1>3, <1>4, <1>5, <1>6, <1>8 DEF FormNext
  <1> QED
    BY <1>7, <1>8

\* A locked form waits for its request, or has led to the search: no failure of
\* the request leaves the traveler before a spinner (search-form.tsx).
THEOREM FormStaysWaitedFor == FormSpec => []FormIsWaitedFor
  <1>1. FormInit => FormIsWaitedFor
    BY DEF FormInit, FormIsWaitedFor
  <1>2. FormIsWaitedFor /\ [FormNext]_formVars => FormIsWaitedFor'
    BY FormStep
  <1> QED
    BY <1>1, <1>2, PTL DEF FormSpec

-----------------------------------------------------------------------------
(* The page of a search.                                                    *)

PageStatuses == {"queued", "running", "completed", "failed"}
Ended    == {"completed", "failed"}

\* The requests of the attempt that counts.
Live == { r \in requests : ~IsStale(r) }

\* What a summary says of the search was true, and is final if the search had ended.
IsPast(summary) ==
  /\ summary \in PageStatuses /\ found
  /\ Progress(summary) <= Progress(searchStatus)
  /\ summary \in Ended => summary = searchStatus

\* Results are asked for when the search has completed.
IsPageRequest(r) ==
  /\ r = [gen |-> r.gen, for |-> r.for, answer |-> r.answer]
  /\ r.gen \in Nat /\ 1 <= r.gen /\ r.gen <= generation
  /\ r.for \in {"summary", "results"}
  /\ r.for = "results" => found /\ searchStatus = "completed"
  /\ r.answer.is \in {"none", "lost", "missing", "summary", "results"}
  /\ r.answer.is = "none" => r.answer = NoAnswer
  /\ r.answer.is = "missing" => ~found
  /\ r.answer.is = "summary" => r.for = "summary" /\ IsPast(r.answer.status)
  /\ r.answer.is = "results" => r.for = "results" /\ r.answer.cities \subseteq PageCities

PageShapes ==
  /\ searchStatus \in PageStatuses /\ searchRanking \subseteq PageCities
  /\ found \in BOOLEAN /\ timer \in BOOLEAN
  /\ generation \in Nat /\ 1 <= generation
  /\ lost \in Nat /\ lost <= MaxLost
  /\ \A r \in requests : IsPageRequest(r)
  /\ page = [kind |-> page.kind, summary |-> page.summary, results |-> page.results,
             cities |-> page.cities]
  /\ page.kind \in {"loading", "not_found", "network_error"} \cup PageStatuses
  /\ page.results \in {"none", "loading", "shown"} /\ page.cities \subseteq PageCities
  /\ choice = [mode |-> choice.mode, city |-> choice.city] /\ choice.mode \in PageModes
  /\ panel \in {"closed", "loading", "error", "detail"}
  /\ details \in {"none", "loading", "rejected", "error", "ready"}
  /\ newSearch \in {"unopened", "open", "left"}

\* The attempt that counts has failed, whether the page knows it or not.
HasFailed == (\E r \in Live : r.answer.is = "lost") \/ (page.kind = "network_error" /\ Live = {})

\* A press of Retry that nothing calls for is bounded; any other follows a failure.
RetriesAreCaused ==
  /\ generation <= MaxGenerations + lost
  /\ HasFailed => generation < MaxGenerations + lost

\* One request, or one timer for the next, is what the page waits for.
OneAttempt ==
  /\ \A q, r \in Live : q = r
  /\ timer => Live = {}

\* The page shows what the last summary said, and its own state of the results.
PageFollowsSummary ==
  /\ page.summary # "none" => IsPast(page.summary)
  /\ page.kind \in PageStatuses => page.summary = page.kind
  /\ page.kind = "not_found" => ~found
  /\ page.results # "none" => page.kind = "completed"

\* The answer that is under way is not older than what is shown.
AnswersAreNewer ==
  \A r \in Live : r.answer.is = "summary" => Progress(page.summary) <= Progress(r.answer.status)

\* Nothing more is asked for once all is shown, and after a completed search only
\* its results.
EndIsQuiet ==
  /\ page.kind \in {"failed", "not_found"} \/ HasResults => Live = {}
  /\ page.kind \in {"completed", "failed", "not_found"} => ~timer
  /\ page.kind = "completed" => \A r \in Live : r.for = "results"

\* What is revealed is of the progress that is shown.
RevealedInBounds ==
  /\ progress = [steps |-> progress.steps, travelers |-> progress.travelers]
  /\ progress.steps \in Nat /\ progress.travelers \in Nat
  /\ IF PageBody = "progress"
     THEN progress.steps <= Target.steps /\ progress.travelers <= Target.travelers
     ELSE progress = NothingRevealed

PageInv ==
  /\ PageShapes /\ RetriesAreCaused /\ OneAttempt /\ PageFollowsSummary
  /\ AnswersAreNewer /\ EndIsQuiet /\ RevealedInBounds
  /\ PageIsWaitedFor

\* What a step may do to what the page shows.
ViewStep ==
  /\ PageBody = "progress" /\ PageBody' = "progress" =>
       /\ progress.steps <= progress'.steps /\ progress'.steps <= Target'.steps
       /\ progress.travelers <= progress'.travelers
       /\ progress'.travelers <= Target'.travelers
  /\ Progress(page'.summary) >= Progress(page.summary)
  /\ page.kind \in {"completed", "failed"} => page'.kind \in {page.kind, "network_error"}
  /\ HasResults => page' = page

PageGoodStep == PageInv' /\ ViewStep

\* What the summaries count for.
LEMMA ProgressCounts ==
  /\ Progress("none") = 0 /\ Progress("queued") = 1 /\ Progress("running") = 2
  /\ Progress("completed") = 3 /\ Progress("failed") = 3
  BY DEF Progress

\* What stands in the page's body, by its state.
LEMMA PageBodies ==
  ASSUME page.kind \in {"loading", "not_found", "network_error"} \cup PageStatuses
  PROVE  /\ PageBody = "progress" <=> newSearch # "open" /\ page.kind \in Polled
         /\ PageBody = "retry" => page.kind = "network_error" /\ ~HasResults
  <1>1. CASE newSearch = "open"
    BY <1>1 DEF PageBody, PageStatuses, Polled
  <1>2. CASE newSearch # "open" /\ page.kind \in Polled
    <2>1. PageBody = "progress"
      BY <1>2 DEF PageBody
    <2> QED
      BY <1>2, <2>1
  <1>3. CASE newSearch # "open" /\ page.kind \notin Polled
    <2>1. CASE HasResults
      <3>1. PageBody = "results"
        BY <1>3, <2>1 DEF PageBody
      <3> QED
        BY <1>3, <3>1
    <2>2. CASE ~HasResults /\ page.kind = "network_error"
      <3>1. PageBody = "retry"
        BY <1>3, <2>2 DEF PageBody
      <3> QED
        BY <1>3, <2>2, <3>1
    <2>3. CASE ~HasResults /\ page.kind \in {"loading", "completed"}
      <3>1. PageBody = "skeleton"
        BY <1>3, <2>3 DEF PageBody, Polled
      <3> QED
        BY <1>3, <3>1
    <2>4. CASE ~HasResults /\ page.kind \in {"not_found", "failed"}
      <3>1. PageBody = "reply"
        BY <1>3, <2>4 DEF PageBody, Polled
      <3> QED
        BY <1>3, <3>1
    <2> QED
      BY <1>3, <2>1, <2>2, <2>3, <2>4 DEF PageStatuses, Polled
  <1> QED
    BY <1>1, <1>2, <1>3

\* What the progress may come to.
LEMMA Targets ==
  /\ Target = [steps |-> Target.steps, travelers |-> Target.travelers]
  /\ Target.steps \in Nat /\ Target.travelers \in Nat
  /\ page.kind = "queued" => Target.steps = 1 /\ Target.travelers = 0
  /\ page.kind # "queued" => Target.steps = 2 /\ Target.travelers = PageTravelers
  BY SearchPageAssumption DEF SearchPageAssumption, Target

\* A step that leaves page and progress alone.
LEMMA PageQuiet ==
  ASSUME PageInv, UNCHANGED <<page, newSearch, progress>>
  PROVE  RevealedInBounds' /\ ViewStep
  <1>1. PageBody' = PageBody /\ Target' = Target
    BY DEF PageBody, HasResults, Target
  <1>2. RevealedInBounds'
    BY <1>1 DEF PageInv, RevealedInBounds
  <1>3. page.summary \in {"none"} \cup PageStatuses
    BY DEF PageInv, PageFollowsSummary, IsPast
  <1>4. Progress(page'.summary) >= Progress(page.summary)
    BY <1>3, ProgressCounts DEF PageStatuses
  <1> QED
    BY <1>1, <1>2, <1>4 DEF PageInv, RevealedInBounds, ViewStep

\* The search goes on, and never back.
LEMMA ServerSteps ==
  ASSUME searchStatus \in PageStatuses, searchRanking \subseteq PageCities, Server!Next
  PROVE  /\ searchStatus' \in PageStatuses /\ searchRanking' \subseteq PageCities
         /\ Progress(searchStatus) <= Progress(searchStatus')
         /\ searchStatus \in Ended => searchStatus' = searchStatus
  <1>1. CASE Server!Start
    BY <1>1, ProgressCounts DEF Server!Start, PageStatuses, Ended
  <1>2. CASE Server!Rank
    BY <1>2, ProgressCounts DEF Server!Rank, PageStatuses, Ended
  <1>3. CASE Server!CompleteEmpty
    BY <1>3, ProgressCounts DEF Server!CompleteEmpty, PageStatuses, Ended
  <1>4. CASE Server!Fail
    BY <1>4, ProgressCounts DEF Server!Fail, PageStatuses, Ended
  <1> QED
    BY <1>1, <1>2, <1>3, <1>4 DEF Server!Next

\* The search proceeds while the page looks on.
LEMMA SearchGoesOn == PageInv /\ SearchProceeds => PageGoodStep
  <1> SUFFICES ASSUME PageInv, SearchProceeds PROVE PageGoodStep
    OBVIOUS
  <1> USE DEF PageInv
  <1>1. UNCHANGED <<found, generation, requests, timer, page, choice, panel, details, lost,
                    newSearch, progress>>
    BY DEF SearchProceeds, revealVars
  <1>2. /\ searchStatus' \in PageStatuses /\ searchRanking' \subseteq PageCities
        /\ Progress(searchStatus) <= Progress(searchStatus')
        /\ searchStatus \in Ended => searchStatus' = searchStatus
    BY ServerSteps DEF SearchProceeds, PageShapes
  <1>3. ASSUME NEW s, IsPast(s) PROVE IsPast(s)'
    <2>1. Progress(s) \in Nat /\ Progress(searchStatus) \in Nat /\ Progress(searchStatus') \in Nat
      BY <1>2, <1>3, ProgressCounts DEF IsPast, PageShapes, PageStatuses
    <2>2. s \in Ended => s = searchStatus'
      BY <1>2, <1>3 DEF IsPast
    <2> QED
      BY <1>1, <1>2, <1>3, <2>1, <2>2 DEF IsPast
  <1>4. \A r \in requests' : IsPageRequest(r)'
    <2> SUFFICES ASSUME NEW r \in requests PROVE IsPageRequest(r)'
      BY <1>1
    <2>1. IsPageRequest(r)
      BY DEF PageShapes
    <2>2. r.for = "results" => searchStatus' = "completed"
      BY <1>2, <2>1 DEF IsPageRequest, Ended
    <2>3. r.answer.is = "summary" => IsPast(r.answer.status)'
      BY <1>3, <2>1 DEF IsPageRequest
    <2> QED
      BY <1>1, <2>1, <2>2, <2>3 DEF IsPageRequest
  <1>5. PageShapes'
    BY <1>1, <1>2, <1>4 DEF PageShapes
  <1>6. Live' = Live
    BY <1>1 DEF Live, IsStale
  <1>7. RetriesAreCaused' /\ OneAttempt' /\ AnswersAreNewer' /\ EndIsQuiet' /\ PageIsWaitedFor'
    BY <1>1, <1>6
    DEF RetriesAreCaused, HasFailed, OneAttempt, AnswersAreNewer, EndIsQuiet, PageIsWaitedFor,
        HasResults, IsStale
  <1>8. PageFollowsSummary'
    BY <1>1, <1>3 DEF PageFollowsSummary
  <1> QED
    BY <1>1, <1>5, <1>7, <1>8, PageQuiet DEF PageGoodStep

\* A request gets its answer, a new one at most as old as what is shown.
LEMMA RequestMet ==
  ASSUME PageInv, NEW r \in requests, NEW a, r.answer = NoAnswer,
         requests' = (requests \ {r}) \cup {[r EXCEPT !.answer = a]},
         UNCHANGED <<serverVars, found, generation, timer, page, choice, panel, details, newSearch,
                     progress>>,
         lost' \in Nat, lost <= lost', lost' <= MaxLost,
         a.is \in {"lost", "missing", "summary", "results"},
         a.is = "lost" => lost' = lost + 1,
         a.is = "missing" => ~found,
         a.is = "summary" => /\ r.for = "summary" /\ IsPast(a.status)
                             /\ Progress(page.summary) <= Progress(a.status),
         a.is = "results" => r.for = "results" /\ a.cities \subseteq PageCities
  PROVE  PageGoodStep
  <1> USE DEF PageInv
  <1> DEFINE met == [r EXCEPT !.answer = a]
  <1>1. IsPageRequest(r)
    BY DEF PageShapes
  <1>2. met = [gen |-> r.gen, for |-> r.for, answer |-> a]
    BY <1>1 DEF IsPageRequest
  <1>3. requests' = (requests \ {r}) \cup {met}
    OBVIOUS
  <1> HIDE DEF met
  <1>4. met.gen = r.gen /\ met.for = r.for /\ met.answer = a
    BY <1>2
  <1>5. /\ UNCHANGED <<searchStatus, found, generation, timer, page, choice, panel, details>>
        /\ searchRanking' = searchRanking
    BY DEF serverVars
  <1>6. ASSUME NEW q, IsPageRequest(q) PROVE IsPageRequest(q)'
    BY <1>5, <1>6 DEF IsPageRequest, IsPast
  <1>7. IsPageRequest(met)
    <2>1. met = [gen |-> met.gen, for |-> met.for, answer |-> met.answer]
      BY <1>2, <1>4
    <2> QED
      BY <1>1, <1>4, <2>1 DEF IsPageRequest
  <1>8. PageShapes'
    <2>1. \A q \in requests' : IsPageRequest(q)'
      BY <1>3, <1>6, <1>7 DEF PageShapes
    <2> QED
      BY <1>5, <2>1 DEF PageShapes
  <1>9. Live' = IF IsStale(r) THEN Live ELSE (Live \ {r}) \cup {met}
    BY <1>3, <1>4, <1>5 DEF Live, IsStale
  <1>10. Live' = {} <=> Live = {}
    BY <1>9 DEF Live
  <1>11. RetriesAreCaused'
    <2>1. generation \in Nat /\ lost \in Nat /\ MaxGenerations \in Nat
      BY SearchPageAssumption DEF PageShapes, SearchPageAssumption
    <2>2. HasFailed' => HasFailed \/ lost' = lost + 1
      BY <1>4, <1>5, <1>9, <1>10 DEF HasFailed
    <2> QED
      BY <1>5, <2>1, <2>2 DEF RetriesAreCaused
  <1>12. OneAttempt'
    BY <1>5, <1>9, <1>10 DEF OneAttempt, Live
  <1>13. AnswersAreNewer'
    BY <1>4, <1>5, <1>9 DEF AnswersAreNewer
  <1>14. EndIsQuiet'
    <2>1. page.kind = "completed" => \A q \in Live' : q.for = "results"
      BY <1>4, <1>9 DEF EndIsQuiet, Live
    <2> QED
      BY <1>5, <1>10, <2>1 DEF EndIsQuiet, HasResults
  <1>15. PageFollowsSummary'
    BY <1>5 DEF PageFollowsSummary, IsPast
  <1>16. PageIsWaitedFor'
    <2>1. (\E q \in requests : ~IsStale(q)) <=> Live # {}
      BY DEF Live
    <2>2. (\E q \in requests' : ~IsStale(q)') <=> Live' # {}
      BY DEF Live
    <2> QED
      BY <1>5, <1>10, <2>1, <2>2 DEF PageIsWaitedFor
  <1> QED
    BY <1>8, <1>11, <1>12, <1>13, <1>14, <1>15, <1>16, PageQuiet DEF PageGoodStep

\* An answer is read from the server, or lost on the way.
LEMMA RequestServed ==
  ASSUME PageInv, NEW r \in requests, Serve(r) \/ Lose(r) PROVE PageGoodStep
  <1> USE DEF PageInv
  <1>1. /\ r.answer = NoAnswer /\ IsPageRequest(r)
        /\ lost \in Nat /\ lost <= MaxLost /\ MaxLost \in Nat /\ found \in BOOLEAN
    BY SearchPageAssumption DEF Serve, Lose, PageShapes, SearchPageAssumption
  <1>2. CASE Lose(r)
    <2>1. /\ requests' = (requests \ {r}) \cup {[r EXCEPT !.answer = Lost]}
          /\ lost' = lost + 1 /\ lost < MaxLost
          /\ UNCHANGED <<serverVars, found, generation, timer, page, choice, panel, details,
                         newSearch, progress>>
      BY <1>2 DEF Lose, revealVars
    <2>2. Lost.is = "lost"
      BY DEF Lost
    <2>3. lost' \in Nat /\ lost <= lost' /\ lost' <= MaxLost
      BY <1>1, <2>1
    <2> QED
      BY <1>1, <2>1, <2>2, <2>3, RequestMet
  <1>3. CASE Serve(r)
    <2>1. /\ requests' = (requests \ {r}) \cup {[r EXCEPT !.answer = AnswerOf(r)]}
          /\ lost' = lost
          /\ UNCHANGED <<serverVars, found, generation, timer, page, choice, panel, details,
                         newSearch, progress>>
      BY <1>3 DEF Serve, revealVars
    <2>2. lost' \in Nat /\ lost <= lost' /\ lost' <= MaxLost
      BY <1>1, <2>1
    <2>3. CASE ~found
      <3>1. AnswerOf(r).is = "missing"
        BY <2>3 DEF AnswerOf
      <3> QED
        BY <1>1, <2>1, <2>2, <2>3, <3>1, RequestMet
    <2>4. CASE found /\ r.for = "summary"
      <3>1. AnswerOf(r) = [is |-> "summary", status |-> searchStatus]
        BY <2>4 DEF AnswerOf, SummaryAnswer
      <3>2. AnswerOf(r).is = "summary" /\ AnswerOf(r).status = searchStatus
        BY <3>1
      <3>3. Progress(searchStatus) \in Nat /\ searchStatus \in PageStatuses
        BY ProgressCounts DEF PageShapes, PageStatuses
      <3>4. IsPast(AnswerOf(r).status)
        BY <2>4, <3>2, <3>3 DEF IsPast
      <3>5. Progress(page.summary) <= Progress(AnswerOf(r).status)
        BY <3>2, <3>3, ProgressCounts DEF PageFollowsSummary, IsPast
      <3> QED
        BY <1>1, <2>1, <2>2, <2>4, <3>2, <3>4, <3>5, RequestMet
    <2>5. CASE found /\ r.for = "results"
      <3>1. AnswerOf(r) = [is |-> "results", cities |-> searchRanking]
        BY <1>1, <2>5 DEF AnswerOf, ResultsAnswer, IsPageRequest
      <3>2. AnswerOf(r).is = "results" /\ AnswerOf(r).cities \subseteq PageCities
        BY <3>1 DEF PageShapes
      <3> QED
        BY <1>1, <2>1, <2>2, <2>5, <3>2, RequestMet
    <2> QED
      BY <1>1, <2>3, <2>4, <2>5 DEF IsPageRequest
  <1> QED
    BY <1>2, <1>3

\* The parts of the invariant that are about the attempts, when nothing of them changes.
LEMMA AttemptsStay ==
  ASSUME PageInv,
         UNCHANGED <<serverVars, found, generation, requests, timer, page>>,
         lost' \in Nat, lost <= lost', lost' <= MaxLost,
         choice' = [mode |-> choice'.mode, city |-> choice'.city], choice'.mode \in PageModes,
         panel' \in {"closed", "loading", "error", "detail"},
         details' \in {"none", "loading", "rejected", "error", "ready"},
         newSearch' \in {"unopened", "open", "left"},
         panel' = "loading" => details' = "loading"
  PROVE  /\ PageShapes' /\ RetriesAreCaused' /\ OneAttempt' /\ PageFollowsSummary'
         /\ AnswersAreNewer' /\ EndIsQuiet' /\ PageIsWaitedFor'
  <1> USE DEF PageInv
  <1>1. /\ UNCHANGED <<searchStatus, searchRanking, found, generation, requests, timer, page>>
        /\ Live' = Live
    BY DEF serverVars, Live, IsStale
  <1>2. PageShapes'
    <2>1. \A r \in requests' : IsPageRequest(r)'
      BY <1>1 DEF PageShapes, IsPageRequest, IsPast
    <2> QED
      BY <1>1, <2>1 DEF PageShapes
  <1>3. RetriesAreCaused'
    <2>1. generation \in Nat /\ lost \in Nat /\ MaxGenerations \in Nat
      BY SearchPageAssumption DEF PageShapes, SearchPageAssumption
    <2> QED
      BY <1>1, <2>1 DEF RetriesAreCaused, HasFailed
  <1>4. OneAttempt' /\ PageFollowsSummary' /\ AnswersAreNewer' /\ EndIsQuiet'
    BY <1>1
    DEF OneAttempt, PageFollowsSummary, IsPast, AnswersAreNewer, EndIsQuiet, HasResults
  <1>5. PageIsWaitedFor'
    BY <1>1 DEF PageIsWaitedFor, IsStale
  <1> QED
    BY <1>2, <1>3, <1>4, <1>5

\* Choosing, and what the panel of a journey does.
LEMMA ReaderChooses ==
  ASSUME PageInv,
         \/ \E mode \in PageModes : ChangeMode(mode)
         \/ \E city \in PageCities : Select(city)
         \/ OpenPanel \/ ClosePanel \/ RetryPanel
         \/ \E outcome \in {DetailAnswer, "error", "rejected"} : DetailsArrive(outcome)
  PROVE  PageGoodStep
  <1> USE DEF PageInv
  <1>1. /\ lost \in Nat /\ lost <= MaxLost /\ MaxLost \in Nat
        /\ choice = [mode |-> choice.mode, city |-> choice.city] /\ choice.mode \in PageModes
        /\ panel \in {"closed", "loading", "error", "detail"}
        /\ details \in {"none", "loading", "rejected", "error", "ready"}
        /\ newSearch \in {"unopened", "open", "left"}
        /\ panel = "loading" => details = "loading"
    BY SearchPageAssumption DEF SearchPageAssumption, PageShapes, PageIsWaitedFor
  <1>2. /\ UNCHANGED <<serverVars, found, generation, requests, timer, page, newSearch, progress>>
        /\ lost' = lost \/ (lost' = lost + 1 /\ lost < MaxLost)
    BY <1>1 DEF ChangeMode, Select, OpenPanel, ClosePanel, RetryPanel, DetailsArrive, revealVars
  <1>3. lost' \in Nat /\ lost <= lost' /\ lost' <= MaxLost /\ newSearch' = newSearch
    BY <1>1, <1>2
  <1>4. choice' = [mode |-> choice'.mode, city |-> choice'.city] /\ choice'.mode \in PageModes
    <2>1. CASE \E mode \in PageModes : ChangeMode(mode)
      BY <2>1 DEF ChangeMode, FirstInMode
    <2>2. CASE \E city \in PageCities : Select(city)
      <3>1. PICK city \in PageCities : choice' = [choice EXCEPT !.city = city]
        BY <2>2 DEF Select
      <3>2. choice' = [mode |-> choice.mode, city |-> city]
        BY <1>1, <3>1
      <3> QED
        BY <1>1, <3>2
    <2>3. CASE UNCHANGED choice
      BY <1>1, <2>3
    <2> QED
      BY <2>1, <2>2, <2>3 DEF OpenPanel, ClosePanel, RetryPanel, DetailsArrive
  <1>5. /\ panel' \in {"closed", "loading", "error", "detail"}
        /\ details' \in {"none", "loading", "rejected", "error", "ready"}
        /\ panel' = "loading" => details' = "loading"
    <2>1. CASE \/ \E mode \in PageModes : ChangeMode(mode)
               \/ \E city \in PageCities : Select(city)
               \/ ClosePanel \/ RetryPanel
      BY <1>1, <2>1 DEF ChangeMode, Select, ClosePanel, RetryPanel
    <2>2. CASE OpenPanel
      BY <1>1, <2>2 DEF OpenPanel, Load
    <2>3. CASE \E outcome \in {DetailAnswer, "error", "rejected"} : DetailsArrive(outcome)
      <3>1. PICK outcome \in {DetailAnswer, "error", "rejected"} : DetailsArrive(outcome)
        BY <2>3
      <3>2. outcome \in {"ready", "error", "rejected"}
        BY <3>1 DEF DetailAnswer
      <3>3. details' = outcome /\ panel' = Shown(outcome)
        BY <3>1 DEF DetailsArrive
      <3>4. Shown(outcome) \in {"closed", "error", "detail"}
        BY <1>1 DEF Shown
      <3> QED
        BY <3>2, <3>3, <3>4
    <2> QED
      BY <2>1, <2>2, <2>3
  <1>6. /\ PageShapes' /\ RetriesAreCaused' /\ OneAttempt' /\ PageFollowsSummary'
        /\ AnswersAreNewer' /\ EndIsQuiet' /\ PageIsWaitedFor'
    BY <1>1, <1>2, <1>3, <1>4, <1>5, AttemptsStay
  <1>7. RevealedInBounds' /\ ViewStep
    BY <1>2, PageQuiet
  <1> QED
    BY <1>6, <1>7 DEF PageGoodStep

\* Progress is revealed, and the form takes the page's place and gives it back.
LEMMA PageTurns == PageInv /\ (Reveal \/ ToggleNewSearch) => PageGoodStep
  <1> SUFFICES ASSUME PageInv, Reveal \/ ToggleNewSearch PROVE PageGoodStep
    OBVIOUS
  <1> USE DEF PageInv
  <1>1. /\ lost \in Nat /\ lost <= MaxLost
        /\ choice = [mode |-> choice.mode, city |-> choice.city] /\ choice.mode \in PageModes
        /\ panel \in {"closed", "loading", "error", "detail"}
        /\ details \in {"none", "loading", "rejected", "error", "ready"}
        /\ newSearch \in {"unopened", "open", "left"}
        /\ panel = "loading" => details = "loading"
    BY DEF PageShapes, PageIsWaitedFor
  <1>2. /\ UNCHANGED <<serverVars, found, generation, requests, timer, page, choice, details, lost>>
        /\ newSearch' \in {"unopened", "open", "left"}
        /\ panel' \in {"closed", panel}
    BY <1>1 DEF Reveal, ToggleNewSearch
  <1>3. /\ PageShapes' /\ RetriesAreCaused' /\ OneAttempt' /\ PageFollowsSummary'
        /\ AnswersAreNewer' /\ EndIsQuiet' /\ PageIsWaitedFor'
    <2>1. /\ lost' \in Nat /\ lost <= lost' /\ lost' <= MaxLost
          /\ choice' = [mode |-> choice'.mode, city |-> choice'.city]
          /\ choice'.mode \in PageModes
          /\ panel' \in {"closed", "loading", "error", "detail"}
          /\ details' \in {"none", "loading", "rejected", "error", "ready"}
          /\ panel' = "loading" => details' = "loading"
      BY <1>1, <1>2
    <2> QED
      BY <1>2, <2>1, AttemptsStay
  <1>4. Progress(page'.summary) >= Progress(page.summary)
    BY <1>2, ProgressCounts DEF PageFollowsSummary, IsPast, PageStatuses
  <1>5. Target' = Target
    BY <1>2 DEF Target
  <1>6. /\ progress = [steps |-> progress.steps, travelers |-> progress.travelers]
        /\ progress.steps \in Nat /\ progress.travelers \in Nat
        /\ PageBody = "progress" =>
             progress.steps <= Target.steps /\ progress.travelers <= Target.travelers
        /\ PageBody # "progress" => progress = NothingRevealed
        /\ Target.steps \in Nat /\ Target.travelers \in Nat
        /\ Target = [steps |-> Target.steps, travelers |-> Target.travelers]
    BY Targets DEF RevealedInBounds
  <1>7. CASE Reveal
    <2>1. /\ PageBody = "progress" /\ progress # Target /\ PageBody' = PageBody
          /\ \/ progress' = Target
             \/ progress' = IF progress.steps < Target.steps
                            THEN [progress EXCEPT !.steps = @ + 1]
                            ELSE [progress EXCEPT !.travelers = @ + 1]
      BY <1>7 DEF Reveal, PageBody, HasResults
    <2>2. /\ progress' = [steps |-> progress'.steps, travelers |-> progress'.travelers]
          /\ progress'.steps \in Nat /\ progress'.travelers \in Nat
          /\ progress.steps <= progress'.steps /\ progress'.steps <= Target.steps
          /\ progress.travelers <= progress'.travelers
          /\ progress'.travelers <= Target.travelers
      <3>1. CASE progress' = Target
        BY <1>6, <2>1, <3>1
      <3>2. CASE progress.steps < Target.steps /\ progress' = [progress EXCEPT !.steps = @ + 1]
        <4>1. progress' = [steps |-> progress.steps + 1, travelers |-> progress.travelers]
          BY <1>6, <3>2
        <4> QED
          BY <1>6, <2>1, <3>2, <4>1
      <3>3. CASE /\ ~(progress.steps < Target.steps)
                 /\ progress' = [progress EXCEPT !.travelers = @ + 1]
        <4>1. progress' = [steps |-> progress.steps, travelers |-> progress.travelers + 1]
          BY <1>6, <3>3
        <4>2. progress.travelers # Target.travelers
          BY <1>6, <2>1, <3>3
        <4> QED
          BY <1>6, <2>1, <3>3, <4>1, <4>2
      <3> QED
        BY <2>1, <3>1, <3>2, <3>3
    <2>3. RevealedInBounds'
      BY <1>5, <2>1, <2>2 DEF RevealedInBounds
    <2>4. ViewStep
      BY <1>2, <1>4, <1>5, <2>2 DEF ViewStep
    <2> QED
      BY <1>3, <2>3, <2>4 DEF PageGoodStep
  <1>8. CASE ToggleNewSearch
    <2>1. /\ newSearch' = IF newSearch = "open" THEN "left" ELSE "open"
          /\ progress' = IF PageBody' = "progress" THEN progress ELSE NothingRevealed
      BY <1>8 DEF ToggleNewSearch, ProgressOfBody
    <2>2. NothingRevealed = [steps |-> NothingRevealed.steps,
                             travelers |-> NothingRevealed.travelers]
          /\ NothingRevealed.steps = 0 /\ NothingRevealed.travelers = 0
      BY DEF NothingRevealed
    <2>3. PageBody = "progress" => PageBody' # "progress"
      BY <1>2, <2>1 DEF PageBody
    <2>4. RevealedInBounds'
      <3>1. CASE PageBody' = "progress"
        BY <1>5, <1>6, <2>1, <2>2, <2>3, <3>1 DEF RevealedInBounds
      <3>2. CASE PageBody' # "progress"
        BY <2>1, <2>2, <3>2 DEF RevealedInBounds
      <3> QED
        BY <3>1, <3>2
    <2>5. ViewStep
      BY <1>2, <1>4, <2>3 DEF ViewStep
    <2> QED
      BY <1>3, <2>4, <2>5 DEF PageGoodStep
  <1> QED
    BY <1>7, <1>8

\* A summary is asked for: by the timer, or as a new attempt.
LEMMA SummaryAsked == PageInv /\ (Poll \/ Retry) => PageGoodStep
  <1> SUFFICES ASSUME PageInv, Poll \/ Retry PROVE PageGoodStep
    OBVIOUS
  <1> USE DEF PageInv
  <1>12. PICK new : new = [gen |-> generation', for |-> "summary", answer |-> NoAnswer]
    OBVIOUS
  <1>1. /\ UNCHANGED <<serverVars, found, page, choice, panel, details, lost, newSearch, progress>>
        /\ requests' = requests \cup {new} /\ timer' = FALSE
    BY <1>12 DEF Poll, Retry, Request, revealVars
  <1>2. /\ UNCHANGED <<searchStatus, searchRanking, found, page, choice, panel, details, lost>>
        /\ generation \in Nat /\ lost \in Nat /\ MaxGenerations \in Nat
    BY <1>1, SearchPageAssumption DEF serverVars, PageShapes, SearchPageAssumption
  <1>3. /\ generation' \in Nat /\ 1 <= generation' /\ generation <= generation'
        /\ \A r \in Live : r.gen # generation'
        /\ page.kind \notin {"completed", "failed", "not_found"} /\ ~HasResults
    <2>1. CASE Poll
      <3>1. generation' = generation /\ timer
        BY <2>1 DEF Poll
      <3>2. Live = {} /\ page.kind \notin {"completed", "failed", "not_found"}
        BY <3>1 DEF OneAttempt, EndIsQuiet
      <3> QED
        BY <3>1, <3>2 DEF PageShapes, PageFollowsSummary, HasResults
    <2>2. CASE Retry
      <3>1. generation' = generation + 1 /\ PageBody = "retry"
        BY <2>2 DEF Retry
      <3>2. page.kind = "network_error" /\ ~HasResults
        BY <3>1, PageBodies DEF PageShapes
      <3>3. \A r \in Live : r.gen = generation
        BY DEF Live, IsStale
      <3> QED
        BY <1>2, <3>1, <3>2, <3>3 DEF PageShapes
    <2> QED
      BY <2>1, <2>2
  <1>4. NoAnswer.is = "none"
    BY DEF NoAnswer
  <1>5. new.gen = generation' /\ new.for = "summary" /\ new.answer = NoAnswer
        /\ new = [gen |-> new.gen, for |-> new.for, answer |-> new.answer]
    BY <1>12
  <1>6. Live' = {new}
    <2>1. ASSUME NEW r \in requests PROVE r.gen # generation'
      <3>1. CASE r \in Live
        BY <1>3, <3>1
      <3>2. CASE r \notin Live
        <4>1. r.gen # generation /\ r.gen \in Nat /\ r.gen <= generation
          BY <3>2 DEF Live, IsStale, PageShapes, IsPageRequest
        <4> QED
          BY <1>2, <1>3, <4>1
      <3> QED
        BY <3>1, <3>2
    <2> QED
      BY <1>1, <1>5, <2>1 DEF Live, IsStale
  <1>7. PageShapes'
    <2>1. \A r \in requests : IsPageRequest(r)'
      BY <1>2, <1>3 DEF PageShapes, IsPageRequest, IsPast
    <2>2. IsPageRequest(new)'
      BY <1>3, <1>4, <1>5 DEF IsPageRequest
    <2>3. timer' \in BOOLEAN /\ \A r \in requests' : IsPageRequest(r)'
      BY <1>1, <2>1, <2>2
    <2> QED
      BY <1>2, <1>1, <1>3, <2>3 DEF PageShapes
  <1>8. RetriesAreCaused'
    <2>1. ~HasFailed'
      BY <1>4, <1>5, <1>6 DEF HasFailed
    <2>2. CASE Poll
      BY <1>2, <2>1, <2>2 DEF RetriesAreCaused, Poll
    <2>3. CASE Retry
      <3>1. /\ generation < MaxGenerations \/ \A r \in requests : IsStale(r)
            /\ generation' = generation + 1 /\ PageBody = "retry"
        BY <2>3 DEF Retry
      <3>2. page.kind = "network_error"
        BY <3>1, PageBodies DEF PageShapes
      <3>3. (\A r \in requests : IsStale(r)) => Live = {}
        BY DEF Live
      <3>4. generation < MaxGenerations + lost
        BY <1>2, <3>1, <3>2, <3>3 DEF RetriesAreCaused, HasFailed
      <3> QED
        BY <1>2, <2>1, <3>1, <3>4 DEF RetriesAreCaused
    <2> QED
      BY <2>2, <2>3
  <1>9. OneAttempt' /\ AnswersAreNewer' /\ EndIsQuiet'
    BY <1>1, <1>2, <1>3, <1>4, <1>5, <1>6
    DEF OneAttempt, AnswersAreNewer, EndIsQuiet, HasResults
  <1>10. PageFollowsSummary'
    BY <1>2 DEF PageFollowsSummary, IsPast
  <1>11. PageIsWaitedFor'
    <2>1. new \in requests' /\ ~IsStale(new)'
      BY <1>1, <1>5 DEF IsStale
    <2> QED
      BY <1>2, <2>1 DEF PageIsWaitedFor
  <1> QED
    BY <1>1, <1>7, <1>8, <1>9, <1>10, <1>11, PageQuiet DEF PageGoodStep

\* What the page makes of an answer that counts.
LEMMA AnswerShown ==
  ASSUME PageInv, NEW r \in Live,
         NEW kind \in {"not_found", "network_error"} \cup PageStatuses, NEW summary,
         NEW results \in {"none", "loading", "shown"}, NEW cities \in SUBSET PageCities,
         Show(kind, summary, results, cities),
         summary = page.summary \/ IsPast(summary),
         Progress(page.summary) <= Progress(summary),
         kind \in PageStatuses => summary = kind,
         kind = "not_found" => ~found,
         kind = "network_error" => r.answer.is = "lost",
         results # "none" => kind = "completed",
         page.kind \in Ended => kind \in {page.kind, "network_error"},
         choice' = [mode |-> choice'.mode, city |-> choice'.city], choice'.mode \in PageModes,
         UNCHANGED <<serverVars, found, generation, newSearch, panel, details, lost>>,
         ProgressOfBody,
         IF results = "loading"
         THEN timer' = timer /\ requests' = (requests \ {r}) \cup {Request("results")}
         ELSE requests' = requests \ {r} /\ (timer' <=> kind \in Polled) /\ timer' \in BOOLEAN
  PROVE  PageGoodStep
  <1> USE DEF PageInv
  <1>1. /\ page' = [kind |-> kind, summary |-> summary, results |-> results, cities |-> cities]
        /\ UNCHANGED <<searchStatus, searchRanking, found, generation, panel, details, lost>>
    BY DEF Show, serverVars
  <1>2. /\ page'.kind = kind /\ page'.summary = summary /\ page'.results = results
        /\ page'.cities = cities
        /\ page' = [kind |-> page'.kind, summary |-> page'.summary, results |-> page'.results,
                    cities |-> page'.cities]
    BY <1>1
  <1>3. timer = FALSE /\ Live = {r} /\ ~HasResults /\ page.kind \notin {"failed", "not_found"}
    BY DEF OneAttempt, EndIsQuiet, PageShapes
  <1>22. PICK new : new = Request("results")
    OBVIOUS
  <1>4. new.gen = generation /\ new.for = "results" /\ new.answer = NoAnswer
        /\ new = [gen |-> new.gen, for |-> new.for, answer |-> new.answer]
        /\ NoAnswer.is = "none"
    BY <1>22 DEF Request, NoAnswer
  <1>5. IF results = "loading" THEN timer' = FALSE /\ requests' = (requests \ {r}) \cup {new}
        ELSE requests' = requests \ {r} /\ (timer' <=> kind \in Polled) /\ timer' \in BOOLEAN
    BY <1>3, <1>22
  <1>6. Live' = IF results = "loading" THEN {new} ELSE {}
    <2>1. \A q \in requests \ {r} : IsStale(q)
      BY <1>3 DEF Live
    <2> QED
      BY <1>1, <1>4, <1>5, <2>1 DEF Live, IsStale
  <1>7. IsPast(summary)' <=> IsPast(summary)
    BY <1>1 DEF IsPast
  <1>8. results = "loading" => found /\ searchStatus = "completed"
    BY DEF IsPast, PageFollowsSummary, Ended, PageStatuses
  <1>9. PageShapes'
    <2>1. \A q \in requests : IsPageRequest(q)'
      BY <1>1 DEF PageShapes, IsPageRequest, IsPast
    <2>2. results = "loading" => IsPageRequest(new)'
      BY <1>1, <1>4, <1>8 DEF IsPageRequest, PageShapes
    <2>3. timer' \in BOOLEAN /\ \A q \in requests' : IsPageRequest(q)'
      BY <1>5, <2>1, <2>2
    <2>4. /\ page'.kind \in {"loading", "not_found", "network_error"} \cup PageStatuses
          /\ page'.results \in {"none", "loading", "shown"} /\ page'.cities \subseteq PageCities
      BY <1>2
    <2> QED
      BY <1>1, <1>2, <2>3, <2>4 DEF PageShapes
  <1>10. RetriesAreCaused'
    <2>1. HasFailed' => HasFailed
      BY <1>2, <1>4, <1>6 DEF HasFailed
    <2> QED
      BY <1>1, <2>1 DEF RetriesAreCaused
  <1>11. OneAttempt' /\ AnswersAreNewer'
    BY <1>4, <1>5, <1>6 DEF OneAttempt, AnswersAreNewer
  <1>12. PageFollowsSummary'
    BY <1>1, <1>2, <1>7 DEF PageFollowsSummary
  <1>13. EndIsQuiet'
    BY <1>2, <1>4, <1>5, <1>6 DEF EndIsQuiet, HasResults, Polled, PageStatuses
  <1>14. PageIsWaitedFor'
    <2>1. results = "loading" => new \in requests' /\ ~IsStale(new)'
      BY <1>1, <1>4, <1>5 DEF IsStale
    <2>2. page'.kind # "loading" /\ (page'.kind \in Polled /\ results # "loading" => timer')
      BY <1>2, <1>5 DEF PageStatuses
    <2> QED
      BY <1>1, <1>2, <2>1, <2>2 DEF PageIsWaitedFor
  <1>15. /\ PageBody = "progress" <=> newSearch # "open" /\ page.kind \in Polled
         /\ PageBody' = "progress" <=> newSearch' # "open" /\ page'.kind \in Polled
    <2>1. PageBody = "progress" <=> newSearch # "open" /\ page.kind \in Polled
      BY PageBodies DEF PageShapes
    <2>2. PageBody' = "progress" <=> newSearch' # "open" /\ page'.kind \in Polled
      <3>1. CASE newSearch' # "open" /\ page'.kind \notin Polled
        <4>1. CASE HasResults'
          <5>1. PageBody' = "results"
            BY <3>1, <4>1 DEF PageBody
          <5> QED
            BY <3>1, <5>1
        <4>2. CASE ~HasResults' /\ page'.kind = "network_error"
          <5>1. PageBody' = "retry"
            BY <3>1, <4>2 DEF PageBody
          <5> QED
            BY <3>1, <5>1
        <4>3. CASE ~HasResults' /\ page'.kind = "completed"
          <5>1. PageBody' = "skeleton"
            BY <3>1, <4>3 DEF PageBody, Polled
          <5> QED
            BY <3>1, <5>1
        <4>4. CASE ~HasResults' /\ page'.kind \in {"not_found", "failed"}
          <5>1. PageBody' = "reply"
            BY <3>1, <4>4 DEF PageBody, Polled
          <5> QED
            BY <3>1, <5>1
        <4> QED
          BY <1>2, <3>1, <4>1, <4>2, <4>3, <4>4 DEF PageStatuses, Polled
      <3>2. CASE newSearch' = "open" \/ page'.kind \in Polled
        BY <3>2 DEF PageBody
      <3> QED
        BY <3>1, <3>2
    <2> QED
      BY <2>1, <2>2
  <1>16. PageBody = "progress" /\ PageBody' = "progress" =>
           Target.steps <= Target'.steps /\ Target.travelers <= Target'.travelers
    <2> SUFFICES ASSUME PageBody = "progress", PageBody' = "progress"
                 PROVE  Target.steps <= Target'.steps /\ Target.travelers <= Target'.travelers
      OBVIOUS
    <2>1. page.summary = page.kind /\ summary = kind /\ {page.kind, kind} \subseteq Polled
      BY <1>2, <1>15 DEF PageFollowsSummary, PageStatuses, Polled
    <2>2. page.kind = "running" => kind = "running"
      BY <2>1, ProgressCounts DEF Polled
    <2>3. /\ kind = "queued" => Target'.steps = 1 /\ Target'.travelers = 0
          /\ kind # "queued" => Target'.steps = 2 /\ Target'.travelers = PageTravelers
      BY <1>2 DEF Target
    <2>4. CASE page.kind = "queued"
      BY <2>3, <2>4, Targets, SearchPageAssumption DEF SearchPageAssumption
    <2>5. CASE page.kind = "running"
      BY <2>2, <2>3, <2>5, Targets, SearchPageAssumption DEF SearchPageAssumption
    <2> QED
      BY <2>1, <2>4, <2>5 DEF Polled
  <1>17. /\ progress = [steps |-> progress.steps, travelers |-> progress.travelers]
         /\ progress.steps \in Nat /\ progress.travelers \in Nat
         /\ PageBody = "progress" =>
              progress.steps <= Target.steps /\ progress.travelers <= Target.travelers
         /\ PageBody # "progress" => progress = NothingRevealed
         /\ Target.steps \in Nat /\ Target.travelers \in Nat
    BY Targets DEF RevealedInBounds
  <1>18. /\ NothingRevealed = [steps |-> NothingRevealed.steps,
                               travelers |-> NothingRevealed.travelers]
         /\ NothingRevealed.steps = 0 /\ NothingRevealed.travelers = 0
         /\ Target'.steps \in Nat /\ Target'.travelers \in Nat
    BY SearchPageAssumption DEF NothingRevealed, Target, SearchPageAssumption
  <1>19. progress' = IF PageBody' = "progress" THEN progress ELSE NothingRevealed
    BY DEF ProgressOfBody
  <1>20. RevealedInBounds'
    <2>1. CASE PageBody' = "progress"
      BY <1>16, <1>17, <1>18, <1>19, <2>1 DEF RevealedInBounds
    <2>2. CASE PageBody' # "progress"
      BY <1>18, <1>19, <2>2 DEF RevealedInBounds
    <2> QED
      BY <2>1, <2>2
  <1>21. ViewStep
    <2>1. PageBody = "progress" /\ PageBody' = "progress" =>
            /\ progress.steps <= progress'.steps /\ progress'.steps <= Target'.steps
            /\ progress.travelers <= progress'.travelers
            /\ progress'.travelers <= Target'.travelers
      BY <1>16, <1>17, <1>18, <1>19
    <2>2. Progress(page'.summary) >= Progress(page.summary)
      <3>1. Progress(page.summary) \in Nat /\ Progress(summary) \in Nat
        BY ProgressCounts DEF PageFollowsSummary, IsPast, PageStatuses
      <3> QED
        BY <1>2, <3>1
    <2> QED
      BY <1>2, <1>3, <2>1, <2>2 DEF ViewStep, Ended
  <1> QED
    BY <1>9, <1>10, <1>11, <1>12, <1>13, <1>14, <1>20, <1>21 DEF PageGoodStep

\* An answer of an attempt that was given up is dropped.
LEMMA StaleDropped ==
  ASSUME PageInv, NEW r \in requests, IsStale(r), Arrive(r)
  PROVE  PageGoodStep
  <1> USE DEF PageInv
  <1>1. /\ requests' = requests \ {r}
        /\ UNCHANGED <<serverVars, found, generation, timer, page, choice, newSearch, panel,
                       details, lost>>
        /\ progress' = IF PageBody' = "progress" THEN progress ELSE NothingRevealed
    BY DEF Arrive, ProgressOfBody
  <1>2. UNCHANGED <<searchStatus, searchRanking, found, generation, timer, page, choice, panel,
                    details, lost, newSearch>>
    BY <1>1 DEF serverVars
  <1>3. PageBody' = PageBody
    BY <1>1 DEF PageBody, HasResults
  <1>4. UNCHANGED <<page, newSearch, progress>>
    BY <1>1, <1>3 DEF RevealedInBounds
  <1>5. Live' = Live
    BY <1>1, <1>2 DEF Live, IsStale
  <1>6. PageShapes'
    <2>1. \A q \in requests' : IsPageRequest(q)'
      BY <1>1, <1>2 DEF PageShapes, IsPageRequest, IsPast
    <2> QED
      BY <1>2, <2>1 DEF PageShapes
  <1>7. RetriesAreCaused' /\ OneAttempt' /\ AnswersAreNewer' /\ EndIsQuiet' /\ PageFollowsSummary'
    BY <1>2, <1>5
    DEF RetriesAreCaused, HasFailed, OneAttempt, AnswersAreNewer, EndIsQuiet, HasResults,
        PageFollowsSummary, IsPast
  <1>8. PageIsWaitedFor'
    <2>1. (\E q \in requests : ~IsStale(q)) <=> Live # {}
      BY DEF Live
    <2>2. (\E q \in requests' : ~IsStale(q)') <=> Live' # {}
      BY DEF Live
    <2> QED
      BY <1>2, <1>5, <2>1, <2>2 DEF PageIsWaitedFor
  <1> QED
    BY <1>4, <1>6, <1>7, <1>8, PageQuiet DEF PageGoodStep

\* An answer comes to the page.
LEMMA AnswerArrives ==
  ASSUME PageInv, NEW r \in requests, Arrive(r)
  PROVE  PageGoodStep
  <1> USE DEF PageInv
  <1> SUFFICES ASSUME ~IsStale(r) PROVE PageGoodStep
    BY StaleDropped
  <1>1. r \in Live /\ IsPageRequest(r) /\ r.answer # NoAnswer
    BY DEF Live, PageShapes, Arrive
  <1>2. /\ CASE r.answer.is = "summary" -> ApplySummary(r.answer.status, r)
             [] r.answer.is = "results" ->
                  /\ Show("completed", "completed", "shown", r.answer.cities)
                  /\ choice' = Chosen(r.answer.cities)
                  /\ requests' = requests \ {r} /\ UNCHANGED timer
             [] r.answer.is \in {"missing", "lost"} ->
                  /\ Show(IF r.answer.is = "missing" THEN "not_found" ELSE "network_error",
                          page.summary, "none", {})
                  /\ Unchosen
                  /\ requests' = requests \ {r} /\ UNCHANGED timer
        /\ UNCHANGED <<serverVars, found, generation, newSearch, panel, details, lost>>
        /\ ProgressOfBody
    BY DEF Arrive
  <1>3. timer = FALSE /\ page.kind \notin {"failed", "not_found"}
        /\ (page.kind = "completed" => r.for = "results")
    BY <1>1 DEF OneAttempt, EndIsQuiet, PageShapes
  <1>4. Unchosen => choice' = [mode |-> choice'.mode, city |-> choice'.city]
                    /\ choice'.mode \in PageModes
    <2>1. choice = [mode |-> choice.mode, city |-> choice.city] /\ choice.mode \in PageModes
      BY DEF PageShapes
    <2>2. Unchosen => choice' = [mode |-> choice.mode, city |-> "none"]
      BY <2>1 DEF Unchosen
    <2> QED
      BY <2>1, <2>2
  <1>5. Progress(page.summary) \in Nat
    BY ProgressCounts DEF PageFollowsSummary, IsPast, PageStatuses
  <1>6. {} \in SUBSET PageCities
    OBVIOUS
  <1>7. CASE r.answer.is = "summary"
    <2> DEFINE status == r.answer.status
    <2>1. /\ ApplySummary(status, r) /\ IsPast(status) /\ status \in PageStatuses
          /\ Progress(page.summary) <= Progress(status) /\ r.for = "summary"
      BY <1>1, <1>2, <1>7 DEF IsPageRequest, AnswersAreNewer, IsPast
    <2> HIDE DEF status
    <2>2. page.kind # "completed"
      BY <1>3, <2>1
    <2>3. CASE status \in Polled
      <3>1. /\ Show(status, status, "none", {}) /\ timer' = TRUE /\ Unchosen
            /\ requests' = requests \ {r}
        BY <2>1, <2>3 DEF ApplySummary, Polled
      <3>2. /\ status \in {"not_found", "network_error"} \cup PageStatuses
            /\ status # "not_found" /\ status # "network_error" /\ page.kind \notin Ended
            /\ (timer' <=> status \in Polled) /\ timer' \in BOOLEAN
        BY <1>3, <2>1, <2>2, <2>3, <3>1 DEF PageStatuses, Ended
      <3> QED
        BY <1>1, <1>2, <1>4, <1>6, <2>1, <3>1, <3>2, AnswerShown
    <2>4. CASE status = "completed"
      <3>1. /\ Show(status, status, "loading", {}) /\ timer' = timer /\ Unchosen
            /\ requests' = (requests \ {r}) \cup {Request("results")}
        BY <2>1, <2>4 DEF ApplySummary, Polled
      <3>2. /\ status \in {"not_found", "network_error"} \cup PageStatuses
            /\ status # "not_found" /\ status # "network_error" /\ page.kind \notin Ended
        BY <1>3, <2>2, <2>4 DEF PageStatuses, Ended
      <3> QED
        BY <1>1, <1>2, <1>4, <1>6, <2>1, <2>4, <3>1, <3>2, AnswerShown
    <2>5. CASE status = "failed"
      <3>1. /\ Show(status, status, "none", {}) /\ timer' = timer /\ Unchosen
            /\ requests' = requests \ {r}
        BY <2>1, <2>5 DEF ApplySummary, Polled
      <3>2. /\ status \in {"not_found", "network_error"} \cup PageStatuses
            /\ status # "not_found" /\ status # "network_error" /\ page.kind \notin Ended
            /\ (timer' <=> status \in Polled) /\ timer' \in BOOLEAN
        BY <1>3, <2>2, <2>5, <3>1 DEF PageStatuses, Ended, Polled
      <3> QED
        BY <1>1, <1>2, <1>4, <1>6, <2>1, <3>1, <3>2, AnswerShown
    <2> QED
      BY <2>1, <2>3, <2>4, <2>5 DEF PageStatuses, Polled
  <1>8. CASE r.answer.is = "results"
    <2>1. /\ Show("completed", "completed", "shown", r.answer.cities)
          /\ choice' = Chosen(r.answer.cities)
          /\ requests' = requests \ {r} /\ timer' = timer
          /\ found /\ searchStatus = "completed" /\ r.answer.cities \in SUBSET PageCities
      BY <1>1, <1>2, <1>8 DEF IsPageRequest
    <2>2. choice' = [mode |-> choice'.mode, city |-> choice'.city] /\ choice'.mode \in PageModes
      BY <2>1, SearchPageAssumption DEF Chosen, SearchPageAssumption
    <2>3. IsPast("completed") /\ Progress(page.summary) <= Progress("completed")
      BY <2>1, ProgressCounts DEF IsPast, PageStatuses, PageFollowsSummary
    <2>4. /\ "completed" \in {"not_found", "network_error"} \cup PageStatuses
          /\ page.kind \in Ended => page.kind = "completed"
          /\ (timer' <=> "completed" \in Polled) /\ timer' \in BOOLEAN
      BY <1>3, <2>1 DEF PageStatuses, Ended, Polled
    <2> QED
      BY <1>1, <1>2, <2>1, <2>2, <2>3, <2>4, AnswerShown
  <1>9. CASE r.answer.is \in {"missing", "lost"}
    <2> DEFINE kind == IF r.answer.is = "missing" THEN "not_found" ELSE "network_error"
    <2>1. /\ Show(kind, page.summary, "none", {}) /\ Unchosen
          /\ requests' = requests \ {r} /\ timer' = timer
      BY <1>2, <1>9
    <2>2. /\ kind \in {"not_found", "network_error"}
          /\ kind = "not_found" => ~found
          /\ kind = "network_error" => r.answer.is = "lost"
      BY <1>1, <1>9 DEF IsPageRequest
    <2> HIDE DEF kind
    <2>3. page.kind \in Ended => found
      BY DEF PageFollowsSummary, IsPast, Ended, PageStatuses
    <2>4. /\ kind \in {"not_found", "network_error"} \cup PageStatuses
          /\ kind \notin PageStatuses /\ kind \notin Polled
      BY <2>2 DEF PageStatuses, Polled
    <2>5. page.kind \in Ended => kind = "network_error"
      BY <2>2, <2>3
    <2>6. (timer' <=> kind \in Polled) /\ timer' \in BOOLEAN
      BY <1>3, <2>1, <2>4
    <2>7. Progress(page.summary) <= Progress(page.summary)
      BY <1>5
    <2> QED
      BY <1>1, <1>2, <1>4, <1>6, <2>1, <2>2, <2>4, <2>5, <2>6, <2>7, AnswerShown
  <1>10. r.answer.is # "none"
    BY <1>1 DEF IsPageRequest
  <1> QED
    BY <1>1, <1>7, <1>8, <1>9, <1>10 DEF IsPageRequest

\* A page that has just been opened.
LEMMA PageStart == SearchPageInit => PageInv
  <1> SUFFICES ASSUME SearchPageInit PROVE PageInv
    OBVIOUS
  <1>10. PICK r : r = [gen |-> 1, for |-> "summary", answer |-> NoAnswer]
    OBVIOUS
  <1>1. /\ r.gen = 1 /\ r.for = "summary" /\ r.answer = NoAnswer /\ NoAnswer.is = "none"
        /\ r = [gen |-> r.gen, for |-> r.for, answer |-> r.answer]
    BY <1>10 DEF NoAnswer
  <1>2. /\ searchStatus = "queued" /\ searchRanking = {} /\ found \in BOOLEAN
        /\ generation = 1 /\ requests = {r} /\ timer = FALSE /\ lost = 0
        /\ choice \in [mode : PageModes, city : {"none"}]
        /\ panel = "closed" /\ details = "none" /\ newSearch = "unopened"
        /\ progress = NothingRevealed
    BY <1>10 DEF SearchPageInit, Server!Init
  <1>3. /\ page = [kind |-> page.kind, summary |-> page.summary, results |-> page.results,
                   cities |-> page.cities]
        /\ page.kind = "loading" /\ page.summary = "none" /\ page.results = "none"
        /\ page.cities = {}
    BY DEF SearchPageInit
  <1>4. Live = {r} /\ ~IsStale(r)
    BY <1>1, <1>2 DEF Live, IsStale
  <1>5. PageShapes
    <2>1. IsPageRequest(r)
      BY <1>1, <1>2 DEF IsPageRequest
    <2>2. lost \in Nat /\ lost <= MaxLost
      BY <1>2, SearchPageAssumption DEF SearchPageAssumption
    <2>3. choice = [mode |-> choice.mode, city |-> choice.city] /\ choice.mode \in PageModes
      BY <1>2
    <2>4. generation \in Nat /\ 1 <= generation /\ \A q \in requests : IsPageRequest(q)
      BY <1>2, <2>1
    <2> QED
      BY <1>2, <1>3, <2>2, <2>3, <2>4 DEF PageShapes, PageStatuses
  <1>6. RetriesAreCaused
    BY <1>1, <1>2, <1>4, SearchPageAssumption
    DEF RetriesAreCaused, HasFailed, SearchPageAssumption
  <1>7. OneAttempt /\ PageFollowsSummary /\ AnswersAreNewer /\ EndIsQuiet
    BY <1>1, <1>2, <1>3, <1>4
    DEF OneAttempt, PageFollowsSummary, AnswersAreNewer, EndIsQuiet, HasResults, PageStatuses
  <1>8. RevealedInBounds
    <2>1. PageBody # "progress"
      BY <1>3, PageBodies DEF Polled
    <2> QED
      BY <1>2, <2>1 DEF RevealedInBounds, NothingRevealed
  <1>9. PageIsWaitedFor
    BY <1>2, <1>4 DEF PageIsWaitedFor
  <1> QED
    BY <1>5, <1>6, <1>7, <1>8, <1>9 DEF PageInv

\* A step of the page keeps its invariant and takes nothing back.
LEMMA PageStep == PageInv /\ [SearchPageNext]_pageVars => PageGoodStep
  <1> SUFFICES ASSUME PageInv, [SearchPageNext]_pageVars PROVE PageGoodStep
    OBVIOUS
  <1>1. CASE SearchPageNext
    BY <1>1, SearchGoesOn, RequestServed, AnswerArrives, SummaryAsked, PageTurns, ReaderChooses
    DEF SearchPageNext
  <1>2. CASE UNCHANGED pageVars
    <2>1. /\ UNCHANGED <<serverVars, found, generation, requests, timer, page, newSearch, progress,
                         choice, panel, details, lost>>
      BY <1>2 DEF pageVars, serverVars
    <2>2. /\ lost' \in Nat /\ lost <= lost' /\ lost' <= MaxLost
          /\ choice' = [mode |-> choice'.mode, city |-> choice'.city]
          /\ choice'.mode \in PageModes
          /\ panel' \in {"closed", "loading", "error", "detail"}
          /\ details' \in {"none", "loading", "rejected", "error", "ready"}
          /\ newSearch' \in {"unopened", "open", "left"}
          /\ panel' = "loading" => details' = "loading"
      BY <2>1 DEF PageInv, PageShapes, PageIsWaitedFor
    <2> QED
      BY <2>1, <2>2, AttemptsStay, PageQuiet DEF PageGoodStep, PageInv
  <1> QED
    BY <1>1, <1>2

\* The page's fields are of the type.
LEMMA PageTypes == PageInv => SearchPageTypeOK
  <1> SUFFICES ASSUME PageInv PROVE SearchPageTypeOK
    OBVIOUS
  <1>1. /\ generation \in Nat /\ 1 <= generation /\ generation <= MaxGenerations + lost
        /\ lost \in Nat /\ lost <= MaxLost /\ MaxLost \in Nat /\ MaxGenerations \in Nat
        /\ PageTravelers \in Nat
    BY SearchPageAssumption DEF PageInv, PageShapes, RetriesAreCaused, SearchPageAssumption
  <1>2. generation \in 1 .. (MaxGenerations + MaxLost) /\ lost \in 0 .. MaxLost
    BY <1>1
  <1>3. \A r \in requests : r.gen \in 1 .. generation /\ r.for \in {"summary", "results"}
    BY <1>1 DEF PageInv, PageShapes, IsPageRequest
  <1>4. progress.steps \in 0 .. 2 /\ progress.travelers \in 0 .. PageTravelers
    <2>1. CASE PageBody = "progress"
      BY <1>1, <2>1, Targets DEF PageInv, RevealedInBounds
    <2>2. CASE PageBody # "progress"
      BY <1>1, <2>2 DEF PageInv, RevealedInBounds, NothingRevealed
    <2> QED
      BY <2>1, <2>2
  <1> QED
    BY <1>2, <1>3, <1>4 DEF PageInv, PageShapes, SearchPageTypeOK, PageStatuses, Polled

\* The page waits for something whenever it says so (use-search-polling.ts,
\* journey-details-panel.tsx).
THEOREM PageStaysWaitedFor == SearchPageSpec => []PageIsWaitedFor
  <1>1. PageInv /\ [SearchPageNext]_pageVars => PageInv'
    BY PageStep DEF PageGoodStep
  <1>2. PageInv => PageIsWaitedFor
    BY DEF PageInv
  <1> QED
    BY <1>1, <1>2, PageStart, PTL DEF SearchPageSpec

\* The page never goes back to an earlier state of the search, nor takes back its
\* results or what it has revealed (use-search-polling.ts, search-status-page.tsx).
THEOREM ViewStaysAhead == SearchPageSpec => ViewNeverGoesBack
  <1>1. PageInv /\ [SearchPageNext]_pageVars => PageInv'
    BY PageStep DEF PageGoodStep
  <1>2. PageInv /\ [SearchPageNext]_pageVars => [ViewStep]_pageVars
    BY PageStep DEF PageGoodStep
  <1>3. SearchPageSpec => [][ViewStep]_pageVars
    BY <1>1, <1>2, PageStart, PTL DEF SearchPageSpec
  <1> QED
    BY <1>3 DEF ViewNeverGoesBack, ViewStep

-----------------------------------------------------------------------------
(* The parts together.                                                      *)

\* A map that is not on the page satisfies its invariant.
LEMMA MapRests == NoMap => MapInv
  <1> SUFFICES ASSUME NoMap PROVE MapInv
    OBVIOUS
  <1>1. None \in {None} /\ None = "none" /\ Missing = "missing"
    BY DEF None, Missing
  <1>2. /\ style.wanted \in Themes /\ style.loaded = None /\ style.ready = FALSE
        /\ style \in [wanted : Themes, loaded : Themes \cup {None}, ready : BOOLEAN]
        /\ overlays.due = FALSE /\ overlays.bound = FALSE
        /\ overlays \in [due : BOOLEAN, bound : BOOLEAN]
    BY RestAssumption DEF NoMap
  <1>3. /\ scene \in Scenes
        /\ drawn = [routes |-> drawn.routes, stations |-> drawn.stations]
        /\ drawn.stations = Missing
    BY RestAssumption DEF NoMap, Removed
  <1>4. /\ camera = [key |-> camera.key, by |-> camera.by, preserve |-> camera.preserve]
        /\ camera.by = "fit" /\ camera.preserve = FALSE
        /\ view \in [shown : Viewports, pause : BOOLEAN]
    BY RestAssumption DEF NoMap
  <1>5. /\ stations \in [key : Viewports \cup {None}, request : Viewports \cup {None},
                         status : {"idle", "loading", "ready", "zoom", "error", "aggregated"}]
        /\ stations.status = "idle"
    BY DEF NoMap
  <1>6. cache \in Seq(Viewports) /\ Len(cache) <= CacheMax + 1 /\ mounted = FALSE
    BY SearchMapAssumption DEF NoMap
  <1>7. MapShapes
    BY <1>2, <1>3, <1>4, <1>5, <1>6 DEF MapShapes
  <1> QED
    BY <1>2, <1>3, <1>4, <1>5, <1>6, <1>7
    DEF MapInv, ReadyIsLoaded, RedrawPreserves, SceneIsShown, LoadingHasRequest

\* So does the page of a search that does not exist.
LEMMA PageRests == NoPage => PageInv
  <1> SUFFICES ASSUME NoPage PROVE PageInv
    OBVIOUS
  <1>1. /\ searchStatus = "queued" /\ searchRanking = {} /\ found = FALSE
        /\ generation = 1 /\ requests = {} /\ timer = FALSE /\ lost = 0
        /\ panel = "closed" /\ details = "none" /\ newSearch = "unopened"
        /\ progress = NothingRevealed
    BY DEF NoPage, Server!Init
  <1>2. /\ page = [kind |-> page.kind, summary |-> page.summary, results |-> page.results,
                   cities |-> page.cities]
        /\ page.kind = "not_found" /\ page.summary = "none" /\ page.results = "none"
        /\ page.cities = {}
    BY DEF NoPage
  <1>3. choice = [mode |-> choice.mode, city |-> choice.city] /\ choice.mode \in PageModes
    BY RestAssumption DEF NoPage
  <1>4. Live = {}
    BY <1>1 DEF Live
  <1>5. PageShapes
    <2>1. lost \in Nat /\ lost <= MaxLost /\ generation \in Nat /\ 1 <= generation
      BY <1>1, SearchPageAssumption DEF SearchPageAssumption
    <2> QED
      BY <1>1, <1>2, <1>3, <2>1 DEF PageShapes, PageStatuses
  <1>6. RetriesAreCaused
    BY <1>1, <1>2, <1>4, SearchPageAssumption
    DEF RetriesAreCaused, HasFailed, SearchPageAssumption
  <1>7. OneAttempt /\ PageFollowsSummary /\ AnswersAreNewer /\ EndIsQuiet
    BY <1>1, <1>2, <1>4
    DEF OneAttempt, PageFollowsSummary, AnswersAreNewer, EndIsQuiet, PageStatuses
  <1>8. RevealedInBounds
    <2>1. PageBody # "progress"
      BY <1>2, PageBodies DEF Polled
    <2> QED
      BY <1>1, <2>1 DEF RevealedInBounds, NothingRevealed
  <1>9. PageIsWaitedFor
    BY <1>1, <1>2 DEF PageIsWaitedFor, Polled
  <1> QED
    BY <1>5, <1>6, <1>7, <1>8, <1>9 DEF PageInv

\* Whichever part a behaviour is about, each part starts as it may.
LEMMA PartsStart ==
  Init => /\ PlanningInit \/ NoPlanning
          /\ WorkerInit \/ NoWorker
          /\ SearchMapInit \/ NoMap
          /\ SearchPageInit \/ NoPage
          /\ ComboboxInit /\ FormInit /\ MapSceneInit /\ MapStopsInit
  BY Zenon DEF Init, PartsInit

\* Each part takes steps of its own, or none.
LEMMA PartsMove ==
  [Next]_vars => /\ [PlanningNext]_planningVars /\ [WorkerNext]_workerVars
                 /\ [SearchMapNext]_mapVars /\ [SearchPageNext]_pageVars
                 /\ [ComboboxNext]_comboboxVars /\ [FormNext]_formVars
                 /\ [MapSceneNext]_sceneVars /\ [MapStopsNext]_stopsVars
  <1> SUFFICES ASSUME [Next]_vars
               PROVE  /\ [PlanningNext]_planningVars /\ [WorkerNext]_workerVars
                      /\ [SearchMapNext]_mapVars /\ [SearchPageNext]_pageVars
                      /\ [ComboboxNext]_comboboxVars /\ [FormNext]_formVars
                      /\ [MapSceneNext]_sceneVars /\ [MapStopsNext]_stopsVars
    OBVIOUS
  <1>1. CASE PartsNext
    <2>1. UNCHANGED stopsVars
      BY <1>1 DEF PartsNext
    <2>2. CASE PlanningNext /\ UNCHANGED workerVars /\ WebUnchanged
      BY <2>1, <2>2 DEF WebUnchanged
    <2>3. CASE WorkerNext /\ UNCHANGED planningVars /\ WebUnchanged
      BY <2>1, <2>3 DEF WebUnchanged
    <2>4. CASE /\ SearchMapNext \/ SearchPageNext \/ ComboboxNext \/ FormNext \/ MapSceneNext
               /\ WorkerUnchanged
               /\ SearchMapNext \/ UNCHANGED mapVars
               /\ SearchPageNext \/ UNCHANGED pageVars
               /\ ComboboxNext \/ UNCHANGED comboboxVars
               /\ FormNext \/ UNCHANGED formVars
               /\ MapSceneNext \/ UNCHANGED sceneVars
      BY <2>1, <2>4 DEF WorkerUnchanged
    <2> QED
      BY <1>1, <2>2, <2>3, <2>4 DEF PartsNext
  <1>2. CASE MapStopsNext /\ WorkerUnchanged /\ WebUnchanged
    BY <1>2 DEF WorkerUnchanged, WebUnchanged
  <1>3. CASE UNCHANGED vars
    BY <1>3 DEF vars
  <1> QED
    BY <1>1, <1>2, <1>3 DEF Next

\* Whatever of map, page and form shows that it is waiting has something to wait
\* for (search-map.tsx, use-search-polling.ts, search-form.tsx).
THEOREM WaitingIsAnswered == Spec => []NothingWaitsInVain
  <1> DEFINE AllWait == MapInv /\ PageInv /\ FormIsWaitedFor
  <1>1. Init => AllWait
    <2>1. FormInit => FormIsWaitedFor
      BY DEF FormInit, FormIsWaitedFor
    <2> QED
      BY <2>1, PartsStart, MapStart, MapRests, PageStart, PageRests
  <1>2. AllWait /\ [Next]_vars => AllWait'
    BY PartsMove, MapStep, PageStep, FormStep DEF MapGoodStep, PageGoodStep
  <1>3. AllWait => NothingWaitsInVain
    BY DEF NothingWaitsInVain, MapInv, PageInv
  <1> QED
    BY <1>1, <1>2, <1>3, PTL DEF Spec

\* What the reader sees of a search, or has moved on the map, is not taken back
\* (use-search-polling.ts, search-map.tsx).
THEOREM ReaderStaysUndisturbed == Spec => ReaderIsNotDisturbed
  <1> DEFINE Views == MapInv /\ PageInv
  <1>1. Init => Views
    BY PartsStart, MapStart, MapRests, PageStart, PageRests
  <1>2. Views /\ [Next]_vars => Views'
    BY PartsMove, MapStep, PageStep DEF MapGoodStep, PageGoodStep
  <1>3. Views /\ [Next]_vars =>
          [camera.by = "user" /\ overlays.bound /\ scene'.key = camera.key
             => camera'.by = "user"]_mapVars
    BY PartsMove, MapStep DEF MapGoodStep, CameraStays
  <1>4. Views /\ [Next]_vars => [ViewStep]_pageVars
    BY PartsMove, PageStep DEF PageGoodStep
  <1>5. Spec =>
          /\ [][camera.by = "user" /\ overlays.bound /\ scene'.key = camera.key
                  => camera'.by = "user"]_mapVars
          /\ [][ViewStep]_pageVars
    BY <1>1, <1>2, <1>3, <1>4, PTL DEF Spec
  <1> QED
    BY <1>5 DEF ReaderIsNotDisturbed, ViewNeverGoesBack, ViewStep, CameraIsKept

-----------------------------------------------------------------------------
(* The stations of the API.                                                 *)

KeysOfCache == {CornersOf[box] : box \in Boxes}
Collections == [of : Boxes, asOf : Nat, stations : {Truncated(StationsOf(PlacesAt[box])) : box \in Boxes}]
Entries     == [key : KeysOfCache, until : Nat, stops : Collections]

\* The stations of a box, as the service makes them of the provider's answer.
IsCollection(stops) ==
  stops.of \in Boxes /\ stops.stations = Truncated(StationsOf(PlacesAt[stops.of]))

\* An entry is of its key, and fresh for as long as its collection may be used.
IsEntry(e) ==
  /\ e \in Entries /\ IsCollection(e.stops)
  /\ e.key = CornersOf[e.stops.of] /\ e.until = e.stops.asOf + StopsTtl

KeysDiffer(entries) ==
  \A i, j \in DOMAIN entries : entries[i].key = entries[j].key => i = j

IsStopsReply(r) ==
  /\ r.code \in {"none", "OK", "VALIDATION_FAILED", "SERVICE_UNAVAILABLE", "INTERNAL_ERROR"}
  /\ r.code = "OK" => /\ CornersOf[r.stops.of] = CornersOf[r.asked]
                      /\ r.at < r.stops.asOf + StopsTtl
                      /\ IsCollection(r.stops)

StopsInv ==
  /\ moment \in Nat /\ moment <= LastMoment
  /\ kept \in Seq(Entries) /\ Len(kept) <= StopsMax /\ KeysDiffer(kept)
  /\ \A i \in DOMAIN kept : IsEntry(kept[i])
  /\ awaited \in [Browsers -> Boxes \cup {NoBox}]
  /\ reply = [b \in Browsers |-> reply[b]] /\ \A b \in Browsers : IsStopsReply(reply[b])

\* What is left of a sequence without one element.
LEMMA WithoutOne ==
  ASSUME NEW T, NEW s \in Seq(T), NEW i \in DOMAIN s
  PROVE  /\ RemoveAt(s, i) \in Seq(T) /\ Len(RemoveAt(s, i)) = Len(s) - 1
         /\ \A j \in 1 .. Len(s) - 1 : RemoveAt(s, i)[j] = s[IF j < i THEN j ELSE j + 1]
  <1> DEFINE front == SubSeq(s, 1, i - 1)
             back  == SubSeq(s, i + 1, Len(s))
  <1>1. i \in 1 .. Len(s) /\ Len(s) \in Nat
    OBVIOUS
  <1>2. front \in Seq(T) /\ Len(front) = i - 1 /\ \A j \in 1 .. i - 1 : front[j] = s[j]
    BY <1>1
  <1>3. /\ back \in Seq(T) /\ Len(back) = Len(s) - i
        /\ \A j \in 1 .. Len(s) - i : back[j] = s[i + j]
    BY <1>1
  <1>4. RemoveAt(s, i) = front \o back
    BY DEF RemoveAt
  <1> HIDE DEF front, back
  <1>5. /\ front \o back \in Seq(T) /\ Len(front \o back) = Len(s) - 1
        /\ \A j \in 1 .. Len(s) - 1 :
             (front \o back)[j] = IF j <= i - 1 THEN front[j] ELSE back[j - (i - 1)]
    <2>1. /\ front \o back \in Seq(T)
          /\ Len(front \o back) = Len(front) + Len(back)
          /\ \A j \in 1 .. Len(front) + Len(back) :
               (front \o back)[j] = IF j <= Len(front) THEN front[j] ELSE back[j - Len(front)]
      BY <1>2, <1>3, ConcatProperties
    <2>2. Len(front) + Len(back) = Len(s) - 1
      BY <1>1, <1>2, <1>3
    <2> QED
      BY <1>2, <2>1, <2>2
  <1>6. ASSUME NEW j \in 1 .. Len(s) - 1
        PROVE  (front \o back)[j] = s[IF j < i THEN j ELSE j + 1]
    <2>1. CASE j < i
      <3>1. j \in 1 .. i - 1 /\ j <= i - 1
        BY <1>1, <2>1
      <3> QED
        BY <1>2, <1>5, <2>1, <3>1
    <2>2. CASE ~(j < i)
      <3>1. j - (i - 1) \in 1 .. Len(s) - i /\ i + (j - (i - 1)) = j + 1 /\ ~(j <= i - 1)
        BY <1>1, <2>2
      <3> QED
        BY <1>1, <1>3, <1>5, <2>2, <3>1
    <2> QED
      BY <2>1, <2>2
  <1> QED
    BY <1>4, <1>5, <1>6

\* The cache after an entry has been used or inserted.
LEMMA Touched ==
  ASSUME StopsInv, NEW e, IsEntry(e), Touch(e)
  PROVE  /\ kept' \in Seq(Entries) /\ Len(kept') <= StopsMax /\ KeysDiffer(kept')
         /\ \A i \in DOMAIN kept' : IsEntry(kept'[i])
  <1> DEFINE others == Others(e.key)
             all == Append(others, e)
             first == 1 + (IF Len(all) > StopsMax THEN Len(all) - StopsMax ELSE 0)
  <1>1. /\ kept \in Seq(Entries) /\ Len(kept) \in Nat /\ DOMAIN kept = 1 .. Len(kept)
        /\ StopsMax \in Nat /\ StopsMax > 0 /\ e \in Entries
    BY MapStopsAssumption DEF StopsInv, IsEntry, MapStopsAssumption
  <1>2. /\ others \in Seq(Entries) /\ KeysDiffer(others)
        /\ \A i \in DOMAIN others : IsEntry(others[i]) /\ others[i].key # e.key
    <2>1. CASE IndexOf(e.key) = {}
      BY <1>1, <2>1 DEF Others, IndexOf, StopsInv
    <2>2. CASE IndexOf(e.key) # {}
      <3>1. PICK i \in IndexOf(e.key) : others = RemoveAt(kept, i)
        BY <2>2 DEF Others
      <3> HIDE DEF others
      <3>2. i \in DOMAIN kept /\ kept[i].key = e.key
        BY <3>1 DEF IndexOf
      <3>3. /\ others \in Seq(Entries) /\ Len(others) = Len(kept) - 1
            /\ \A j \in 1 .. Len(kept) - 1 : others[j] = kept[IF j < i THEN j ELSE j + 1]
        BY <1>1, <3>1, <3>2, WithoutOne
      <3>4. DOMAIN others = 1 .. Len(kept) - 1
        BY <3>3
      <3>5. ASSUME NEW j \in DOMAIN others
            PROVE  \E n \in DOMAIN kept : n # i /\ others[j] = kept[n] /\ n = IF j < i THEN j ELSE j + 1
        BY <1>1, <3>2, <3>3, <3>4
      <3>6. \A j \in DOMAIN others : IsEntry(others[j]) /\ others[j].key # e.key
        BY <3>2, <3>5 DEF StopsInv, KeysDiffer
      <3>7. KeysDiffer(others)
        <4> SUFFICES ASSUME NEW j \in DOMAIN others, NEW k \in DOMAIN others,
                            others[j].key = others[k].key
                     PROVE  j = k
          BY DEF KeysDiffer
        <4>1. PICK n \in DOMAIN kept : others[j] = kept[n] /\ n = IF j < i THEN j ELSE j + 1
          BY <3>5
        <4>2. PICK m \in DOMAIN kept : others[k] = kept[m] /\ m = IF k < i THEN k ELSE k + 1
          BY <3>5
        <4>3. n = m
          BY <4>1, <4>2 DEF StopsInv, KeysDiffer
        <4> QED
          BY <1>1, <3>2, <3>4, <4>1, <4>2, <4>3
      <3> QED
        BY <3>3, <3>6, <3>7
    <2> QED
      BY <2>1, <2>2
  <1>4. kept' = SubSeq(all, first, Len(all))
    BY DEF Touch
  <1> HIDE DEF others
  <1>3. /\ all \in Seq(Entries) /\ Len(all) = Len(others) + 1 /\ Len(others) \in Nat
        /\ \A i \in 1 .. Len(others) : all[i] = others[i]
        /\ all[Len(others) + 1] = e /\ DOMAIN all = 1 .. Len(others) + 1
        /\ DOMAIN others = 1 .. Len(others)
    BY <1>1, <1>2, AppendProperties
  <1> HIDE DEF all
  <1>5. KeysDiffer(all) /\ \A i \in DOMAIN all : IsEntry(all[i])
    <2>1. \A i \in DOMAIN all : IsEntry(all[i])
      BY <1>2, <1>3
    <2>2. ASSUME NEW i \in DOMAIN all, NEW j \in DOMAIN all, all[i].key = all[j].key PROVE i = j
      <3>1. CASE i \in DOMAIN others /\ j \in DOMAIN others
        BY <1>2, <1>3, <2>2, <3>1 DEF KeysDiffer
      <3>2. CASE i = Len(others) + 1 \/ j = Len(others) + 1
        BY <1>2, <1>3, <2>2, <3>2
      <3> QED
        BY <1>3, <3>1, <3>2
    <2> QED
      BY <2>1, <2>2 DEF KeysDiffer
  <1>6. first \in 1 .. Len(all) + 1 /\ Len(all) - first + 1 <= StopsMax /\ Len(all) \in Nat
    BY <1>1, <1>3
  <1> HIDE DEF first
  <1>7. /\ kept' \in Seq(Entries)
        /\ Len(kept') = (IF first <= Len(all) THEN Len(all) - first + 1 ELSE 0)
        /\ \A i \in 1 .. Len(all) - first + 1 : kept'[i] = all[first + i - 1]
    <2>1. \A i \in first .. Len(all) : all[i] \in Entries
      BY <1>3, <1>6
    <2> QED
      BY <1>3, <1>4, <1>6, <2>1, SubSeqProperties
  <1>8. Len(kept') <= StopsMax
    BY <1>1, <1>6, <1>7
  <1>9. DOMAIN kept' = 1 .. Len(kept')
    BY <1>7
  <1>10. ASSUME NEW i \in DOMAIN kept'
         PROVE  first + i - 1 \in DOMAIN all /\ kept'[i] = all[first + i - 1] /\ i \in Int
    BY <1>3, <1>6, <1>7, <1>9
  <1>11. KeysDiffer(kept') /\ \A i \in DOMAIN kept' : IsEntry(kept'[i])
    <2>1. \A i \in DOMAIN kept' : IsEntry(kept'[i])
      BY <1>5, <1>10
    <2>2. ASSUME NEW i \in DOMAIN kept', NEW j \in DOMAIN kept', kept'[i].key = kept'[j].key
          PROVE  i = j
      <3>1. first + i - 1 = first + j - 1
        BY <1>5, <1>10, <2>2 DEF KeysDiffer
      <3> QED
        BY <1>6, <1>10, <3>1
    <2> QED
      BY <2>1, <2>2 DEF KeysDiffer
  <1> QED
    BY <1>7, <1>8, <1>11

\* A reply to one browser leaves those to the others as they are.
LEMMA OneReplies ==
  ASSUME StopsInv, NEW b \in Browsers, NEW r, IsStopsReply(r), reply' = [reply EXCEPT ![b] = r]
  PROVE  reply' = [c \in Browsers |-> reply'[c]] /\ \A c \in Browsers : IsStopsReply(reply'[c])
  <1>1. reply' = [c \in Browsers |-> IF c = b THEN r ELSE reply[c]]
    BY DEF StopsInv
  <1> QED
    BY <1>1 DEF StopsInv

\* What is sent is checked, and a refusal otherwise.
LEMMA StopsSent ==
  ASSUME NEW box, NEW stops, CornersOf[stops.of] = CornersOf[box], moment < stops.asOf + StopsTtl,
         IsCollection(stops)
  PROVE  IsStopsReply(Sending(box, stops))
  <1>1. CASE Sending(box, stops) = Refusal("INTERNAL_ERROR")
    BY <1>1 DEF Refusal, IsStopsReply
  <1>2. CASE Sending(box, stops) = [code |-> "OK", asked |-> box, stops |-> stops, at |-> moment]
    <2> DEFINE sent == Sending(box, stops)
    <2>1. sent.code = "OK" /\ sent.asked = box /\ sent.stops = stops /\ sent.at = moment
      BY <1>2
    <2> HIDE DEF sent
    <2>2. IsStopsReply(sent)
      BY <2>1 DEF IsStopsReply
    <2> QED
      BY <2>2 DEF sent
  <1> QED
    BY <1>1, <1>2 DEF Sending

\* Every failure has a code of its own.
LEMMA FailuresHaveCodes ==
  ASSUME NEW answer \in Failures
  PROVE  IsStopsReply(Refusal(CodeOf(Thrown(answer))))
  <1>1. CodeOf(Thrown(answer)) \in {"SERVICE_UNAVAILABLE", "VALIDATION_FAILED", "INTERNAL_ERROR"}
    BY DEF CodeOf
  <1> DEFINE code == CodeOf(Thrown(answer))
  <1> HIDE DEF code
  <1>2. code \in {"SERVICE_UNAVAILABLE", "VALIDATION_FAILED", "INTERNAL_ERROR"}
    BY <1>1 DEF code
  <1>3. IsStopsReply(Refusal(code))
    BY <1>2 DEF Refusal, IsStopsReply
  <1> QED
    BY <1>3 DEF code

\* An empty cache, and nobody who waits.
LEMMA StopsStart == MapStopsInit => StopsInv
  <1> SUFFICES ASSUME MapStopsInit PROVE StopsInv
    OBVIOUS
  <1>1. moment \in Nat /\ moment <= LastMoment
    BY MapStopsAssumption DEF MapStopsInit
  <1>2. /\ kept \in Seq(Entries) /\ Len(kept) <= StopsMax /\ KeysDiffer(kept)
        /\ \A i \in DOMAIN kept : IsEntry(kept[i])
    BY MapStopsAssumption DEF MapStopsInit, KeysDiffer
  <1>3. awaited \in [Browsers -> Boxes \cup {NoBox}]
    BY DEF MapStopsInit
  <1>4. IsStopsReply(NoReply)
    BY DEF NoReply, IsStopsReply
  <1>5. reply = [b \in Browsers |-> reply[b]] /\ \A b \in Browsers : IsStopsReply(reply[b])
    BY <1>4 DEF MapStopsInit
  <1> QED
    BY <1>1, <1>2, <1>3, <1>5 DEF StopsInv

\* Every request and every answer keeps the invariant.
LEMMA StopsStep == StopsInv /\ [MapStopsNext]_stopsVars => StopsInv'
  <1> SUFFICES ASSUME StopsInv, [MapStopsNext]_stopsVars PROVE StopsInv'
    OBVIOUS
  <1>1. ASSUME NEW b \in Browsers, NEW box \in Boxes, Ask(b, box) PROVE StopsInv'
    <2>1. moment' = moment
      BY <1>1 DEF Ask
    <2>2. CASE box \in Refusable /\ reply' = [reply EXCEPT ![b] = Refusal("VALIDATION_FAILED")]
               /\ UNCHANGED <<kept, awaited>>
      <3>1. IsStopsReply(Refusal("VALIDATION_FAILED"))
        BY DEF Refusal, IsStopsReply
      <3>2. reply' = [c \in Browsers |-> reply'[c]] /\ \A c \in Browsers : IsStopsReply(reply'[c])
        BY <2>2, <3>1, OneReplies
      <3> QED
        BY <2>1, <2>2, <3>2 DEF StopsInv
    <2>3. ASSUME NEW i \in Fresh(CornersOf[box]), Use(i), UNCHANGED awaited,
                 reply' = [reply EXCEPT ![b] = Sending(box, kept[i].stops)]
          PROVE  StopsInv'
      <3>1. i \in DOMAIN kept /\ kept[i].key = CornersOf[box] /\ kept[i].until > moment
        BY DEF Fresh, IndexOf
      <3>2. IsEntry(kept[i])
        BY <3>1 DEF StopsInv
      <3>3. IsStopsReply(Sending(box, kept[i].stops))
        <4>1. CornersOf[kept[i].stops.of] = CornersOf[box]
          BY <3>1, <3>2 DEF IsEntry
        <4>2. moment < kept[i].stops.asOf + StopsTtl
          <5>1. kept[i].until \in Nat /\ moment \in Nat
            BY <3>2 DEF IsEntry, Entries, StopsInv
          <5> QED
            BY <3>1, <3>2, <5>1 DEF IsEntry
        <4>3. IsCollection(kept[i].stops)
          BY <3>2 DEF IsEntry
        <4> QED
          BY <4>1, <4>2, <4>3, StopsSent
      <3>4. reply' = [c \in Browsers |-> reply'[c]] /\ \A c \in Browsers : IsStopsReply(reply'[c])
        BY <2>3, <3>3, OneReplies
      <3>5. /\ kept' \in Seq(Entries) /\ Len(kept') <= StopsMax /\ KeysDiffer(kept')
            /\ \A n \in DOMAIN kept' : IsEntry(kept'[n])
        BY <2>3, <3>2, Touched DEF Use
      <3> QED
        BY <2>1, <2>3, <3>4, <3>5 DEF StopsInv
    <2>4. CASE awaited' = [awaited EXCEPT ![b] = box] /\ UNCHANGED <<kept, reply>>
      BY <2>1, <2>4 DEF StopsInv
    <2> QED
      BY <1>1, <2>2, <2>3, <2>4 DEF Ask
  <1>2. ASSUME NEW b \in Browsers, ProviderAnswers(b) PROVE StopsInv'
    <2> DEFINE box == awaited[b]
    <2>1. box \in Boxes /\ moment' = moment
      BY <1>2 DEF ProviderAnswers, StopsInv
    <2>2. /\ Touch([key |-> CornersOf[box], until |-> moment + StopsTtl, stops |-> Collected(box)])
          /\ reply' = [reply EXCEPT ![b] = Sending(box, Collected(box))]
          /\ awaited' = [awaited EXCEPT ![b] = NoBox]
      BY <1>2 DEF ProviderAnswers
    <2> HIDE DEF box
    <2>3. PICK new : new = [key |-> CornersOf[box], until |-> moment + StopsTtl, stops |-> Collected(box)]
      OBVIOUS
    <2>4. moment \in Nat /\ StopsTtl \in Nat /\ StopsTtl > 0
      BY MapStopsAssumption DEF StopsInv
    <2>5. /\ Collected(box).of = box /\ Collected(box).asOf = moment
          /\ Collected(box) \in Collections /\ IsCollection(Collected(box))
      BY <2>1, <2>4 DEF Collected, Collections, IsCollection
    <2>6. new.key = CornersOf[box] /\ new.until = moment + StopsTtl /\ new.stops = Collected(box)
      BY <2>3
    <2>7. new \in Entries
      BY <2>1, <2>3, <2>4, <2>5 DEF Entries, KeysOfCache
    <2>8. IsEntry(new)
      BY <2>5, <2>6, <2>7 DEF IsEntry
    <2>9. /\ kept' \in Seq(Entries) /\ Len(kept') <= StopsMax /\ KeysDiffer(kept')
          /\ \A n \in DOMAIN kept' : IsEntry(kept'[n])
      BY <2>2, <2>3, <2>8, Touched
    <2>10. IsStopsReply(Sending(box, Collected(box)))
      BY <2>4, <2>5, StopsSent
    <2>11. reply' = [c \in Browsers |-> reply'[c]] /\ \A c \in Browsers : IsStopsReply(reply'[c])
      BY <2>2, <2>10, OneReplies
    <2>12. awaited' \in [Browsers -> Boxes \cup {NoBox}]
      BY <2>2 DEF StopsInv
    <2> QED
      BY <2>1, <2>9, <2>11, <2>12 DEF StopsInv
  <1>3. ASSUME NEW b \in Browsers, NEW answer \in Failures, ProviderFails(b, answer) PROVE StopsInv'
    <2>1. /\ reply' = [reply EXCEPT ![b] = Refusal(CodeOf(Thrown(answer)))]
          /\ awaited' = [awaited EXCEPT ![b] = NoBox] /\ UNCHANGED <<moment, kept>>
      BY <1>3 DEF ProviderFails
    <2>2. reply' = [c \in Browsers |-> reply'[c]] /\ \A c \in Browsers : IsStopsReply(reply'[c])
      BY <2>1, FailuresHaveCodes, OneReplies
    <2> QED
      BY <2>1, <2>2 DEF StopsInv
  <1>4. ASSUME NEW b \in Browsers, Leaves(b) PROVE StopsInv'
    BY <1>4 DEF Leaves, StopsInv
  <1>5. CASE TimePasses
    <2>1. moment' = moment + 1 /\ moment < LastMoment /\ UNCHANGED <<kept, awaited, reply>>
      BY <1>5 DEF TimePasses
    <2> QED
      BY <2>1, MapStopsAssumption DEF StopsInv
  <1>6. CASE UNCHANGED stopsVars
    BY <1>6 DEF stopsVars, StopsInv
  <1> QED
    BY <1>1, <1>2, <1>3, <1>4, <1>5, <1>6 DEF MapStopsNext

\* The invariant is of the type, and says that what is sent is recent.
LEMMA StopsTypes == StopsInv => MapStopsTypeOK /\ StationsAreRecent
  <1> SUFFICES ASSUME StopsInv PROVE MapStopsTypeOK /\ StationsAreRecent
    OBVIOUS
  <1>1. \A i \in DOMAIN kept : IndexOf(kept[i].key) = {i}
    BY DEF StopsInv, KeysDiffer, IndexOf
  <1>2. moment \in 0 .. LastMoment
    BY MapStopsAssumption DEF StopsInv
  <1> QED
    BY <1>1, <1>2 DEF StopsInv, MapStopsTypeOK, StationsAreRecent, IsStopsReply

\* A planner that nobody calls.
LEMMA PlanningRests == NoPlanning => PlanInv
  <1> SUFFICES ASSUME NoPlanning PROVE PlanInv
    OBVIOUS
  <1>1. RequestsInFlight = {}
    BY DEF NoPlanning, RequestsInFlight
  <1>2. KeyInv
    BY DEF NoPlanning, KeyInv, KeyTypes, RunnersOwn, OwnersRun, WaitersHavePromise, Waiting,
           Outcomes, Payloads
  <1>3. LimiterTypes /\ WaitersDiffer
    BY DEF NoPlanning, LimiterTypes, WaitersDiffer, Stages
  <1>4. SlotsAreExact
    BY <1>1, LimitType, FS_EmptySet DEF NoPlanning, SlotsAreExact
  <1> QED
    BY <1>2, <1>3, <1>4 DEF PlanInv, LimiterInv

\* What callers of the planner and browsers are given from a cache is what they would
\* have got themselves: plans asked for once, and stations of the corners asked for,
\* of an age that is allowed (plan-cache.ts, map-stops-service.ts).
THEOREM CachesStayTrue == Spec => []CachesAreTrue
  <1> DEFINE Caches == PlanInv /\ StopsInv
  <1>1. Init => Caches
    BY PartsStart, StopsStart, PlanInit, PlanningRests
  <1>2. Caches /\ [Next]_vars => Caches'
    BY PartsMove, PlanNext, StopsStep
  <1>3. Caches => CachesAreTrue
    BY StopsTypes, PlanIsOne DEF CachesAreTrue
  <1> QED
    BY <1>1, <1>2, <1>3, PTL DEF Spec

-----------------------------------------------------------------------------
(* Types of all parts.                                                      *)

RowNumbers  == 0 .. MaxIdentities - 1
RowLists    == { t \in Seq(RowNumbers) : Len(t) \in MinTravelers .. MaxTravelers }
RowsDiffer  == \A i, j \in DOMAIN rows : rows[i] = rows[j] => i = j

\* No row has a number that is still to be given.
FormShapes ==
  /\ rows \in RowLists /\ RowsDiffer
  /\ nextRow \in 0 .. MaxIdentities /\ \A i \in DOMAIN rows : rows[i] < nextRow
  /\ placed \subseteq Members
  /\ complete \in BOOLEAN /\ submitting \in BOOLEAN
  /\ problem \in {"none", "fields", "refused", "unreachable"}
  /\ creation.is \in {"none", "sent", "accepted", "refused"}
  /\ creation.is = "sent" => creation.travelers \in RowLists
  /\ stray \subseteq RowLists /\ created \in Seq(RowLists)
  /\ route \in {"form", "search"}

\* What is assumed of the numbers of travelers.
LEMMA FormConstants ==
  /\ MinTravelers \in Nat /\ MaxTravelers \in Nat /\ MaxIdentities \in Nat
  /\ 1 <= MinTravelers /\ MinTravelers <= MaxTravelers /\ MinTravelers <= MaxIdentities
  BY FormAssumption DEF FormAssumption

\* The first rows.
LEMMA FormStart == FormInit => FormShapes
  <1> SUFFICES ASSUME FormInit PROVE FormShapes
    OBVIOUS
  <1>1. /\ rows = [i \in 1 .. MinTravelers |-> i - 1] /\ nextRow = MinTravelers
        /\ placed = {} /\ complete = TRUE /\ submitting = FALSE /\ problem = "none"
        /\ creation = NoCreation /\ stray = {} /\ created = << >> /\ route = "form"
    BY DEF FormInit
  <1>2. rows \in Seq(RowNumbers) /\ Len(rows) = MinTravelers
    BY <1>1, FormConstants DEF RowNumbers
  <1>3. rows \in RowLists
    BY <1>2, FormConstants DEF RowLists
  <1>4. RowsDiffer /\ nextRow \in 0 .. MaxIdentities /\ \A i \in DOMAIN rows : rows[i] < nextRow
    BY <1>1, FormConstants DEF RowsDiffer
  <1>5. created \in Seq(RowLists) /\ placed \subseteq Members /\ creation.is = "none"
    BY <1>1 DEF NoCreation
  <1> QED
    BY <1>1, <1>3, <1>4, <1>5 DEF FormShapes

\* Every step of the form keeps its fields in their types.
LEMMA FormTypesStep == FormShapes /\ [FormNext]_formVars => FormShapes'
  <1> SUFFICES ASSUME FormShapes, [FormNext]_formVars PROVE FormShapes'
    OBVIOUS
  <1> USE DEF FormShapes
  <1>1. /\ rows \in Seq(RowNumbers) /\ Len(rows) \in Nat /\ DOMAIN rows = 1 .. Len(rows)
        /\ MinTravelers <= Len(rows) /\ Len(rows) <= MaxTravelers
    BY FormConstants DEF RowLists
  <1>0. nextRow \in Int /\ \A i \in DOMAIN rows : rows[i] \in Int /\ rows[i] < nextRow
    <2>1. \A i \in DOMAIN rows : rows[i] \in RowNumbers
      BY <1>1
    <2> QED
      BY <2>1, FormConstants DEF RowNumbers
  <1>2. CASE AddTraveler
    <2>1. /\ nextRow < MaxIdentities /\ nextRow' = nextRow + 1
          /\ rows' = IF Len(rows) >= MaxTravelers THEN rows ELSE Append(rows, nextRow)
          /\ UNCHANGED <<placed, complete, submitting, problem, creation, stray, created, route>>
      BY <1>2 DEF AddTraveler
    <2>2. nextRow' \in 0 .. MaxIdentities /\ nextRow \in RowNumbers /\ nextRow \in Nat
      BY <2>1, FormConstants DEF RowNumbers
    <2>3. CASE rows' = rows
      <3>1. \A i \in DOMAIN rows : rows[i] < nextRow'
        BY <1>0, <2>1
      <3> QED
        BY <2>1, <2>2, <2>3, <3>1 DEF RowsDiffer, Members
    <2>4. CASE Len(rows) < MaxTravelers /\ rows' = Append(rows, nextRow)
      <3>1. /\ rows' \in Seq(RowNumbers) /\ Len(rows') = Len(rows) + 1
            /\ \A i \in 1 .. Len(rows) : rows'[i] = rows[i]
            /\ rows'[Len(rows) + 1] = nextRow /\ DOMAIN rows' = 1 .. Len(rows) + 1
        BY <1>1, <2>2, <2>4, AppendProperties
      <3>2. rows' \in RowLists
        BY <1>1, <2>4, <3>1, FormConstants DEF RowLists
      <3>3. \A i \in DOMAIN rows' : rows'[i] \in Int /\ rows'[i] < nextRow'
        <4> SUFFICES ASSUME NEW i \in DOMAIN rows'
                     PROVE  rows'[i] \in Int /\ rows'[i] < nextRow'
          OBVIOUS
        <4>1. CASE i = Len(rows) + 1
          BY <1>0, <2>1, <3>1, <4>1
        <4>2. CASE i \in DOMAIN rows
          <5>1. rows'[i] = rows[i]
            BY <1>1, <3>1, <4>2
          <5> QED
            BY <1>0, <2>1, <4>2, <5>1
        <4> QED
          BY <1>1, <3>1, <4>1, <4>2
      <3>4. RowsDiffer'
        <4> SUFFICES ASSUME NEW i \in DOMAIN rows', NEW j \in DOMAIN rows', rows'[i] = rows'[j]
                     PROVE  i = j
          BY DEF RowsDiffer
        <4>1. CASE i \in DOMAIN rows /\ j \in DOMAIN rows
          BY <1>1, <3>1, <4>1 DEF RowsDiffer
        <4>2. CASE i = Len(rows) + 1 /\ j \in DOMAIN rows
          BY <1>1, <2>2, <3>1, <4>2 DEF RowNumbers
        <4>3. CASE j = Len(rows) + 1 /\ i \in DOMAIN rows
          BY <1>1, <2>2, <3>1, <4>3 DEF RowNumbers
        <4> QED
          BY <1>1, <3>1, <4>1, <4>2, <4>3
      <3>5. placed' \subseteq Members'
        <4>1. \A i \in DOMAIN rows : i \in DOMAIN rows' /\ rows'[i] = rows[i]
          BY <1>1, <3>1
        <4> QED
          BY <2>1, <4>1 DEF Members
      <3> QED
        BY <2>1, <2>2, <3>2, <3>3, <3>4, <3>5
    <2>5. rows' = rows \/ (Len(rows) < MaxTravelers /\ rows' = Append(rows, nextRow))
      <3>1. Len(rows) >= MaxTravelers \/ Len(rows) < MaxTravelers
        BY <1>1, FormConstants
      <3> QED
        BY <1>1, <2>1, <3>1, FormConstants
    <2> HIDE DEF FormShapes
    <2> QED
      BY <2>3, <2>4, <2>5
  <1>3. CASE RemoveTraveler
    <2>1. PICK i \in DOMAIN rows : rows' = RemoveAt(rows, i) /\ placed' = placed \ {rows[i]}
      BY <1>3 DEF RemoveTraveler
    <2>2. /\ Len(rows) > MinTravelers
          /\ UNCHANGED <<nextRow, complete, submitting, problem, creation, stray, created, route>>
      BY <1>3 DEF RemoveTraveler
    <2>3. /\ rows' \in Seq(RowNumbers) /\ Len(rows') = Len(rows) - 1
          /\ \A j \in 1 .. Len(rows) - 1 : rows'[j] = rows[IF j < i THEN j ELSE j + 1]
          /\ DOMAIN rows' = 1 .. Len(rows) - 1
      <3>1. /\ rows' \in Seq(RowNumbers) /\ Len(rows') = Len(rows) - 1
            /\ \A j \in 1 .. Len(rows) - 1 : rows'[j] = rows[IF j < i THEN j ELSE j + 1]
        BY <1>1, <2>1, WithoutOne
      <3> QED
        BY <3>1
    <2>4. rows' \in RowLists
      BY <1>1, <2>2, <2>3, FormConstants DEF RowLists
    <2>5. ASSUME NEW j \in DOMAIN rows'
          PROVE  \E n \in DOMAIN rows : rows'[j] = rows[n] /\ n = IF j < i THEN j ELSE j + 1
      BY <1>1, <2>3
    <2>6. RowsDiffer'
      <3> SUFFICES ASSUME NEW j \in DOMAIN rows', NEW k \in DOMAIN rows', rows'[j] = rows'[k]
                   PROVE  j = k
        BY DEF RowsDiffer
      <3>1. PICK n \in DOMAIN rows : rows'[j] = rows[n] /\ n = IF j < i THEN j ELSE j + 1
        BY <2>5
      <3>2. PICK m \in DOMAIN rows : rows'[k] = rows[m] /\ m = IF k < i THEN k ELSE k + 1
        BY <2>5
      <3>3. n = m
        BY <3>1, <3>2 DEF RowsDiffer
      <3> QED
        BY <1>1, <2>3, <3>1, <3>2, <3>3
    <2>7. \A j \in DOMAIN rows' : rows'[j] < nextRow'
      BY <2>2, <2>5
    <2>8. placed' \subseteq Members'
      <3> SUFFICES ASSUME NEW r \in placed' PROVE r \in Members'
        OBVIOUS
      <3>1. PICK n \in DOMAIN rows : r = rows[n] /\ n # i
        BY <2>1 DEF Members
      <3> DEFINE j == IF n < i THEN n ELSE n - 1
      <3>2. j \in DOMAIN rows' /\ rows'[j] = rows[n]
        BY <1>1, <2>3, <3>1
      <3> QED
        BY <3>1, <3>2 DEF Members
    <2> QED
      BY <2>2, <2>4, <2>6, <2>7, <2>8
  <1>4. CASE OriginChanges \/ OtherFieldsChange
    BY <1>4 DEF OriginChanges, OtherFieldsChange, RowsDiffer, Members
  <1>5. CASE Submit
    <2>1. /\ UNCHANGED <<rows, nextRow, placed, complete, stray, created, route>>
          /\ submitting' \in BOOLEAN /\ problem' \in {"none", "fields"}
          /\ creation' = Sent \/ creation' = creation
      BY <1>5 DEF Submit
    <2>2. Sent.is = "sent" /\ Sent.travelers = rows
      BY DEF Sent
    <2> QED
      BY <2>1, <2>2 DEF RowsDiffer, Members
  <1>6. CASE Stores
    <2>1. UNCHANGED <<rows, nextRow, placed, complete, submitting, problem, route>>
      BY <1>6 DEF Stores
    <2>2. PICK t \in RowLists : created' = Append(created, t)
      BY <1>6 DEF Stores
    <2>3. created' \in Seq(RowLists)
      BY <2>2
    <2>4. /\ creation' = creation \/ creation' = [is |-> "accepted"]
          /\ stray' \subseteq stray
      BY <1>6 DEF Stores
    <2>5. /\ creation'.is \in {"none", "sent", "accepted", "refused"}
          /\ creation'.is = "sent" => creation'.travelers \in RowLists
      BY <2>4
    <2> QED
      BY <2>1, <2>3, <2>4, <2>5 DEF RowsDiffer, Members
  <1>7. CASE Refuses
    BY <1>7 DEF Refuses, RowsDiffer, Members
  <1>8. CASE Accepted
    BY <1>8 DEF Accepted, NoCreation, RowsDiffer, Members
  <1>9. CASE CreationRefused \/ Breaks
    <2>1. /\ UNCHANGED <<rows, nextRow, placed, complete, created, route>>
          /\ submitting' = FALSE /\ problem' \in {"refused", "unreachable"}
          /\ creation' = NoCreation /\ stray' \subseteq RowLists
      BY <1>9 DEF CreationRefused, Breaks, Fails
    <2> QED
      BY <2>1 DEF NoCreation, RowsDiffer, Members
  <1>10. CASE UNCHANGED formVars
    BY <1>10 DEF formVars, RowsDiffer, Members
  <1> QED
    BY <1>2, <1>3, <1>4, <1>5, <1>6, <1>7, <1>8, <1>9, <1>10 DEF FormNext

\* Rows that differ are as many as their numbers.
LEMMA FormTypes == FormShapes => SearchFormTypeOK
  <1> SUFFICES ASSUME FormShapes PROVE SearchFormTypeOK
    OBVIOUS
  <1>1. /\ rows \in Seq(RowNumbers) /\ Len(rows) \in Nat /\ DOMAIN rows = 1 .. Len(rows)
        /\ Len(rows) \in MinTravelers .. MaxTravelers
    BY DEF FormShapes, RowLists
  <1>2. rows \in Surjection(1 .. Len(rows), Members) /\ rows \in Injection(1 .. Len(rows), Members)
    BY <1>1 DEF FormShapes, RowsDiffer, Members, Surjection, Injection, IsInjective
  <1>3. IsFiniteSet(1 .. Len(rows)) /\ Cardinality(1 .. Len(rows)) = Len(rows)
    <2>1. 1 \in Int /\ Len(rows) \in Int
      BY <1>1
    <2> QED
      BY <1>1, <2>1, FS_Interval
  <1>4. Cardinality(Members) = Len(rows)
    BY <1>2, <1>3, FS_Surjection
  <1>5. \A i \in DOMAIN created : Len(created[i]) \in MinTravelers .. MaxTravelers
    BY DEF FormShapes, RowLists
  <1> QED
    BY <1>1, <1>4, <1>5 DEF FormShapes, SearchFormTypeOK, RowNumbers

\* A ranking that is not empty has a first city.
LEMMA FirstIsRanked ==
  ASSUME NEW m \in DOMAIN Ranked
  PROVE  FirstCity(m) = NoCity \/ HasCity(m, FirstCity(m))
  <1>1. Rank(m) \in Seq(Range(Rank(m)))
    BY MapSceneAssumption DEF Rank, IsRow
  <1>2. CASE Rank(m) = << >>
    BY <1>2 DEF FirstCity
  <1>3. CASE Rank(m) # << >>
    <2>1. 1 \in DOMAIN Rank(m)
      BY <1>1, <1>3
    <2> QED
      BY <1>3, <2>1 DEF FirstCity, HasCity
  <1> QED
    BY <1>2, <1>3

\* The choices on the map keep to what there is to choose.
LEMMA SceneTypes ==
  /\ MapSceneInit => MapSceneTypeOK
  /\ MapSceneTypeOK /\ [MapSceneNext]_sceneVars => MapSceneTypeOK'
  <1>1. MapSceneInit => MapSceneTypeOK
    BY MapSceneAssumption DEF MapSceneInit, MapSceneTypeOK
  <1>2. ASSUME MapSceneTypeOK, [MapSceneNext]_sceneVars PROVE MapSceneTypeOK'
    <2>1. CASE ResultsArrive
      BY <1>2, <2>1, FirstIsRanked DEF ResultsArrive, MapSceneTypeOK
    <2>2. CASE ModeChanges
      BY <1>2, <2>2, FirstIsRanked DEF ModeChanges, MapSceneTypeOK
    <2>3. CASE CitySelected
      BY <1>2, <2>3 DEF CitySelected, MapSceneTypeOK, HasCity
    <2>4. CASE TravelerFocused
      BY <1>2, <2>4 DEF TravelerFocused, MapSceneTypeOK
    <2>5. CASE UNCHANGED sceneVars
      BY <1>2, <2>5 DEF sceneVars, MapSceneTypeOK
    <2> QED
      BY <1>2, <2>1, <2>2, <2>3, <2>4, <2>5 DEF MapSceneNext
  <1> QED
    BY <1>1, <1>2

\* A process that has ended as it should.
LEMMA WorkerRests == NoWorker => ShutdownInv
  BY FiveResources, WorkerAssumption
  DEF NoWorker, ShutdownInv, PoolIsCounted, WorkerTypeOK, ConsumersAreDone

\* Every part stays in its types, for any values of the constants.
THEOREM FrontendTypeCorrect == Spec => []FrontendTypeOK
  <1> DEFINE Parts == /\ PlanInv /\ ShutdownInv /\ MapInv /\ PageInv /\ ComboInv
                      /\ FormShapes /\ MapSceneTypeOK /\ StopsInv
  <1>1. Init => Parts
    BY PartsStart, PlanInit, PlanningRests, ShutdownStart, WorkerRests, MapStart, MapRests,
       PageStart, PageRests, FieldStart, FormStart, SceneTypes, StopsStart
  <1>2. Parts /\ [Next]_vars => Parts'
    BY PartsMove, PlanNext, ShutdownStep, MapStep, PageStep, FieldStep, FormTypesStep, SceneTypes,
       StopsStep
    DEF MapGoodStep, PageGoodStep
  <1>3. Parts => FrontendTypeOK
    BY PlanTypes, MapTypes, PageTypes, FieldTypes, FormTypes, StopsTypes
    DEF ShutdownInv, FrontendTypeOK
  <1> QED
    BY <1>1, <1>2, <1>3, PTL DEF Spec

\* The stations a browser has been sent are the important ones of their box.
LEMMA StopsAreImportant == StopsInv => ImportantStationsAreSent
  <1> SUFFICES ASSUME StopsInv, NEW b \in Browsers, reply[b].code = "OK"
               PROVE  HoldsImportant(reply[b].stops.stations, PlacesAt[reply[b].stops.of])
    BY DEF ImportantStationsAreSent, HoldsImportant
  <1>1. IsCollection(reply[b].stops)
    BY DEF StopsInv, IsStopsReply
  <1>2. PICK stops : stops = reply[b].stops
    OBVIOUS
  <1>3. stops.of \in Boxes /\ stops.stations = Truncated(StationsOf(PlacesAt[stops.of]))
    BY <1>1, <1>2 DEF IsCollection
  <1>4. PICK places : places = PlacesAt[stops.of]
    OBVIOUS
  <1>5. places \in Seq(PlaceType)
    BY <1>3, <1>4, MapStopsAssumption DEF PlaceType
  <1>6. HoldsImportant(Truncated(StationsOf(places)), places)
    BY <1>5, ImportantAreKept
  <1> QED
    BY <1>2, <1>3, <1>4, <1>6

\* A timeline is that of an itinerary, stored in a form the row may have.
TimelineIsStored == part = "timeline" => itinerary \in Itineraries /\ storedAs \in StoredForms

\* The journey on the panel stays what it is.
LEMMA TimelineStays ==
  /\ Init => TimelineIsStored
  /\ TimelineIsStored /\ [Next]_vars => TimelineIsStored'
  <1>1. ASSUME Init PROVE TimelineIsStored
    <2>1. PartsInit
      BY <1>1 DEF Init
    <2> SUFFICES ASSUME part = "timeline" PROVE DocumentInit
      BY DEF TimelineIsStored, DocumentInit, TimelineInit
    <2>2. part \notin {"planning", "worker", "map", "page", "combobox", "form", "scene", "stops"}
      OBVIOUS
    <2> QED
      BY <2>1, <2>2, Zenon DEF PartsInit
  <1>2. [Next]_vars => UNCHANGED <<part, itinerary, storedAs>>
    <2>1. PartsNext => UNCHANGED <<part, itinerary, storedAs>>
      BY DEF PartsNext
    <2>2. Next => UNCHANGED <<part, itinerary, storedAs>>
      BY <2>1 DEF Next
    <2>3. UNCHANGED vars => UNCHANGED <<part, itinerary, storedAs>>
      BY DEF vars
    <2> QED
      BY <2>2, <2>3
  <1> QED
    BY <1>1, <1>2 DEF TimelineIsStored

\* Map, timeline and chips tell the journey that was found, for any itineraries, and
\* the map has the stations that matter, for any places (motis-map-stops.ts,
\* map-stops-service.ts, map-markers.ts, journey-itinerary-timeline.tsx,
\* route-summary.ts).
THEOREM TripStaysShown == Spec => []TripIsShown
  <1> DEFINE Kept == StopsInv /\ MapSceneTypeOK /\ TimelineIsStored
  <1>1. Init => Kept
    BY PartsStart, StopsStart, SceneTypes, TimelineStays
  <1>2. Kept /\ [Next]_vars => Kept'
    BY PartsMove, StopsStep, SceneTypes, TimelineStays
  <1>3. Kept => TripIsShown
    <2> SUFFICES ASSUME StopsInv, MapSceneTypeOK, TimelineIsStored PROVE TripIsShown
      OBVIOUS
    <2>1. ImportantStationsAreSent
      BY StopsAreImportant
    <2>2. LabelsDontCollide /\ FocusMovesNothing
      BY SceneIsRight
    <2>3. ASSUME part = "timeline"
          PROVE  TimelineTellsTheJourney /\ DayTurnsAreSeparated /\ ChipsAndPanelAgree
      <3>1. IsItinerary(itinerary) /\ storedAs \in StoredForms
        BY <2>3, ItinerariesAssumption DEF TimelineIsStored
      <3> QED
        BY <3>1, JourneyIsTold, DaysAreSeparated, ChipsAgree
    <2> QED
      BY <2>1, <2>2, <2>3 DEF TripIsShown
  <1> QED
    BY <1>1, <1>2, <1>3, PTL DEF Spec
=============================================================================
