--------------------------- MODULE JourneyPlanning ---------------------------
(***************************************************************************)
(* The journey planner of one worker process: a plan cache in Redis with    *)
(* coalescing of identical requests, around a limiter of concurrent         *)
(* requests, around the Transitous client (app.ts composes them so).        *)
(*                                                                          *)
(* Routing handlers are Callers; equal plan inputs are equal Keys.  The     *)
(* first caller of a key runs the request, and those that ask for the key   *)
(* meanwhile wait for the same promise.  Every await is a place where       *)
(* other callers run, so each part between two awaits is one action.        *)
(***************************************************************************)
EXTENDS Naturals, Sequences, FiniteSets, SequencesExt

CONSTANTS
  Callers,         \* handlers that may ask for a plan at the same time
  Keys,            \* cache keys of the plan inputs
  MaxConcurrent    \* SEARCH_LIMITS.maximumConcurrentTransitousRequests

NoCaller == [caller |-> "none"]

ASSUME JourneyPlanningAssumption ==
  /\ IsFiniteSet(Callers) /\ NoCaller \notin Callers
  /\ "nothing" \notin Keys
  /\ MaxConcurrent \in Nat

VARIABLES
  call,      \* what every caller waits for, and how its last call ended
  running,   \* where the request of a caller that runs one stands
  inFlight,  \* the caller whose request a key's promise belongs to
  slots,     \* the limiter's count of requests in flight
  waiters,   \* callers whose request waits for a slot, oldest first
  cached     \* what Redis holds for a key

planningVars == <<call, running, inFlight, slots, waiters, cached>>

Stages   == {"none", "reading", "queued", "requesting", "writing"}
Payloads == {"absent", "usable", "unusable", "garbled"}

\* What the routing handler makes of a plan or of a RoutingError's class.
Outcomes == {"none", "journeys", "retry", "exhaust"}
Outcome(class) ==
  CASE class = "journeys" -> "journeys"
    [] class \in {"transient", "rate_limited", "provider_unavailable"} -> "retry"
    [] OTHER -> "exhaust"

PlanningTypeOK ==
  /\ call \in [Callers -> [waitsFor : Keys \cup {"nothing"}, outcome : Outcomes]]
  /\ running \in [Callers -> Stages]
  /\ inFlight \in [Keys -> Callers \cup {NoCaller}]
  /\ slots \in Nat
  /\ waiters \in Seq(Callers)
  /\ cached \in [Keys -> Payloads]

PlanningInit ==
  /\ call = [c \in Callers |-> [waitsFor |-> "nothing", outcome |-> "none"]]
  /\ running = [c \in Callers |-> "none"]
  /\ inFlight = [k \in Keys |-> NoCaller]
  /\ slots = 0
  /\ waiters = <<>>
  /\ cached \in [Keys -> Payloads]

-----------------------------------------------------------------------------
(* The limiter: a count of slots, and the callers waiting for one.          *)

Limit == IF MaxConcurrent = 0 THEN 1 ELSE MaxConcurrent

RequestsInFlight == {c \in Callers : running[c] = "requesting"}
Waiting(c) == call[c].waitsFor # "nothing"

\* A request starts at once or queues for a slot.
Acquire(c) ==
  \/ /\ slots < Limit
     /\ slots' = slots + 1
     /\ running' = [running EXCEPT ![c] = "requesting"]
     /\ UNCHANGED waiters
  \/ /\ slots >= Limit
     /\ waiters' = Append(waiters, c)
     /\ running' = [running EXCEPT ![c] = "queued"]
     /\ UNCHANGED slots

Decremented == IF slots = 0 THEN 0 ELSE slots - 1

\* Mistake: a waiter is woken without its slot being counted.
ReleaseUncounted(c, next) ==
  /\ slots' = Decremented
  /\ waiters' = IF waiters = <<>> THEN waiters ELSE Tail(waiters)
  /\ running' = IF waiters = <<>> THEN [running EXCEPT ![c] = next]
                ELSE [running EXCEPT ![c] = next, ![Head(waiters)] = "requesting"]

\* The slot of c is given back, and taken again for the oldest waiter;
\* c goes on to its next stage.
Release(c, next) ==
  IF waiters = <<>>
  THEN /\ slots' = Decremented
       /\ running' = [running EXCEPT ![c] = next]
       /\ UNCHANGED waiters
  ELSE /\ slots' = Decremented + 1
       /\ running' = [running EXCEPT ![c] = next, ![Head(waiters)] = "requesting"]
       /\ waiters' = Tail(waiters)

-----------------------------------------------------------------------------
(* The cache.                                                               *)

\* A call joins the request in flight for its key, or starts one by reading
\* the cache.
PlanJourney(c, k) ==
  /\ ~Waiting(c)
  /\ call' = [call EXCEPT ![c] = [waitsFor |-> k, outcome |-> "none"]]
  /\ \/ /\ inFlight[k] # NoCaller
        /\ UNCHANGED <<running, inFlight>>
     \/ /\ inFlight[k] = NoCaller
        /\ inFlight' = [inFlight EXCEPT ![k] = c]
        /\ running' = [running EXCEPT ![c] = "reading"]
  /\ UNCHANGED <<slots, waiters, cached>>

\* Mistake: the key is only freed by a request that succeeds.
SettleKeepingFailures(c, outcome) ==
  LET k == call[c].waitsFor IN
  /\ call' = [d \in Callers |->
                IF call[d].waitsFor = k THEN [waitsFor |-> "nothing", outcome |-> outcome]
                ELSE call[d]]
  /\ inFlight' = IF outcome = "journeys" THEN [inFlight EXCEPT ![k] = NoCaller] ELSE inFlight

\* The promise of the key settles: whoever awaits it has its outcome, and the
\* key is free again.
Settle(c, outcome) ==
  LET k == call[c].waitsFor IN
  /\ call' = [d \in Callers |->
                IF call[d].waitsFor = k THEN [waitsFor |-> "nothing", outcome |-> outcome]
                ELSE call[d]]
  /\ inFlight' = [inFlight EXCEPT ![k] = NoCaller]

CacheHit(c) ==
  /\ running[c] = "reading"
  /\ cached[call[c].waitsFor] = "usable"
  /\ Settle(c, "journeys")
  /\ running' = [running EXCEPT ![c] = "none"]
  /\ UNCHANGED <<slots, waiters, cached>>

\* A missing, unusable or unparsable entry, or a failing Redis, leads on to
\* the provider.
CacheMiss(c) ==
  /\ running[c] = "reading"
  /\ Acquire(c)
  /\ UNCHANGED <<call, inFlight, cached>>

\* The answer is returned whether or not Redis took it.
CacheWrite(c, stored) ==
  /\ running[c] = "writing"
  /\ stored \in {"usable", "unusable", cached[call[c].waitsFor]}
  /\ cached' = [cached EXCEPT ![call[c].waitsFor] = stored]
  /\ Settle(c, "journeys")
  /\ running' = [running EXCEPT ![c] = "none"]
  /\ UNCHANGED <<slots, waiters>>

Expire(k) ==
  /\ cached[k] # "absent"
  /\ cached' = [cached EXCEPT ![k] = "absent"]
  /\ UNCHANGED <<call, running, inFlight, slots, waiters>>

-----------------------------------------------------------------------------
(* The Transitous client: one HTTP attempt per call.                        *)

Bodies    == {"itineraries", "off contract", "broken json", "not json", "oversized"}
Statuses  == {200, 400, 404, 418, 429, 500}
Responses == [status : Statuses, body : Bodies]

ClassifyHttpFailure(status) ==
  CASE status = 429          -> "rate_limited"
    [] status >= 500         -> "provider_unavailable"
    [] OTHER                 -> "permanent"

\* The size, the content type, the JSON and the status are looked at in this
\* order.
Classify(response) ==
  CASE response.body = "oversized"    -> "provider_contract"
    [] response.body = "not json"     -> ClassifyHttpFailure(response.status)
    [] response.body = "broken json"  -> "provider_contract"
    [] response.status # 200          -> ClassifyHttpFailure(response.status)
    [] response.body = "off contract" -> "provider_contract"
    [] OTHER                          -> "journeys"

Classes == {Classify(response) : response \in Responses}

FailRequest(c, class) ==
  /\ running[c] = "requesting"
  /\ Release(c, "none")
  /\ Settle(c, Outcome(class))
  /\ UNCHANGED cached

ResponseArrives(c, class) ==
  \/ /\ class = "journeys"
     /\ running[c] = "requesting"
     /\ Release(c, "writing")
     /\ UNCHANGED <<call, inFlight, cached>>
  \/ class # "journeys" /\ FailRequest(c, class)

\* The timer aborts the request, or the connection fails: both transient.
TimeoutOrNetworkFailure(c) == FailRequest(c, "transient")

-----------------------------------------------------------------------------
PlanningNext ==
  \/ \E c \in Callers :
       \/ \E k \in Keys : PlanJourney(c, k)
       \/ CacheHit(c)
       \/ CacheMiss(c)
       \/ \E stored \in Payloads : CacheWrite(c, stored)
       \/ \E class \in Classes : ResponseArrives(c, class)
       \/ TimeoutOrNetworkFailure(c)
  \/ \E k \in Keys : Expire(k)

\* Redis commands have a timeout, and so has the request to the provider.
PlanningFairness == \A c \in Callers : WF_planningVars(
  CacheHit(c) \/ CacheMiss(c) \/ TimeoutOrNetworkFailure(c)
    \/ \E stored \in Payloads : CacheWrite(c, stored))

PlanningSpec == PlanningInit /\ [][PlanningNext]_planningVars /\ PlanningFairness

-----------------------------------------------------------------------------
(* Properties.                                                              *)

\* The limiter's count is the number of requests at the provider, never above
\* the limit, and no slot stays free while a request waits for one: release
\* (concurrency-limiter.ts:27) hands a slot over by counting down and up.
SlotsAreExact ==
  /\ slots = Cardinality(RequestsInFlight)
  /\ slots <= Limit
  /\ waiters # <<>> => slots = Limit
  /\ \A c \in Callers : running[c] = "queued" <=> \E i \in DOMAIN waiters : waiters[i] = c

\* At most one request per key is on its way, it belongs to the promise the
\* other callers of the key share, and every waiting caller has such a
\* request to wait for (plan-cache.ts:105-168).
OneRequestPerKey ==
  /\ \A c, d \in Callers :
       running[c] # "none" /\ running[d] # "none" /\ call[c].waitsFor = call[d].waitsFor => c = d
  /\ \A c \in Callers : Waiting(c) =>
       /\ inFlight[call[c].waitsFor] # NoCaller
       /\ running[inFlight[call[c].waitsFor]] # "none"

\* A call ends, also one that waits for another caller's request or for a
\* slot: a failure frees the slot and the key (plan-cache.ts:168).  The callers
\* are interchangeable, and one stands for all.
CallEnds == LET c == CHOOSE c \in Callers : TRUE IN Waiting(c) ~> ~Waiting(c)
=============================================================================
