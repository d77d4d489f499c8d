-------------------------------- MODULE MapStops --------------------------------
(***************************************************************************)
(* The stations of a viewport, as the API serves them to every browser: from *)
(* a cache of the process that is bounded, evicts what has not been used for *)
(* longest, and counts an entry as fresh for a time; or from the provider,   *)
(* once for every request that finds nothing fresh.                          *)
(*                                                                          *)
(* Boxes that round to the same corners and zoom share an entry.  A          *)
(* collection carries the box it was fetched for and the moment of the       *)
(* provider's answer.                                                        *)
(***************************************************************************)
EXTENDS Arrangement, SequencesExt

CONSTANTS
  Browsers,        \* those who ask, one request at a time
  Boxes,           \* the viewports asked for
  CornersOf,       \* [Boxes -> keys of the cache]
  Refusable,       \* boxes that the schema of the query refuses
  PlacesAt,        \* [Boxes -> sequences of places: what the provider has there]
  Unsendable,      \* stops that the schema of the response does not allow
  SoftLimit,       \* MAP_STOPS_FEATURE_SOFT_LIMIT
  StopsTtl,        \* MAP_STOPS_CACHE_TTL_MS
  StopsMax,        \* MAP_STOPS_CACHE_MAX_ENTRIES
  LastMoment       \* bounds the clock

ASSUME MapStopsAssumption ==
  /\ Refusable \subseteq Boxes /\ StopsTtl \in Nat \ {0} /\ StopsMax \in Nat \ {0}
  /\ LastMoment \in Nat /\ SoftLimit \in Nat \ {0}
  /\ PlacesAt \in [Boxes -> Seq([stop : Int, score : Int, kind : Nat])]

VARIABLES
  moment,   \* the clock
  kept,     \* the cache: entries in the order of their last use
  awaited,  \* [Browsers -> the box the provider has been asked for, or none]
  reply     \* [Browsers -> the last reply of the API]

stopsVars == <<moment, kept, awaited, reply>>

NoBox   == "none"
NoReply == [code |-> "none"]

IndexOf(key) == {i \in DOMAIN kept : kept[i].key = key}

MapStopsTypeOK ==
  /\ moment \in 0 .. LastMoment
  /\ Len(kept) <= StopsMax /\ \A i \in DOMAIN kept : IndexOf(kept[i].key) = {i}
  /\ awaited \in [Browsers -> Boxes \cup {NoBox}]
  /\ \A b \in Browsers :
       reply[b].code \in {"none", "OK", "VALIDATION_FAILED", "SERVICE_UNAVAILABLE", "INTERNAL_ERROR"}

-----------------------------------------------------------------------------
(* The stations of an answer: places with a stop, a score of importance, and  *)
(* the priority of their kind.                                              *)

\* stationImportanceFromScore: 0 is major, 1 regional, 2 local.
Importance(place) == CASE place.score >= 2 -> 0 [] place.score = 1 -> 1 [] place.score < 1 -> 2

\* Of the places of one stop, the first of the highest score.
IsTheStop(places, i) ==
  \A j \in DOMAIN places : places[j].stop = places[i].stop =>
    \/ places[j].score < places[i].score
    \/ places[j].score = places[i].score /\ i <= j

\* normalizeMotisMapStopsResponse: each stop once, the important ones first.
StationsOf(places) ==
  LET chosen == {places[i] : i \in {n \in DOMAIN places : IsTheStop(places, n)}}
      Before(x, y) ==
        \/ Importance(x) < Importance(y)
        \/ Importance(x) = Importance(y) /\ x.kind < y.kind
        \/ Importance(x) = Importance(y) /\ x.kind = y.kind /\ x.stop < y.stop
  IN Arranged(chosen, Before)

\* truncateIfNeeded.
Truncated(stations) ==
  LET preferred == Where(stations, LAMBDA x : Importance(x) < 2)
      source    == IF preferred = <<>> THEN stations ELSE preferred
  IN IF Len(stations) <= SoftLimit THEN stations
     ELSE SubSeq(source, 1, IF Len(source) < SoftLimit THEN Len(source) ELSE SoftLimit)

\* What the service makes of the provider's answer.
Collected(box) ==
  [of |-> box, asOf |-> moment, stations |-> Truncated(StationsOf(PlacesAt[box]))]

-----------------------------------------------------------------------------
(* The cache.                                                               *)

Fresh(key) == {i \in IndexOf(key) : kept[i].until > moment}

\* An entry that is there is deleted, and the new one inserted behind the others.
Others(key) ==
  IF IndexOf(key) = {} THEN kept ELSE RemoveAt(kept, CHOOSE i \in IndexOf(key) : TRUE)

\* touchLru: the entry becomes the last, and the first ones go.
Touch(entry) ==
  LET all == Append(Others(entry.key), entry)
  IN kept' = SubSeq(all, 1 + (IF Len(all) > StopsMax THEN Len(all) - StopsMax ELSE 0), Len(all))

\* Mistake: an entry that is used is kept for longer.
UseProlonging(i) == Touch([kept[i] EXCEPT !.until = moment + StopsTtl])

Use(i) == Touch(kept[i])

-----------------------------------------------------------------------------
(* A request.                                                               *)

Refusal(code) == [code |-> code]

\* The reply is checked against its schema when it is sent, cached or not.
Sending(box, stops) ==
  IF \E i \in DOMAIN stops.stations : stops.stations[i].stop \in Unsendable
  THEN Refusal("INTERNAL_ERROR")
  ELSE [code |-> "OK", asked |-> box, stops |-> stops, at |-> moment]

\* What the provider's client throws.
Thrown(answer) ==
  CASE answer = "429" -> "RATE_LIMITED"
    [] answer = "5xx" -> "PROVIDER_UNAVAILABLE"
    [] answer = "4xx" -> "PROVIDER_REQUEST_FAILED"
    [] answer \in {"too large", "no JSON", "off the schema"} -> "PROVIDER_CONTRACT_FAILURE"
    [] answer = "late" -> "TIMEOUT"
    [] answer = "broken connection" -> "NETWORK_FAILURE"

\* mapUpstreamError, and the status the route makes of it.
CodeOf(error) ==
  CASE error = "INVALID_REQUEST" -> "VALIDATION_FAILED"
    [] error \in {"TIMEOUT", "NETWORK_FAILURE", "PROVIDER_UNAVAILABLE", "RATE_LIMITED",
                  "PROVIDER_REQUEST_FAILED", "PROVIDER_CONTRACT_FAILURE"} -> "SERVICE_UNAVAILABLE"
    [] OTHER -> "INTERNAL_ERROR"

Ask(b, box) ==
  /\ awaited[b] = NoBox
  /\ \/ /\ box \in Refusable
        /\ reply' = [reply EXCEPT ![b] = Refusal("VALIDATION_FAILED")]
        /\ UNCHANGED <<kept, awaited>>
     \/ /\ box \notin Refusable
        /\ \E i \in Fresh(CornersOf[box]) :
             Use(i) /\ reply' = [reply EXCEPT ![b] = Sending(box, kept[i].stops)]
        /\ UNCHANGED awaited
     \/ /\ box \notin Refusable /\ Fresh(CornersOf[box]) = {}
        /\ awaited' = [awaited EXCEPT ![b] = box]
        /\ UNCHANGED <<kept, reply>>
  /\ UNCHANGED moment

ProviderAnswers(b) ==
  LET box == awaited[b] IN
  /\ box # NoBox
  /\ Touch([key |-> CornersOf[box], until |-> moment + StopsTtl, stops |-> Collected(box)])
  /\ reply' = [reply EXCEPT ![b] = Sending(box, Collected(box))]
  /\ awaited' = [awaited EXCEPT ![b] = NoBox]
  /\ UNCHANGED moment

\* Nothing is kept of a failure.
ProviderFails(b, answer) ==
  /\ awaited[b] # NoBox
  /\ reply' = [reply EXCEPT ![b] = Refusal(CodeOf(Thrown(answer)))]
  /\ awaited' = [awaited EXCEPT ![b] = NoBox]
  /\ UNCHANGED <<moment, kept>>

\* The browser has gone: its request to the provider is aborted, and there is
\* nobody to reply to.
Leaves(b) ==
  /\ awaited[b] # NoBox
  /\ awaited' = [awaited EXCEPT ![b] = NoBox]
  /\ UNCHANGED <<moment, kept, reply>>

TimePasses ==
  /\ moment < LastMoment
  /\ moment' = moment + 1
  /\ UNCHANGED <<kept, awaited, reply>>

Failures == {"429", "5xx", "4xx", "too large", "no JSON", "off the schema", "late",
             "broken connection"}

MapStopsInit ==
  /\ moment = 0 /\ kept = <<>>
  /\ awaited = [b \in Browsers |-> NoBox]
  /\ reply = [b \in Browsers |-> NoReply]

MapStopsNext ==
  \/ \E b \in Browsers :
       \/ \E box \in Boxes : Ask(b, box)
       \/ ProviderAnswers(b)
       \/ \E answer \in Failures : ProviderFails(b, answer)
       \/ Leaves(b)
  \/ TimePasses

MapStopsSpec == MapStopsInit /\ [][MapStopsNext]_stopsVars

-----------------------------------------------------------------------------
(* Properties.                                                              *)

\* The stations a browser is sent are those of a box with the corners it asked
\* for, and never older than the cache may make them, however often others have
\* asked for them meanwhile (map-stops-service.ts:120-148).
StationsAreRecent ==
  \A b \in Browsers : reply[b].code = "OK" =>
    /\ CornersOf[reply[b].stops.of] = CornersOf[reply[b].asked]
    /\ reply[b].at < reply[b].stops.asOf + StopsTtl

\* When there are too many stations, none is left out that is more important
\* than one that is sent: the service cuts off the end of what the provider's
\* client has put in order (map-stops-service.ts:88-118,
\* motis-map-stops.ts:112-196).  No stop is sent twice.
ImportantStationsAreSent ==
  \A b \in Browsers : reply[b].code = "OK" =>
    LET sent   == reply[b].stops.stations
        places == PlacesAt[reply[b].stops.of]
        stops  == {sent[i].stop : i \in DOMAIN sent}
    IN /\ Cardinality(stops) = Len(sent)
       /\ \A i \in DOMAIN places : places[i].stop \notin stops =>
            \A n \in DOMAIN sent : Importance(sent[n]) <= Importance(places[i])
=============================================================================
