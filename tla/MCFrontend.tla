------------------------------ MODULE MCFrontend ------------------------------
(***************************************************************************)
(* The browser's parts, each on its own, and what shares no state with the   *)
(* database: the worker's journey planner and its process, and the API's     *)
(* stations of a viewport.                                                   *)
(* A behaviour is about one part, chosen in its initial state; the others    *)
(* rest.  A journey's timeline is part of every initial state.               *)
(***************************************************************************)
EXTENDS JourneyPlanning, WorkerProcess, SearchMap, SearchPage, PlaceCombobox, SearchForm,
        MapScene, JourneyDocument, MapStops

VARIABLE part

vars == <<part, planningVars, workerVars, mapVars, pageVars, comboboxVars, formVars, sceneVars,
          itinerary, storedAs, stopsVars>>

-----------------------------------------------------------------------------
(* Instances.                                                               *)

S(content, key) == [content |-> content, key |-> key]
MCScenes == { S("none", "k0"), S("s1", "k1"), S("s1'", "k1"), S("s2", "k2") }

MCWinner == [m \in PageModes |-> IF m = "fairest" THEN "c1" ELSE "c2"]

MCTexts == {"", "be", "be ", "ber", "Berlin"}
MCQuery == [t \in MCTexts |-> CASE t = "" -> "short" [] t = "be " -> "be" [] OTHER -> t]
MCFound == [q \in {"be", "ber", "Berlin"} |->
              CASE q = "be" -> {"Berlin", "Bern"} [] q = "ber" -> {} [] q = "Berlin" -> {"Berlin"}]

\* Two journeys with a stop that is called at twice, stops of one coordinate,
\* a stop without one, and a walk that has no line.
At(name, at)     == [name |-> name, at |-> at]
Walk(from, to)   == [walk |-> TRUE, service |-> "walk", from |-> from, via |-> << >>, to |-> to,
                     points |-> 2]
Train(service, from, via, to) ==
  [walk |-> FALSE, service |-> service, from |-> from, via |-> via, to |-> to, points |-> 2]
Hub   == At("hub", 5)
X     == At("x", 3)
XTief == At("x tief", 3)

AdaByTrain ==
  [traveler |-> "ada",
   legs |-> << Walk(At("START", 0), At("a", 1)),
               Train("s1", At("a", 1), <<X, At("y", 4)>>, At("z", 6)),
               Train("s2", At("z", 6), << >>, XTief),
               [Walk(XTief, X) EXCEPT !.points = 1],
               Train("s3", X, <<At("y", 4)>>, Hub),
               Walk(Hub, At("END", 9)) >>]
BoByTrain ==
  [traveler |-> "bo",
   legs |-> << Train("s4", At("y", 4), <<X, At("n", Nowhere)>>, At("hub west", 7)),
               Walk(At("hub west", 7), Hub) >>]
AdaOnFoot ==
  [traveler |-> "ada", legs |-> << Walk(At("START", 1), At("END", 8)) >>]

MCRanked ==
  [mode \in {"fairest", "fastest", "arrive_together"} |->
     CASE mode = "fairest" ->
            << [city |-> "c1", at |-> 5, journeys |-> <<AdaByTrain, BoByTrain>>],
               [city |-> "c2", at |-> Nowhere, journeys |-> <<BoByTrain, AdaOnFoot>>] >>
       [] mode = "fastest" ->
            << [city |-> "c2", at |-> 8, journeys |-> <<BoByTrain, AdaByTrain>>],
               [city |-> "c1", at |-> 5, journeys |-> <<BoByTrain, AdaByTrain>>] >>
       [] mode = "arrive_together" -> << >>]
MCOriginAt == [t \in {"ada", "bo"} |-> IF t = "ada" THEN 1 ELSE Nowhere]
MCTravelers == <<"ada", "bo">>

\* Itineraries of up to four legs: walks, of some minutes or of none, rides,
\* rides the traveler stays seated for, and legs of another mode.  Every leg goes
\* into another time zone but a walk of no minutes, which starts when the leg
\* before ends.
ZoneAfter(kinds, i) ==
  IF Cardinality({ j \in 1 .. i : kinds[j] /= "Z" }) % 2 = 0 THEN 60 ELSE 0

LegAt(kinds, i) ==
  LET kind    == kinds[i]
      minutes == IF kind = "Z" THEN 0 ELSE 150
      start   == IF kind = "Z" THEN 850 + 200 * i ELSE 900 + 200 * i
  IN [kind |-> CASE kind \in {"W", "Z"} -> "walk" [] kind \in {"R", "S"} -> "ride"
                 [] kind = "O" -> "other",
      service |-> <<kind, i>>, seated |-> kind = "S",
      start |-> start, end |-> start + minutes, minutes |-> minutes,
      from |-> [name |-> "x", zone |-> ZoneAfter(kinds, i - 1)],
      to |-> [name |-> "y", zone |-> ZoneAfter(kinds, i)], through |-> << >>]

MCItineraries ==
  LET kinds == { k \in BoundedSeq({"W", "Z", "R", "S", "O"}, 4) :
                   /\ k /= << >>
                   /\ \A i \in DOMAIN k : k[i] = "S" => i > 1 /\ k[i - 1] \in {"R", "S", "O"}
                   /\ \A i \in DOMAIN k : k[i] = "Z" => i = 1 \/ k[i - 1] /= "Z" }
  IN { [i \in DOMAIN k |-> LegAt(k, i)] : k \in kinds }

\* Box a2 rounds to the corners of a1; at a1 a stop is named twice, at a2 there is
\* one that cannot be sent, and at b there is nothing but local stops.
Place(stop, score, kind) == [stop |-> stop, score |-> score, kind |-> kind]
MCCorners == [box \in Boxes |-> IF box = "a2" THEN "a1" ELSE box]
MCPlacesAt ==
  [box \in Boxes |->
     CASE box = "a1" -> << Place(1, 0, 0), Place(2, 1, 4), Place(3, 0, 0), Place(1, 2, 1) >>
       [] box = "a2" -> << Place(8, 1, 4), Place(1, 2, 1) >>
       [] box = "b"  -> << Place(4, 0, 4), Place(5, 0, 0), Place(6, 0, 0) >>
       [] OTHER -> << >>]

-----------------------------------------------------------------------------
(* The parts at rest.                                                       *)

\* What a map or a page that rests shows is something it may show.
ASSUME RestAssumption ==
  "light" \in Themes /\ S("none", "k0") \in Scenes /\ "v1" \in Viewports /\ "fairest" \in PageModes

NoPlanning ==
  /\ call = [c \in Callers |-> [waitsFor |-> "nothing", outcome |-> "none"]]
  /\ running = [c \in Callers |-> "none"]
  /\ inFlight = [k \in Keys |-> NoCaller]
  /\ slots = 0 /\ waiters = << >>
  /\ cached = [k \in Keys |-> "absent"]

\* A process that has ended as it should.
NoWorker ==
  /\ consumer = [q \in Queues |-> "closed"] /\ inHand = {}
  /\ dispatchLoop = "ended" /\ pool = 0 /\ leftover = 0 /\ rejects = 0
  /\ shutdown = "closed" /\ closed = Len(ClosingOrder)
  /\ received = {} /\ exitCode = "0"

NoMap ==
  /\ style = [wanted |-> "light", loaded |-> None, ready |-> FALSE]
  /\ overlays = [due |-> FALSE, bound |-> FALSE]
  /\ scene = S("none", "k0") /\ drawn = Removed
  /\ camera = [key |-> None, by |-> "fit", preserve |-> FALSE]
  /\ view = [shown |-> "v1", pause |-> FALSE]
  /\ stations = [key |-> None, status |-> "idle", request |-> None]
  /\ cache = << >> /\ mounted = FALSE

\* The page of a search that does not exist.
NoPage ==
  /\ Server!Init /\ found = FALSE /\ generation = 1
  /\ requests = {} /\ timer = FALSE
  /\ page = [kind |-> "not_found", summary |-> "none", results |-> "none", cities |-> {}]
  /\ choice = [mode |-> "fairest", city |-> "none"]
  /\ panel = "closed" /\ details = "none" /\ lost = 0
  /\ newSearch = "unopened" /\ progress = NothingRevealed

NoTimeline == itinerary = << LegAt(<< "W" >>, 1) >> /\ storedAs = "document"

PartsInit ==
  \/ /\ part = "planning" /\ PlanningInit
     /\ NoWorker /\ NoMap /\ NoPage /\ ComboboxInit /\ FormInit /\ MapSceneInit /\ NoTimeline
  \/ /\ part = "worker" /\ WorkerInit
     /\ NoPlanning /\ NoMap /\ NoPage /\ ComboboxInit /\ FormInit /\ MapSceneInit /\ NoTimeline
  \/ /\ part = "map" /\ SearchMapInit
     /\ NoPlanning /\ NoWorker /\ NoPage /\ ComboboxInit /\ FormInit /\ MapSceneInit /\ NoTimeline
  \/ /\ part = "page" /\ SearchPageInit
     /\ NoPlanning /\ NoWorker /\ NoMap /\ ComboboxInit /\ FormInit /\ MapSceneInit /\ NoTimeline
  \/ /\ part \in {"combobox", "form", "scene"}
     /\ NoPlanning /\ NoWorker /\ NoMap /\ NoPage /\ ComboboxInit /\ FormInit /\ MapSceneInit
     /\ NoTimeline
  \/ /\ part = "timeline" /\ DocumentInit
     /\ NoPlanning /\ NoWorker /\ NoMap /\ NoPage /\ ComboboxInit /\ FormInit /\ MapSceneInit

  \/ /\ part = "stops"
     /\ NoPlanning /\ NoWorker /\ NoMap /\ NoPage /\ ComboboxInit /\ FormInit /\ MapSceneInit
     /\ NoTimeline

Init == PartsInit /\ MapStopsInit

WebUnchanged == UNCHANGED <<mapVars, pageVars, comboboxVars, formVars, sceneVars>>
WorkerUnchanged == UNCHANGED <<planningVars, workerVars>>

PartsNext ==
  /\ UNCHANGED <<part, itinerary, storedAs, stopsVars>>
  /\ \/ part = "planning" /\ PlanningNext /\ UNCHANGED workerVars /\ WebUnchanged
     \/ part = "worker" /\ WorkerNext /\ UNCHANGED planningVars /\ WebUnchanged
     \/ /\ part = "map" /\ SearchMapNext
        /\ WorkerUnchanged /\ UNCHANGED <<pageVars, comboboxVars, formVars, sceneVars>>
     \/ /\ part = "page" /\ SearchPageNext
        /\ WorkerUnchanged /\ UNCHANGED <<mapVars, comboboxVars, formVars, sceneVars>>
     \/ /\ part = "combobox" /\ ComboboxNext
        /\ WorkerUnchanged /\ UNCHANGED <<mapVars, pageVars, formVars, sceneVars>>
     \/ /\ part = "form" /\ FormNext
        /\ WorkerUnchanged /\ UNCHANGED <<mapVars, pageVars, comboboxVars, sceneVars>>
     \/ /\ part = "scene" /\ MapSceneNext
        /\ WorkerUnchanged /\ UNCHANGED <<mapVars, pageVars, comboboxVars, formVars>>

Next ==
  \/ PartsNext
  \/ /\ part = "stops" /\ MapStopsNext
     /\ UNCHANGED <<part, itinerary, storedAs>> /\ WorkerUnchanged /\ WebUnchanged

Spec == Init /\ [][Next]_vars /\ PlanningFairness /\ WorkerFairness /\ SearchPageFairness

-----------------------------------------------------------------------------
(* Properties of several parts.                                             *)

\* The states of the parts are of their types.
FrontendTypeOK ==
  /\ PlanningTypeOK /\ WorkerTypeOK /\ SearchMapTypeOK /\ SearchPageTypeOK
  /\ ComboboxTypeOK /\ SearchFormTypeOK /\ MapSceneTypeOK /\ MapStopsTypeOK

\* Whatever shows that it is waiting has something to wait for: the map its
\* stations, the page its search, the form the search it creates.
NothingWaitsInVain == LoadingHasRequest /\ PageIsWaitedFor /\ FormIsWaitedFor

\* What is kept for others to use is what they would have got themselves: plans
\* asked for once, and stations of an age that is allowed.
CachesAreTrue == OneRequestPerKey /\ StationsAreRecent

\* What the worker has begun it brings to an end: a call for a plan, and the
\* process itself after a signal.
WorkEnds == CallEnds /\ SignalEndsProcess

\* What the reader sees of a search or has moved on the map is not taken back.
ReaderIsNotDisturbed == ViewNeverGoesBack /\ CameraIsKept

\* Map, timeline and chips tell the journey that was found, and the map has the
\* stations that matter.
TripIsShown ==
  /\ ImportantStationsAreSent
  /\ part = "scene" => LabelsDontCollide /\ FocusMovesNothing
  /\ part = "timeline" =>
       TimelineTellsTheJourney /\ DayTurnsAreSeparated /\ ChipsAndPanelAgree
=============================================================================
