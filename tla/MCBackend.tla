------------------------------ MODULE MCBackend ------------------------------
(***************************************************************************)
(* Five parts of the backend that share no state: the recovery of stalled    *)
(* searches, the ranking of journeys, the conversion of local times, the     *)
(* catalogue of places and the pool that publishes a batch of events.  A     *)
(* behaviour is about one of them, chosen in its initial state; the others   *)
(* rest.                                                                    *)
(***************************************************************************)
EXTENDS PipelineRecovery, WallTime, JourneyRanking, Catalogue, OutboxPool

VARIABLE part

vars == <<part, recoveryVars, wallTimeVars, rankingVars, catalogueVars, poolVars>>

-----------------------------------------------------------------------------
(* Instances.                                                               *)

MCZones == [before : {-24, -20, -10, -1, 0, 2, 11, 20, 28}, shift : {-2, -1, 1, 2}]
MCLocalTimes == -40 .. 40

TrainLeg(start, end) == [start |-> start, end |-> end, geometry |-> "given", mode |-> "train"]
Trip(end, duration, transfers) ==
  [start |-> end - duration, end |-> end, seconds |-> duration, transfers |-> transfers,
   legs |-> << TrainLeg(end - duration, end) >>]

Late  == Trip(300, 100, 0)
Early == Trip(170, 100, 1)
Quick == Trip(235, 90, 1)
Slow  == Trip(240, 130, 0)
Backward == [Quick EXCEPT !.start = 400]
Unmapped == [Late EXCEPT !.legs[1].mode = "unmapped"]

MCAnswers ==
  { << >>, <<Backward, Unmapped>>, <<Early, Late>>, <<Late, Early>>, <<Quick>>,
    <<Early, Slow>>, <<Quick, Backward, Late>>, <<Slow, Trip(231, 130, 1)>>,
    <<Trip(181, 95, 2), Slow>> }

City(name, population) == [name |-> name, population |-> population]
MCCityLists ==
  { [version |-> "v1", cities |-> {City("Aa", 500), City("Bb", 500)}],
    [version |-> "v2", cities |-> {City("Aa", 50)}],
    [version |-> "v3", cities |-> {City("Aa", 500), City("Bb", 600)}] }

Answer(city, stops) == [city |-> city, stops |-> stops]
Area == [id |-> 9, type |-> "PLACE", sameCountry |-> TRUE, named |-> TRUE, local |-> TRUE,
         distance |-> 0, modes |-> {"rail"}]
Stop(id, named, distance, modes) ==
  [id |-> id, type |-> "STOP", sameCountry |-> TRUE, named |-> named, local |-> FALSE,
   distance |-> distance, modes |-> modes]

MCGeocodes ==
  { Answer("Aa", {Stop(1, TRUE, 900, {"rail"}), Stop(2, FALSE, 500, {"long_distance"}), Area}),
    Answer("Aa", {Stop(2, FALSE, 30000, {"rail"}), Stop(3, FALSE, 400, {"bus"})}),
    Answer("Bb", {Stop(2, FALSE, 800, {"rail"})}),
    Answer("Bb", {Stop(1, TRUE, 90000, {"coach"})}) }

MCConfigurations == [batchSize : 1 .. 5, publishConcurrency : 1 .. 3, leaseMs : 3 .. 11]

-----------------------------------------------------------------------------
(* The parts at rest.                                                       *)

\* A search that has ended, of which nothing is left.
NoRecovery ==
  /\ searchStatus = "ended"
  /\ rowStatus = [x \in Rows |-> "absent"]
  /\ age = [x \in AllRows |-> "fresh"]
  /\ outbox = [e \in OutboxEvents |-> "none"]
  /\ queued = [e \in OutboxEvents |-> "none"]
  /\ executing = {}
  /\ cycle = Stopped
  /\ faults = 0

NoWallTime ==
  /\ asked = CHOOSE a \in [zone : Zones, local : LocalTimes] : TRUE
  /\ utc = asked.local
  /\ turns = 0

NoRanking == RankingInit    \* no answer arrives

NoCatalogue == CatalogueInit /\ places = << >>

\* Nothing was due.
NoPool ==
  /\ PoolInit /\ claimed = 0
  /\ config = [batchSize |-> 1, publishConcurrency |-> 1, leaseMs |-> 3]

Init ==
  \/ part = "recovery"  /\ RecoveryInit /\ NoWallTime /\ NoRanking /\ NoCatalogue /\ NoPool
  \/ part = "wall_time" /\ NoRecovery /\ WallTimeInit /\ NoRanking /\ NoCatalogue /\ NoPool
  \/ part = "ranking"   /\ NoRecovery /\ NoWallTime /\ RankingInit /\ NoCatalogue /\ NoPool
  \/ part = "catalogue" /\ NoRecovery /\ NoWallTime /\ NoRanking /\ CatalogueInit /\ NoPool
  \/ part = "pool"      /\ NoRecovery /\ NoWallTime /\ NoRanking /\ NoCatalogue /\ PoolInit

Next ==
  /\ UNCHANGED part
  /\ \/ /\ part = "recovery" /\ RecoveryNext
        /\ UNCHANGED <<wallTimeVars, rankingVars, catalogueVars, poolVars>>
     \/ /\ part = "wall_time" /\ Correct
        /\ UNCHANGED <<recoveryVars, rankingVars, catalogueVars, poolVars>>
     \/ /\ part = "ranking" /\ RankingNext
        /\ UNCHANGED <<recoveryVars, wallTimeVars, catalogueVars, poolVars>>
     \/ /\ part = "catalogue" /\ CatalogueNext
        /\ UNCHANGED <<recoveryVars, wallTimeVars, rankingVars, poolVars>>
     \/ /\ part = "pool" /\ PoolNext
        /\ UNCHANGED <<recoveryVars, wallTimeVars, rankingVars, catalogueVars>>

Spec == Init /\ [][Next]_vars /\ RecoveryFairness

-----------------------------------------------------------------------------
\* The states of the parts are of their types, and no row of the catalogue
\* refers to one that is gone.
BackendTypeOK ==
  /\ RecoveryTypeOK
  /\ RankingTypeOK
  /\ CatalogueTypeOK
  /\ PoolTypeOK

\* The catalogue is what its artifacts say: an import that is through leaves its
\* artifact, what the enrichment finds is fit for one, and its two judgements
\* agree.  And nobody loses a place to it: an import or a clean-up leaves what is
\* referred to and what is not its own, and a clean-up leaves no loose ends.
CatalogueHolds ==
  /\ [](CompletedImportHolds /\ EnrichedHubsAreValid /\ ReadinessIsHonest)
  /\ OthersPlacesStay
  /\ CleanUpIsClean
=============================================================================
