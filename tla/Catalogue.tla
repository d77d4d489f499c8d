------------------------------- MODULE Catalogue -------------------------------
(***************************************************************************)
(* The catalogue of meeting cities and their hubs: the enrichment that      *)
(* finds a hub for a city, the import of an artifact into the database,     *)
(* batch by batch, the clean-up of the offline fixture, and the searches    *)
(* that read the catalogue and refer to its places meanwhile.               *)
(*                                                                          *)
(* A place id is a function of the place's provider identity (a hash of it, *)
(* or a slug of the GeoNames id), and is modelled so.  Batches of an import *)
(* commit for themselves, and where one ends depends on the sizes; here     *)
(* every row may be the last of its batch.  Enrichment, import and clean-up *)
(* are commands of one operator, who runs one at a time; searches go on     *)
(* beside them.                                                             *)
(***************************************************************************)
EXTENDS HubAssociation, Functions

CONSTANTS
  CityLists,      \* the GeoNames artifacts: a version, and cities with name and population
  Stops,          \* provider ids of stops, for searches that start at one
  Geocodes,       \* what the provider's geocoder answers for a city: its name, stops
  PinnedCities,   \* cities an operator may have pinned by hand
  MinCities,      \* CATALOG_MIN_ACTIVE_CITIES
  MaxCommands     \* how many commands the operator runs

VARIABLES
  places,      \* rows of the table places, by id
  links,       \* rows of meeting_city_hubs, by city and hub
  sidecar,     \* the hubs artifact: the hub of every city that has one
  importing,   \* the import under way, and what it has still to write
  imported,    \* the artifact of the last import, if it has completed
  cleanup,     \* the clean-up of the fixture under way
  search,      \* a search: how far it is, and the places it refers to
  commands     \* commands the operator has run

catalogueVars == <<places, links, sidecar, importing, imported, cleanup, search, commands>>

NoPlace    == <<"no place">>
NoArtifact == [source |-> "none"]
Idle       == [at |-> "idle"]
CityNames  == UNION {{c.name : c \in list.cities} : list \in CityLists}
NoVersion  == "none"

\* A match of the geocoder has been parsed: its distance is a number, and its id
\* comes before others or after.
ASSUME CatalogueAssumption ==
  /\ MinCities \in Nat /\ MaxCommands \in Nat
  /\ IsFiniteSet(PinnedCities)
  /\ \A answer \in Geocodes :
       /\ answer.city \in CityNames /\ IsFiniteSet(answer.stops)
       /\ \A match \in answer.stops : match.distance \in Nat /\ match.id \in Nat

HubOwnerships  == {"catalog:hub", "catalog:transitous"}
CityOwnerships == {"catalog:geonames", "fixture:offline-europe-v1"}

\* With the foreign keys, which are part of the tables' types.
CatalogueTypeOK ==
  /\ \A id \in DOMAIN places :
       /\ places[id].kind \in {"city", "station"}
       /\ places[id].ownership \in {"manual"} \cup HubOwnerships \cup CityOwnerships
       /\ places[id].active \in BOOLEAN
       /\ places[id].parent \in {NoPlace} \cup DOMAIN places
  /\ DOMAIN links \subseteq (DOMAIN places) \X (DOMAIN places)
  /\ \A pair \in DOMAIN links : links[pair].active \in BOOLEAN
  /\ search.refs \subseteq DOMAIN places
  /\ DOMAIN sidecar \subseteq CityNames
  /\ search.at \in {"none", "created", "cities", "generated", "failed"}
  /\ commands \in 0 .. MaxCommands

-----------------------------------------------------------------------------
(* Places and their identity.                                               *)

CityKey(ownership, name) ==
  <<IF ownership = "catalog:geonames" THEN "geonames" ELSE "railmeet-fixture", name>>
CityId(key)   == <<"city", key>>
HubId(key)    == <<"hub", key>>
PickedId(key) == <<"place", key>>

HasKey(key) == {id \in DOMAIN places : places[id].key = key}

\* The row an artifact's record is about: the one with its provider identity,
\* or else the one with its id.
Existing(id, key) ==
  IF HasKey(key) # {} THEN CHOOSE row \in HasKey(key) : TRUE
  ELSE IF id \in DOMAIN places THEN id
  ELSE NoPlace

StableId(id, key) == IF Existing(id, key) = NoPlace THEN id ELSE Existing(id, key)

Run == /\ importing = Idle /\ cleanup = Idle
       /\ commands < MaxCommands
       /\ commands' = commands + 1

IsManual(id) == id \in DOMAIN places /\ places[id].ownership = "manual"

-----------------------------------------------------------------------------
(* Artifacts.                                                               *)

\* mergeCitiesAndHubs: the GeoNames cities with their version, and the hubs of
\* the sidecar.
Production(list) ==
  [source |-> "catalog:geonames+transitous",
   ownership |-> "catalog:geonames", version |-> list.version, cities |-> list.cities,
   hubs |-> {[key |-> <<"motis", sidecar[c].stop>>, city |-> c, ownership |-> "catalog:transitous",
              distance |-> sidecar[c].distance, regional |-> sidecar[c].regional] :
                c \in DOMAIN sidecar \cap {city.name : city \in list.cities}}]

\* The offline fixture: its hubs have no provider id.
Fixture ==
  [source |-> "fixture:offline-europe-v1",
   ownership |-> "fixture:offline-europe-v1", version |-> "offline-europe-v1",
   cities |-> {[name |-> "Testville", population |-> 500]},
   hubs |-> {[key |-> <<"railmeet-hub", "Testville Hbf">>, city |-> "Testville",
              ownership |-> "catalog:hub", distance |-> 0, regional |-> FALSE]}]

Artifacts == {Production(list) : list \in CityLists} \cup {Fixture}

HubIsValid(hub) == hub.distance <= MaxDistance(hub.regional)

\* validateCatalogArtifact.
IsValid(artifact) ==
  /\ \A h, g \in artifact.hubs : h.key = g.key => h = g
  /\ \A h \in artifact.hubs : HubIsValid(h)
  /\ artifact = Fixture =>
       \A c \in artifact.cities : \E h \in artifact.hubs : h.city = c.name
  /\ artifact # Fixture =>
       Cardinality(artifact.cities) >= MinCities \/ artifact.hubs = {}

IdOfCity(artifact, name) ==
  LET key == CityKey(artifact.ownership, name) IN StableId(CityId(key), key)
IdOfHub(hub) == StableId(HubId(hub.key), hub.key)

-----------------------------------------------------------------------------
(* The enrichment: the hub that is found for a city replaces an older one;  *)
(* when none is found, or nothing is answered, the older one stays.         *)

\* The geocoder also answers addresses and areas.
StopsAmong(found) == {match \in found : match.type = "STOP"}

Enrich(name, found) ==
  /\ Run
  /\ Associate(StopsAmong(found)) # NoHub
  /\ sidecar' = [c \in DOMAIN sidecar \cup {name} |->
                   IF c = name THEN Associate(StopsAmong(found)) ELSE sidecar[c]]
  /\ UNCHANGED <<places, links, importing, imported, cleanup, search>>

-----------------------------------------------------------------------------
(* importCatalogArtifact.                                                   *)

CityRow(artifact, city) ==
  [kind |-> "city", key |-> CityKey(artifact.ownership, city.name),
   ownership |-> artifact.ownership, details |-> city.population,
   parent |-> NoPlace, version |-> artifact.version, active |-> TRUE]

\* Nobody reads the version of a hub's row, which is left out.
HubRow(artifact, hub) ==
  [kind |-> "station", key |-> hub.key, ownership |-> hub.ownership, details |-> 0,
   parent |-> IdOfCity(artifact, hub.city), version |-> NoVersion, active |-> TRUE]

\* Mistake: a row that has been retired counts as unchanged.
SameWhenActive(id, row) ==
  id \in DOMAIN places /\ places[id].details = row.details /\ places[id].parent = row.parent

\* The version of a row is not compared, so that an unchanged one keeps its old
\* version; neither is its location, which is left out.
IsUnchanged(id, row) ==
  /\ id \in DOMAIN places
  /\ places[id].details = row.details /\ places[id].parent = row.parent
  /\ places[id].active

\* The writes are worked out against the rows the import has read at its start.
Plan(artifact) ==
  LET cities  == {[id |-> IdOfCity(artifact, c.name), row |-> CityRow(artifact, c)] :
                    c \in artifact.cities}
      hubs    == {[id |-> IdOfHub(h), row |-> HubRow(artifact, h)] : h \in artifact.hubs}
      Writes(rows) == {w \in rows : ~IsManual(w.id) /\ ~IsUnchanged(w.id, w.row)}
  IN [cities  |-> Writes(cities),
      hubs    |-> Writes(hubs),
      unlinks |-> {IdOfCity(artifact, h.city) : h \in artifact.hubs},
      links   |-> {<<IdOfCity(artifact, h.city), IdOfHub(h)>> : h \in artifact.hubs},
      cityIds |-> {w.id : w \in cities},
      hubIds  |-> {w.id : w \in hubs}]

Start(artifact) ==
  /\ Run /\ IsValid(artifact)
  /\ importing' = [at |-> "writing", artifact |-> artifact, plan |-> Plan(artifact)]
  /\ imported' = NoArtifact
  /\ UNCHANGED <<places, links, sidecar, cleanup, search>>

Plans(field) == importing.plan[field]
Written(fields) == \A field \in fields : Plans(field) = {}
NextOf(field) == CHOOSE x \in Plans(field) : TRUE    \* in the artifact's order
Done(field, x) == importing' = [importing EXCEPT !.plan[field] = @ \ {x}]

\* The upsert is by id: another row with the same provider identity makes it
\* fail, and the import with it.
WriteRow(field, w) ==
  /\ IF HasKey(w.row.key) \subseteq {w.id}
     THEN places' = [id \in DOMAIN places \cup {w.id} |-> IF id = w.id THEN w.row ELSE places[id]]
          /\ Done(field, w)
     ELSE importing' = Idle /\ UNCHANGED places
  /\ UNCHANGED links

Unlink(city) ==
  /\ links' = [pair \in DOMAIN links |->
                 IF pair[1] = city THEN [links[pair] EXCEPT !.active = FALSE] ELSE links[pair]]
  /\ Done("unlinks", city)
  /\ UNCHANGED places

Link(pair) ==
  /\ links' = [p \in DOMAIN links \cup {pair} |->
                 IF p = pair THEN [source |-> importing.artifact.source, active |-> TRUE]
                 ELSE links[p]]
  /\ Done("links", pair)
  /\ UNCHANGED places

\* Cities, hubs, associations: each part is through before the next begins.
Write ==
  /\ importing.at = "writing"
  /\ \/ Plans("cities") # {} /\ WriteRow("cities", NextOf("cities"))
     \/ Written({"cities"}) /\ Plans("hubs") # {} /\ WriteRow("hubs", NextOf("hubs"))
     \/ Written({"cities", "hubs"}) /\ Plans("unlinks") # {} /\ Unlink(NextOf("unlinks"))
     \/ /\ Written({"cities", "hubs", "unlinks"}) /\ Plans("links") # {}
        /\ Link(NextOf("links"))
  /\ UNCHANGED <<sidecar, imported, cleanup, search, commands>>

Retired(ownerships, keep) ==
  [id \in DOMAIN places |->
     IF places[id].ownership \in ownerships /\ id \notin keep
     THEN [places[id] EXCEPT !.active = FALSE] ELSE places[id]]

RetireCities ==
  /\ importing.at = "writing"
  /\ Written({"cities", "hubs", "unlinks", "links"})
  /\ places' = Retired({importing.artifact.ownership}, Plans("cityIds"))
  /\ importing' = [importing EXCEPT !.at = "cities retired"]
  /\ UNCHANGED <<links, sidecar, imported, cleanup, search, commands>>

\* Hubs of every source, if the artifact has any.
RetireHubs ==
  /\ importing.at = "cities retired"
  /\ places' = IF Plans("hubIds") = {} THEN places ELSE Retired(HubOwnerships, Plans("hubIds"))
  /\ importing' = [importing EXCEPT !.at = "hubs retired"]
  /\ UNCHANGED <<links, sidecar, imported, cleanup, search, commands>>

\* Associations of the artifact's source.
RetireLinks ==
  /\ importing.at = "hubs retired"
  /\ links' = [pair \in DOMAIN links |->
                 IF /\ Plans("hubIds") # {} /\ links[pair].source = importing.artifact.source
                    /\ pair[2] \notin Plans("hubIds")
                 THEN [links[pair] EXCEPT !.active = FALSE] ELSE links[pair]]
  /\ importing' = Idle
  /\ imported' = importing.artifact
  /\ UNCHANGED <<places, sidecar, cleanup, search, commands>>

Interrupt ==
  /\ importing # Idle
  /\ importing' = Idle
  /\ UNCHANGED <<places, links, sidecar, imported, cleanup, search, commands>>

ImportSteps == Write \/ RetireCities \/ RetireHubs \/ RetireLinks

-----------------------------------------------------------------------------
(* Searches.                                                                *)

\* A search that starts at a stop: its row is refreshed, or inserted with the
\* ownership the table gives by default.
CreateSearch(stop) ==
  LET key == <<"motis", stop>>
      id  == IF HasKey(key) = {} THEN PickedId(key) ELSE CHOOSE row \in HasKey(key) : TRUE
      new == [kind |-> "station", key |-> key, ownership |-> "manual", details |-> 0,
              parent |-> NoPlace, version |-> NoVersion, active |-> TRUE]
  IN /\ search.at = "none"
     /\ places' = IF id \in DOMAIN places THEN places
                  ELSE [i \in DOMAIN places \cup {id} |-> IF i = id THEN new ELSE places[i]]
     /\ search' = [at |-> "created", refs |-> {id}, cities |-> {}]
     /\ UNCHANGED <<links, sidecar, importing, imported, cleanup, commands>>

\* A search that starts at a place that is there, given by its id.
CreateSearchAt(id) ==
  /\ search.at = "none"
  /\ search' = [at |-> "created", refs |-> {id}, cities |-> {}]
  /\ UNCHANGED <<places, links, sidecar, importing, imported, cleanup, commands>>

IsTierEligible(row) == row.details >= 100

HasRoutableHub(city) ==
  \E pair \in DOMAIN links :
    /\ pair[1] = city /\ links[pair].active
    /\ places[pair[2]].active /\ places[pair[2]].ownership = "catalog:transitous"

IsCandidate(id, ownerships) ==
  /\ places[id].kind = "city" /\ places[id].active
  /\ places[id].ownership \in ownerships
  /\ IsTierEligible(places[id])
  /\ HasRoutableHub(id)

ActiveCities(ownerships) ==
  {id \in DOMAIN places :
     places[id].kind = "city" /\ places[id].active /\ places[id].ownership \in ownerships}

\* The cities a search may meet in: getMeetingCityCatalogStatus counts them,
\* findNearestCityCandidates chooses from them, and from pinned ones.
MeetingCities(ownerships) ==
  {id \in ActiveCities(ownerships) : IsCandidate(id, ownerships)}

\* evaluateCatalogReadiness: whether a search may go on to route.
IsReady ==
  LET hubbed == MeetingCities({"catalog:geonames"})
  IN hubbed # {} /\ Cardinality(hubbed) >= MinCities

FindCities ==
  /\ search.at = "created"
  /\ search' = IF IsReady
               THEN [search EXCEPT !.at = "cities",
                       !.cities = MeetingCities({"catalog:geonames", "manual"})]
               ELSE [search EXCEPT !.at = "failed"]
  /\ UNCHANGED <<places, links, sidecar, importing, imported, cleanup, commands>>

\* A later query: the hub of every city, from the associations that are active
\* now; a city without one is dropped.
ActiveHubsOf(cities) == {pair \in DOMAIN links : pair[1] \in cities /\ links[pair].active}

ChooseHubs ==
  LET pairs == ActiveHubsOf(search.cities)
  IN /\ search.at = "cities"
     /\ \E chosen \in SUBSET pairs :
          /\ \A pair \in pairs : \E c \in chosen : c[1] = pair[1]
          /\ \A c, d \in chosen : c[1] = d[1] => c = d
          /\ search' = [at |-> "generated", cities |-> {},
                        refs |-> search.refs \cup UNION {{c[1], c[2]} : c \in chosen}]
     /\ UNCHANGED <<places, links, sidecar, importing, imported, cleanup, commands>>

-----------------------------------------------------------------------------
(* cleanupOfflineFixture.                                                   *)

FixtureCities == {id \in DOMAIN places :
                    places[id].kind = "city" /\ places[id].ownership = "fixture:offline-europe-v1"}
StationsOf(cities) == {id \in DOMAIN places : places[id].kind = "station" /\ places[id].parent \in cities}
IsFixtureStation(id) == places[id].ownership = "catalog:hub"

LoadFixture ==
  /\ Run /\ FixtureCities # {}
  /\ cleanup' = [at |-> "loaded", cities |-> FixtureCities,
                 stations |-> {id \in StationsOf(FixtureCities) : IsFixtureStation(id)}]
  /\ UNCHANGED <<places, links, sidecar, importing, imported, search>>

FixturePlaces == cleanup.cities \cup cleanup.stations

\* What stands in the way: places that searches refer to, stations of another
\* owner under a city, and rows that production has too.
ReferredPlaces == search.refs \cap FixturePlaces
UnsafeStations == {id \in StationsOf(cleanup.cities) : ~IsFixtureStation(id)}
Overlaps ==
  {id \in FixturePlaces \cap DOMAIN places :
     \/ places[id].ownership \notin {"fixture:offline-europe-v1", "catalog:hub"}
     \/ \E other \in HasKey(places[id].key) \ {id} :
          places[other].ownership \in {"catalog:geonames", "catalog:transitous", "manual"}}

IsBlocking == ReferredPlaces \cup UnsafeStations \cup Overlaps # {}

Inspect ==
  /\ cleanup.at = "loaded"
  /\ cleanup' = IF IsBlocking THEN Idle ELSE [cleanup EXCEPT !.at = "inspected"]
  /\ UNCHANGED <<places, links, sidecar, importing, imported, search, commands>>

\* Mistake: the references that searches hold do not restrict a deletion.
MayDeleteReferred(ids) ==
  /\ \A id \in DOMAIN places \ ids : places[id].parent \notin ids
  /\ \A pair \in DOMAIN links : pair[1] \notin cleanup.cities /\ pair[2] \notin cleanup.stations =>
       pair[1] \notin ids /\ pair[2] \notin ids

\* The foreign keys, all ON DELETE RESTRICT: of searches, of places, and of
\* associations that the transaction does not delete.
MayDelete(ids) ==
  /\ search.refs \cap ids = {}
  /\ \A id \in DOMAIN places \ ids : places[id].parent \notin ids
  /\ \A pair \in DOMAIN links : pair[1] \notin cleanup.cities /\ pair[2] \notin cleanup.stations =>
       pair[1] \notin ids /\ pair[2] \notin ids

Delete ==
  LET ids  == FixturePlaces
      kept == {pair \in DOMAIN links : pair[1] \notin cleanup.cities /\ pair[2] \notin cleanup.stations}
  IN /\ cleanup.at = "inspected"
     /\ IF MayDelete(ids)
        THEN places' = Restrict(places, DOMAIN places \ ids) /\ links' = Restrict(links, kept)
        ELSE UNCHANGED <<places, links>>
     /\ cleanup' = Idle
     /\ imported' = IF imported.source = Fixture.source THEN NoArtifact ELSE imported
     /\ UNCHANGED <<sidecar, importing, search, commands>>

\* validateFixtureCleanupState, as it is by default.
StateIsClean ==
  /\ FixtureCities = {}
  /\ \A id \in DOMAIN places : places[id].parent \in {NoPlace} \cup DOMAIN places
  /\ \A id \in DOMAIN places : HasKey(places[id].key) = {id}

-----------------------------------------------------------------------------
(* The status an operator asks for.                                         *)

CitiesWithoutHub ==
  {id \in ActiveCities({"catalog:geonames", "fixture:offline-europe-v1", "manual"}) :
     ActiveHubsOf({id}) = {}}

\* classifyProductionReadiness; the files that have been downloaded are left out.
ProductionReadiness ==
  LET production == ActiveCities({"catalog:geonames"})
      hubbed     == MeetingCities({"catalog:geonames"})
      isMixed    == \E a, b \in production : places[a].version # places[b].version
      isPartial  == \/ \E id \in production : IsTierEligible(places[id]) /\ id \notin hubbed
                    \/ Cardinality(CitiesWithoutHub) > Cardinality(hubbed)
  IN CASE production = {} ->
            IF ActiveCities({"fixture:offline-europe-v1"}) # {} THEN "fixture only" ELSE "absent"
       [] isMixed -> "stale"
       [] production # {} /\ ~isMixed /\ hubbed = {} -> "unusable"
       [] ~isMixed /\ hubbed # {} /\ isPartial  -> IF IsReady THEN "partial" ELSE "unusable"
       [] ~isMixed /\ hubbed # {} /\ ~isPartial ->
            IF Cardinality(hubbed) < MinCities THEN "unusable" ELSE "ready"

-----------------------------------------------------------------------------
PinnedCity(name) ==
  [kind |-> "city", key |-> CityKey("catalog:geonames", name), ownership |-> "manual",
   details |-> 500, parent |-> NoPlace, version |-> NoVersion, active |-> TRUE]

CatalogueInit ==
  /\ \E names \in SUBSET PinnedCities :
       places = [id \in {CityId(CityKey("catalog:geonames", n)) : n \in names} |->
                   PinnedCity(id[2][2])]
  /\ links = <<>>
  /\ sidecar = <<>>
  /\ importing = Idle
  /\ imported = NoArtifact
  /\ cleanup = Idle
  /\ search = [at |-> "none", refs |-> {}, cities |-> {}]
  /\ commands = 0

CatalogueNext ==
  \/ \E answer \in Geocodes : Enrich(answer.city, answer.stops)
  \/ \E artifact \in Artifacts : Start(artifact)
  \/ ImportSteps
  \/ Interrupt
  \/ \E stop \in Stops : CreateSearch(stop)
  \/ \E id \in DOMAIN places : CreateSearchAt(id)
  \/ FindCities \/ ChooseHubs
  \/ LoadFixture \/ Inspect \/ Delete

CatalogueSpec == CatalogueInit /\ [][CatalogueNext]_catalogueVars

-----------------------------------------------------------------------------
(* Properties.                                                              *)

\* Whatever imports died before, of whatever artifact, one that is through
\* leaves its artifact: its rows are active, the other rows of its ownerships
\* are not, and its cities have its hubs and no others (import.ts:290-723).
CompletedImportHolds ==
  imported # NoArtifact =>
    LET cityIds == {IdOfCity(imported, c.name) : c \in imported.cities}
        hubIds  == {IdOfHub(h) : h \in imported.hubs}
        activeOf(ownerships) ==
          {id \in DOMAIN places : places[id].active /\ places[id].ownership \in ownerships}
    IN /\ \A id \in cityIds \cup hubIds : id \in DOMAIN places /\ places[id].active
       /\ activeOf({imported.ownership}) \subseteq cityIds
       /\ hubIds # {} => activeOf(HubOwnerships) \subseteq hubIds
       /\ \A h \in imported.hubs :
            {pair[2] : pair \in {p \in DOMAIN links :
               p[1] = IdOfCity(imported, h.city) /\ links[p].active}} = {IdOfHub(h)}

\* What a search refers to stays, with its identity, and so do places that were
\* not the catalogue's (docs/adr/0005-meeting-city-catalog.md:72,
\* packages/catalog/README.md:124).
OthersPlacesStay ==
  [][\A id \in DOMAIN places :
       id \in search.refs \/ IsManual(id) =>
         /\ id \in DOMAIN places'
         /\ places'[id].key = places[id].key /\ places'[id].kind = places[id].kind
         /\ IsManual(id) => places'[id] = places[id]]_catalogueVars

\* A clean-up that deletes leaves nothing of the fixture, and nothing that refers
\* to it, whatever was created since it looked (cleanup-fixture.ts:431-539).
CleanUpIsClean ==
  [][cleanup # Idle /\ cleanup' = Idle /\ places' # places => StateIsClean']_catalogueVars

\* The two judgements of the catalogue agree: a search goes on to route wherever
\* the operator is told so, and elsewhere only when cities of several versions
\* hide it, as an import leaves them that was interrupted or found some of them
\* unchanged; and "ready" means that no large city is without a hub
\* (readiness.ts:108-187, import.ts:195-204).
ReadinessIsHonest ==
  /\ ProductionReadiness \in {"partial", "ready"} => IsReady
  /\ IsReady => ProductionReadiness \in {"partial", "ready", "stale"}
  /\ ProductionReadiness = "ready" =>
       \A id \in ActiveCities({"catalog:geonames"}) :
         IsTierEligible(places[id]) => id \in MeetingCities({"catalog:geonames"})

\* What the enrichment finds, the validation before an import lets pass: the
\* two judge distances each for itself (associate.ts:308-319, validate.ts:135-143).
EnrichedHubsAreValid == \A c \in DOMAIN sidecar : HubIsValid(sidecar[c])

\* Every large city that a completed import gave a hub to is a candidate, unless
\* an operator has pinned a row by hand ("provider:motis: runtime autocomplete
\* origins", packages/catalog/README.md:130).
HubbedCitiesAreCandidates ==
  imported # NoArtifact /\ imported # Fixture =>
    \A h \in imported.hubs :
      LET city == IdOfCity(imported, h.city) IN
      IsTierEligible(places[city]) => IsCandidate(city, {"catalog:geonames", "manual"})
=============================================================================
