\* Recovery, ranking, local times, the catalogue and the pool, one of them in a behaviour.
CONSTANTS
  Search = s
  WorkIds = {w1}
  MaxFaults = 1
  Zones <- MCZones
  LocalTimes <- MCLocalTimes
  Participants = {1, 2}
  Candidates = {0, 1}
  Answers <- MCAnswers
  ArrivalTolerance = 60
  CityLists <- MCCityLists
  Stops = {1}
  Geocodes <- MCGeocodes
  PinnedCities = {"Bb"}
  SoftMax = 25000
  HardMax = 80000
  MinCities = 1
  MaxCommands = 4
  Configurations <- MCConfigurations
  PerEvent = 2
SPECIFICATION Spec
INVARIANTS
  BackendTypeOK
  EveryEventHasItsConsumer
  RankingNeverRejects
  NoBetterMeeting
  WallTimesAreExact
  LeaseOutlastsBatch
PROPERTIES
  EndedRowsStay
  CatalogueHolds
  RecoveredSearchEnds
CHECK_DEADLOCK FALSE
