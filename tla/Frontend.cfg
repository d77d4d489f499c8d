\* The browser's parts, the journey planner and the worker process, one of them in
\* a behaviour.
CONSTANTS
  Callers = {c1, c2, c3}
  Keys = {k1, k2}
  MaxConcurrent = 1
  Queues = {q1, q2}
  Signals = {s1, s2}
  PublishConcurrency = 3
  MaxRejects = 2
  Themes = {"light", "dark"}
  Scenes <- MCScenes
  Viewports = {"v1", "v2", "wide"}
  TooWide = {"wide"}
  Crowded = {"v2"}
  CacheMax = 0
  PageCities = {"c1", "c2"}
  PageOutcomes = {"ranked", "no_candidates"}
  PageFailures = {"INVARIANT_VIOLATION"}
  PageModes = {"fairest", "fastest"}
  Winner <- MCWinner
  PageTravelers = 2
  MaxGenerations = 3
  MaxLost = 2
  Texts <- MCTexts
  Query <- MCQuery
  Found <- MCFound
  Selectable = {"Berlin"}
  MaxEdits = 4
  MinTravelers = 2
  MaxTravelers = 3
  MaxIdentities = 4
  MaxSubmissions = 2
  Travelers <- MCTravelers
  OriginAt <- MCOriginAt
  Ranked <- MCRanked
  FirstMode = "fairest"
  Itineraries <- MCItineraries
  DayLength = 1440
  SummaryMax = 2
  Browsers = {"x", "y"}
  Boxes = {"a1", "a2", "b", "wide"}
  Refusable = {"wide"}
  CornersOf <- MCCorners
  PlacesAt <- MCPlacesAt
  Unsendable = {8}
  SoftLimit = 2
  StopsTtl = 2
  StopsMax = 1
  LastMoment = 2
SPECIFICATION Spec
INVARIANTS
  FrontendTypeOK
  SlotsAreExact
  CachesAreTrue
  NothingClosedInUse
  SceneIsShown
  NothingWaitsInVain
  SuggestionsAnswerTheText
  TripIsShown
PROPERTIES
  ReaderIsNotDisturbed
  PageShowsTheEnd
  WorkEnds
CHECK_DEADLOCK FALSE
