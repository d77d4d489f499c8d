-------------------------------- MODULE SearchMap --------------------------------
(***************************************************************************)
(* The map of the browser: MapLibre's style, which a change of theme        *)
(* replaces together with every source and layer drawn on it; the scene of  *)
(* the page, put on the map when the style is ready and whenever the scene  *)
(* changes; and the stations of the viewport, fetched after a pause.        *)
(*                                                                          *)
(* A station collection is known by the viewport it was asked for.  A       *)
(* zero-length timer is taken to fire before a style can be fetched.        *)
(***************************************************************************)
EXTENDS Naturals, FiniteSets, Sequences, SequencesExt

CONSTANTS
  Themes,        \* colour schemes, each with a style of its own
  Scenes,        \* scenes: [content, key], the key of the camera; content "none" for an empty one
  Viewports,     \* what the map may show
  TooWide,       \* viewports that are not eligible for a request
  Crowded,       \* viewports that hold more stations than the service sends
  CacheMax       \* 40: a further collection evicts the oldest

None    == "none"
Missing == "missing"     \* no such source in the style
Empty   == "empty"

ASSUME SearchMapAssumption ==
  /\ TooWide \cup Crowded \subseteq Viewports /\ CacheMax \in Nat
  /\ Viewports \cap {None, Missing, Empty} = {} /\ None \notin Themes

VARIABLES
  style,      \* the style asked for, the one loaded, whether it counts as ready
  overlays,   \* "none", "due" (the timer after the style is ready) or "bound" handlers
  scene,      \* the scene of the page
  drawn,      \* what is on the map: markers, routes, and the stations of a viewport
  camera,     \* the camera key last fitted, whether the user has moved it since, preserve flag
  view,       \* the viewport, and whether the pause after a move is running
  stations,   \* the key shown, the status, the request in flight
  cache,      \* viewports with a collection, oldest first
  mounted     \* whether the component is on the page

mapVars == <<style, overlays, scene, drawn, camera, view, stations, cache, mounted>>

Removed == [routes |-> Missing, stations |-> Missing]

SearchMapTypeOK ==
  /\ style.wanted \in Themes /\ style.loaded \in Themes \cup {None} /\ style.ready \in BOOLEAN
  /\ overlays.due \in BOOLEAN /\ overlays.bound \in BOOLEAN
  /\ scene \in Scenes
  /\ drawn.stations \in {Missing, Empty} \cup Viewports
  /\ camera.by \in {"fit", "user"} /\ camera.preserve \in BOOLEAN
  /\ view.shown \in Viewports /\ view.pause \in BOOLEAN
  /\ stations.key \in Viewports \cup {None} /\ stations.request \in Viewports \cup {None}
  /\ stations.status \in {"idle", "loading", "ready", "zoom", "error", "aggregated"}
  /\ Len(cache) <= CacheMax + 1
  /\ mounted \in BOOLEAN

-----------------------------------------------------------------------------
(* refreshStations.                                                         *)

\* Mistake: the request in flight is given up before it is known whether
\* another one is needed.
RefreshGivingUp(now, drawing) ==
  IF now \in TooWide
  THEN /\ stations' = [stations EXCEPT !.key = None, !.status = "zoom", !.request = None]
       /\ drawn' = drawing
  ELSE IF now = stations.key
  THEN stations' = [stations EXCEPT !.request = None] /\ drawn' = drawing
  ELSE IF now \in ToSet(cache)
  THEN /\ stations' = [key |-> now, status |-> "ready", request |-> None]
       /\ drawn' = IF drawing.stations = Missing THEN drawing
                   ELSE [drawing EXCEPT !.stations = now]
  ELSE /\ stations' = [stations EXCEPT !.status = "loading", !.request = now]
       /\ drawn' = drawing

\* A viewport that is too wide, the one shown, one that is cached, or one to
\* ask for: only then is the request before it aborted.
Refresh(now, drawing) ==
  IF now \in TooWide
  THEN /\ stations' = [stations EXCEPT !.key = None, !.status = "zoom"]
       /\ drawn' = drawing
  ELSE IF now = stations.key
  THEN stations' = stations /\ drawn' = drawing
  ELSE IF now \in ToSet(cache)
  THEN /\ stations' = [stations EXCEPT !.key = now, !.status = "ready"]
       /\ drawn' = IF drawing.stations = Missing THEN drawing
                   ELSE [drawing EXCEPT !.stations = now]
  ELSE /\ stations' = [stations EXCEPT !.status = "loading", !.request = now]
       /\ drawn' = drawing

\* Mistake: nothing is evicted.
StoreAll(v) == Append(cache, v)

\* A request is for a viewport that is not cached.
Store(v) == Append(IF Len(cache) > CacheMax THEN Tail(cache) ELSE cache, v)

\* truncateIfNeeded of the station service, which keeps the major stations.
CollectionOf(v) == [of |-> v, truncated |-> v \in Crowded]

Answered ==
  LET v == stations.request
      status == IF CollectionOf(v).truncated THEN "aggregated" ELSE "ready"
  IN /\ v # None
     /\ stations' = [key |-> v, status |-> status, request |-> None]
     /\ drawn' = IF drawn.stations = Missing THEN drawn ELSE [drawn EXCEPT !.stations = v]
     /\ cache' = Store(v)
     /\ UNCHANGED <<style, overlays, scene, camera, view, mounted>>

Refused ==
  /\ stations.request # None
  /\ stations' = [stations EXCEPT !.status = "error", !.request = None]
  /\ UNCHANGED <<style, overlays, scene, drawn, camera, view, cache, mounted>>

-----------------------------------------------------------------------------
(* The scene.                                                               *)

\* ensureStationLayers, ensureRouteLayers, ensureOriginLayers: what is missing
\* is added; applyScene then replaces markers and routes.
WithScene(s) ==
  [routes   |-> s.content,
   stations |-> IF drawn.stations = Missing THEN Empty ELSE drawn.stations]

\* The camera is fitted to a scene that is not empty, when its key is new.
Fit(s, force) ==
  IF (force \/ camera.key # s.key) /\ s.content # None
  THEN [camera EXCEPT !.key = s.key, !.by = "fit"] ELSE camera

SceneChanges(s) ==
  /\ s # scene
  /\ scene' = s
  /\ IF style.ready THEN drawn' = WithScene(s) /\ camera' = Fit(s, FALSE)
     ELSE UNCHANGED <<drawn, camera>>
  /\ UNCHANGED <<style, overlays, view, stations, cache, mounted>>

-----------------------------------------------------------------------------
(* The style.                                                               *)

\* Mistake: the style still counts as ready.
AskedForStillReady(theme) == [style EXCEPT !.wanted = theme, !.loaded = None]

AskedFor(theme) == [wanted |-> theme, loaded |-> None, ready |-> FALSE]

\* setStyle takes every source away at once.
ThemeChanges(theme) ==
  /\ theme # style.wanted
  /\ style' = AskedFor(theme)
  /\ drawn' = Removed
  /\ camera' = [camera EXCEPT !.preserve = TRUE]
  /\ stations' = [stations EXCEPT !.key = None]
  /\ UNCHANGED <<overlays, scene, view, cache, mounted>>

StyleLoads ==
  /\ style.loaded = None /\ ~overlays.due
  /\ style' = [style EXCEPT !.loaded = style.wanted]
  /\ UNCHANGED <<overlays, scene, drawn, camera, view, stations, cache, mounted>>

\* onStyleReady, on any of the events that may announce it.
StyleReady ==
  /\ style.loaded # None /\ ~style.ready
  /\ style' = [style EXCEPT !.ready = TRUE]
  /\ overlays' = [overlays EXCEPT !.due = TRUE]
  /\ UNCHANGED <<scene, drawn, camera, view, stations, cache, mounted>>

CameraAfterStyle == [Fit(scene, ~camera.preserve) EXCEPT !.preserve = FALSE]

\* The timer's turn: the scene, then the handlers, then the stations.  If the
\* style has been replaced meanwhile, adding a source throws, and nothing more
\* is done.
DrawOverlays ==
  /\ overlays.due
  /\ IF style.loaded = None
     THEN /\ overlays' = [overlays EXCEPT !.due = FALSE]
          /\ UNCHANGED <<drawn, camera, stations>>
     ELSE /\ overlays' = [due |-> FALSE, bound |-> TRUE]
          /\ camera' = CameraAfterStyle
          /\ Refresh(view.shown, WithScene(scene))
  /\ UNCHANGED <<style, scene, view, cache, mounted>>

-----------------------------------------------------------------------------
(* The viewport.                                                            *)

\* The user moves the map, or a fit has got where it was going.
Moves(v, by) ==
  /\ by = "fit" => camera.by = "fit"
  /\ view' = [shown |-> v, pause |-> overlays.bound]
  /\ camera' = [camera EXCEPT !.by = by]
  /\ UNCHANGED <<style, overlays, scene, drawn, stations, cache, mounted>>

PauseEnds ==
  /\ view.pause
  /\ view' = [view EXCEPT !.pause = FALSE]
  /\ Refresh(view.shown, drawn)
  /\ UNCHANGED <<style, overlays, scene, camera, cache, mounted>>

Unmounts ==
  /\ mounted' = FALSE
  /\ style' = [style EXCEPT !.ready = FALSE]
  /\ overlays' = [due |-> FALSE, bound |-> FALSE]
  /\ drawn' = Removed
  /\ view' = [view EXCEPT !.pause = FALSE]
  /\ stations' = [stations EXCEPT !.status = "idle", !.request = None]
  /\ UNCHANGED <<scene, camera, cache>>

-----------------------------------------------------------------------------
SearchMapInit ==
  /\ style \in [wanted : Themes, loaded : {None}, ready : {FALSE}]
  /\ overlays = [due |-> FALSE, bound |-> FALSE]
  /\ scene \in Scenes
  /\ drawn = Removed
  /\ camera = [key |-> None, by |-> "fit", preserve |-> FALSE]
  /\ view \in [shown : Viewports, pause : {FALSE}]
  /\ stations = [key |-> None, status |-> "idle", request |-> None]
  /\ cache = <<>>
  /\ mounted = TRUE

SearchMapNext ==
  /\ mounted
  /\ \/ \E s \in Scenes : SceneChanges(s)
     \/ \E theme \in Themes : ThemeChanges(theme)
     \/ StyleLoads \/ StyleReady \/ DrawOverlays
     \/ \E v \in Viewports, by \in {"fit", "user"} : Moves(v, by)
     \/ PauseEnds
     \/ Answered
     \/ Refused
     \/ Unmounts

SearchMapSpec == SearchMapInit /\ [][SearchMapNext]_mapVars

-----------------------------------------------------------------------------
(* Properties.                                                              *)

\* Once the style is ready and its overlays are drawn, the map shows the scene
\* of the page, however styles, timers and scenes have overtaken one another.
SceneIsShown ==
  style.ready /\ ~overlays.due => drawn.routes = scene.content /\ drawn.stations # Missing

\* "Loading stations" is shown only while there is an answer to come.
LoadingHasRequest == stations.status = "loading" => stations.request # None

\* A camera that the user has moved stays where it is until a scene with
\* another key is shown; a change of theme does not move it.
CameraIsKept ==
  [][camera.by = "user" /\ overlays.bound /\ scene'.key = camera.key
       => camera'.by = "user"]_mapVars
=============================================================================
