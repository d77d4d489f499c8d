--------------------------------- MODULE MapScene ---------------------------------
(***************************************************************************)
(* What the page of a search puts on the map: the ranked cities, the stops   *)
(* and the lines of the journeys to the selected one, and the travelers'     *)
(* origins, derived anew from the answers of the API at every change of mode, *)
(* selection or focus.  A coordinate stands for all that round to it, and a   *)
(* leg's shape for the number of points its polyline decodes to.             *)
(***************************************************************************)
EXTENDS Arrangement, SequencesExt

CONSTANTS
  Travelers,    \* the participants of the summary, in order
  OriginAt,     \* [travelers -> coordinates or Nowhere]
  Ranked,       \* [modes -> sequences of ranked cities, with their journeys]
  FirstMode     \* the mode the results open with

IsRow(s) == s \in Seq(Range(s))

ASSUME MapSceneAssumption ==
  /\ FirstMode \in DOMAIN Ranked /\ IsRow(Travelers)
  /\ \A m \in DOMAIN Ranked :
       /\ IsRow(Ranked[m])
       /\ \A i \in DOMAIN Ranked[m] :
            /\ IsRow(Ranked[m][i].journeys)
            /\ \A j \in DOMAIN Ranked[m][i].journeys :
                 LET legs == Ranked[m][i].journeys[j].legs
                 IN  IsRow(legs) /\ \A k \in DOMAIN legs : IsRow(legs[k].via)

Nowhere == -1
NoStop  == [name |-> "none", at |-> Nowhere]
Nobody  == "nobody"
NoCity  == "none"

VARIABLES
  sceneMode,    \* rankingMode
  sceneCity,    \* the city of selectedKey
  focus,        \* emphasizedParticipantId
  shownResults  \* whether the results have been loaded

sceneVars == <<sceneMode, sceneCity, focus, shownResults>>

Rank(mode) == Ranked[mode]
HasCity(mode, c) == \E i \in DOMAIN Rank(mode) : Rank(mode)[i].city = c

-----------------------------------------------------------------------------
(* The stops of one journey: every call at a stop, in the order of the legs,  *)
(* gathered by name and coordinate.                                         *)

TransitLegs(legs) == { i \in DOMAIN legs : ~legs[i].walk }
FirstTransit(legs) == IF TransitLegs(legs) = {} THEN 0
                      ELSE CHOOSE i \in TransitLegs(legs) : \A j \in TransitLegs(legs) : i <= j
LastTransit(legs)  == IF TransitLegs(legs) = {} THEN 0
                      ELSE CHOOSE i \in TransitLegs(legs) : \A j \in TransitLegs(legs) : i >= j

Call(stop, role, side, leg) ==
  [stop |-> stop, role |-> role, side |-> side, walk |-> leg.walk, service |-> leg.service]

CallsOfLeg(legs, i) ==
  LET leg == legs[i]
  IN  << Call(leg.from, IF i \in {1, FirstTransit(legs)} THEN "origin-station" ELSE "transfer",
              "departing", leg) >>
      \o [k \in DOMAIN leg.via |-> Call(leg.via[k], "intermediate", "calling", leg)]
      \o << Call(leg.to, IF i \in {Len(legs), LastTransit(legs)} THEN "meeting" ELSE "transfer",
                 "arriving", leg) >>

\* A stop without coordinates, or one that only stands for the coordinates of
\* the request, is never drawn.
IsReal(call) == call.stop.at /= Nowhere /\ call.stop.name \notin {"START", "END"}

Calls(legs) ==
  Where(FlattenSeq([i \in DOMAIN legs |-> CallsOfLeg(legs, i)]), IsReal)

Precedence == [intermediate |-> 0, transfer |-> 1, origin_station |-> 2, meeting |-> 3]
RankOfRole(role) ==
  IF role = "origin-station" THEN Precedence.origin_station ELSE Precedence[role]

LabelPriority(role) ==
  CASE role = "meeting" -> 400 [] role = "transfer" -> 300
    [] role = "origin-station" -> 200 [] role = "intermediate" -> 100

\* The service at one side of a stop: the last one paints the marker, the
\* first one is named on it.
Departs(call) == ~call.walk /\ call.side \in {"departing", "calling"}
Arrives(call) == ~call.walk /\ call.side = "arriving"

LastService(calls, Test(_)) ==
  LET hits == Where(calls, Test) IN IF hits = << >> THEN "none" ELSE hits[Len(hits)].service

Painted(calls) ==
  LET transit == Where(calls, LAMBDA c : ~c.walk)
      departing == LastService(calls, Departs)
      arriving  == LastService(calls, Arrives)
  IN  [border |-> CASE departing /= "none" -> departing
                    [] departing = "none" /\ arriving /= "none" -> arriving
                    [] OTHER -> "walk",
       ring   |-> IF departing /= "none" THEN arriving ELSE "none"]

StopOf(calls, stop) ==
  LET here == Where(calls, LAMBDA c : c.stop = stop)
      role == (CHOOSE c \in Range(here) :
                 \A d \in Range(here) : RankOfRole(c.role) >= RankOfRole(d.role)).role
  IN  [kind |-> "stop", id |-> stop, at |-> stop.at, role |-> role, paint |-> Painted(here)]

\* In the order of their first calls.
StopsOf(legs) ==
  LET calls == Calls(legs)
      firsts == Where([i \in DOMAIN calls |-> [call |-> calls[i], nth |-> i]],
                          LAMBDA e : \A j \in 1 .. e.nth - 1 : calls[j].stop /= e.call.stop)
  IN  [i \in DOMAIN firsts |-> StopOf(calls, firsts[i].call.stop)]

-----------------------------------------------------------------------------
(* Markers and lines.                                                       *)

CityMarkers(mode, chosen) ==
  LET located == Where(Rank(mode), LAMBDA c : c.at /= Nowhere)
  IN  [i \in DOMAIN located |->
         [kind |-> "candidate", id |-> located[i].city, at |-> located[i].at,
          selected |-> located[i].city = chosen]]

Selected(mode, chosen) == Where(Rank(mode), LAMBDA c : c.city = chosen)

IsFocused(traveler, f) == f \in {Nobody, traveler}

\* The marker of the city stands for the stop at which the journeys end.
StopMarkers(city, journey, f) ==
  LET drawn == Where(StopsOf(journey.legs),
                         LAMBDA s : ~(s.role = "meeting" /\ city.at /= Nowhere /\ s.at = city.at))
  IN  [i \in DOMAIN drawn |->
         [kind |-> "stop", id |-> <<journey.traveler, drawn[i].id>>, at |-> drawn[i].at,
          role |-> drawn[i].role, paint |-> drawn[i].paint,
          label |-> drawn[i].role /= "intermediate" \/ IsFocused(journey.traveler, f),
          priority |-> LabelPriority(drawn[i].role)]]

OriginMarkers ==
  LET located == Where(Travelers, LAMBDA t : OriginAt[t] /= Nowhere)
  IN  [i \in DOMAIN located |->
         [kind |-> "origin", id |-> located[i], at |-> OriginAt[located[i]]]]

\* Mistake: the label that held the place is left standing.
WeighKeeping(acc, i) ==
  LET m == acc.markers[i]
  IN  IF m.kind /= "stop" \/ (m.kind = "stop" /\ ~m.label) THEN acc
      ELSE IF m.at \notin DOMAIN acc.winner
      THEN [acc EXCEPT !.winner = [x \in DOMAIN @ \cup {m.at} |-> IF x = m.at THEN i ELSE @[x]]]
      ELSE IF m.priority > acc.markers[acc.winner[m.at]].priority
      THEN [acc EXCEPT !.winner[m.at] = i]
      ELSE [acc EXCEPT !.markers[i].label = FALSE]

\* One pass over the markers, which hides the label that loses.
Weigh(acc, i) ==
  LET m == acc.markers[i]
  IN  IF m.kind /= "stop" \/ (m.kind = "stop" /\ ~m.label) THEN acc
      ELSE IF m.at \notin DOMAIN acc.winner
      THEN [acc EXCEPT !.winner = [x \in DOMAIN @ \cup {m.at} |-> IF x = m.at THEN i ELSE @[x]]]
      ELSE IF m.priority > acc.markers[acc.winner[m.at]].priority
      THEN [markers |-> [acc.markers EXCEPT ![acc.winner[m.at]].label = FALSE],
            winner  |-> [acc.winner EXCEPT ![m.at] = i]]
      ELSE [acc EXCEPT !.markers[i].label = FALSE]

Weighed(markers) ==
  LET weighed[k \in 0 .. Len(markers)] ==
        IF k = 0 THEN [markers |-> markers, winner |-> << >>] ELSE Weigh(weighed[k - 1], k)
  IN  weighed

LabelsSuppressed(markers) == Weighed(markers)[Len(markers)].markers

\* A polyline that does not decode, or to a single point, is not drawn.
IsDrawn(leg) == leg.points >= 2

Lines(city, journey) ==
  LET drawn == Where([i \in DOMAIN journey.legs |-> [leg |-> journey.legs[i], nth |-> i]],
                         LAMBDA e : IsDrawn(e.leg))
  IN  [i \in DOMAIN drawn |->
         [id |-> <<city.city, journey.traveler, drawn[i].nth>>, walk |-> drawn[i].leg.walk,
          points |-> drawn[i].leg.points, service |-> drawn[i].leg.service]]

Journeys(mode, chosen) ==
  IF Selected(mode, chosen) = << >> THEN << >> ELSE Selected(mode, chosen)[1].journeys

UnsuppressedMarkers(loaded, mode, chosen, f) ==
  IF ~loaded THEN OriginMarkers
  ELSE LET journeys == Journeys(mode, chosen)
           city == Selected(mode, chosen)[1]
       IN  CityMarkers(mode, chosen)
           \o FlattenSeq([i \in DOMAIN journeys |-> StopMarkers(city, journeys[i], f)])
           \o OriginMarkers

Scene(loaded, mode, chosen, f) ==
  LET journeys == IF loaded THEN Journeys(mode, chosen) ELSE << >>
      city == Selected(mode, chosen)[1]
  IN  [markers |-> IF loaded THEN LabelsSuppressed(UnsuppressedMarkers(loaded, mode, chosen, f))
                   ELSE OriginMarkers,
       lines   |-> FlattenSeq([i \in DOMAIN journeys |-> Lines(city, journeys[i])])]

\* What the camera is fitted to anew: not the labels, nor who is in focus.
CameraKey(scene) ==
  <<[i \in DOMAIN scene.markers |->
       LET m == scene.markers[i]
       IN  <<m.kind, m.id, m.at, m.kind = "candidate" /\ m.selected>>],
    [i \in DOMAIN scene.lines |->
       <<scene.lines[i].id, scene.lines[i].walk, scene.lines[i].points>>]>>

\* The services named in a traveler's legend, each once.
LegendServices(scene, traveler) ==
  { scene.lines[i].service :
      i \in { j \in DOMAIN scene.lines :
                scene.lines[j].id[2] = traveler /\ ~scene.lines[j].walk } }

-----------------------------------------------------------------------------
(* What the page does.                                                      *)

FirstCity(mode) == IF Rank(mode) = << >> THEN NoCity ELSE Rank(mode)[1].city

MapSceneTypeOK ==
  /\ sceneMode \in DOMAIN Ranked
  /\ sceneCity = NoCity \/ HasCity(sceneMode, sceneCity)
  /\ focus \in Range(Travelers) \cup {Nobody}
  /\ shownResults \in BOOLEAN

MapSceneInit ==
  /\ sceneMode = FirstMode /\ sceneCity = NoCity
  /\ focus = Nobody /\ shownResults = FALSE

ResultsArrive ==
  /\ ~shownResults /\ shownResults' = TRUE
  /\ sceneCity' = FirstCity(sceneMode)
  /\ UNCHANGED <<sceneMode, focus>>

\* Another mode shows its own winner.
ModeChanges ==
  /\ shownResults
  /\ \E m \in DOMAIN Ranked \ {sceneMode} : sceneMode' = m /\ sceneCity' = FirstCity(m)
  /\ UNCHANGED <<focus, shownResults>>

CitySelected ==
  /\ shownResults
  /\ \E i \in DOMAIN Rank(sceneMode) : sceneCity' = Rank(sceneMode)[i].city
  /\ UNCHANGED <<sceneMode, focus, shownResults>>

TravelerFocused ==
  /\ shownResults
  /\ \E t \in Range(Travelers) : focus' = IF focus = t THEN Nobody ELSE t
  /\ UNCHANGED <<sceneMode, sceneCity, shownResults>>

MapSceneNext == ResultsArrive \/ ModeChanges \/ CitySelected \/ TravelerFocused

MapSceneSpec == MapSceneInit /\ [][MapSceneNext]_sceneVars

-----------------------------------------------------------------------------
(* Properties.                                                              *)

Labels(markers) == { i \in DOMAIN markers : markers[i].kind = "stop" /\ markers[i].label }

\* The label that stays at a coordinate is the first by priority, then by place.
KeepsFirst(before, after) ==
  LET Beats(i, j) == \/ before[i].priority > before[j].priority
                     \/ before[i].priority = before[j].priority /\ i <= j
  IN  Labels(after) = { i \in Labels(before) :
                          \A j \in Labels(before) : before[j].at = before[i].at => Beats(i, j) }

\* At every coordinate at which some stop wants its name shown, exactly one
\* name is shown: that of the highest priority, and of the first marker among
\* equals; no other stop gains or loses its name.
LabelsDontCollide ==
  KeepsFirst(UnsuppressedMarkers(shownResults, sceneMode, sceneCity, focus),
             Scene(shownResults, sceneMode, sceneCity, focus).markers)

AreAlike(scene, plain) ==
  /\ CameraKey(scene) = CameraKey(plain)
  /\ \A t \in Range(Travelers) : LegendServices(scene, t) = LegendServices(plain, t)

\* Focusing a traveler shows and hides names and nothing else: the camera stays
\* where the reader has moved it, and every traveler keeps a legend.
FocusMovesNothing ==
  AreAlike(Scene(shownResults, sceneMode, sceneCity, focus),
           Scene(shownResults, sceneMode, sceneCity, Nobody))
=============================================================================
