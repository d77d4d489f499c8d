---------------------------- MODULE HubAssociation ----------------------------
(***************************************************************************)
(* How a meeting city gets its routing hub: the enrichment asks the         *)
(* provider for stops around the city and picks one, or none.  A stop is    *)
(* known by its provider id; its name and locality are reduced to whether   *)
(* they are the city's, its place to the distance in metres.                *)
(***************************************************************************)
EXTENDS Naturals, FiniteSets, FiniteSetsExt, Sequences

CONSTANTS
  SoftMax,    \* CATALOG_HUB_DISTANCE_SOFT_MAX_METERS
  HardMax     \* CATALOG_HUB_DISTANCE_HARD_MAX_METERS, for regional hubs

ASSUME HubAssociationAssumption == SoftMax \in Nat /\ HardMax \in Nat /\ SoftMax <= HardMax

-----------------------------------------------------------------------------
(* What a stop is good for: the first group that has one of its modes.      *)

CapabilityGroups ==
  << [class |-> "intercity_rail",
      modes |-> {"long_distance", "highspeed_rail", "high_speed_rail", "night_rail", "intercity"}],
     [class |-> "regional_rail",
      modes |-> {"rail", "train", "regional_rail", "regional_fast_rail", "suburban"}],
     [class |-> "ferry_terminal", modes |-> {"ferry", "boat"}],
     [class |-> "coach_terminal", modes |-> {"coach"}],
     [class |-> "metro_only", modes |-> {"subway", "metro"}],
     [class |-> "local_bus", modes |-> {"bus", "tram", "light_rail"}] >>

\* The rank is the number of the group; a stop without a known mode comes last.
CapabilityRank(modes) ==
  Min({Len(CapabilityGroups) + 1} \cup
      {g \in DOMAIN CapabilityGroups : CapabilityGroups[g].modes \cap modes # {}})

IsPrimary(stop) == CapabilityRank(stop.modes) <= 4
IsRail(stop)    == CapabilityRank(stop.modes) <= 2

-----------------------------------------------------------------------------
(* associateCityToHub.                                                      *)

NoHub == [stop |-> "none"]

TieMeters == 50

\* By capability, then by distance, then by provider id.
ComesBefore(s, t) ==
  \/ CapabilityRank(s.modes) < CapabilityRank(t.modes)
  \/ CapabilityRank(s.modes) = CapabilityRank(t.modes) /\ s.distance < t.distance
  \/ /\ CapabilityRank(s.modes) = CapabilityRank(t.modes) /\ s.distance = t.distance
     /\ s.id <= t.id

First(stops) == CHOOSE s \in stops : \A t \in stops : ComesBefore(s, t)

IsTie(stops) ==
  LET first  == First(stops)
      second == First(stops \ {first})
  IN /\ Cardinality(stops) > 1
     /\ CapabilityRank(first.modes) = CapabilityRank(second.modes)
     /\ second.distance < first.distance + TieMeters

MaxDistance(regional) == IF regional THEN HardMax ELSE SoftMax

\* A match that is too far away is no match.
Match(stop, regional) ==
  IF stop.distance > MaxDistance(regional) THEN NoHub
  ELSE [stop |-> stop.id, distance |-> stop.distance, regional |-> regional]

\* The first of several stops, unless two of them are too close to call.
PickFrom(stops, regional) ==
  IF stops = {} \/ IsTie(stops) THEN NoHub ELSE Match(First(stops), regional)

Associate(stops) ==
  LET eligible == {s \in stops : s.type = "STOP" /\ s.sameCountry /\ IsPrimary(s)}
      exact    == {s \in eligible : s.named}
      locality == {s \in eligible : s.local}
      within(max) == {s \in eligible : s.distance <= max}
      rail(max)   == {s \in within(max) : IsRail(s)}
  IN IF exact # {} THEN PickFrom(exact, FALSE)
     ELSE IF locality # {} THEN PickFrom(locality, FALSE)
     ELSE IF within(SoftMax) # {} THEN PickFrom(rail(SoftMax), FALSE)
     ELSE PickFrom(rail(HardMax), TRUE)
=============================================================================
