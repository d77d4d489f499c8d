----------------------------- MODULE JourneyDocument -----------------------------
(***************************************************************************)
(* What is kept of a journey and what a reader is shown of it: the legs the  *)
(* ranking needs, beside them the provider's itinerary where there is one,   *)
(* the chips of the results, and the panel, whose timeline is drawn from the *)
(* itinerary or, failing that, from the ranking legs.                        *)
(***************************************************************************)
EXTENDS ItineraryTimeline

CONSTANT SummaryMax   \* ROUTE_SUMMARY_SEGMENTS_MAX

ASSUME SummaryAssumption == SummaryMax \in Nat \ {0}

VARIABLE storedAs       \* the form in which the row holds the journey

-----------------------------------------------------------------------------
(* The row.                                                                 *)

storedJourneyLegsJson(hasItinerary) == IF hasItinerary THEN "document" ELSE "legs"

\* What the code writes, and rows it says it can read: a document whose itinerary
\* is no itinerary or one of another API, one that reads well and still is not
\* what may be sent, and something else altogether.
StoredForms ==
  { storedJourneyLegsJson(has) : has \in BOOLEAN }
    \cup {"spoiled", "other api", "unsendable", "unrecognized"}

\* A ranking leg knows its mode, service, times and ends, not what the traveler
\* stays seated for.
RankingLeg(leg) == [leg EXCEPT !.seated = FALSE, !.through = << >>]

isUsableMotisItinerary == storedAs \notin {"legs", "spoiled", "unrecognized"}

parseStoredJourneyLegs ==
  [rankingLegs |-> IF storedAs = "unrecognized" THEN << >>
                   ELSE [i \in DOMAIN itinerary |-> RankingLeg(itinerary[i])],
   itinerary   |-> IF isUsableMotisItinerary /\ storedAs /= "other api" THEN itinerary
                   ELSE << >>,
   storageKind |-> IF storedAs \in {"legs", "unrecognized"} THEN storedAs ELSE "document"]

-----------------------------------------------------------------------------
(* The chips.                                                               *)

ServicesOf(legs) == [i \in DOMAIN legs |-> legs[i].service]
Capped(legs) == IF Len(legs) > SummaryMax THEN SubSeq(legs, 1, SummaryMax) ELSE legs

SummaryOfItinerary(legs) == Capped(Where(Joined(legs), IsRide))
SummaryOfRankingLegs(legs) == Capped(Where(legs, LAMBDA leg : ~IsWalk(leg)))

\* An itinerary in which nothing has a name gives no chip: then the ranking legs.
buildRouteSummary ==
  LET parsed == parseStoredJourneyLegs
      named  == SummaryOfItinerary(parsed.itinerary)
  IN  ServicesOf(IF named /= << >> THEN named ELSE SummaryOfRankingLegs(parsed.rankingLegs))

-----------------------------------------------------------------------------
(* The panel.                                                               *)

JourneyDetail ==
  LET parsed == parseStoredJourneyLegs
  IN  [detailSource |-> IF parsed.storageKind = "document" THEN "provider" ELSE "legacy",
       itinerary    |-> parsed.itinerary,
       legs         |-> parsed.rankingLegs]

\* The API sends no detail that is not of the response's type.
IsSent(detail) == detail.itinerary = << >> \/ storedAs /= "unsendable"

\* Every leg is given a name, a walk too, and no time zone.
rankingLegToMotis(leg) ==
  [leg EXCEPT !.kind = IF IsWalk(leg) THEN "named walk" ELSE "ride",
              !.from.zone = 0, !.to.zone = 0]
RankingJourneyLegs(legs) == [i \in DOMAIN legs |-> rankingLegToMotis(legs[i])]

renderDetail(detail) ==
  IF detail.detailSource = "provider" /\ detail.itinerary /= << >>
  THEN [notice |-> FALSE, legs |-> detail.itinerary]
  ELSE [notice |-> detail.detailSource = "provider", legs |-> RankingJourneyLegs(detail.legs)]

DocumentInit == TimelineInit /\ storedAs \in StoredForms

-----------------------------------------------------------------------------
(* Properties.                                                              *)

\* Services in the order in which a timeline tells of them: that of a ride, then
\* those it continues as.  A walk with a name is a ride to the timeline.
ToldBy(item) ==
  IF item.kind = "ride" /\ ~IsWalk(item.leg)
  THEN << item.leg.service >> \o ServicesOf(item.leg.through)
  ELSE << >>

Told(items) == FlattenSeq([i \in DOMAIN items |-> ToldBy(items[i])])

\* Chips and panel, made of one row by different code, tell the same journey: the
\* panel every service the traveler sits in, in order, whether the itinerary could
\* be read or not; the chips some of them, in the same order, and at least one
\* unless the journey is all on foot.  A panel that had to do without a provider's
\* itinerary says so.
ChipsAndPanelAgree ==
  LET seated == ServicesOf(Where(itinerary, IsMoved))
      chips  == buildRouteSummary
      panel  == renderDetail(JourneyDetail)
  IN  storedAs /= "unrecognized" =>
        /\ IsSent(JourneyDetail) => Told(buildTimelineItems(panel.legs)) = seated
        /\ \E some \in SUBSET (DOMAIN seated) : chips = AtPlaces(seated, some)
        /\ chips = << >> <=> seated = << >>
        /\ panel.notice <=> storedAs \in {"spoiled", "other api"}
=============================================================================
