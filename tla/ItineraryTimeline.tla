----------------------------- MODULE ItineraryTimeline -----------------------------
(***************************************************************************)
(* A traveler's journey as a timeline: the legs of the stored itinerary,     *)
(* joined where the traveler stays seated, with the changes between services, *)
(* the walks at either end and a separator where the calendar day turns.     *)
(* Times are minutes; a stop's zone is its offset from the clock of the times. *)
(***************************************************************************)
EXTENDS Arrangement, SequencesExt

CONSTANTS
  Itineraries,  \* sequences of legs, as the provider gave them
  DayLength     \* minutes in a day

ASSUME TimelineAssumption == DayLength \in Nat \ {0}

IsSpell(leg) == leg.start \in Int /\ leg.end \in Int /\ leg.start <= leg.end

\* The traveler stays where a walk takes no time.
StandsStill(leg) == leg.end = leg.start /\ leg.to.zone = leg.from.zone
Continues(leg, last) == leg.start = last.end /\ leg.from.zone = last.to.zone

\* What the provider promises: legs one after the other, none before the last one
\* has ended, and the traveler stays seated in something that carries people.
IsItinerary(legs) ==
  /\ legs \in Seq(Range(legs)) /\ legs /= << >>
  /\ \A i \in DOMAIN legs :
       LET leg == legs[i]
       IN  /\ leg = [kind |-> leg.kind, service |-> leg.service, seated |-> leg.seated,
                     start |-> leg.start, end |-> leg.end, minutes |-> leg.minutes,
                     from |-> [name |-> leg.from.name, zone |-> leg.from.zone],
                     to |-> [name |-> leg.to.name, zone |-> leg.to.zone], through |-> << >>]
           /\ leg.kind \in {"walk", "ride", "other"} /\ leg.seated \in BOOLEAN
           /\ IsSpell(leg) /\ leg.minutes \in Int
           /\ leg.from.zone \in Int /\ leg.to.zone \in Int
           /\ leg.seated => leg.kind /= "walk" /\ i > 1 /\ legs[i - 1].kind /= "walk"
           /\ i > 1 => legs[i - 1].end <= leg.start
           /\ leg.kind = "walk" /\ leg.minutes = 0 =>
                StandsStill(leg) /\ (i > 1 => Continues(leg, legs[i - 1]))

ASSUME ItinerariesAssumption == \A legs \in Itineraries : IsItinerary(legs)

VARIABLE itinerary      \* the journey on the panel

-----------------------------------------------------------------------------
(* Legs.                                                                    *)

\* A leg with a service name is a ride, even a walk with a name; an interlined one
\* continues the ride before it, whose stops and end it takes over.
IsRide(leg) == leg.kind \in {"ride", "named walk"}
IsWalk(leg) == leg.kind \in {"walk", "named walk"}

Extended(last, leg) ==
  [last EXCEPT !.minutes = @ + leg.minutes, !.end = leg.end, !.to = leg.to,
               !.through = Append(@, [stop |-> last.to, service |-> leg.service])
                           \o leg.through]

Join(joined, leg) ==
  IF leg.seated /\ joined /= << >>
  THEN [joined EXCEPT ![Len(joined)] = Extended(@, leg)]
  ELSE Append(joined, leg)

\* A leg of another mode, neither ride nor walk, is given a service name.
Named(leg) == IF IsRide(leg) \/ IsWalk(leg) THEN leg ELSE [leg EXCEPT !.kind = "ride"]

Joining(legs) ==
  LET joined[k \in 0 .. Len(legs)] == IF k = 0 THEN << >> ELSE Join(joined[k - 1], legs[k])
  IN  joined

Joined(legs) == Joining(legs)[Len(legs)]
DisplayLegs(legs) == LET joined == Joined(legs) IN [i \in DOMAIN joined |-> Named(joined[i])]

RidesBefore(legs, i) == { j \in 1 .. i - 1 : IsRide(legs[j]) }
RidesAfter(legs, i)  == { j \in i + 1 .. Len(legs) : IsRide(legs[j]) }

-----------------------------------------------------------------------------
(* Items.                                                                   *)

Day(time, zone) == (time + zone) \div DayLength
AtLeast0(n) == IF n < 0 THEN 0 ELSE n

\* The change from the ride before leg i, with the walk just before it, if any.
Change(legs, i) ==
  LET before == legs[CHOOSE j \in RidesBefore(legs, i) : \A k \in RidesBefore(legs, i) : k <= j]
      connection == AtLeast0(legs[i].start - before.end)
      walks == i > 1 /\ IsWalk(legs[i - 1])
      walk == AtLeast0(legs[i - 1].minutes)
  IN  [kind |-> "transfer", connection |-> connection,
       walk    |-> IF walks THEN walk ELSE -1,
       waiting |-> IF walks THEN AtLeast0(connection - walk) ELSE -1,
       moves   |-> before.to.name /= legs[i].from.name]

NoTime == [known |-> FALSE]

Separators(last, leg) ==
  IF last.known /\ Day(last.time, last.zone) /= Day(leg.start, leg.from.zone)
  THEN << [kind |-> "date", day |-> Day(leg.start, leg.from.zone)] >>
  ELSE << >>

RoleOfWalk(legs, i) ==
  CASE RidesBefore(legs, i) = {} /\ RidesAfter(legs, i) /= {} -> "initial"
    [] RidesBefore(legs, i) /= {} /\ RidesAfter(legs, i) = {} -> "final"
    [] OTHER -> "standalone"

\* A walk that takes no time is left out, and one between two rides belongs to
\* the change.
IsItem(legs, i) ==
  \/ IsRide(legs[i])
  \/ legs[i].minutes /= 0 /\ ~(RidesBefore(legs, i) /= {} /\ RidesAfter(legs, i) /= {})

ItemsOfLeg(legs, i) ==
  IF IsRide(legs[i])
  THEN [change |-> IF RidesBefore(legs, i) = {} THEN << >> ELSE << Change(legs, i) >>,
        item   |-> [kind |-> "ride", leg |-> legs[i], isLast |-> RidesAfter(legs, i) = {}]]
  ELSE [change |-> << >>,
        item   |-> [kind |-> "walk", leg |-> legs[i], role |-> RoleOfWalk(legs, i)]]

\* The time known last is at the leg's end, for a walk in the zone of its start.
Tell(legs, told, i) ==
  IF ~IsItem(legs, i) THEN told
  ELSE LET e == ItemsOfLeg(legs, i)
       IN  [items |-> told.items \o e.change \o Separators(told.last, legs[i]) \o << e.item >>,
            last  |-> [known |-> TRUE, time |-> legs[i].end,
                       zone |-> IF IsRide(legs[i]) THEN legs[i].to.zone ELSE legs[i].from.zone]]

Telling(legs) ==
  LET told[k \in 0 .. Len(legs)] ==
        IF k = 0 THEN [items |-> << >>, last |-> NoTime] ELSE Tell(legs, told[k - 1], k)
  IN  told

TimelineOf(legs) == Telling(legs)[Len(legs)].items

buildTimelineItems(legs) == TimelineOf(DisplayLegs(legs))

-----------------------------------------------------------------------------
(* The rows that are shown: when a stop is called at, as far as the calendar  *)
(* goes, with or without a separator of its own before it, and the day on     *)
(* which what the row tells is over; a walk's is that of either end's zone.   *)

TimeAt(time, zone) == [known |-> TRUE, time |-> time, zone |-> zone]

\* A separator stands where the day is another one than at the time before, or,
\* without one, a later one than at the journey's start.
StopTime(time, zone, previous) ==
  [day |-> Day(time, zone),
   separator |-> IF previous.known THEN Day(previous.time, previous.zone) /= Day(time, zone)
                 ELSE Day(time, zone) > Day(itinerary[1].start, zone),
   until |-> {Day(time, zone)}]

\* A ride's departure, and its arrival unless the ride is the last one.
RideRows(leg, isLast) ==
  LET departure == StopTime(leg.start, leg.from.zone, NoTime)
  IN  IF isLast THEN << [departure EXCEPT !.until = {Day(leg.end, leg.to.zone)}] >>
      ELSE << departure, StopTime(leg.end, leg.to.zone, TimeAt(leg.start, leg.from.zone)) >>

WalkRows(leg) ==
  << [day |-> Day(leg.start, leg.from.zone), separator |-> FALSE,
      until |-> {Day(leg.end, leg.from.zone), Day(leg.end, leg.to.zone)}] >>

RowsOf(items, i) ==
  LET item == items[i]
      rows == CASE item.kind = "ride" -> RideRows(item.leg, item.isLast)
                [] item.kind = "walk" -> WalkRows(item.leg)
                [] OTHER              -> << >>
  IN  IF rows /= << >> /\ i > 1 /\ items[i - 1].kind = "date"
      THEN [rows EXCEPT ![1].separator = TRUE] ELSE rows

\* The arrival closes the timeline: that of the last leg as it is stored.
Arrival == LET leg == itinerary[Len(itinerary)]
           IN  StopTime(leg.end, leg.to.zone, TimeAt(leg.start, leg.from.zone))

Rows == LET items == buildTimelineItems(itinerary)
        IN  FlattenSeq([i \in DOMAIN items |-> RowsOf(items, i)]) \o << Arrival >>

TimelineInit == itinerary \in Itineraries

-----------------------------------------------------------------------------
(* Properties.                                                              *)

OfKind(items, kind) == Where(items, LAMBDA e : e.kind = kind)
IsMoved(leg) == ~IsWalk(leg)    \* carried by something, as the provider says

Total(s) ==
  LET total[k \in 0 .. Len(s)] == IF k = 0 THEN 0 ELSE total[k - 1] + s[k] IN total[Len(s)]

\* The minutes an item accounts for between the first ride's start and the last
\* one's end.
Spent(item) ==
  CASE item.kind = "ride" -> item.leg.end - item.leg.start
    [] item.kind = "transfer" -> item.connection
    [] OTHER -> 0

\* The timeline tells the journey that was stored: one change for every time the
\* traveler leaves one service for another and none where the traveler stays
\* seated, each right after the ride it follows; every minute from the first
\* ride's start to the last one's end is in a ride or in a change; and no walk is
\* shown between two rides as if it were an end of the journey.
TimelineTellsTheJourney ==
  LET items   == buildTimelineItems(itinerary)
      changes == OfKind(items, "transfer")
      rides   == OfKind(items, "ride")
      boarded == Where(itinerary, LAMBDA l : IsMoved(l) /\ ~l.seated)
  IN  /\ Len(rides) = Len(boarded)
      /\ Len(changes) = AtLeast0(Len(boarded) - 1)
      /\ \A i \in DOMAIN items : items[i].kind = "transfer" => i > 1 /\ items[i - 1].kind = "ride"
      /\ rides /= << >> =>
           Total([i \in DOMAIN items |-> Spent(items[i])])
           = rides[Len(rides)].leg.end - rides[1].leg.start
      /\ \A i \in DOMAIN items :
           items[i].kind = "walk" /\ items[i].role /= "standalone" =>
             LET later == \E j \in i .. Len(items) : items[j].kind = "ride"
             IN  later <=> items[i].role = "initial"

\* A row on another day than the one before was over has a separator before it
\* (docs/search-and-results-ux.md:96), whichever of three places it comes from.  A
\* day that turns within a walk or the last ride, whose ends have no row, may have
\* none.
DayTurnsAreSeparated ==
  \A i \in 2 .. Len(Rows) : Rows[i].day \notin Rows[i - 1].until => Rows[i].separator
=============================================================================
