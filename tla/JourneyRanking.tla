--------------------------- MODULE JourneyRanking ---------------------------
(***************************************************************************)
(* From the itineraries of the provider to the rankings of the search: the  *)
(* normalisation of an answer, the choice of the itineraries that are kept, *)
(* and, for each ranking mode, the choice of one journey per participant    *)
(* and the order of the candidates.                                         *)
(*                                                                          *)
(* Instants are minutes.  Who claims work, retries and completes it, is the *)
(* subject of SearchPipeline; here routing work ends in one step.           *)
(***************************************************************************)
EXTENDS Integers, Sequences, FiniteSets, FiniteSetsExt

CONSTANTS
  Participants,      \* sorted by id: 1 .. n
  Candidates,        \* by ordinal: 0 .. m
  Answers,           \* the answers of the provider: sequences of itineraries
  ArrivalTolerance   \* ARRIVAL_TOLERANCE_MINUTES

\* What the schema of an itinerary makes sure of; a text for an instant may be any.
IsItinerary(x) ==
  /\ x.seconds \in Nat /\ x.transfers \in Nat
  /\ x.start \in Int /\ x.end \in Int

ASSUME JourneyRankingAssumption ==
  /\ ArrivalTolerance \in Nat
  /\ \A answer \in Answers :
       /\ answer \in Seq({answer[i] : i \in DOMAIN answer})
       /\ \A i \in DOMAIN answer : IsItinerary(answer[i])
  /\ IsFiniteSet(Participants) /\ Participants # {}
  /\ Participants = 1 .. Cardinality(Participants)
  /\ IsFiniteSet(Candidates) /\ Candidates = 0 .. Cardinality(Candidates) - 1

VARIABLES
  routed,     \* the routing work that has succeeded, with its journeys
  rankings    \* what rankAllModes returned, and for each mode the candidates in order

rankingVars == <<routed, rankings>>

RankingModes == {"fairest", "fastest-overall", "fewest-transfers", "arrive-together"}
Work == Candidates \X Participants

-----------------------------------------------------------------------------
(* normalizeMotisPlanResponse: an instant, a geometry or an order of times   *)
(* that cannot be used, in an itinerary or a leg of it, makes the itinerary   *)
(* vanish and not the answer; a body that is off the schema fails the request *)
(* (module JourneyPlanning).                                                *)

NoInstant == -1    \* what new Date() makes of a text that is no instant
IsInstant(t) == t # NoInstant

LegIsMalformed(leg) ==
  \/ ~IsInstant(leg.start) \/ ~IsInstant(leg.end) \/ leg.end < leg.start
  \/ leg.geometry = "broken"    \* empty geometry counts as absent

\* Mistake: the order of start and end is only looked at in the legs.
IsMalformedByLegs(itinerary) ==
  \E i \in DOMAIN itinerary.legs : LegIsMalformed(itinerary.legs[i])

IsMalformed(itinerary) ==
  \/ ~IsInstant(itinerary.start) \/ ~IsInstant(itinerary.end) \/ itinerary.end < itinerary.start
  \/ \E i \in DOMAIN itinerary.legs : LegIsMalformed(itinerary.legs[i])

\* Seconds become minutes, rounded half up.
Minutes(seconds) == (seconds + 30) \div 60

NormalizeOne(itinerary) ==
  [departureAt |-> itinerary.start, arrivalAt |-> itinerary.end,
   durationMinutes |-> Minutes(itinerary.seconds), transfers |-> itinerary.transfers,
   modes |-> {itinerary.legs[i].mode : i \in DOMAIN itinerary.legs}]

\* By the place in the answer.
Normalize(answer) ==
  [i \in {n \in DOMAIN answer : ~IsMalformed(answer[n])} |-> NormalizeOne(answer[i])]

\* Journeys whose transit legs have modes nobody knows are not kept.
TransportModes(journey) == journey.modes \ {"walk", "unmapped"}
IsUsable(journey) == ~(TransportModes(journey) = {} /\ "unmapped" \in journey.modes)

\* The rows of meeting_search_journeys.  A journey's id is a random UUID, the last
\* and arbitrary tie-breaker; here it is the journey's place in the answer.
JourneyRows(work, answer) ==
  LET normal == Normalize(answer)
  IN {[participantId |-> work[2], journeyId |-> i,
       departureAt |-> normal[i].departureAt, arrivalAt |-> normal[i].arrivalAt,
       durationMinutes |-> normal[i].durationMinutes, transfers |-> normal[i].transfers] :
         i \in {n \in DOMAIN normal : IsUsable(normal[n])}}

-----------------------------------------------------------------------------
(* The choice of journeys to one candidate.  Comparators become keys, which *)
(* are compared element by element.                                         *)

IsLess(s, t) ==
  \E i \in DOMAIN s : s[i] < t[i] /\ \A j \in 1 .. i - 1 : s[j] = t[j]

\* The elements of S by their keys: each stands behind as many as come before it.
Sorted(S, Key(_)) ==
  [n \in 1 .. Cardinality(S) |->
     CHOOSE x \in S : Cardinality({y \in S : IsLess(Key(y), Key(x))}) = n - 1]

\* The element of S whose key comes first.
Best(S, Key(_)) == CHOOSE x \in S : \A y \in S : ~IsLess(Key(y), Key(x))

JourneysOf(c, p) == routed[<<c, p>>]

IsValidOption(j) ==
  /\ j.durationMinutes >= 0 /\ j.transfers >= 0
  /\ IsInstant(j.departureAt) /\ IsInstant(j.arrivalAt)
  /\ j.arrivalAt >= j.departureAt

FastestKey(j) == <<j.durationMinutes, j.transfers, j.arrivalAt, j.departureAt, j.journeyId>>
FewestKey(j)  == <<j.transfers, j.durationMinutes, j.arrivalAt, j.departureAt, j.journeyId>>
WindowKey(j)  == <<j.durationMinutes, j.transfers, j.journeyId>>

SelectFastest(c) == [p \in Participants |-> Best(JourneysOf(c, p), FastestKey)]
SelectFewest(c)  == [p \in Participants |-> Best(JourneysOf(c, p), FewestKey)]

\* Numbers of a selection: one journey for each participant.
Total(Of(_))      == MapThenSumSet(Of, Participants)
TotalDuration(s)  == LET Of(p) == s[p].durationMinutes IN Total(Of)
TotalTransfers(s) == LET Of(p) == s[p].transfers IN Total(Of)
Durations(s)      == {s[p].durationMinutes : p \in Participants}
Arrivals(s)       == {s[p].arrivalAt : p \in Participants}
MaxTransfers(s)   == Max({s[p].transfers : p \in Participants})
Spread(s)         == Max(Arrivals(s)) - Min(Arrivals(s))
ArrivalPenalty(s) == Max({0, Spread(s) - ArrivalTolerance})

SetKey(s) ==
  <<ArrivalPenalty(s), Max(Durations(s)), TotalDuration(s), TotalTransfers(s),
    Spread(s), Max(Arrivals(s))>> \o [p \in Participants |-> s[p].journeyId]

\* All journeys to a candidate, by arrival.
Timed(c) ==
  LET Key(j) == <<j.arrivalAt, j.journeyId, j.participantId>>
  IN Sorted(UNION {JourneysOf(c, p) : p \in Participants}, Key)

Covers(timed, l, r) == {timed[i].participantId : i \in l .. r} = Participants

\* The right end of a window moves on by one, and the left end as far as the
\* window still covers every participant.
Sweep(timed) ==
  LET sweep[r \in 0 .. Len(timed)] ==
        IF r = 0 THEN [left |-> 1, spreads |-> {}]
        ELSE LET from == sweep[r - 1].left
                 left == Min({l \in from .. r + 1 : ~Covers(timed, l, r)})
             IN [left |-> left,
                 spreads |-> sweep[r - 1].spreads \cup
                   {timed[r].arrivalAt - timed[l].arrivalAt : l \in from .. left - 1}]
  IN sweep

\* The least spread that reaches every participant.
MinimumSpread(timed) == Min(Sweep(timed)[Len(timed)].spreads)

\* Mistake: only the windows of the least spread are looked at.
MinimalWindow(minSpread) == minSpread

AllowedWindow(minSpread) == Max({ArrivalTolerance, minSpread})

\* One selection for every window that reaches all, and the best of them.
SelectTogether(c) ==
  LET timed   == Timed(c)
      allowed == AllowedWindow(MinimumSpread(timed))
      Options(lower, p) ==
        {j \in JourneysOf(c, p) : j.arrivalAt \in lower .. lower + allowed}
      lowers  == {l \in {timed[i].arrivalAt : i \in DOMAIN timed} :
                    \A p \in Participants : Options(l, p) # {}}
      picks   == {[p \in Participants |-> Best(Options(l, p), WindowKey)] : l \in lowers}
  IN Best(picks, SetKey)

-----------------------------------------------------------------------------
(* rankAllModes.                                                            *)

Select(mode, c) ==
  CASE mode = "fewest-transfers" -> SelectFewest(c)
    [] mode = "arrive-together"  -> SelectTogether(c)
    [] OTHER                     -> SelectFastest(c)

CandidateKey(mode, entry) ==
  LET s == entry.selection
      most == Max(Durations(s))
      range == most - Min(Durations(s))
  IN CASE mode = "fastest-overall" ->
            <<TotalDuration(s), most, TotalTransfers(s), Spread(s), entry.candidate>>
       [] mode = "fairest" ->
            <<most, range, TotalDuration(s), TotalTransfers(s), Spread(s), entry.candidate>>
       [] mode = "fewest-transfers" ->
            <<TotalTransfers(s), MaxTransfers(s), TotalDuration(s), most, entry.candidate>>
       [] mode = "arrive-together" ->
            <<ArrivalPenalty(s), most, TotalDuration(s), TotalTransfers(s), Spread(s),
              Max(Arrivals(s)), entry.candidate>>

Feasible == {c \in Candidates : \A p \in Participants : JourneysOf(c, p) # {}}

Ranked(mode) ==
  LET entries == {[candidate |-> c, selection |-> Select(mode, c)] : c \in Feasible}
      Key(entry) == CandidateKey(mode, entry)
  IN Sorted(entries, Key)

IsRankable == \A c \in Feasible, p \in Participants : \A j \in JourneysOf(c, p) : IsValidOption(j)

-----------------------------------------------------------------------------
NotRanked == [outcome |-> "none", modes |-> <<>>]
Rejected  == [outcome |-> "rejected", modes |-> <<>>]

RankingInit ==
  /\ routed = <<>>
  /\ rankings = NotRanked

\* The provider answers the request of a work row; the journeys are persisted.
AnswerArrives(work, answer) ==
  /\ work \notin DOMAIN routed
  /\ routed' = [w \in DOMAIN routed \cup {work} |->
                  IF w = work THEN JourneyRows(work, answer) ELSE routed[w]]
  /\ UNCHANGED rankings

\* Finalization, once all work has ended.
RankAll ==
  /\ DOMAIN routed = Work /\ rankings = NotRanked
  /\ rankings' = IF IsRankable
                 THEN [outcome |-> "ranked", modes |-> [mode \in RankingModes |-> Ranked(mode)]]
                 ELSE Rejected
  /\ UNCHANGED routed

RankingNext ==
  \/ \E work \in Work, answer \in Answers : AnswerArrives(work, answer)
  \/ RankAll

RankingSpec == RankingInit /\ [][RankingNext]_rankingVars

-----------------------------------------------------------------------------
(* Properties.                                                              *)

RankingTypeOK ==
  /\ DOMAIN routed \subseteq Work
  /\ rankings.outcome \in {"none", "rejected", "ranked"}

\* Whatever the provider answers, what routing persists can be ranked: the
\* search never fails because the ranking rejects a journey
\* (motis-normalize.ts and journey-selection.ts:34 check different things).
RankingNeverRejects == rankings # Rejected

\* What each mode promises to make small, first things first.
Criteria(mode, s) ==
  CASE mode = "fastest-overall"  -> <<TotalDuration(s), Max(Durations(s)), TotalTransfers(s)>>
    [] mode = "fairest"          -> <<Max(Durations(s))>>
    [] mode = "fewest-transfers" -> <<TotalTransfers(s), MaxTransfers(s), TotalDuration(s)>>
    [] mode = "arrive-together"  ->
         <<ArrivalPenalty(s), Max(Durations(s)), TotalDuration(s), TotalTransfers(s)>>

Selections(c) ==
  {s \in [Participants -> UNION {JourneysOf(c, p) : p \in Participants}] :
     \A p \in Participants : s[p] \in JourneysOf(c, p)}

\* No choice of journeys, to a candidate of the same or a later rank, is better
\* by the criteria of the mode: the greedy choices, participant by participant
\* and window by window, miss none (journey-selection.ts:107-335).
NoBetterMeeting ==
  rankings.outcome = "ranked" =>
    \A mode \in RankingModes :
      LET ranked == rankings.modes[mode] IN
      \A r \in DOMAIN ranked : \A later \in r .. Len(ranked) :
        \A s \in Selections(ranked[later].candidate) :
          ~IsLess(Criteria(mode, s), Criteria(mode, ranked[r].selection))
=============================================================================
