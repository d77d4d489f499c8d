-------------------------------- MODULE SearchPage --------------------------------
(***************************************************************************)
(* The page of one meeting search in the browser: it polls the summary of   *)
(* the search, loads the results once the search has completed, keeps a     *)
(* choice of ranking mode and city, and loads the details of a journey when *)
(* its panel is opened.  While the search runs, the page reveals what is    *)
(* being done step by step, on timers of its own.  A form for another search *)
(* may take the page's place and give it back.  The search itself goes on as *)
(* its readers may rely on: the server is SearchLifecycle, which the        *)
(* pipeline implements.                                                     *)
(*                                                                          *)
(* A request meets the server at one instant and the page at a later one;   *)
(* an aborted request may still bring its answer, if that had arrived.      *)
(***************************************************************************)
EXTENDS Naturals, FiniteSets

CONSTANTS
  PageCities, PageOutcomes, PageFailures,   \* the values of SearchLifecycle
  PageModes,        \* ranking modes
  Winner,           \* the city a mode ranks first, among those that have results
  PageTravelers,    \* how many travelers the search has
  MaxGenerations,   \* bounds the presses of Retry that nothing calls for
  MaxLost           \* requests that fail

ASSUME SearchPageAssumption ==
  /\ PageTravelers \in Nat /\ MaxGenerations \in Nat \ {0} /\ MaxLost \in Nat
  /\ PageModes # {}

VARIABLES
  searchStatus, searchResult, searchRecommended, searchRanking,   \* the server
  found,        \* whether the link is to a search that exists
  generation,   \* requestGenerationRef: 1, and one more for every Retry
  requests,     \* requests under way, or answered but not seen by the page
  timer,        \* whether the next poll is scheduled
  page,         \* the state of the view, and summaryRef
  choice,       \* ranking mode, selected city
  panel,        \* the panel of a journey: closed, or what it shows
  details,      \* the journey's entry in the cache of details
  newSearch,    \* the form for another search: not yet opened, in the page's place, or left
  progress,     \* the steps of the search's progress, and the travelers, revealed so far
  lost          \* requests that have failed

serverVars == <<searchStatus, searchResult, searchRecommended, searchRanking>>
pageVars   == <<searchStatus, searchResult, searchRecommended, searchRanking,
                found, generation, requests, timer, page, choice, panel, details,
                newSearch, progress, lost>>

revealVars == <<newSearch, progress>>

Server == INSTANCE SearchLifecycle WITH
            Cities <- PageCities, Outcomes <- PageOutcomes, FailureCodes <- PageFailures,
            status <- searchStatus, result <- searchResult,
            recommended <- searchRecommended, results <- searchRanking

NoAnswer == [is |-> "none"]
Lost     == [is |-> "lost"]     \* no connection, or an answer that is an error

Polled == {"queued", "running"}

SearchPageTypeOK ==
  /\ generation \in 1 .. (MaxGenerations + MaxLost)
  /\ \A r \in requests : r.gen \in 1 .. generation /\ r.for \in {"summary", "results"}
  /\ timer \in BOOLEAN
  /\ page.kind \in {"loading", "not_found", "completed", "failed", "network_error"} \cup Polled
  /\ page.results \in {"none", "loading", "shown"} /\ page.cities \subseteq PageCities
  /\ choice.mode \in PageModes
  /\ panel \in {"closed", "loading", "error", "detail"}
  /\ details \in {"none", "loading", "rejected", "error", "ready"}
  /\ newSearch \in {"unopened", "open", "left"}
  /\ progress.steps \in 0 .. 2 /\ progress.travelers \in 0 .. PageTravelers
  /\ lost \in 0 .. MaxLost

-----------------------------------------------------------------------------
(* Requests.                                                                *)

Request(purpose) == [gen |-> generation, for |-> purpose, answer |-> NoAnswer]

\* toMeetingSearchDetailData: of the search as it is now, the page goes by its status.
SummaryAnswer == [is |-> "summary", status |-> searchStatus]

\* loadRankedResults: the ranking, once there is one; an error before that, and
\* for a search that failed.
ResultsAnswer ==
  IF searchStatus = "completed" THEN [is |-> "results", cities |-> searchRanking] ELSE Lost

\* loadJourneyDetail, for a journey of the ranking.
DetailAnswer == IF searchStatus = "completed" THEN "ready" ELSE "error"

AnswerOf(r) ==
  CASE ~found                       -> [is |-> "missing"]
    [] found /\ r.for = "summary" -> SummaryAnswer
    [] found /\ r.for = "results" -> ResultsAnswer

Serve(r) ==
  /\ r.answer = NoAnswer
  /\ requests' = (requests \ {r}) \cup {[r EXCEPT !.answer = AnswerOf(r)]}
  /\ UNCHANGED <<serverVars, found, generation, timer, page, choice, panel, details, lost, revealVars>>

Lose(r) ==
  /\ r.answer = NoAnswer /\ lost < MaxLost
  /\ requests' = (requests \ {r}) \cup {[r EXCEPT !.answer = Lost]}
  /\ lost' = lost + 1
  /\ UNCHANGED <<serverVars, found, generation, timer, page, choice, panel, details, revealVars>>

-----------------------------------------------------------------------------
(* What is on the page.                                                     *)

HasResults == page.results = "shown"

\* renderPanelBody, unless the form is in its place.
PageBody ==
  IF newSearch = "open" THEN "form"
  ELSE IF page.kind \in Polled THEN "progress"
  ELSE IF HasResults THEN "results"
  ELSE CASE page.kind = "network_error"            -> "retry"
         [] page.kind \in {"loading", "completed"} -> "skeleton"
         [] page.kind \in {"not_found", "failed"}  -> "reply"

NothingRevealed == [steps |-> 0, travelers |-> 0]

\* What is revealed is forgotten when the body changes.
ProgressOfBody == progress' = IF PageBody' = "progress" THEN progress ELSE NothingRevealed

Target == IF page.kind = "queued" THEN [steps |-> 1, travelers |-> 0]
          ELSE [steps |-> 2, travelers |-> PageTravelers]

\* A timer goes off; all is revealed at once to a reader who wants less motion.
Reveal ==
  /\ PageBody = "progress" /\ progress # Target
  /\ \/ progress' = Target
     \/ progress' = IF progress.steps < Target.steps THEN [progress EXCEPT !.steps = @ + 1]
                    ELSE [progress EXCEPT !.travelers = @ + 1]
  /\ UNCHANGED <<serverVars, found, generation, requests, timer, page, choice, panel, details,
                 newSearch, lost>>

\* New Search, once in a behaviour, and Back to result.  The results' own state,
\* a panel that is open, goes with them.
ToggleNewSearch ==
  /\ newSearch # "left"
  /\ newSearch' = IF newSearch = "open" THEN "left" ELSE "open"
  /\ panel' = "closed"
  /\ UNCHANGED <<serverVars, found, generation, requests, timer, page, choice, details, lost>>
  /\ ProgressOfBody

BackToResult == newSearch = "open" /\ ToggleNewSearch

-----------------------------------------------------------------------------
(* useSearchPolling.                                                        *)

\* Mistake: an answer counts, whichever attempt asked for it.
IsNeverStale(r) == FALSE

IsStale(r) == r.gen # generation

\* The effect of the status page: with results, the mode of the search and that
\* mode's first city are chosen; without them, none.
FirstOf(mode, cities) ==
  IF cities = {} THEN "none"
  ELSE IF Winner[mode] \in cities THEN Winner[mode] ELSE CHOOSE c \in cities : TRUE
Chosen(cities) ==
  LET mode == CHOOSE m \in PageModes : TRUE
  IN [mode |-> mode, city |-> FirstOf(mode, cities)]

Show(kind, summary, results, cities) ==
  page' = [kind |-> kind, summary |-> summary, results |-> results, cities |-> cities]

Unchosen == choice' = [choice EXCEPT !.city = "none"]

\* decideSummaryPollAction, and what is done about it.
ApplySummary(status, r) ==
  CASE status \in Polled ->
         /\ Show(status, status, "none", {})
         /\ timer' = TRUE /\ Unchosen
         /\ requests' = requests \ {r}
    [] status = "completed" ->
         /\ Show(status, status, "loading", {})
         /\ requests' = (requests \ {r}) \cup {Request("results")}
         /\ Unchosen /\ UNCHANGED timer
    [] status = "failed" ->
         /\ Show(status, status, "none", {})
         /\ requests' = requests \ {r}
         /\ Unchosen /\ UNCHANGED timer

Arrive(r) ==
  /\ r.answer # NoAnswer
  /\ IF IsStale(r) THEN requests' = requests \ {r} /\ UNCHANGED <<timer, page, choice>>
     ELSE CASE r.answer.is = "summary" -> ApplySummary(r.answer.status, r)
            [] r.answer.is = "results" ->
                 /\ Show("completed", "completed", "shown", r.answer.cities)
                 /\ choice' = Chosen(r.answer.cities)
                 /\ requests' = requests \ {r} /\ UNCHANGED timer
            [] r.answer.is \in {"missing", "lost"} ->
                 /\ Show(IF r.answer.is = "missing" THEN "not_found" ELSE "network_error", page.summary,
                         "none", {})
                 /\ Unchosen
                 /\ requests' = requests \ {r} /\ UNCHANGED timer
  /\ UNCHANGED <<serverVars, found, generation, newSearch, panel, details, lost>>
  /\ ProgressOfBody

Poll ==
  /\ timer
  /\ timer' = FALSE
  /\ requests' = requests \cup {Request("summary")}
  /\ UNCHANGED <<serverVars, found, generation, page, choice, panel, details, lost, revealVars>>

\* Mistake: the effect does not depend on the token that Retry counts up.
RetryUnnoticed == PageBody = "retry" /\ UNCHANGED pageVars

\* The clean-up of the effect clears the timer and aborts what it asked for.
Retry ==
  /\ PageBody = "retry"
  /\ generation < MaxGenerations \/ \A r \in requests : IsStale(r)
  /\ generation' = generation + 1
  /\ timer' = FALSE
  /\ requests' = requests \cup {[gen |-> generation + 1, for |-> "summary", answer |-> NoAnswer]}
  /\ UNCHANGED <<serverVars, found, page, choice, panel, details, lost, revealVars>>

-----------------------------------------------------------------------------
(* Ranked results, and the panel of a journey.                              *)

FirstInMode(mode) == [mode |-> mode, city |-> FirstOf(mode, page.cities)]

ChangeMode(mode) ==
  /\ PageBody = "results" /\ page.cities # {} /\ mode # choice.mode
  /\ choice' = FirstInMode(mode)
  /\ panel' = "closed"
  /\ UNCHANGED <<serverVars, found, generation, requests, timer, page, details, lost, revealVars>>

\* In the list, or on the map, which stays when the form is open.
Select(city) ==
  /\ HasResults /\ city \in page.cities /\ city # choice.city
  /\ choice' = [choice EXCEPT !.city = city]
  /\ panel' = "closed"
  /\ UNCHANGED <<serverVars, found, generation, requests, timer, page, details, lost, revealVars>>

\* The effect of the panel: a detail that is there, a request to share, one
\* that has been rejected, which rejects this caller too, or a new request.
Load ==
  CASE details = "ready"    -> panel' = "detail" /\ UNCHANGED details
    [] details = "loading"  -> panel' = "loading" /\ UNCHANGED details
    [] details = "rejected" -> panel' = "error" /\ UNCHANGED details
    [] details \in {"none", "error"} -> panel' = "loading" /\ details' = "loading"

OpenPanel ==
  /\ PageBody = "results" /\ choice.city # "none" /\ panel = "closed"
  /\ Load
  /\ UNCHANGED <<serverVars, found, generation, requests, timer, page, choice, lost, revealVars>>

\* The request goes on without the panel.
ClosePanel ==
  /\ panel # "closed"
  /\ panel' = "closed"
  /\ UNCHANGED <<serverVars, found, generation, requests, timer, page, choice, details, lost, revealVars>>

RetryPanel ==
  /\ panel = "error"
  /\ panel' = "loading" /\ details' = "loading"
  /\ UNCHANGED <<serverVars, found, generation, requests, timer, page, choice, lost, revealVars>>

Shown(outcome) ==
  IF panel # "loading" THEN panel ELSE IF outcome = "ready" THEN "detail" ELSE "error"

\* An answer, an error of the server, or a fetch that rejects: the last leaves
\* its entry as it is, with a promise that is rejected.
DetailsArrive(outcome) ==
  /\ details = "loading"
  /\ outcome # DetailAnswer => lost < MaxLost
  /\ details' = outcome
  /\ panel' = Shown(outcome)
  /\ lost' = IF outcome = DetailAnswer THEN lost ELSE lost + 1
  /\ UNCHANGED <<serverVars, found, generation, requests, timer, page, choice, revealVars>>

-----------------------------------------------------------------------------
SearchProceeds ==
  /\ found /\ Server!Next
  /\ UNCHANGED <<found, generation, requests, timer, page, choice, panel, details, lost, revealVars>>

SearchPageInit ==
  /\ Server!Init
  /\ found \in BOOLEAN
  /\ generation = 1
  /\ requests = {[gen |-> 1, for |-> "summary", answer |-> NoAnswer]}
  /\ timer = FALSE
  /\ page = [kind |-> "loading", summary |-> "none", results |-> "none", cities |-> {}]
  /\ choice \in [mode : PageModes, city : {"none"}]
  /\ panel = "closed"
  /\ details = "none"
  /\ newSearch = "unopened" /\ progress = NothingRevealed
  /\ lost = 0

SearchPageNext ==
  \/ SearchProceeds
  \/ \E r \in requests : Serve(r) \/ Lose(r) \/ Arrive(r)
  \/ Poll \/ Retry
  \/ Reveal \/ ToggleNewSearch
  \/ \E mode \in PageModes : ChangeMode(mode)
  \/ \E city \in PageCities : Select(city)
  \/ OpenPanel \/ ClosePanel \/ RetryPanel
  \/ \E outcome \in {DetailAnswer, "error", "rejected"} : DetailsArrive(outcome)

\* The server ends the search (the pipeline's own liveness), answers, and the
\* answers arrive; the timer runs off; the user does not give up, and comes back
\* from the form.
SearchPageFairness ==
  /\ WF_pageVars(SearchProceeds)
  /\ WF_pageVars(\E r \in requests : Serve(r))
  /\ WF_pageVars(\E r \in requests : Arrive(r))
  /\ WF_pageVars(Poll) /\ WF_pageVars(Retry) /\ WF_pageVars(BackToResult)

SearchPageSpec == SearchPageInit /\ [][SearchPageNext]_pageVars /\ SearchPageFairness

-----------------------------------------------------------------------------
(* Properties.                                                              *)

Progress(summary) ==
  CASE summary = "none" -> 0 [] summary = "queued" -> 1 [] summary = "running" -> 2
    [] summary \in {"completed", "failed"} -> 3

\* The page never shows an earlier state of the search than it has shown before,
\* nor takes back results, but for a connection that is lost: answers of attempts
\* that were given up do not count (use-search-polling.ts:40).  What is revealed
\* of the progress is not more than the search has come to, and stays as long as
\* the page shows progress (search-status-page.tsx:399-439).
ViewNeverGoesBack ==
  [][/\ PageBody = "progress" /\ PageBody' = "progress" =>
          /\ progress.steps <= progress'.steps /\ progress'.steps <= Target'.steps
          /\ progress.travelers <= progress'.travelers
          /\ progress'.travelers <= Target'.travelers
     /\ Progress(page'.summary) >= Progress(page.summary)
     /\ page.kind \in {"completed", "failed"} =>
          page'.kind \in {page.kind, "network_error"}
     /\ HasResults => page' = page]_pageVars

\* A search that has ended is shown as ended, with its results if it has any.
PageShowsTheEnd ==
  found ~> \/ searchStatus = "failed" /\ page.kind = "failed"
           \/ searchStatus = "completed" /\ HasResults /\ page.cities = searchRanking

\* What says it is loading, or will look again, has an answer or a timer to come.
PageIsWaitedFor ==
  /\ page.kind \in {"loading"} \cup Polled \/ page.results = "loading" =>
       timer \/ \E r \in requests : ~IsStale(r)
  /\ panel = "loading" => details = "loading"
=============================================================================
