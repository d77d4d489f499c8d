------------------------------ MODULE PlaceCombobox ------------------------------
(***************************************************************************)
(* The field in which a traveler's starting place is typed and picked.      *)
(* Typing asks the place search 300 ms after the last change; the answers    *)
(* of earlier requests are kept out by a sequence number and by aborting the *)
(* request before, the answer of the Retry button by the abort alone.        *)
(***************************************************************************)
EXTENDS Naturals, FiniteSets

CONSTANTS
  Texts,      \* what the field may hold; "" is the empty field
  Query,      \* [Texts -> STRING]: the text without stray spaces, "short" if too short
  Found,      \* [queries -> sets of places]: what the place search finds
  Selectable, \* the places that come with a country code
  MaxEdits    \* bounds the changes of the text and the presses of Retry

Unset == "none"

\* The name of a place that is selected becomes the text.
ASSUME ComboboxAssumption ==
  /\ "" \in Texts /\ Selectable \subseteq Texts /\ Unset \notin Selectable
  /\ Query \in [Texts -> DOMAIN Found \cup {"short"}] /\ Query[""] = "short"
  /\ MaxEdits \in Nat

VARIABLES
  field,      \* the text, and the place selected (owned by the form)
  seq,        \* requestSeq
  debounce,   \* the timer: off, or the sequence number and text it was set for
  calls,      \* requests under way
  abortable,  \* abortRef: the request the next abort ends
  load,       \* loadState, with the query it answers
  open,       \* whether the panel is open
  edits       \* changes and retries so far, which also number the requests

comboboxVars == <<field, seq, debounce, calls, abortable, load, open, edits>>

Off      == [on |-> FALSE]
Idle     == [is |-> "idle"]
Loading  == [is |-> "loading"]
Failure  == [is |-> "error"]

\* The API's place search; the cache it keeps for a while changes no answer.
Suggestions(q) == Found[q]

\* What the panel shows for the suggestions of query q.
Answer(q) == [is |-> IF Suggestions(q) = {} THEN "empty" ELSE "ready", query |-> q]

Offered == IF load.is = "ready" THEN Suggestions(load.query) ELSE {}

ComboboxTypeOK ==
  /\ field.text \in Texts
  /\ field.selected \in Selectable \cup {Unset}
  /\ seq \in 0 .. MaxEdits
  /\ debounce = Off \/ debounce.seq <= seq
  /\ \A c \in calls : c.seq <= seq /\ c.query \in DOMAIN Found \cup {"short"}
  /\ load.is \in {"idle", "loading", "ready", "empty", "error"}
  /\ open \in BOOLEAN
  /\ edits \in 0 .. MaxEdits

ComboboxInit ==
  /\ field = [text |-> "", selected |-> Unset]
  /\ seq = 0 /\ debounce = Off
  /\ calls = {} /\ abortable = 0
  /\ load = Idle /\ open = FALSE
  /\ edits = 0

-----------------------------------------------------------------------------
(* The effect of a changed text or selection.                               *)

\* An aborted request ends before the next event reaches the page.
IsSettled == \A c \in calls : ~c.aborted

Aborted(cs) == { [c EXCEPT !.aborted = @ \/ c.id = abortable] : c \in cs }

\* The timer of the previous effect is always cleared.
FieldEffect(text, selected) ==
  /\ field' = [text |-> text, selected |-> selected]
  /\ IF selected /= Unset \/ Query[text] = "short"
     THEN /\ debounce' = Off
          /\ load' = Idle
          /\ open' = FALSE
          /\ calls' = IF selected = Unset THEN Aborted(calls) ELSE calls
          /\ UNCHANGED seq
     ELSE /\ seq' = seq + 1
          /\ debounce' = [on |-> TRUE, seq |-> seq + 1, query |-> Query[text]]
          /\ UNCHANGED <<calls, load, open>>

Edit ==
  /\ IsSettled /\ edits < MaxEdits
  /\ \E t \in Texts : t /= field.text /\ FieldEffect(t, Unset)
  /\ edits' = edits + 1
  /\ UNCHANGED abortable

ClearSelection ==
  /\ IsSettled /\ field.selected /= Unset
  /\ FieldEffect("", Unset)
  /\ UNCHANGED <<abortable, edits>>

\* A click or Enter on a suggestion; the name of the place becomes the text.
SelectPlace ==
  /\ IsSettled /\ open
  /\ \E p \in Offered :
       IF p \in Selectable
       THEN FieldEffect(p, p) /\ UNCHANGED <<abortable, edits>>
       ELSE load' = Failure
            /\ UNCHANGED <<field, seq, debounce, calls, abortable, open, edits>>

-----------------------------------------------------------------------------
(* Requests.                                                                *)

PlaceCall(n, number, q, retry) ==
  [id |-> number, seq |-> n, query |-> q, retry |-> retry, aborted |-> FALSE]

\* Mistake: the request before goes on.
DebounceEndsAlone ==
  /\ IsSettled /\ debounce /= Off
  /\ calls' = calls \cup {PlaceCall(debounce.seq, edits, debounce.query, FALSE)}
  /\ abortable' = edits
  /\ load' = Loading /\ open' = TRUE
  /\ debounce' = Off
  /\ UNCHANGED <<field, seq, edits>>

DebounceEnds ==
  /\ IsSettled /\ debounce /= Off
  /\ calls' = Aborted(calls) \cup {PlaceCall(debounce.seq, edits, debounce.query, FALSE)}
  /\ abortable' = edits
  /\ load' = Loading /\ open' = TRUE
  /\ debounce' = Off
  /\ UNCHANGED <<field, seq, edits>>

\* Retry takes a new sequence number, but its answer is not held against it,
\* and the text, set to what it is, does not set the timer.
RetrySuggestions ==
  /\ IsSettled /\ load = Failure /\ open /\ edits < MaxEdits
  /\ edits' = edits + 1
  /\ seq' = seq + 1
  /\ calls' = calls \cup {PlaceCall(seq + 1, edits + 1, Query[field.text], TRUE)}
  /\ abortable' = edits + 1
  /\ load' = Loading
  /\ UNCHANGED <<field, debounce, open>>

IsHeeded(c) == c.retry \/ c.seq = seq

ShowAnswer(c, shown) ==
  /\ calls' = calls \ {c}
  /\ IF IsHeeded(c)
     THEN load' = shown /\ open' = (open \/ ~c.retry)
     ELSE UNCHANGED <<load, open>>
  /\ UNCHANGED <<field, seq, debounce, abortable, edits>>

Ignore(c) ==
  /\ calls' = calls \ {c}
  /\ UNCHANGED <<field, seq, debounce, abortable, load, open, edits>>

\* The place search refuses a text that is too short.
SuggestionsAnswered ==
  \E c \in calls : ~c.aborted /\ c.query \in DOMAIN Found /\ ShowAnswer(c, Answer(c.query))

SuggestionsRefused  == \E c \in calls : ~c.aborted /\ ShowAnswer(c, Failure)

\* No connection, or an aborted request; nothing handles the rejection of Retry.
SuggestionsRejected ==
  \E c \in calls :
    IF c.aborted \/ c.retry THEN Ignore(c) ELSE ShowAnswer(c, Failure)

\* The abort meets a refusal whose body is being read: it reads as a refusal
\* without a body, which Retry shows.
SuggestionsRefusedInHalf == \E c \in calls : c.aborted /\ c.retry /\ ShowAnswer(c, Failure)

\* Escape, or leaving the field; coming back to it.
CloseList ==
  /\ open /\ open' = FALSE
  /\ UNCHANGED <<field, seq, debounce, calls, abortable, load, edits>>

OpenList ==
  /\ ~open /\ load.is \in {"ready", "empty", "error"} /\ open' = TRUE
  /\ UNCHANGED <<field, seq, debounce, calls, abortable, load, edits>>

ComboboxNext ==
  \/ Edit \/ ClearSelection \/ SelectPlace
  \/ DebounceEnds \/ RetrySuggestions
  \/ SuggestionsAnswered \/ SuggestionsRefused \/ SuggestionsRejected \/ SuggestionsRefusedInHalf
  \/ CloseList \/ OpenList

ComboboxSpec == ComboboxInit /\ [][ComboboxNext]_comboboxVars

-----------------------------------------------------------------------------
(* Properties.                                                              *)

\* Once the timer has run out, what the panel offers answers the text that is
\* in the field, whichever requests were made on the way; a place that has been
\* selected is not covered again by a late answer.
SuggestionsAnswerTheText ==
  load.is \in {"ready", "empty"} =>
    /\ field.selected = Unset
    /\ debounce = Off => load.query = Query[field.text]
=============================================================================
