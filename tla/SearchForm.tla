-------------------------------- MODULE SearchForm --------------------------------
(***************************************************************************)
(* The form that starts a meeting search: the rows of the travelers, each   *)
(* with the starting place its combobox has selected, and the one request    *)
(* that creates the search.  What becomes of the request between the page    *)
(* and the database is unreliable: it may be lost before or after the search *)
(* was stored, and the form, which only hears of a failure, offers to send   *)
(* it again.                                                                *)
(***************************************************************************)
EXTENDS Naturals, Sequences, FiniteSets, SequencesExt

CONSTANTS
  MinTravelers, MaxTravelers,   \* PARTICIPANT_COUNT_MIN and _MAX
  MaxIdentities,                \* bounds the rows ever added
  MaxSubmissions                \* bounds the requests sent

ASSUME FormAssumption ==
  /\ MaxTravelers \in Nat /\ MinTravelers \in 1 .. MaxTravelers
  /\ MaxIdentities \in Nat /\ MinTravelers <= MaxIdentities

VARIABLES
  rows,         \* the rows, by the number their letter and id come from
  nextRow,      \* travelerIdentitySeq
  placed,       \* the rows whose starting place is selected
  complete,     \* whether the other fields satisfy the schema
  submitting,   \* submittingRef and pending: the form is locked
  problem,      \* what the alert says
  creation,     \* the request under way: none, sent, or its answer
  stray,        \* requests the page has given up, still on their way
  created,      \* the searches stored, by the rows they were made from
  route         \* the page shown

formVars == <<rows, nextRow, placed, complete, submitting, problem, creation, stray, created, route>>

NoCreation == [is |-> "none"]
Members == { rows[i] : i \in DOMAIN rows }

SearchFormTypeOK ==
  /\ rows \in Seq(0 .. MaxIdentities - 1) /\ Len(rows) \in MinTravelers .. MaxTravelers
  /\ Cardinality(Members) = Len(rows)
  /\ nextRow \in 0 .. MaxIdentities
  /\ placed \subseteq Members
  /\ complete \in BOOLEAN /\ submitting \in BOOLEAN
  /\ problem \in {"none", "fields", "refused", "unreachable"}
  /\ creation.is \in {"none", "sent", "accepted", "refused"}
  /\ \A i \in DOMAIN created :
       Len(created[i]) \in MinTravelers .. MaxTravelers
  /\ route \in {"form", "search"}

FormInit ==
  /\ rows = [i \in 1 .. MinTravelers |-> i - 1]
  /\ nextRow = MinTravelers
  /\ placed = {} /\ complete = TRUE
  /\ submitting = FALSE /\ problem = "none"
  /\ creation = NoCreation /\ stray = {} /\ created = << >>
  /\ route = "form"

-----------------------------------------------------------------------------
(* Filling in.                                                              *)

OnForm == route = "form" /\ ~submitting

\* The number of a row is taken before the number of rows is looked at.
AddTraveler ==
  /\ OnForm /\ nextRow < MaxIdentities
  /\ nextRow' = nextRow + 1
  /\ rows' = IF Len(rows) >= MaxTravelers THEN rows ELSE Append(rows, nextRow)
  /\ UNCHANGED <<placed, complete, submitting, problem, creation, stray, created, route>>

\* By the key of the row, which no other row has.
RemoveTraveler ==
  /\ OnForm /\ Len(rows) > MinTravelers
  /\ \E i \in DOMAIN rows :
       /\ rows' = RemoveAt(rows, i)
       /\ placed' = placed \ {rows[i]}
  /\ UNCHANGED <<nextRow, complete, submitting, problem, creation, stray, created, route>>

\* A row's combobox selects a place, or its selection is cleared or typed over.
OriginChanges ==
  /\ OnForm
  /\ \E r \in Members :
       placed' = IF r \in placed THEN placed \ {r} ELSE placed \cup {r}
  /\ UNCHANGED <<rows, nextRow, complete, submitting, problem, creation, stray, created, route>>

OtherFieldsChange ==
  /\ OnForm /\ complete' = ~complete
  /\ UNCHANGED <<rows, nextRow, placed, submitting, problem, creation, stray, created, route>>

-----------------------------------------------------------------------------
(* Submitting.                                                              *)

Sent == [is |-> "sent", travelers |-> rows]

\* createMeetingSearchRequestSchema, checked by the form and by the API: of the
\* travelers, how many they are and that no two have one id.
BodyIsValid(body) ==
  /\ complete
  /\ Len(body.travelers) \in MinTravelers .. MaxTravelers
  /\ \A i, j \in DOMAIN body.travelers : body.travelers[i] = body.travelers[j] => i = j

\* The button is there only when every row has its place.
Submit ==
  /\ OnForm /\ Members \subseteq placed
  /\ Len(created) + Cardinality(stray) < MaxSubmissions
  /\ IF BodyIsValid(Sent)
     THEN submitting' = TRUE /\ problem' = "none" /\ creation' = Sent
     ELSE submitting' = FALSE /\ problem' = "fields" /\ UNCHANGED creation
  /\ UNCHANGED <<rows, nextRow, placed, complete, stray, created, route>>

\* The transaction that stores the search, its participants and its event.
Stores ==
  /\ \/ /\ creation.is = "sent"
        /\ created' = Append(created, creation.travelers)
        /\ creation' = [is |-> "accepted"]
        /\ UNCHANGED stray
     \/ \E t \in stray :
          /\ created' = Append(created, t)
          /\ stray' = stray \ {t}
          /\ UNCHANGED creation
  /\ UNCHANGED <<rows, nextRow, placed, complete, submitting, problem, route>>

\* A conflict, a database that cannot be reached, an unexpected error.
Refuses ==
  /\ creation.is = "sent"
  /\ creation' = [is |-> "refused"]
  /\ UNCHANGED <<rows, nextRow, placed, complete, submitting, problem, stray, created, route>>

\* The page moves on and stays locked.
Accepted ==
  /\ creation.is = "accepted"
  /\ route' = "search" /\ creation' = NoCreation
  /\ UNCHANGED <<rows, nextRow, placed, complete, submitting, problem, stray, created>>

Fails(why) ==
  /\ problem' = why
  /\ submitting' = FALSE
  /\ creation' = NoCreation
  /\ UNCHANGED <<rows, nextRow, placed, complete, created, route>>

CreationRefused == creation.is = "refused" /\ Fails("refused") /\ UNCHANGED stray

\* The connection breaks: the search may have been stored, or may be yet.
Breaks ==
  /\ creation /= NoCreation
  /\ Fails("unreachable")
  /\ \/ UNCHANGED stray
     \/ creation.is = "sent" /\ stray' = stray \cup {creation.travelers}

FormNext ==
  \/ AddTraveler \/ RemoveTraveler \/ OriginChanges \/ OtherFieldsChange
  \/ Submit \/ Stores \/ Refuses
  \/ Accepted \/ CreationRefused \/ Breaks

FormSpec == FormInit /\ [][FormNext]_formVars

-----------------------------------------------------------------------------
(* Properties.                                                              *)

\* A locked form is waiting for its request or has led to the search: no
\* failure of the request leaves the traveler before a spinner that nothing
\* will end.
FormIsWaitedFor == submitting => creation /= NoCreation \/ route = "search"
=============================================================================
