---------------------------- MODULE StationField ----------------------------
(***************************************************************************)
(* A station field of the search form: useAutocomplete.ts asks for the     *)
(* matches of what is typed, a little after it is typed, and resolves it   *)
(* as the field is left. Answers come back in any order, shared between    *)
(* the readers of one text and kept (suggestLocations of lib/api.ts).      *)
(***************************************************************************)
EXTENDS Integers, FiniteSets

CONSTANTS
  Typed,           \* texts a user types
  Place,           \* stations; the label of one is a text too
  Matches,         \* what the server answers a text with: its stations, best first
  Exact,           \* the station a text names by itself, or NoPlace
  NoPlace,
  MaxKeys          \* bound: what the user does to the field

Empty == "empty"

(* A label that is typed by hand names its station, or none of several.    *)
ASSUME StationAssumption ==
  /\ MaxKeys \in Nat /\ NoPlace \notin Place
  /\ Empty \notin Typed \cup Place \cup {NoPlace}
  /\ Matches \in [Typed -> SUBSET Place] /\ Exact \in [Typed -> Place \cup {NoPlace}]
  /\ \A p \in Typed \cap Place : Exact[p] \in {p, NoPlace}

VARIABLES
  text,        \* queryRef
  resolved,    \* resolvedLabelRef: the label the field last resolved to
  place,       \* the station onResolved gave the form, NoPlace once it is given a text
  offered,     \* the text whose suggestions are listed, Empty when none are
  due,         \* the text the debounce will ask for, Empty when none
  asking,      \* the callers awaiting suggestions
  seqNo,       \* requestSeqRef
  kept,        \* texts with cached suggestions
  picked,      \* history: the station of the last pick, until the field is given a text
  spelled      \* history: its label was the text already

fieldVars == <<text, resolved, place, offered, due, asking, seqNo, kept, picked, spelled>>

FieldInit ==
  /\ text = Empty /\ resolved = Empty /\ place = NoPlace /\ offered = Empty /\ due = Empty
  /\ asking = {} /\ seqNo = 0 /\ kept = {} /\ picked = NoPlace /\ spelled = FALSE

Keys == seqNo < MaxKeys

(* updateQuery: nothing asked before is wanted, and the form takes the text. *)
TextGiven(q) ==
  /\ seqNo' = seqNo + 1 /\ text' = q
  /\ place' = NoPlace /\ picked' = NoPlace /\ spelled' = FALSE
  /\ UNCHANGED <<resolved, asking, kept>>

(* By the user's hand, and the debounce it sets.                            *)
Type(q) ==
  /\ Keys /\ q # text
  /\ TextGiven(q)
  /\ IF q = resolved THEN due' = Empty /\ offered' = Empty ELSE due' = q /\ UNCHANGED offered

(* Mutant: it stays whatever the text becomes. *)
NeverUndone(q) == due

(* The debounce is undone by the effect of a new text, and of no other.     *)
Undone(q) == IF q = text THEN due ELSE Empty

(* By the form, as when its fields are swapped.                             *)
Prefill(q) ==
  /\ Keys
  /\ TextGiven(q)
  /\ due' = Undone(q) /\ offered' = Empty

(* warmSuggestions: the cached matches, or else the server is asked. *)
Warm ==
  /\ due # Empty /\ Keys
  /\ seqNo' = seqNo + 1 /\ due' = Empty
  /\ LET ready == due \in kept /\ Matches[due] # {}
     IN /\ offered' = IF ready THEN due ELSE Empty
        /\ asking' = IF ready THEN asking ELSE asking \cup {[for |-> "list", text |-> due, seqNo |-> seqNo + 1]}
  /\ UNCHANGED <<text, resolved, place, kept, picked, spelled>>

FieldResolves(p) == /\ resolved' = p /\ text' = p /\ place' = p /\ offered' = Empty

(* selectSuggestion: a pick does not count as a request. *)
Pick(p) ==
  /\ offered # Empty /\ p \in Matches[offered]
  /\ FieldResolves(p) /\ due' = Undone(p)
  /\ picked' = p /\ spelled' = (p = text)
  /\ UNCHANGED <<asking, seqNo, kept>>

(* resolveCurrentQuery, as the field is left or the form is sent. *)
Leave ==
  /\ Keys
  /\ seqNo' = seqNo + 1 /\ due' = Empty
  /\ IF text \in {Empty, resolved} THEN
       /\ offered' = Empty /\ UNCHANGED <<text, resolved, place, asking>>
     ELSE IF text \in kept /\ Exact[text] # NoPlace THEN
       /\ FieldResolves(Exact[text]) /\ UNCHANGED asking
     ELSE
       /\ asking' = asking \cup {[for |-> "place", text |-> text, seqNo |-> seqNo + 1]}
       /\ UNCHANGED <<text, resolved, place, offered>>
  /\ UNCHANGED <<kept, picked, spelled>>

(* Mutant: only the number of the request is looked at. *)
StillLast(c) == c.seqNo = seqNo

(* What a caller checks once its await is over. *)
StillAsked(c) == c.seqNo = seqNo /\ c.text = text

(* The server answers a text: every caller of it goes on with the answer.  *)
Remembered(q) == kept' = kept \cup {q}

ListAnswered(c, ok) ==
  /\ c.for = "list"
  /\ offered' = (IF ok /\ StillAsked(c) THEN (IF Matches[c.text] # {} THEN c.text ELSE Empty)
                 ELSE IF ~ok /\ c.seqNo = seqNo THEN Empty
                 ELSE offered)
  /\ UNCHANGED <<text, resolved, place>>

PlaceAnswered(c, ok) ==
  /\ c.for = "place"
  /\ IF ~StillAsked(c) THEN UNCHANGED <<text, resolved, place, offered>>
     ELSE IF ok /\ Exact[c.text] # NoPlace THEN FieldResolves(Exact[c.text])
     ELSE offered' = Empty /\ UNCHANGED <<text, resolved, place>>

SuggestionsCome(c, ok) ==
  /\ asking' = asking \ {c}
  /\ IF ok THEN Remembered(c.text) ELSE UNCHANGED kept
  /\ ListAnswered(c, ok) \/ PlaceAnswered(c, ok)
  /\ UNCHANGED <<due, seqNo, picked, spelled>>

FieldNext ==
  \/ \E q \in Typed : Type(q)
  \/ \E q \in Typed \cup {Empty} : Prefill(q)
  \/ Warm \/ Leave
  \/ \E p \in Place : Pick(p)
  \/ \E c \in asking, ok \in BOOLEAN : SuggestionsCome(c, ok)

FieldSpec == FieldInit /\ [][FieldNext]_fieldVars

-----------------------------------------------------------------------------
(* A station that was picked stays in the field and in the form until the   *)
(* field is given a text. Nothing asked for before the pick is listed over  *)
(* it: where its label was the text already the debounce is left to ask for *)
(* it, and then the matches of that label are all that may be. What is      *)
(* listed is else of the text in the field or of one about to be replaced   *)
(* (useAutocomplete).                                                       *)
LateAnswersAreIgnored ==
  /\ picked # NoPlace =>
       /\ text = picked /\ place = picked
       /\ offered # Empty => spelled /\ offered = picked
  /\ (offered # Empty /\ due = Empty /\ \A c \in asking : c.for = "list") =>
       text = offered
=============================================================================
