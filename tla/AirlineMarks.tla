---------------------------- MODULE AirlineMarks ----------------------------
(***************************************************************************)
(* The mark of an airline (airline-mark-store.ts): fetched once for all    *)
(* the cards that ask for it, checked, written aside and renamed into the  *)
(* file it is served from ever after; a code that has none is not asked    *)
(* for again for a while. A unit that is replaced may overlap with the     *)
(* next, and either may die at any moment.                                 *)
(***************************************************************************)
EXTENDS Integers, FiniteSets

CONSTANTS
  Server,          \* processes that serve marks
  NegativeTTL,     \* MARK_NEGATIVE_TTL_MS
  MaxMarkTime      \* bound of the clock

ASSUME MarkAssumption == {NegativeTTL, MaxMarkTime} \subseteq Nat

VARIABLES
  markTime,
  mark,            \* what the file holds
  harvest,         \* inFlight: each process's harvest of the code
  missingUntil,    \* each process's
  refusedAt,       \* history: when a harvest of the process last found nothing, 0 if none did
  served           \* history: what cards were given

markVars == <<markTime, mark, harvest, missingUntil, refusedAt, served>>

MarkInit ==
  /\ markTime = 1 /\ mark = "none" /\ served = {}
  /\ harvest = [v \in Server |-> "none"]
  /\ missingUntil = [v \in Server |-> 0] /\ refusedAt = [v \in Server |-> 0]

HarvestIs(v, step) == harvest' = [harvest EXCEPT ![v] = step]

(* ensureAirlineMark: the first card to ask begins, the others share.       *)
Wants(v) ==
  /\ harvest[v] = "none" /\ HarvestIs(v, "looking")
  /\ UNCHANGED <<markTime, mark, missingUntil, refusedAt, served>>

(* The file is served if it is there; what is known to be missing is not    *)
(* asked for.                                                               *)
LooksForFile(v) ==
  /\ harvest[v] = "looking"
  /\ IF mark # "none" THEN HarvestIs(v, "none") /\ served' = served \cup {mark}
     ELSE /\ HarvestIs(v, IF missingUntil[v] > markTime THEN "none" ELSE "asking")
          /\ UNCHANGED served
  /\ UNCHANGED <<markTime, mark, missingUntil, refusedAt>>

(* The source has no square image, is out of reach, or the disk is full.    *)
FindsNothing(v) ==
  /\ harvest[v] \in {"asking", "writing", "written"} /\ HarvestIs(v, "none")
  /\ missingUntil' = [missingUntil EXCEPT ![v] = markTime + NegativeTTL]
  /\ refusedAt' = [refusedAt EXCEPT ![v] = markTime]
  /\ UNCHANGED <<markTime, mark, served>>

(* harvestAirlineMark: an image that decodes is written aside.              *)
FindsImage(v) ==
  /\ harvest[v] = "asking" /\ HarvestIs(v, "writing")
  /\ UNCHANGED <<markTime, mark, missingUntil, refusedAt, served>>

(* Mutant: the mark is written where it is served from. *)
InPlace(now) == "half"

Aside(now) == now

Writes(v) ==
  /\ harvest[v] = "writing" /\ HarvestIs(v, "written")
  /\ mark' = Aside(mark)
  /\ UNCHANGED <<markTime, missingUntil, refusedAt, served>>

Renames(v) ==
  /\ harvest[v] = "written" /\ HarvestIs(v, "none")
  /\ mark' = "whole" /\ served' = served \cup {"whole"}
  /\ UNCHANGED <<markTime, missingUntil, refusedAt>>

(* The process dies, and the one that takes its place knows nothing.        *)
ServerDies(v) ==
  /\ HarvestIs(v, "none")
  /\ missingUntil' = [missingUntil EXCEPT ![v] = 0] /\ refusedAt' = [refusedAt EXCEPT ![v] = 0]
  /\ UNCHANGED <<markTime, mark, served>>

MarkTimePasses ==
  /\ markTime < MaxMarkTime /\ markTime' = markTime + 1
  /\ UNCHANGED <<mark, harvest, missingUntil, refusedAt, served>>

MarkNext ==
  \/ \E v \in Server :
       \/ Wants(v) \/ LooksForFile(v) \/ FindsNothing(v) \/ FindsImage(v)
       \/ Writes(v) \/ Renames(v) \/ ServerDies(v)
  \/ MarkTimePasses

MarkSpec == MarkInit /\ [][MarkNext]_markVars

-----------------------------------------------------------------------------
(* No card is ever given half a mark, whichever processes write it and die  *)
(* writing it, and a process that found none does not ask again within the  *)
(* window (ensureAirlineMark, harvestAirlineMark).                          *)
MarksAreWhole ==
  /\ served \subseteq {"whole"} /\ mark # "half"
  /\ \A v \in Server :
       (harvest[v] = "asking" /\ refusedAt[v] > 0) => markTime >= refusedAt[v] + NegativeTTL
=============================================================================
