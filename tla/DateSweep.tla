------------------------------ MODULE DateSweep ------------------------------
(***************************************************************************)
(* A flexible search of one provider (src/src/local-agil.ts,               *)
(* src/src/local-costamar.ts): the days of a range or the cells of a       *)
(* matrix, each an exact search of its own, a few at a time                *)
(* (mapConcurrent of src/src/core/matrix.ts), reported as they come.       *)
(*                                                                         *)
(* An exact search is abstracted to how it ends: "full", "partial" (a GDS  *)
(* missing), or an error, which is of every GDS ("nogds", of Agil), of     *)
(* every date ("refused", a 401, 402 or 403 of Click and Book Plus), of a  *)
(* stopped job ("cancelled") or another ("failed").                        *)
(***************************************************************************)
EXTENDS Integers, FiniteSets

CONSTANTS
  UnitCount,      \* days or cells, in the order they are asked
  UnitsAtOnce,    \* rangeSearch or matrixCell
  RetryAttempts   \* AGIL_ and COSTAMAR_RANGE_DAY_RETRY_ATTEMPTS

Unit == 1..UnitCount

ASSUME SweepAssumption == {UnitCount, UnitsAtOnce} \subseteq Nat \ {0} /\ RetryAttempts \in Nat

VARIABLES
  sweep,     \* provider and mode, whether it was told to stop, and how it ended
  seed,      \* the seed of a Click and Book Plus matrix: "none", "asking", "done"
  unit,      \* each day or cell: "todo", "asking", "resting" before a retry, or its end
  asked,     \* how often each was asked of the provider
  refusals,  \* a date was refused for every date
  gone       \* the job was stopped

sweepVars == <<sweep, seed, unit, asked, refusals, gone>>

Answer == {"full", "partial", "seeded"}
Failure == {"nogds", "failed", "cancelled"}
Ended == Answer \union Failure \union {"refused"}

SweepTypeOK ==
  /\ sweep \in [provider : {"agil-local", "costamar"}, mode : {"range", "matrix"}, stopRequested : BOOLEAN,
                end : {"running", "complete", "partial"} \union Failure \union {"refused"}]
  /\ seed \in {"none", "asking", "done"}
  /\ unit \in [Unit -> {"todo", "asking", "resting"} \union Ended]
  /\ asked \in [Unit -> 0..(RetryAttempts + 1)]
  /\ {refusals, gone} \subseteq BOOLEAN

(* A matrix of the native flexible window is seeded before its cells.      *)
SweepInit ==
  /\ sweep \in [provider : {"agil-local", "costamar"}, mode : {"range", "matrix"}, stopRequested : {FALSE}, end : {"running"}]
  /\ seed \in IF sweep.provider = "costamar" /\ sweep.mode = "matrix" THEN {"none", "asking"} ELSE {"none"}
  /\ unit = [u \in Unit |-> "todo"]
  /\ asked = [u \in Unit |-> 0]
  /\ refusals = FALSE /\ gone = FALSE

RunningSweep == sweep.end = "running"
UnitsIn(states) == {u \in Unit : unit[u] \in states}
EndsIn(end) == sweep' = [sweep EXCEPT !.end = end]

(* onUpdate or onCellResolved: FALSE once the job is no longer live. *)
Told == [sweep EXCEPT !.stopRequested = sweep.stopRequested \/ gone]

(* A seed that fails costs time, unless it was refused for every date.     *)
SeedMatrix ==
  /\ RunningSweep
  /\ seed = "asking"
  /\ \/ /\ seed' = "done"
        /\ \E filled \in SUBSET Unit :
             /\ unit' = [u \in Unit |-> IF u \in filled THEN "seeded" ELSE "todo"]
             /\ sweep' = IF filled = {} THEN sweep ELSE Told
        /\ UNCHANGED refusals
     \/ /\ seed' = "done"
        /\ refusals' = TRUE
        /\ EndsIn("refused")
        /\ UNCHANGED unit
  /\ UNCHANGED <<asked, gone>>

CanContinue == ~sweep.stopRequested /\ ~refusals

TakeUnit(u) ==
  /\ RunningSweep
  /\ seed # "asking"
  /\ unit[u] = "todo"
  /\ \A v \in UnitsIn({"todo"}) : u <= v
  /\ Cardinality(UnitsIn({"asking", "resting"})) < UnitsAtOnce
  /\ CanContinue
  /\ unit' = [unit EXCEPT ![u] = "asking"]
  /\ asked' = [asked EXCEPT ![u] = @ + 1]
  /\ UNCHANGED <<sweep, seed, refusals, gone>>

UnitAnswers(u) ==
  /\ unit[u] = "asking"
  /\ unit' \in {[unit EXCEPT ![u] = "full"]}
       \union (IF sweep.provider = "agil-local" THEN {[unit EXCEPT ![u] = "partial"]} ELSE {})
  /\ sweep' = Told
  /\ UNCHANGED <<seed, asked, refusals, gone>>

(* A day is asked once more, unless that would not help. *)
Retries(u, failure) ==
  /\ sweep.mode = "range"
  /\ asked[u] <= RetryAttempts
  /\ failure = "failed"

UnitFails(u) ==
  /\ unit[u] = "asking"
  /\ \E failure \in {"failed"} \union (IF gone THEN {"cancelled"} ELSE {})
                    \union (IF sweep.provider = "agil-local" THEN {"nogds"} ELSE {}) :
       IF Retries(u, failure)
       THEN /\ unit' = [unit EXCEPT ![u] = "resting"]
            /\ UNCHANGED sweep
       ELSE /\ unit' = [unit EXCEPT ![u] = failure]
            /\ sweep' = Told
  /\ UNCHANGED <<seed, asked, refusals, gone>>

(* A refusal is kept and not reported. *)
UnitRefused(u) ==
  /\ unit[u] = "asking"
  /\ sweep.provider = "costamar"
  /\ IF Retries(u, "refused") THEN unit' = [unit EXCEPT ![u] = "resting"] /\ UNCHANGED refusals
     ELSE unit' = [unit EXCEPT ![u] = "refused"] /\ refusals' = TRUE
  /\ UNCHANGED <<sweep, seed, asked, gone>>

(* Mutant: a retry of a stopped search is dropped without an end. *)
RetryUnitLive(u) ==
  /\ ~gone
  /\ unit[u] = "resting"
  /\ unit' = [unit EXCEPT ![u] = "asking"]
  /\ asked' = [asked EXCEPT ![u] = @ + 1]
  /\ UNCHANGED <<sweep, seed, refusals, gone>>

(* The pause of a retry is over; it asks whatever happened meanwhile. *)
RetryUnit(u) ==
  /\ unit[u] = "resting"
  /\ unit' = [unit EXCEPT ![u] = "asking"]
  /\ asked' = [asked EXCEPT ![u] = @ + 1]
  /\ UNCHANGED <<sweep, seed, refusals, gone>>

(* Mutant: a day that answered with a GDS missing counts as whole. *)
SweepEndWhole ==
  LET failures == UnitsIn(Failure)
  IN IF refusals THEN "refused"
     ELSE IF UnitsIn(Answer) = {} /\ failures # {} THEN unit[CHOOSE u \in failures : \A v \in failures : u <= v]
     ELSE IF failures # {} \/ (sweep.mode = "range" /\ sweep.stopRequested)
     THEN "partial" ELSE "complete"

(* The refusal, the first failure in order when nothing answered, or what  *)
(* there is; a stop makes a range partial and not a matrix.                *)
SweepEnd ==
  LET failures == UnitsIn(Failure)
  IN IF refusals THEN "refused"
     ELSE IF UnitsIn(Answer) = {} /\ failures # {} THEN unit[CHOOSE u \in failures : \A v \in failures : u <= v]
     ELSE IF failures # {} \/ UnitsIn({"partial"}) # {} \/ (sweep.mode = "range" /\ sweep.stopRequested)
     THEN "partial" ELSE "complete"

EndSweep ==
  /\ RunningSweep
  /\ seed # "asking"
  /\ UnitsIn({"asking", "resting"}) = {}
  /\ UnitsIn({"todo"}) = {} \/ ~CanContinue
  /\ EndsIn(SweepEnd)
  /\ UNCHANGED <<seed, unit, asked, refusals, gone>>

StopSweep ==
  /\ RunningSweep
  /\ ~gone
  /\ gone' = TRUE
  /\ UNCHANGED <<sweep, seed, unit, asked, refusals>>

SweepStep ==
  \/ SeedMatrix \/ EndSweep
  \/ \E u \in Unit : TakeUnit(u) \/ UnitAnswers(u) \/ UnitFails(u) \/ UnitRefused(u) \/ RetryUnit(u)

SweepNext == SweepStep \/ StopSweep

SweepSpec == SweepInit /\ [][SweepNext]_sweepVars

---------------------------------------------------------------------------
(* What a flexible search says of itself is what happened to its dates: it *)
(* is complete only when every date was answered in full or its job was    *)
(* stopped, partial only when some date was answered and not all in full,  *)
(* and fails only when no date answered or the agency was refused. A seed  *)
(* that failed takes nothing away from it.                                 *)
SweepToldTruly ==
  /\ sweep.end = "complete" => UnitsIn({"full", "seeded"}) = Unit \/ gone
  /\ sweep.end = "partial" =>
       \/ gone
       \/ UnitsIn(Answer) # {} /\ UnitsIn({"full", "seeded"}) # Unit
  /\ sweep.end \in Failure => UnitsIn(Answer) = {}
  /\ sweep.end = "refused" => refusals

(* A flexible search ends: each request has a deadline. *)
SweepEnds == RunningSweep ~> ~RunningSweep
=============================================================================
