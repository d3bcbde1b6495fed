----------------------------- MODULE MonthSweep -----------------------------
(***************************************************************************)
(* A sweep of months is several searches of the page, run a few at a time  *)
(* by startMigrationSearch of frontend/src/lib/api.ts: a month is asked    *)
(* for once the one before it has its job, followed to its end, and what   *)
(* it found is kept whatever happens to it later. The server's searches    *)
(* find fares, lose a provider and end on their own.                       *)
(***************************************************************************)
EXTENDS Integers, Sequences, FiniteSets

CONSTANTS
  MonthCount,        \* months of the sweep, at most MIGRATION_MONTH_LIMIT
  MonthsAtOnce,      \* MIGRATION_CONCURRENT_MONTHS
  PollFailures       \* POLL_MAX_CONSECUTIVE_FAILURES

ASSUME SweepAssumption == {MonthCount, MonthsAtOnce, PollFailures} \subseteq Nat \ {0}

Month == 1 .. MonthCount

VARIABLES
  claimed,     \* months the runners have taken (nextIndex)
  month,       \* each month: its worker's step, failures and whether its job is known
  recorded,    \* monthResults
  asked,       \* what the server has: each month's search
  sweep,       \* "running", "stopped" or "finished"
  told         \* history: months whose fare was shown, and the order they were made in

sweepPageVars == <<claimed, month, recorded, asked, sweep, told>>

Unasked == [state |-> "none", fares |-> FALSE, partial |-> FALSE]
NoResult == [job |-> FALSE, offer |-> FALSE, complete |-> FALSE, partial |-> FALSE, status |-> "loading"]

SweepInit ==
  /\ claimed = 0 /\ sweep = "running"
  /\ month = [m \in Month |-> [step |-> "idle", failures |-> 0, known |-> "no"]]
  /\ recorded = [m \in Month |-> NoResult]
  /\ asked = [m \in Month |-> Unasked]
  /\ told = [fares |-> {}, made |-> <<>>]

Working == {m \in Month : month[m].step \in {"turn", "asked", "following"}}

(* runWithConcurrency: a free runner takes the next month. *)
Claim ==
  /\ sweep = "running" /\ claimed < MonthCount /\ Cardinality(Working) < MonthsAtOnce
  /\ claimed' = claimed + 1
  /\ month' = [month EXCEPT ![claimed + 1].step = "turn"]
  /\ UNCHANGED <<recorded, asked, sweep, told>>

(* Mutant: only a month that was answered passes the turn on. *)
TurnOfAnswered(m) ==
  IF m = 1 THEN TRUE ELSE month[m - 1].step \in {"following", "over"} /\ recorded[m - 1].status # "error"

(* previousStart: the start of the month before has settled. *)
TurnOf(m) == IF m = 1 THEN TRUE ELSE month[m - 1].step \in {"following", "over"}

(* The POST of a month leaves when its turn comes; a stop before it is an   *)
(* abort of the worker.                                                     *)
AskMonth(m) ==
  /\ month[m].step = "turn" /\ TurnOf(m)
  /\ month' = [month EXCEPT ![m].step = IF sweep = "running" THEN "asked" ELSE "over"]
  /\ UNCHANGED <<claimed, recorded, asked, sweep, told>>

ServerMakes(m) ==
  /\ month[m].step = "asked" /\ asked[m].state = "none"
  /\ asked' = [asked EXCEPT ![m].state = "running"]
  /\ told' = [told EXCEPT !.made = Append(@, m)]
  /\ UNCHANGED <<claimed, month, recorded, sweep>>

(* What the server's search does meanwhile: offers never leave its list.    *)
ServerFinds(m) ==
  /\ asked[m].state = "running" /\ ~asked[m].fares
  /\ asked' = [asked EXCEPT ![m].fares = TRUE]
  /\ UNCHANGED <<claimed, month, recorded, sweep, told>>

ServerFinishes(m, partial) ==
  /\ asked[m].state = "running"
  /\ asked' = [asked EXCEPT ![m].state = "ended", ![m].partial = partial]
  /\ UNCHANGED <<claimed, month, recorded, sweep, told>>

(* record: a month still out is told by searchComplete, never by partial.   *)
Record(m) ==
  LET ended == asked[m].state = "ended"
      fares == asked[m].fares
  IN [job |-> TRUE, offer |-> fares, complete |-> ended, partial |-> ~ended \/ asked[m].partial,
      status |-> IF ended THEN (IF fares THEN "available" ELSE "empty")
                 ELSE (IF fares THEN "partial" ELSE "loading")]

RecordsAnswer(m) ==
  /\ recorded' = [recorded EXCEPT ![m] = Record(m)]
  /\ told' = [told EXCEPT !.fares = IF asked[m].fares THEN @ \cup {m} ELSE @]

(* Mutant: a month that fails starts from nothing. *)
ErroredBlank(m) == [NoResult EXCEPT !.complete = TRUE, !.status = "error"]

(* The catch of a month's worker: it keeps what the month had. *)
Errored(m) == [recorded[m] EXCEPT !.complete = TRUE, !.status = "error"]

(* The first answer: the job is known, and cancelled at once if the sweep   *)
(* was stopped meanwhile; otherwise the month is recorded and followed.     *)
FirstAnswer(m) ==
  /\ month[m].step = "asked" /\ asked[m].state # "none"
  /\ IF sweep = "stopped"
     THEN /\ month' = [month EXCEPT ![m].step = "over", ![m].known = "cancelled"]
          /\ UNCHANGED <<recorded, told>>
     ELSE /\ month' = [month EXCEPT ![m].step = IF asked[m].state = "ended" THEN "over" ELSE "following",
                                    ![m].known = "registered"]
          /\ RecordsAnswer(m)
  /\ UNCHANGED <<claimed, asked, sweep>>

(* The POST of a month fails. *)
StartFails(m) ==
  /\ month[m].step = "asked"
  /\ month' = [month EXCEPT ![m].step = "over"]
  /\ recorded' = [recorded EXCEPT ![m] = IF sweep = "running" THEN Errored(m) ELSE @]
  /\ UNCHANGED <<claimed, asked, sweep, told>>

(* followJob: a poll of a month is answered. *)
PollMonth(m) ==
  /\ month[m].step = "following"
  /\ month' = [month EXCEPT ![m].failures = 0, ![m].step = IF asked[m].state = "ended" THEN "over" ELSE @]
  /\ RecordsAnswer(m)
  /\ UNCHANGED <<claimed, asked, sweep>>

(* Or lost: after the last the month ends in error, and its job stays with  *)
(* the sweep's run.                                                         *)
PollMonthLost(m) ==
  /\ month[m].step = "following"
  /\ LET over == month[m].failures + 1 >= PollFailures
     IN /\ month' = [month EXCEPT ![m].failures = IF over THEN 0 ELSE @ + 1,
                                  ![m].step = IF over THEN "over" ELSE @]
        /\ recorded' = [recorded EXCEPT ![m] = IF over THEN Errored(m) ELSE @]
  /\ UNCHANGED <<claimed, asked, sweep, told>>

(* finalizeCancelledResults: a month that was still out keeps its fare. *)
KeptOnStop(result) ==
  IF result.status \notin {"loading", "partial"} THEN result
  ELSE [result EXCEPT !.status = IF result.offer THEN "available" ELSE "cancelled"]

(* The user stops the sweep: every job it knows of is cancelled, the polls  *)
(* are aborted and what is shown is made final.                             *)
StopSweep ==
  /\ sweep = "running" /\ sweep' = "stopped"
  /\ month' = [m \in Month |->
       [month[m] EXCEPT !.step = IF @ = "following" THEN "over" ELSE @,
                        !.failures = 0,
                        !.known = IF @ = "registered" THEN "cancelled" ELSE @]]
  /\ recorded' = [m \in Month |-> KeptOnStop(recorded[m])]
  /\ UNCHANGED <<claimed, asked, told>>

(* Every month is over: the last job is built and the run ends.            *)
FinishSweep ==
  /\ sweep = "running" /\ claimed = MonthCount /\ Working = {}
  /\ sweep' = "finished"
  /\ UNCHANGED <<claimed, month, recorded, asked, told>>

(* Mutant: only the months' own jobs count. *)
SweepIsPartialByJobs == \E m \in Month : recorded[m].partial

(* migrationIsPartial, and what the sweep's job says of itself with it.    *)
SweepIsPartial == \E m \in Month : ~recorded[m].complete \/ recorded[m].status = "error" \/ recorded[m].partial

SweepState == IF sweep = "finished" /\ ~SweepIsPartial THEN "search_live" ELSE "search_partial"

StartsMonth(m) == AskMonth(m) \/ FirstAnswer(m) \/ StartFails(m)
FollowsMonth(m) == PollMonth(m) \/ PollMonthLost(m)
ServerWorks(m) == ServerMakes(m) \/ ServerFinds(m) \/ \E partial \in BOOLEAN : ServerFinishes(m, partial)

SweepNext ==
  \/ Claim \/ StopSweep \/ FinishSweep
  \/ \E m \in Month : StartsMonth(m) \/ FollowsMonth(m) \/ ServerWorks(m)

MonthsSpec == SweepInit /\ [][SweepNext]_sweepPageVars

-----------------------------------------------------------------------------
(* A fare a month has shown is still the month's after its polls fail, its  *)
(* search ends or the sweep is stopped.                                     *)
FaresAreKept ==
  \A m \in told.fares :
    /\ recorded[m].offer
    /\ sweep = "stopped" => recorded[m].status \in {"available", "error"}

(* A sweep says it is whole only when every search it is made of ended,     *)
(* followed to its end, with no provider missing.                           *)
LiveIsWhole ==
  SweepState = "search_live" => \A m \in Month : asked[m].state = "ended" /\ ~asked[m].partial

(* The server is asked for the months in the order of the calendar. *)
AskedInOrder == \A i, j \in DOMAIN told.made : i < j => told.made[i] < told.made[j]

SweepIsTrue == FaresAreKept /\ LiveIsWhole /\ AskedInOrder

(* A job a stopped sweep knows of has been cancelled, the one whose POST    *)
(* was answered after the stop included.                                    *)
StopReachesEveryMonth ==
  sweep = "stopped" => \A m \in Month : month[m].known # "registered"

(* A sweep ends unless it is stopped, whichever months fail.                *)
SweepEnds == (sweep = "running") ~> (sweep # "running")
=============================================================================
