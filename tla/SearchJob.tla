------------------------------ MODULE SearchJob ------------------------------
(***************************************************************************)
(* The life of a search job in the runner (src/src/http-router.ts and the  *)
(* shutdown of src/src/index.ts): asked, held in the admission queue, run  *)
(* against its providers, published as they answer, and ended once: by     *)
(* completing, by failing, by a stop, because nobody followed it, or by    *)
(* the runner stopping.  Admission is SearchLease, which SearchAdmission   *)
(* implements.                                                             *)
(*                                                                         *)
(* A step is one run of JavaScript to its end: a handler, a timer, the     *)
(* continuation of an await.  What a provider found is a level: 0 nothing, *)
(* Seed the offers of an earlier identical search, k the k-th answer.      *)
(***************************************************************************)
EXTENDS Integers, FiniteSetsExt, SearchLease

CONSTANTS
  Provider,
  Seeded,       \* jobs that start from an earlier search's offers
  MaxUpdates    \* bound: partial answers of one provider

Seed == -1

ASSUME JobAssumption == Seeded \subseteq Search /\ MaxUpdates \in Nat

VARIABLES
  job,          \* each job: its record, its progress sync and its live entry
  shutdown      \* "serving", then "draining", then "cancelled"

vars == <<leaseVars, job, shutdown>>

Level == Seed .. MaxUpdates + 1
Statuses == {"none", "running", "completed", "failed", "cancelled"}
Phases == {"none", "waiting", "granted", "delayed", "resolving", "quoting", "settled",
           "turnedAway", "gone"}
Holding == {"granted", "delayed", "resolving", "quoting", "settled"}

JobRecord ==
  [status : Statuses, queued : BOOLEAN, phase : Phases, aborted : BOOLEAN,
   found : [Provider -> Level], published : [Provider -> Level], answered : SUBSET Provider,
   registered : BOOLEAN, dirty : BOOLEAN, timer : BOOLEAN, count : Nat, next : Nat,
   parked : BOOLEAN, silent : BOOLEAN]

NoJob ==
  [status |-> "none", queued |-> FALSE, phase |-> "none", aborted |-> FALSE,
   found |-> [p \in Provider |-> 0], published |-> [p \in Provider |-> 0], answered |-> {},
   registered |-> FALSE, dirty |-> FALSE, timer |-> FALSE, count |-> 0, next |-> 1,
   parked |-> FALSE, silent |-> FALSE]

(* Its entry is in liveJobs. *)
Live(r) == r.phase \notin {"none", "gone"}
Running(r) == r.status = "running"

-----------------------------------------------------------------------------
(* createTrailingProgressSync, on the record r of one job. *)

(* syncSearchJob("running"), only while the job runs. *)
Synced(r) == IF Running(r) THEN [r EXCEPT !.published = r.found] ELSE r

Flushed(r) ==
  IF r.dirty
    THEN [Synced(r) EXCEPT !.timer = FALSE, !.dirty = FALSE,
                           !.next = Max({r.count + 1, 2 * r.count})]
    ELSE [r EXCEPT !.timer = FALSE]

(* mark: published now when the interval has elapsed, by the timer later,   *)
(* and not at all below the next milestone.                                 *)
Marked(r, elapsed) ==
  LET m == [r EXCEPT !.count = @ + 1, !.dirty = TRUE]
  IN IF m.count < m.next THEN m
     ELSE IF elapsed THEN Flushed(m) ELSE [m EXCEPT !.timer = TRUE]

(* disposePendingProgressSync *)
Disposed(r, flush) ==
  IF r.registered
    THEN [(IF flush THEN Flushed(r) ELSE r) EXCEPT !.dirty = FALSE, !.timer = FALSE,
                                                   !.registered = FALSE]
    ELSE r

-----------------------------------------------------------------------------
(* What ends a job, on its record. *)

HasOffers(levels) == \E p \in Provider : levels[p] # 0

(* SearchSessionStore.cancelSearchJob *)
Cancelled(r, keep) ==
  IF Running(r)
    THEN [r EXCEPT !.status = IF keep /\ HasOffers(r.published) THEN "completed" ELSE "cancelled",
                   !.queued = FALSE]
    ELSE r

(* abortLiveJob: a waiting job leaves the queue, and its acquire rejects. *)
Aborted(r) ==
  IF Live(r)
    THEN [r EXCEPT !.aborted = TRUE, !.phase = IF @ = "waiting" THEN "turnedAway" ELSE @]
    ELSE r

(* Mutant: cancelled before its pending progress is published. *)
StoppedThenFlushed(r, keep) == Aborted(Disposed(Cancelled(r, keep), keep))

(* stopJob *)
Stopped(r, keep) == Aborted(Cancelled(Disposed(r, keep), keep))

(* failJob *)
Failed(r) ==
  LET d == Disposed(r, TRUE)
  IN IF Running(d) THEN [d EXCEPT !.status = "failed", !.queued = FALSE] ELSE d

(* syncSearchJob("completed") *)
Completed(r) ==
  IF Running(r) THEN [r EXCEPT !.published = r.found, !.status = "completed"] ELSE r

-----------------------------------------------------------------------------
JobInit ==
  /\ LeaseInit
  /\ job = [j \in Search |-> NoJob]
  /\ shutdown = "serving"

(* handleSearchRequest: the job's record and live entry, and its request    *)
(* for capacity, marked queued only when it has to wait.  A runner that is  *)
(* stopping rejects it, and the job ends with that reason.                  *)
Accepted(j, phase) ==
  LET levels == [p \in Provider |-> IF j \in Seeded THEN Seed ELSE 0]
  IN [NoJob EXCEPT !.status = "running", !.phase = phase, !.queued = (phase = "waiting"),
                   !.found = levels, !.published = levels, !.registered = TRUE]

AcceptSearch(j) ==
  /\ job[j].status = "none"
  /\ \/ Ask(j) /\ job' = [job EXCEPT ![j] = Accepted(j, "waiting")]
     \/ Admit(j) /\ job' = [job EXCEPT ![j] = Accepted(j, "granted")]
     \/ /\ stopped
        /\ job' = [job EXCEPT ![j] = Stopped(Accepted(j, "gone"), TRUE)]
        /\ UNCHANGED leaseVars
  /\ UNCHANGED shutdown

(* A waiting job's acquire resolves. *)
GrantLease(j) ==
  /\ Grant(j)
  /\ job' = [job EXCEPT ![j].phase = "granted"]
  /\ UNCHANGED shutdown

(* The lease arrives: the mark goes, and the run is scheduled. *)
LeaseArrives(j) ==
  /\ job[j].phase = "granted"
  /\ job' = [job EXCEPT ![j].phase = "delayed",
                        ![j].queued = IF Running(job[j]) THEN FALSE ELSE @]
  /\ UNCHANGED <<leaseVars, shutdown>>

(* Mutant: a job stopped before its run starts is run all the same. *)
RunAnyway(j) ==
  /\ job[j].phase = "delayed"
  /\ job' = [job EXCEPT ![j].phase = "resolving", ![j].status = "running"]
  /\ UNCHANGED <<leaseVars, shutdown>>

(* The scheduled run starts, unless the job was stopped meanwhile. *)
Run(j) ==
  /\ job[j].phase = "delayed"
  /\ job' = [job EXCEPT ![j] =
       IF job[j].aborted THEN [@ EXCEPT !.phase = "settled"]
       ELSE IF ~Running(job[j]) THEN [Disposed(@, FALSE) EXCEPT !.phase = "settled"]
       ELSE [@ EXCEPT !.phase = "resolving"]]
  /\ UNCHANGED <<leaseVars, shutdown>>

Awaited(j, p) == job[j].phase = "resolving" /\ p \notin job[j].answered

(* mergeProviderSearchProgress: seeded offers go with the first answer. *)
Grown(level) == IF level < 0 THEN 1 ELSE level + 1

Heard(r, p) == [r EXCEPT !.found[p] = Grown(@)]

(* onProgress: a partial answer, heard only while the job runs. *)
Update(j, p) ==
  /\ Awaited(j, p)
  /\ Running(job[j])
  /\ Grown(job[j].found[p]) <= MaxUpdates
  /\ \E elapsed \in BOOLEAN :
       job' = [job EXCEPT ![j] = Marked(Heard(@, p), elapsed)]
  /\ UNCHANGED <<leaseVars, shutdown>>

(* A provider's promise settles; the job takes `level` from it if it runs. *)
Answered(r, p, level, elapsed) ==
  LET a == [r EXCEPT !.answered = @ \union {p}]
  IN IF Running(r) THEN Marked([a EXCEPT !.found[p] = level], elapsed) ELSE a

(* Its whole answer, which replaces what it had sent, or is empty. *)
ProviderCompletes(j, p) ==
  /\ Awaited(j, p)
  /\ \E elapsed \in BOOLEAN, level \in {0, Grown(job[j].found[p])} :
       job' = [job EXCEPT ![j] = Answered(@, p, level, elapsed)]
  /\ UNCHANGED <<leaseVars, shutdown>>

(* It fails, or its aborted request ends: fresh offers are kept.  Nothing   *)
(* but the abort of a stopped job ends a request that hangs.                *)
ProviderFails(j, p) ==
  /\ Awaited(j, p)
  /\ \E elapsed \in BOOLEAN :
       job' = [job EXCEPT ![j] = Answered(@, p, Max({0, @.found[p]}), elapsed)]
  /\ UNCHANGED <<leaseVars, shutdown>>

(* Promise.allSettled: on to the quotation rate, or the end of a stopped job. *)
AllSettled(j) ==
  /\ job[j].phase = "resolving"
  /\ job[j].answered = Provider
  /\ job' = [job EXCEPT ![j] =
       IF Running(job[j]) THEN [@ EXCEPT !.phase = "quoting"]
       ELSE [Disposed(@, FALSE) EXCEPT !.phase = "settled"]]
  /\ UNCHANGED <<leaseVars, shutdown>>

(* resolveQuotationReadyOffers resolves: the final state is published. *)
Complete(j) ==
  /\ job[j].phase = "quoting"
  /\ job' = [job EXCEPT ![j] = [Completed(Disposed(@, FALSE)) EXCEPT !.phase = "settled"]]
  /\ UNCHANGED <<leaseVars, shutdown>>

(* The run throws instead. *)
RunThrows(j) ==
  /\ job[j].phase = "quoting"
  /\ job' = [job EXCEPT ![j] = [Failed(@) EXCEPT !.phase = "settled"]]
  /\ UNCHANGED <<leaseVars, shutdown>>

(* Mutant: a stopped job's capacity is not given back. *)
ReleaseIfCompleted(j) ==
  /\ job[j].phase = "settled"
  /\ ~job[j].aborted
  /\ Return(j)
  /\ job' = [job EXCEPT ![j].phase = "gone"]
  /\ UNCHANGED shutdown

(* finally: the lease is released and the live entry goes. *)
ReleaseLease(j) ==
  /\ job[j].phase = "settled"
  /\ Return(j)
  /\ job' = [job EXCEPT ![j].phase = "gone"]
  /\ UNCHANGED shutdown

(* Mutant: a search the runner turns away is left as it was. *)
ForgetTurnedAway(j) ==
  /\ job[j].phase = "turnedAway"
  /\ job' = [job EXCEPT ![j].phase = "gone"]
  /\ UNCHANGED <<leaseVars, shutdown>>

(* acquire rejects: the live entry goes, and a job nobody stopped ends with *)
(* the runner's reason.                                                     *)
TurnedAway(j) ==
  /\ job[j].phase = "turnedAway"
  /\ job' = [job EXCEPT ![j] =
       LET ended == [@ EXCEPT !.phase = "gone"]
       IN IF ended.aborted THEN ended ELSE Stopped(ended, TRUE)]
  /\ UNCHANGED <<leaseVars, shutdown>>

(* The trailing timer fires. *)
SyncTimer(j) ==
  /\ job[j].timer
  /\ job' = [job EXCEPT ![j] = Flushed(@)]
  /\ UNCHANGED <<leaseVars, shutdown>>

(* Mutant: a stopped job is told it left, and keeps its place in the queue. *)
StopJobInPlace(j, keep) ==
  /\ job' = [job EXCEPT ![j] = Stopped(@, keep)]
  /\ UNCHANGED <<leaseVars, shutdown>>

(* stopJob of a job in the queue takes it out of it. *)
StopJob(j, keep) ==
  /\ job' = [job EXCEPT ![j] = Stopped(@, keep)]
  /\ IF job[j].phase = "waiting" THEN GiveUp(j) ELSE UNCHANGED leaseVars
  /\ UNCHANGED shutdown

(* POST /api/search/<id>/cancel, with or without cachePartial. *)
Cancel(j) ==
  /\ Live(job[j])
  /\ ~job[j].aborted
  /\ \E keep \in BOOLEAN : StopJob(j, keep)

(* Mutant: a job that waits is not looked at. *)
StopUnfollowedRun(j) ==
  /\ Live(job[j])
  /\ job[j].phase # "waiting"
  /\ ~job[j].parked
  /\ job[j].silent
  /\ ~job[j].aborted
  /\ StopJob(j, TRUE)

(* stopUnfollowedJobs: no poll parked, and none for the lease's length. *)
StopUnfollowed(j) ==
  /\ Live(job[j])
  /\ ~job[j].parked
  /\ job[j].silent
  /\ ~job[j].aborted
  /\ StopJob(j, TRUE)

(* The lease's length goes by with no poll. *)
GoSilent(j) ==
  /\ Live(job[j])
  /\ ~job[j].parked /\ ~job[j].silent
  /\ job' = [job EXCEPT ![j].silent = TRUE]
  /\ UNCHANGED <<leaseVars, shutdown>>

(* followLiveJob: a long poll parks on the job, and follows it on leaving. *)
Follow(j) ==
  /\ Live(job[j])
  /\ ~job[j].parked
  /\ job' = [job EXCEPT ![j].parked = TRUE]
  /\ UNCHANGED <<leaseVars, shutdown>>

PollEnds(j) ==
  /\ job[j].parked
  /\ job' = [job EXCEPT ![j].parked = FALSE, ![j].silent = FALSE]
  /\ UNCHANGED <<leaseVars, shutdown>>

(* SIGTERM: the queue is turned away, and what is pending is published by   *)
(* flushPendingProgressForShutdown, which lets go of every sync.            *)
StopAccepting ==
  /\ Stop
  /\ shutdown = "serving"
  /\ shutdown' = "draining"
  /\ job' = [j \in Search |->
       [Disposed(job[j], TRUE) EXCEPT !.phase = IF j \in waiting THEN "turnedAway" ELSE @]]

(* Mutant: the cancelled jobs' provider work is not hung up on. *)
CancelOnly ==
  /\ shutdown = "draining"
  /\ shutdown' = "cancelled"
  /\ job' = [j \in Search |-> Cancelled(job[j], TRUE)]
  /\ UNCHANGED leaseVars

(* The drain's window is over: cancelRunningJobs, then abortLiveJobs. *)
CancelRunningJobs ==
  /\ shutdown = "draining"
  /\ shutdown' = "cancelled"
  /\ job' = [j \in Search |-> Aborted(Cancelled(job[j], TRUE))]
  /\ UNCHANGED leaseVars

JobNext ==
  \/ \E j \in Search :
       \/ AcceptSearch(j) \/ GrantLease(j) \/ LeaseArrives(j) \/ Run(j)
       \/ AllSettled(j) \/ Complete(j) \/ RunThrows(j) \/ ReleaseLease(j)
       \/ TurnedAway(j) \/ SyncTimer(j)
       \/ Cancel(j) \/ StopUnfollowed(j) \/ GoSilent(j) \/ Follow(j) \/ PollEnds(j)
  \/ \E j \in Search, p \in Provider :
       Update(j, p) \/ ProviderCompletes(j, p) \/ ProviderFails(j, p)
  \/ StopAccepting \/ CancelRunningJobs

JobSpec == JobInit /\ [][JobNext]_vars

(* Where a job's run waits for nobody, it goes on: one of these steps at a   *)
(* time, as its phase says, so that fairness to each of them is fairness to *)
(* the one that is due.                                                     *)
RunGoesOn(j) ==
  \/ LeaseArrives(j) \/ Run(j) \/ AllSettled(j) \/ Complete(j) \/ RunThrows(j)
  \/ ReleaseLease(j) \/ TurnedAway(j)

(* Continuations, timers and the shutdown's own steps run; an aborted       *)
(* request ends; a parked poll is answered. Admission does not have to      *)
(* grant a lease, no provider to answer, nobody to stop or follow a job.    *)
Fairness ==
  /\ \A j \in Search :
       /\ WF_vars(RunGoesOn(j)) /\ WF_vars(SyncTimer(j))
       /\ WF_vars(PollEnds(j)) /\ WF_vars(StopUnfollowed(j))
       /\ \A p \in Provider : WF_vars(job[j].aborted /\ ProviderFails(j, p))
  /\ WF_vars(CancelRunningJobs)

FairJobSpec == JobSpec /\ Fairness

-----------------------------------------------------------------------------
(* Type correctness. *)
TypeOK ==
  /\ waiting \subseteq Search /\ running \subseteq Search /\ stopped \in BOOLEAN
  /\ shutdown \in {"serving", "draining", "cancelled"}
  /\ job \in [Search -> JobRecord]

(* Capacity is held by exactly the jobs whose work has not ended, stopped   *)
(* ones included: "its units are released exactly once, when run settles".  *)
CapacityFollowsWork ==
  \A j \in Search :
    /\ j \in running <=> job[j].phase \in Holding
    /\ j \in waiting <=> job[j].phase = "waiting"

(* No job is left running in the store with nobody to end it, and none that *)
(* the desk sees ended keeps provider work that was not hung up on.         *)
EndsWithItsWork ==
  \A j \in Search :
    /\ Running(job[j]) => job[j].phase \notin {"none", "settled", "gone"}
    /\ job[j].phase \in {"waiting", "granted", "delayed", "resolving", "quoting"}
         => Running(job[j]) \/ job[j].aborted

(* The desk says a search is queued while it waits, and until its lease     *)
(* arrives or it is stopped; nothing that runs or has ended says so.        *)
QueuedMarkIsTrue ==
  \A j \in Search :
    /\ job[j].queued => Running(job[j]) /\ job[j].phase \in {"waiting", "granted", "turnedAway"}
    /\ job[j].phase = "waiting" => job[j].queued

(* What a running job found and has not published is pending, and past a    *)
(* milestone its publication is scheduled, also after the shutdown let go   *)
(* of its sync.                                                             *)
PendingIsScheduled ==
  \A j \in Search :
    Running(job[j]) /\ job[j].published # job[j].found
      => job[j].dirty /\ (job[j].timer \/ job[j].count < job[j].next)

(* A job that is over leaves no entry in pendingProgressSyncs. *)
SyncsAreLive == \A j \in Search : job[j].registered => Live(job[j])

(* Once the shutdown has cancelled, no job runs, those asked since included. *)
ShutdownEndsJobs ==
  shutdown = "cancelled" => \A j \in Search : ~Running(job[j])

(* A job ends once: its final status and its offers are not touched by a    *)
(* late answer, a timer, a stop or a failure.                               *)
FinalIsFinal ==
  [][\A j \in Search :
       job[j].status \in {"completed", "failed", "cancelled"}
         => /\ job'[j].status = job[j].status
            /\ job'[j].published = job[j].published]_vars

(* While the runner serves, a job that ends completed or failed, stopped    *)
(* with cachePartial included, keeps everything its providers had sent.     *)
EndKeepsWhatWasFound ==
  [][shutdown = "serving" =>
       \A j \in Search :
         Running(job[j]) /\ job'[j].status \in {"completed", "failed"}
           => job'[j].published = job[j].found]_vars

(* A stopped job gives its capacity back, whatever its providers do. *)
StopReturnsCapacity == \A j \in Search : job[j].aborted ~> j \notin waiting \union running

(* A job whose page went silent ends and gives its capacity back, though    *)
(* its providers hang, unless a poll comes back.                            *)
SilentFreesCapacity ==
  \A j \in Search : Live(job[j]) /\ job[j].silent
    ~> (~Live(job[j]) \/ job[j].parked \/ ~job[j].silent)

(* The runner's stop ends every job it had. *)
ShutdownEnds == shutdown = "draining" ~> \A j \in Search : ~Live(job[j]) /\ ~Running(job[j])

-----------------------------------------------------------------------------
(* What the documents say. *)

(* src/docs/REPO_CURRENT_STATE.md:161: the shutdown "cancels unfinished     *)
(* jobs, first forcing the last pending delta and requesting a partial      *)
(* cache, so a page following a job reads what it found".                   *)
ShutdownKeepsWhatWasFound ==
  [][\A j \in Search :
       CancelRunningJobs /\ Running(job[j]) /\ HasOffers(job[j].found)
         => job'[j].published = job[j].found]_vars
=============================================================================
