----------------------------- MODULE SearchPage -----------------------------
(***************************************************************************)
(* The page's side of a search: useSearch.ts starts, follows, restores and *)
(* stops searches, one of them in front, through the calls of lib/api.ts.  *)
(* A POST takes no abort signal, for the job the server makes of it has to *)
(* be learnt before it can be stopped; a poll is aborted with its run.     *)
(* Requests may be answered late, or never, and the server's jobs end.     *)
(***************************************************************************)
EXTENDS Integers, FiniteSets

CONSTANTS
  MaxRuns,         \* bound: searches one page starts
  FailureLimit     \* POLL_MAX_CONSECUTIVE_FAILURES

ASSUME PageAssumption == {MaxRuns, FailureLimit} \subseteq Nat \ {0}

PageRun == 1 .. MaxRuns
Nobody == 0
OtherTab == 0       \* the job of another tab that a page may restore

VARIABLES
  front,       \* runRef: the run the page shows, Nobody when none is under way
  begun,       \* how many runs have begun
  run,         \* each run: what its task is doing, its job and its request
  cancel,      \* the cancellation each run's job was sent
  chain,       \* pendingCancellationRef: runs whose cancellation it waits for
  server,      \* the server's jobs: one for each run's POST, and OtherTab
  onScreen,    \* results: the run they are of and whether they are final
  loading

pageVars == <<front, begun, run, cancel, chain, server, onScreen, loading>>

NewRun ==
  [task |-> "none", kind |-> "search", post |-> "none", registered |-> FALSE,
   stopped |-> FALSE, failures |-> 0, waits |-> {}, owed |-> {}]

PageInit ==
  /\ front = Nobody /\ begun = 0 /\ chain = {} /\ loading = FALSE
  /\ run = [r \in PageRun |-> NewRun]
  /\ cancel = [r \in PageRun |-> "none"]
  /\ server = [j \in PageRun \cup {OtherTab} |-> IF j = OtherTab THEN "running" ELSE "none"]
  /\ onScreen = [run |-> Nobody, final |-> FALSE]

JobOf(r) == IF run[r].kind = "restore" THEN OtherTab ELSE r
OnTheirWay(cancels) == {r \in PageRun : cancels[r] \in {"sent", "heard"}}

(* Mutant: the new cancellations take the place of the earlier ones. *)
ChainedAlone(runs) == IF runs = {} THEN chain ELSE runs

(* cancelJobs: the requests leave at once, and whoever waits for them also *)
(* waits for the ones that were already on their way.                      *)
Chained(runs) == chain \cup runs

(* stopRun: the run leaves the front, its polls are aborted and the job it *)
(* knows of is cancelled. A POST under way goes on.                        *)
StopFront ==
  LET known == {r \in {front} \ {Nobody} : run[r].registered}
  IN [run |-> [r \in PageRun |->
                 IF r # front THEN run[r]
                 ELSE [run[r] EXCEPT !.stopped = TRUE, !.registered = FALSE, !.failures = 0,
                         !.task = IF @ = "following" \/ (@ = "asking" /\ run[r].kind = "restore")
                                  THEN "over" ELSE @]],
      cancel |-> [r \in PageRun |-> IF r \in known THEN "sent" ELSE cancel[r]],
      chain |-> Chained(known)]

(* beginRun, up to the wait of runSearch and of restoreJob; owed keeps     *)
(* which cancellations were under way, whatever the chain says.            *)
Begin(kind) ==
  /\ begun < MaxRuns
  /\ LET stop == StopFront
         r == begun + 1
     IN /\ begun' = r /\ front' = r
        /\ run' = [stop.run EXCEPT ![r] =
             [NewRun EXCEPT !.task = "waiting", !.kind = kind,
                            !.waits = stop.chain, !.owed = OnTheirWay(stop.cancel)]]
        /\ cancel' = stop.cancel /\ chain' = stop.chain
  /\ loading' = TRUE
  /\ onScreen' = IF kind = "search" THEN [run |-> Nobody, final |-> FALSE] ELSE onScreen
  /\ UNCHANGED server

(* The earlier cancellations have settled: the request is sent, unless the *)
(* run was stopped while it waited.                                        *)
Proceed(r) ==
  /\ run[r].task = "waiting" /\ run[r].waits \cap OnTheirWay(cancel) = {}
  /\ run' = [run EXCEPT ![r] =
       IF front = r THEN [@ EXCEPT !.task = "asking", !.post = "sent", !.waits = {}]
       ELSE [@ EXCEPT !.task = "over", !.waits = {}, !.owed = {}]]
  /\ UNCHANGED <<front, begun, cancel, chain, server, onScreen, loading>>

(* The server makes the job of a POST. *)
ServerAccepts(r) ==
  /\ run[r].post = "sent" /\ run[r].kind = "search"
  /\ run' = [run EXCEPT ![r].post = "made"]
  /\ server' = [server EXCEPT ![r] = "running"]
  /\ UNCHANGED <<front, begun, cancel, chain, onScreen, loading>>

(* A POST is refused, or its answer is lost: the job, if there is one, is  *)
(* never known to the page. failRun ends the run if it is in front.        *)
PostFails(r) ==
  /\ run[r].task = "asking" /\ run[r].post \in {"sent", "made"}
  /\ run' = [run EXCEPT ![r].post = "lost", ![r].task = "over"]
  /\ front' = IF front = r THEN Nobody ELSE front
  /\ loading' = (loading /\ front # r)
  /\ UNCHANGED <<begun, cancel, chain, server, onScreen>>

(* Mutant: the job of a stopped run is only written down. *)
LearntWrittenDown(r) ==
  /\ UNCHANGED <<cancel, chain>>
  /\ run' = [run EXCEPT ![r].post = "told", ![r].registered = ~run[r].stopped,
                        ![r].task = IF run[r].stopped THEN "over" ELSE "following"]

(* jobStarter: the job of a stopped run is cancelled as it is learnt. *)
Learnt(r) ==
  IF run[r].stopped
  THEN /\ cancel' = [cancel EXCEPT ![r] = "sent"] /\ chain' = Chained({r})
       /\ run' = [run EXCEPT ![r].post = "told", ![r].task = "over"]
  ELSE /\ UNCHANGED <<cancel, chain>>
       /\ LET ended == server[r] = "ended"
          IN run' = [run EXCEPT ![r].post = "told", ![r].registered = ~ended,
                                ![r].task = IF ended THEN "over" ELSE "following"]

(* publish, and endRun when the answer is the job's last. *)
Publish(r, ended) ==
  /\ onScreen' = [run |-> r, final |-> ended]
  /\ front' = IF ended THEN Nobody ELSE front
  /\ loading' = (loading /\ ~ended)

(* Mutant: the first answer is published without looking who is in front. *)
PostAnsweredAnyRun(r) ==
  /\ run[r].task = "asking" /\ run[r].post = "made"
  /\ Learnt(r)
  /\ onScreen' = [run |-> r, final |-> server[r] = "ended"]
  /\ front' = (IF front = r /\ server[r] = "ended" THEN Nobody ELSE front)
  /\ loading' = (loading /\ ~(front = r /\ server[r] = "ended"))
  /\ UNCHANGED <<begun, server>>

(* The answer to a POST: published if its run is still in front. *)
PostAnswered(r) ==
  /\ run[r].task = "asking" /\ run[r].post = "made"
  /\ Learnt(r)
  /\ IF front = r THEN Publish(r, server[r] = "ended") ELSE UNCHANGED <<front, onScreen, loading>>
  /\ UNCHANGED <<begun, server>>

(* restoreJob reads a job that exists; the read is aborted with its run. *)
RestoreAnswered(r) ==
  /\ run[r].task = "asking" /\ run[r].kind = "restore"
  /\ LET ended == server[OtherTab] = "ended"
     IN /\ run' = [run EXCEPT ![r].registered = ~ended, ![r].post = "told",
                              ![r].task = IF ended THEN "over" ELSE "following"]
        /\ Publish(r, ended)
  /\ UNCHANGED <<begun, cancel, chain, server>>

(* followJob: a poll is answered with the job as it is, and the last       *)
(* answer ends the run.                                                    *)
PollAnswered(r) ==
  /\ run[r].task = "following"
  /\ LET ended == server[JobOf(r)] = "ended"
     IN /\ run' = [run EXCEPT ![r].failures = 0, ![r].registered = @ /\ ~ended,
                              ![r].task = IF ended THEN "over" ELSE @]
        /\ Publish(r, ended)
  /\ UNCHANGED <<begun, cancel, chain, server>>

(* A poll is lost. The last one it is asked for, or a session that ended   *)
(* (fatal), ends the following: the page stops loading, but the run stays  *)
(* in front with its job, for that job may be running.                     *)
PollLost(r, fatal) ==
  /\ run[r].task = "following"
  /\ LET over == fatal \/ run[r].failures + 1 >= FailureLimit
     IN /\ run' = [run EXCEPT ![r].failures = IF over THEN 0 ELSE @ + 1,
                              ![r].task = IF over THEN "over" ELSE @]
        /\ loading' = (loading /\ ~over)
  /\ UNCHANGED <<front, begun, cancel, chain, server, onScreen>>

(* cancel: the user stops the search in front and keeps what is shown.     *)
UserStops ==
  /\ loading
  /\ LET stop == StopFront
     IN run' = stop.run /\ cancel' = stop.cancel /\ chain' = stop.chain
  /\ front' = Nobody /\ loading' = FALSE
  /\ onScreen' = [onScreen EXCEPT !.final = onScreen.run # Nobody]
  /\ UNCHANGED <<begun, server>>

(* cancelForPageExit: the page is hidden for good, or comes back from the  *)
(* browser's cache with what it showed.                                    *)
PageHides ==
  /\ front # Nobody
  /\ LET stop == StopFront
     IN run' = stop.run /\ cancel' = stop.cancel /\ chain' = stop.chain
  /\ front' = Nobody
  /\ UNCHANGED <<begun, server, onScreen, loading>>

(* The server hears a cancellation and stops the job; the answer settles   *)
(* the request, and so does its loss.                                      *)
CancelHeard(r) ==
  /\ cancel[r] = "sent"
  /\ cancel' = [cancel EXCEPT ![r] = "heard"]
  /\ server' = [server EXCEPT ![JobOf(r)] = "ended"]
  /\ UNCHANGED <<front, begun, run, chain, onScreen, loading>>

CancelSettles(r) ==
  /\ cancel[r] \in {"sent", "heard"}
  /\ cancel' = [cancel EXCEPT ![r] = "settled"] /\ chain' = chain \ {r}
  /\ UNCHANGED <<front, begun, run, server, onScreen, loading>>

(* A job ends by itself, or its page is gone for too long. *)
ServerEnds(j) ==
  /\ server[j] = "running"
  /\ server' = [server EXCEPT ![j] = "ended"]
  /\ UNCHANGED <<front, begun, run, cancel, chain, onScreen, loading>>

Starts(r) == Proceed(r) \/ PostAnswered(r) \/ PostFails(r) \/ RestoreAnswered(r)
Follows(r) == PollAnswered(r) \/ \E fatal \in BOOLEAN : PollLost(r, fatal)

PageNext ==
  \/ \E kind \in {"search", "restore"} : Begin(kind)
  \/ \E r \in PageRun : Starts(r) \/ ServerAccepts(r) \/ Follows(r) \/ CancelHeard(r) \/ CancelSettles(r)
  \/ UserStops \/ PageHides
  \/ \E j \in PageRun \cup {OtherTab} : ServerEnds(j)

PageSpec == PageInit /\ [][PageNext]_pageVars

-----------------------------------------------------------------------------
(* A job the page has learnt of is the job of the run in front, or has been *)
(* sent its cancellation: whatever the moment of the stop, no search is     *)
(* left running unseen (jobStarter and stopRun of useSearch.ts).            *)
NoJobForgotten ==
  \A r \in PageRun :
    (run[r].kind = "search" /\ run[r].post = "told" /\ server[r] = "running") =>
      (front = r /\ run[r].registered) \/ cancel[r] # "none"

(* A search is asked for only once every cancellation that was on its way   *)
(* when it began has settled, however many searches they were of: it does   *)
(* not queue behind its own page (runSearch of useSearch.ts).               *)
CapacityFreedFirst ==
  \A r \in PageRun :
    run[r].post # "none" => \A s \in run[r].owed : cancel[s] = "settled"

(* What the page shows changes to the run in front or is cleared for it,    *)
(* and what is final stays so until then: no late answer of a search that   *)
(* was replaced or stopped is drawn (isCurrent of useSearch.ts).            *)
ShownNeverGoesBack ==
  [][/\ onScreen'.run # onScreen.run => onScreen'.run \in {Nobody, front}
     /\ (onScreen'.run = onScreen.run /\ onScreen.final) => onScreen'.final]_pageVars

(* A search that is in front stops loading or leaves the front (useSearch). *)
LoadingEnds ==
  \A r \in PageRun : (front = r /\ loading) ~> (front # r \/ ~loading)
=============================================================================
