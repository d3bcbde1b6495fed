------------------------------- MODULE MCPage -------------------------------
(* That a search ends, as its page sees it and as the server runs it: the   *)
(* page that starts, follows and stops searches, the sweep it makes of      *)
(* months, and the jobs of the server. They are checked side by side: a     *)
(* behaviour moves one of them, its part, and leaves the others where they  *)
(* began.                                                                   *)
EXTENDS MCSearchJob, SearchPage, MonthSweep

VARIABLE part

screenVars == <<part, vars, pageVars, sweepPageVars>>

ScreenInit ==
  /\ part \in {"job", "page", "months"}
  /\ JobInit /\ PageInit /\ SweepInit

JobPart == part = "job" /\ UNCHANGED <<part, pageVars, sweepPageVars>>
PagePart == part = "page" /\ UNCHANGED <<part, vars, sweepPageVars>>
MonthsPart == part = "months" /\ UNCHANGED <<part, vars, pageVars>>

ScreenNext ==
  \/ JobPart /\ JobNext
  \/ PagePart /\ PageNext
  \/ MonthsPart /\ SweepNext

(* The fairness of SearchJob (its Fairness), in its part: admission does    *)
(* not have to grant a lease, so a job may wait for ever.                   *)
JobFairness ==
  /\ \A j \in Search :
       /\ WF_vars(JobPart /\ RunGoesOn(j))
       /\ WF_vars(JobPart /\ SyncTimer(j)) /\ WF_vars(JobPart /\ PollEnds(j))
       /\ WF_vars(JobPart /\ StopUnfollowed(j))
       /\ \A p \in Provider : WF_vars(JobPart /\ job[j].aborted /\ ProviderFails(j, p))
  /\ WF_vars(JobPart /\ CancelRunningJobs)

(* A request of the page is answered or fails in the end, and the server's  *)
(* searches end: their providers are held to deadlines, a search nobody     *)
(* follows is stopped, and one that waits starts (WaitingStarts of          *)
(* SearchAdmission, where two other sessions do not keep asking for heavy   *)
(* work: while they do, the page of a heavy search goes on loading). All    *)
(* but the polls come to an end by themselves, so it is enough that one of  *)
(* them goes on.                                                            *)
PagesFairness ==
  /\ WF_pageVars(PagePart /\ \E r \in PageRun : Starts(r) \/ CancelSettles(r))
  /\ WF_pageVars(PagePart /\ \E r \in PageRun : Follows(r))
  /\ WF_pageVars(PagePart /\ \E j \in PageRun \cup {OtherTab} : ServerEnds(j))

MonthsFairness ==
  /\ WF_sweepPageVars(MonthsPart /\ (Claim \/ FinishSweep \/ \E m \in Month : StartsMonth(m)))
  /\ WF_sweepPageVars(MonthsPart /\ \E m \in Month : FollowsMonth(m))
  /\ WF_sweepPageVars(MonthsPart /\ \E m \in Month, partial \in BOOLEAN : ServerFinishes(m, partial))

FairScreenSpec ==
  /\ ScreenInit /\ [][ScreenNext]_screenVars
  /\ JobFairness /\ PagesFairness /\ MonthsFairness

(* A stopped job and a silent one give their capacity back                  *)
(* (StopReturnsCapacity, SilentFreesCapacity), the runner's stop ends every *)
(* job (ShutdownEnds), a page stops loading (LoadingEnds) and a sweep ends  *)
(* (SweepEnds), whatever the providers and the server do.                   *)
EverySearchEnds ==
  /\ StopReturnsCapacity /\ SilentFreesCapacity /\ ShutdownEnds /\ LoadingEnds
  /\ part = "months" => SweepEnds
=============================================================================
