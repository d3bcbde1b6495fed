--------------------------- MODULE ProviderFetch ----------------------------
(***************************************************************************)
(* One request to a provider (fetchProvider of provider-fetch.ts): under a *)
(* deadline for all of it, sent once more on a new connection when nothing *)
(* was answered, and stopped with the search it is part of. Work that      *)
(* several searches share is asked for outside any of them.                *)
(***************************************************************************)
EXTENDS Integers, FiniteSets

CONSTANTS
  Fetch,           \* requests
  Job,             \* searches
  Shared,          \* the owner of what searches share (outsideProviderJob)
  Owner,           \* whose each request is
  FetchLimit,      \* timeoutMs
  MaxFetchTime     \* bound of the clock

ASSUME FetchAssumption ==
  /\ {FetchLimit, MaxFetchTime} \subseteq Nat
  /\ Shared \notin Job /\ Owner \in [Fetch -> Job \cup {Shared}]

VARIABLES
  fetchTime,
  stoppedJobs,     \* searches whose signal was aborted
  fetches          \* each request; first is when it was first sent, for the property

fetchVars == <<fetchTime, stoppedJobs, fetches>>

NotSent == [step |-> "unsent", sends |-> 0, since |-> 0, first |-> 0, headers |-> FALSE, end |-> "none"]

FetchInit == fetchTime = 0 /\ stoppedJobs = {} /\ fetches = [f \in Fetch |-> NotSent]

UnderWay(f) == fetches[f].step \in {"waiting", "reading"}
FetchOver(r, end) == [r EXCEPT !.step = "over", !.end = end]

(* A request of a search that was stopped is not sent. *)
SendFetch(f) ==
  /\ fetches[f].step = "unsent"
  /\ fetches' = [fetches EXCEPT ![f] =
       IF Owner[f] \in stoppedJobs THEN FetchOver(@, "cancelled")
       ELSE [@ EXCEPT !.step = "waiting", !.sends = 1, !.since = fetchTime, !.first = fetchTime]]
  /\ UNCHANGED <<fetchTime, stoppedJobs>>

(* Mutant: each attempt has a deadline of its own. *)
ResentAfresh(r) == [r EXCEPT !.sends = @ + 1, !.since = fetchTime]

Resent(r) == [r EXCEPT !.sends = @ + 1]

(* The connection dies before any response; only the first time is the      *)
(* request sent again.                                                      *)
ConnectionDies(f) ==
  /\ fetches[f].step = "waiting"
  /\ fetches' = [fetches EXCEPT ![f] = IF @.sends = 1 THEN Resent(@) ELSE FetchOver(@, "unanswered")]
  /\ UNCHANGED <<fetchTime, stoppedJobs>>

ResponseBegins(f) ==
  /\ fetches[f].step = "waiting"
  /\ fetches' = [fetches EXCEPT ![f].step = "reading", ![f].headers = TRUE]
  /\ UNCHANGED <<fetchTime, stoppedJobs>>

(* The body is read, or breaks off; an answer is final either way.          *)
ResponseEnds(f, whole) ==
  /\ fetches[f].step = "reading"
  /\ fetches' = [fetches EXCEPT ![f] = FetchOver(@, IF whole THEN "answered" ELSE "broken")]
  /\ UNCHANGED <<fetchTime, stoppedJobs>>

DeadlineIsDue(f) == UnderWay(f) /\ fetchTime >= fetches[f].since + FetchLimit
Deadline(f) ==
  /\ DeadlineIsDue(f)
  /\ fetches' = [fetches EXCEPT ![f] = FetchOver(@, "timed out")]
  /\ UNCHANGED <<fetchTime, stoppedJobs>>

(* The stop of a search aborts what it has under way. *)
StopsWith(j) == {f \in Fetch : Owner[f] = j /\ UnderWay(f)}
JobStops(j) ==
  /\ j \notin stoppedJobs /\ stoppedJobs' = stoppedJobs \cup {j}
  /\ fetches' = [f \in Fetch |-> IF f \in StopsWith(j) THEN FetchOver(fetches[f], "cancelled") ELSE fetches[f]]
  /\ UNCHANGED fetchTime

FetchTimePasses ==
  /\ fetchTime < MaxFetchTime /\ \A f \in Fetch : ~DeadlineIsDue(f)
  /\ fetchTime' = fetchTime + 1
  /\ UNCHANGED <<stoppedJobs, fetches>>

FetchNext ==
  \/ \E f \in Fetch :
       \/ SendFetch(f) \/ ConnectionDies(f) \/ ResponseBegins(f) \/ Deadline(f)
       \/ \E whole \in BOOLEAN : ResponseEnds(f, whole)
  \/ \E j \in Job : JobStops(j)
  \/ FetchTimePasses

FetchSpec == FetchInit /\ [][FetchNext]_fetchVars

-----------------------------------------------------------------------------
(* A request is sent at most twice, and only once if anything was answered; *)
(* however its attempts go, it ends by the deadline of the first; nothing   *)
(* of a stopped search is under way, and what searches share is never       *)
(* stopped with one of them (fetchProvider).                                *)
ResendsAreSafe ==
  \A f \in Fetch :
    LET r == fetches[f]
    IN /\ r.sends <= 2
       /\ UnderWay(f) => fetchTime <= r.first + FetchLimit /\ Owner[f] \notin stoppedJobs
       /\ Owner[f] = Shared => r.end # "cancelled"
       /\ r.end = "unanswered" => ~r.headers /\ r.sends = 2
=============================================================================
