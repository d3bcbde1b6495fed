----------------------------- MODULE PriceReuse -----------------------------
(***************************************************************************)
(* A search that was made a little before answers a new one of the same    *)
(* request while its providers are asked again: findRecentCompletedSearch- *)
(* Job of session-store.ts chooses it by the age of its completion, and    *)
(* handleSearchRequest of http-router.ts draws its fares until each        *)
(* provider answers. A stop that keeps what is shown makes of a running    *)
(* search a completed one, cached fares included.                          *)
(***************************************************************************)
EXTENDS Integers, FiniteSets

CONSTANTS
  MaxSearches,     \* bound: searches that are made
  Query,           \* request, providers, provider context and order: all must match
  FareProvider,
  ReuseTTL,        \* SEARCH_REVALIDATION_CACHE_TTL_MS
  SearchTime,      \* from a search's first answer to its last: the providers' deadlines
  MaxReuseTime     \* bound of the clock

ASSUME ReuseAssumption == {MaxSearches, ReuseTTL, SearchTime, MaxReuseTime} \subseteq Nat

Made == 1 .. MaxSearches

VARIABLES
  reuseTime,
  made             \* the searches in memory, in the order they were created

reuseVars == <<reuseTime, made>>

(* What a search lists of a provider: fares of its own (fresh) and when     *)
(* they were asked for, cached ones and their age when the search began, or *)
(* cached ones that a stop has dated again.                                 *)
NoFares == [kind |-> "none", time |-> 0]
Dated(kind, time) == [kind |-> kind, time |-> time]
NotMade ==
  [status |-> "none", query |-> CHOOSE q \in Query : TRUE,
   fares |-> [p \in FareProvider |-> NoFares], ended |-> {}, begun |-> 0,
   completedAt |-> 0, touched |-> 0, stopped |-> FALSE, partial |-> FALSE]

ReuseInit == reuseTime = 1 /\ made = [j \in Made |-> NotMade]

(* Mutant: a search that is read is as good as new. *)
AgedAtRead(j) == made[j].touched

(* The age of a search is that of its completion. *)
AgedAt(j) == made[j].completedAt

Donors(query) ==
  {j \in Made : /\ made[j].status = "completed" /\ made[j].query = query
                /\ reuseTime - AgedAt(j) <= ReuseTTL}

(* The last to complete, the first created of several. *)
IsLatest(j, donors) ==
  \A k \in donors : AgedAt(k) < AgedAt(j) \/ (AgedAt(k) = AgedAt(j) /\ j <= k)

(* createProviderSearchStates: each provider starts with its cached fares,  *)
(* none of them this search's.                                              *)
CachedFares(fares) ==
  [p \in FareProvider |->
     IF fares[p].kind = "own" THEN Dated("cached", reuseTime - fares[p].time) ELSE fares[p]]

Created(j, query, fares) ==
  [NotMade EXCEPT !.status = "running", !.query = query, !.fares = fares, !.partial = TRUE]

(* handleSearchRequest; a donor is touched, as by any read. *)
MakeSearch(j, query) ==
  /\ \A k \in Made : k < j <=> made[k].status # "none"
  /\ LET donors == IF ReuseTTL > 0 THEN Donors(query) ELSE {}
     IN IF donors = {}
        THEN made' = [made EXCEPT ![j] = Created(j, query, NotMade.fares)]
        ELSE \E donor \in donors :
               /\ IsLatest(donor, donors)
               /\ made' = [made EXCEPT ![j] = Created(j, query, CachedFares(made[donor].fares)),
                                       ![donor].touched = reuseTime]
  /\ UNCHANGED reuseTime

ReuseRuns(j, p) == made[j].status = "running" /\ p \notin made[j].ended

(* What a provider answered replaces what was cached of it; a provider may  *)
(* have nothing, and one that fails keeps what it answered before, never    *)
(* what was cached.                                                         *)
Own == Dated("own", reuseTime)
Lists(j, p, fares) ==
  made' = [made EXCEPT ![j].fares[p] = fares, ![j].begun = IF @ = 0 THEN reuseTime ELSE @]

FirstFares(j, p) ==
  /\ ReuseRuns(j, p) /\ made[j].fares[p].kind # "own"
  /\ Lists(j, p, Own)
  /\ UNCHANGED reuseTime

ProviderIsDone(j, p) ==
  /\ ReuseRuns(j, p)
  /\ LET before == made[j].fares[p]
     IN \E fares \in {IF before.kind = "own" THEN before ELSE NoFares, Own, NoFares} :
          made' = [made EXCEPT ![j].fares[p] = fares, ![j].ended = @ \cup {p},
                               ![j].begun = IF @ = 0 THEN reuseTime ELSE @]
  /\ UNCHANGED reuseTime

(* A search that is over, and what it was still busy with forgotten.       *)
Over(search, fares, partial) ==
  [NotMade EXCEPT !.status = "completed", !.query = search.query, !.fares = fares,
                  !.completedAt = reuseTime, !.touched = reuseTime, !.partial = partial]

(* syncSearchJob("completed"); a provider that failed leaves it partial. *)
SearchIsDone(j, failed) ==
  /\ made[j].status = "running" /\ made[j].ended = FareProvider
  /\ made' = [made EXCEPT ![j] = Over(@, @.fares, failed)]
  /\ UNCHANGED reuseTime

(* cancelSearchJob: what a stop keeps is dated by the stop. *)
Renewed(fares) ==
  [p \in FareProvider |-> IF fares[p].kind = "cached" THEN Dated("renewed", 0) ELSE fares[p]]
StopMade(j, cachePartial) ==
  /\ made[j].status = "running"
  /\ LET kept == cachePartial /\ \E p \in FareProvider : made[j].fares[p] # NoFares
     IN made' = [made EXCEPT ![j] =
          IF kept THEN [Over(@, Renewed(@.fares), TRUE) EXCEPT !.stopped = TRUE]
          ELSE [NotMade EXCEPT !.status = "cancelled"]]
  /\ UNCHANGED reuseTime

(* getSearchJob: a poll, or a page that returns, touches the search.       *)
ReadMade(j) ==
  /\ made[j].status = "completed" /\ made' = [made EXCEPT ![j].touched = reuseTime]
  /\ UNCHANGED reuseTime

(* evictResidentJob: a search that ended leaves the memory, and is then no  *)
(* more to reuse than one that was cancelled.                               *)
LeaveMemory(j) ==
  /\ made[j].status = "completed"
  /\ made' = [made EXCEPT ![j] = [NotMade EXCEPT !.status = "cancelled"]]
  /\ UNCHANGED reuseTime

ReuseTimePasses ==
  /\ reuseTime < MaxReuseTime
  /\ \A j \in Made :
       (made[j].status = "running" /\ made[j].begun > 0) => reuseTime < made[j].begun + SearchTime
  /\ reuseTime' = reuseTime + 1
  /\ UNCHANGED made

ReuseNext ==
  \/ \E j \in Made :
       \/ \E query \in Query : MakeSearch(j, query)
       \/ \E p \in FareProvider : FirstFares(j, p) \/ ProviderIsDone(j, p)
       \/ \E choice \in BOOLEAN : SearchIsDone(j, choice) \/ StopMade(j, choice)
       \/ ReadMade(j) \/ LeaveMemory(j)
  \/ ReuseTimePasses

ReuseSpec == ReuseInit /\ [][ReuseNext]_reuseVars

-----------------------------------------------------------------------------
(* "Price reuse expires from searchMeta.completedAt; reads and polling do   *)
(* not renew a fare" (README.md:89): a fare a search starts with was found  *)
(* no longer before than a search takes and the TTL allows, however     *)
(* many searches it went through and however often they were read, unless   *)
(* a stop kept it on the way. A search that ended by itself lists nothing   *)
(* of an earlier one, and one that still does says that it is partial.      *)
ReusedPriceIsRecent ==
  \A j \in Made : \A p \in FareProvider :
    LET fare == made[j].fares[p]
    IN fare.kind \in {"cached", "renewed"} =>
         /\ fare.kind = "cached" => fare.time <= SearchTime + ReuseTTL
         /\ made[j].partial /\ (made[j].status = "completed" => made[j].stopped)
=============================================================================
