------------------------------ MODULE AgilSearch ------------------------------
(***************************************************************************)
(* One Agil search asked of every GDS (src/src/local-agil.ts): a search is *)
(* started with the provider, then each GDS is asked, a few at a time, and *)
(* the process limits the requests in flight of all its searches together  *)
(* with a first-come queue of slots. A token that expired is renewed once. *)
(*                                                                         *)
(* A search of kind "exact" reports each answer as it comes                *)
(* (resolveLocalAgilExactProgressive); one of kind "every" is a day of a   *)
(* range or a cell of a matrix (searchEveryGds). They differ in what a 401 *)
(* of one GDS does. What a GDS answers is abstracted to that it answered.  *)
(***************************************************************************)
EXTENDS Integers, Sequences, FiniteSets, SequencesExt

CONSTANTS
  AgilQuery,     \* searches under way in the process
  GdsCount,      \* length of AGIL_GDS_LIST, asked in this order
  GdsAtOnce,     \* AGIL_CONCURRENCY.gdsSearch
  SlotLimit      \* AGIL_MAX_INFLIGHT_SEARCH_REQUESTS

Gds == 1..GdsCount
Round == {1, 2}
Task == AgilQuery \X Round \X Gds

ASSUME AgilSearchAssumption == {GdsCount, GdsAtOnce, SlotLimit} \subseteq Nat \ {0}

VARIABLES
  query,      \* each search: its kind, phase, round, stopRequested, result and the reason of a failure
  expired,    \* searches whose token the provider refuses
  task,       \* the request of each search, round and GDS
  inFlight,   \* the limiter's counter
  waiters,    \* the limiter's queue
  aborted     \* searches whose job was stopped

agilSearchVars == <<query, expired, task, inFlight, waiters, aborted>>

Resting == [kind |-> "exact", phase |-> "idle", round |-> 1, halted |-> FALSE, partial |-> FALSE, reason |-> "none"]
Settled == {"answered", "failed", "refused"}

AgilSearchTypeOK ==
  /\ query \in [AgilQuery -> [kind : {"exact", "every"}, phase : {"idle", "start", "ask", "renew", "answered", "failed"},
                              round : Round, halted : BOOLEAN, partial : BOOLEAN, reason : {"none", "failed", "refused"}]]
  /\ expired \subseteq AgilQuery /\ aborted \subseteq AgilQuery
  /\ task \in [Task -> {"todo", "waiting", "inflight"} \union Settled]
  /\ inFlight \in Nat
  /\ waiters \in Seq(Task)

TasksOf(s, round) == {t \in Task : t[1] = s /\ t[2] = round}
In(state) == {t \in Task : task[t] = state}

AgilSearchInit ==
  /\ query = [s \in AgilQuery |-> Resting]
  /\ expired = {} /\ aborted = {}
  /\ task = [t \in Task |-> "todo"]
  /\ inFlight = 0
  /\ waiters = <<>>

AskAgil(s) ==
  /\ query[s].phase = "idle"
  /\ \A t \in Task : t[1] = s => task[t] = "todo"
  /\ \E kind \in {"exact", "every"} : query' = [query EXCEPT ![s].kind = kind, ![s].phase = "start"]
  /\ UNCHANGED <<expired, task, inFlight, waiters, aborted>>

(* What the search does with an error: a first 401 renews the token, any   *)
(* other error, or a second 401, is the search's.                          *)
Raised(s, error) ==
  IF error = "refused" /\ query[s].round = 1
  THEN [query EXCEPT ![s].phase = "renew"]
  ELSE [query EXCEPT ![s].phase = "failed", ![s].reason = error]

StartAgilSearch(s) ==
  /\ query[s].phase = "start"
  /\ \/ /\ s \notin expired \union aborted
        /\ query' = [query EXCEPT ![s].phase = "ask"]
     \/ query' = Raised(s, "failed")
     \/ s \in expired /\ query' = Raised(s, "refused")
  /\ UNCHANGED <<expired, task, inFlight, waiters, aborted>>

(* refreshAgilToken, and the whole search is asked again. *)
RenewToken(s) ==
  /\ query[s].phase = "renew"
  /\ \/ /\ query' = [query EXCEPT ![s].phase = "start", ![s].round = 2]
        /\ expired' = expired \ {s}
     \/ /\ query' = [query EXCEPT ![s].phase = "failed", ![s].reason = "failed"]
        /\ UNCHANGED expired
  /\ UNCHANGED <<task, inFlight, waiters, aborted>>

(* A worker of mapConcurrent takes the next GDS: one that threw took none  *)
(* after it, a search told to stop takes no more, and the workers of a     *)
(* round that was given up go on.                                          *)
MayTake(t) ==
  LET s == t[1]
      round == TasksOf(s, t[2])
      busy == {u \in round : task[u] \in {"waiting", "inflight"}}
      threw == {u \in round : task[u] = "refused" /\ query[s].kind = "every"}
  IN /\ task[t] = "todo"
     /\ \A u \in round : u[3] < t[3] => task[u] # "todo"
     /\ \/ query[s].phase = "ask" /\ query[s].round = t[2]
        \/ \E u \in round : task[u] # "todo"
     /\ ~query[s].halted
     /\ Cardinality(busy) + Cardinality(threw) < GdsAtOnce

(* A progressive search reports each GDS, and is told to stop with its job. *)
Reported(s) ==
  [query EXCEPT ![s].halted = query[s].kind = "exact" /\ s \in aborted]

(* A stopped job's request is refused a slot; a free one is given at once. *)
TakeGds(t) ==
  /\ MayTake(t)
  /\ \/ /\ t[1] \in aborted
        /\ task' = [task EXCEPT ![t] = "failed"]
        /\ query' = Reported(t[1])
        /\ UNCHANGED <<inFlight, waiters>>
     \/ /\ t[1] \notin aborted
        /\ waiters = <<>> /\ inFlight < SlotLimit
        /\ task' = [task EXCEPT ![t] = "inflight"]
        /\ inFlight' = inFlight + 1
        /\ UNCHANGED <<query, waiters>>
     \/ /\ t[1] \notin aborted
        /\ waiters # <<>> \/ inFlight >= SlotLimit
        /\ task' = [task EXCEPT ![t] = "waiting"]
        /\ waiters' = Append(waiters, t)
        /\ UNCHANGED <<query, inFlight>>
  /\ UNCHANGED <<expired, aborted>>

(* Mutant: the next in line is not called. *)
ReleasedAlone(t, outcome) ==
  /\ inFlight' = inFlight - 1
  /\ UNCHANGED waiters
  /\ task' = [task EXCEPT ![t] = outcome]

(* The slot is given back and drain gives it to the first who waits. *)
Released(t, outcome) ==
  IF waiters # <<>>
  THEN /\ task' = [task EXCEPT ![t] = outcome, ![Head(waiters)] = "inflight"]
       /\ waiters' = Tail(waiters)
       /\ UNCHANGED inFlight
  ELSE /\ task' = [task EXCEPT ![t] = outcome]
       /\ inFlight' = inFlight - 1
       /\ UNCHANGED waiters

(* A GDS answers; or fails, or its request is aborted with the job; or     *)
(* refuses the token, which ends a search of every GDS while the others    *)
(* are still asked, and is one more failure of a progressive one.          *)
GdsAnswers(t) ==
  /\ task[t] = "inflight"
  /\ \/ (Released(t, "answered") \/ Released(t, "failed")) /\ query' = Reported(t[1])
     \/ /\ t[1] \in expired
        /\ Released(t, "refused")
        /\ query' = IF query[t[1]].kind = "every" /\ query[t[1]].phase = "ask" /\ query[t[1]].round = t[2]
                    THEN Raised(t[1], "refused") ELSE Reported(t[1])
  /\ UNCHANGED <<expired, aborted>>

(* Mutant: a failed GDS is forgotten once another answered. *)
OutcomePartialLost(s) ==
  LET tasks == TasksOf(s, query[s].round)
      failures == {t \in tasks : task[t] \in {"failed", "refused"}}
  IN IF failures # {} /\ \A t \in tasks : task[t] # "answered"
     THEN [query[s] EXCEPT !.phase = "failed", !.reason = task[CHOOSE t \in failures : \A u \in failures : t[3] <= u[3]]]
     ELSE [query[s] EXCEPT !.phase = "answered", !.partial = query[s].kind = "exact" /\ failures # {}]

(* No GDS answered: the search fails for the first one's reason. *)
Outcome(s) ==
  LET tasks == TasksOf(s, query[s].round)
      failures == {t \in tasks : task[t] \in {"failed", "refused"}}
  IN IF failures # {} /\ \A t \in tasks : task[t] # "answered"
     THEN [query[s] EXCEPT !.phase = "failed", !.reason = task[CHOOSE t \in failures : \A u \in failures : t[3] <= u[3]]]
     ELSE [query[s] EXCEPT !.phase = "answered",
                           !.partial = failures # {} \/ query[s].halted]

AllAsked(s) ==
  \A t \in TasksOf(s, query[s].round) :
    task[t] \in Settled \/ (task[t] = "todo" /\ query[s].halted)

EndAgilSearch(s) ==
  /\ query[s].phase = "ask"
  /\ AllAsked(s)
  /\ query' = [query EXCEPT ![s] = Outcome(s)]
  /\ UNCHANGED <<expired, task, inFlight, waiters, aborted>>

(* A request that leaves the queue is a GDS that failed, and reported. *)
LeftQueue(s) ==
  [query EXCEPT ![s].halted =
     \/ query[s].halted
     \/ query[s].kind = "exact" /\ \E t \in In("waiting") : t[1] = s]

(* The queue without a search's requests, in its order.                    *)
WaitersLeft(s) ==
  LET left[n \in 0..Len(waiters)] ==
        IF n = 0 THEN <<>>
        ELSE IF waiters[n][1] = s THEN left[n - 1] ELSE Append(left[n - 1], waiters[n])
  IN left[Len(waiters)]

(* The job is stopped: its requests leave the queue at once. *)
AbortAgil(s) ==
  /\ query[s].phase \in {"start", "ask", "renew"}
  /\ s \notin aborted
  /\ aborted' = aborted \union {s}
  /\ task' = [t \in Task |-> IF t[1] = s /\ task[t] = "waiting" THEN "failed" ELSE task[t]]
  /\ waiters' = WaitersLeft(s)
  /\ query' = LeftQueue(s)
  /\ UNCHANGED <<expired, inFlight>>

(* Outside: the provider stops accepting a search's token. *)
TokenExpires(s) ==
  /\ s \notin expired
  /\ query[s].phase \in {"start", "ask"}
  /\ expired' = expired \union {s}
  /\ UNCHANGED <<query, task, inFlight, waiters, aborted>>

AgilSearchStep(s) ==
  \/ StartAgilSearch(s) \/ RenewToken(s) \/ EndAgilSearch(s)
  \/ \E t \in Task : t[1] = s /\ (TakeGds(t) \/ GdsAnswers(t))

AgilSearchNext == \E s \in AgilQuery : AskAgil(s) \/ AgilSearchStep(s) \/ AbortAgil(s) \/ TokenExpires(s)

AgilSearchSpec == AgilSearchInit /\ [][AgilSearchNext]_agilSearchVars

---------------------------------------------------------------------------
(* Every slot is held by one request in flight, none is free while someone *)
(* waits, and only searches that still want an answer wait, in whatever    *)
(* order searches start, end and are stopped (createAgilInflightLimiter:   *)
(* "a stopped matrix does not hold back the searches queued behind it").   *)
SlotsAreShared ==
  /\ inFlight = Cardinality(In("inflight"))
  /\ inFlight <= SlotLimit
  /\ waiters # <<>> => inFlight = SlotLimit
  /\ ToSet(waiters) = In("waiting")
  /\ \A t \in ToSet(waiters) : t[1] \notin aborted

(* A search says it is partial when a GDS is missing from it, and else     *)
(* only when its job was stopped, and                                     *)
(* fails while one answered only because the renewed token was refused     *)
(* too, or no token could be had (searchEveryGds,                          *)
(* resolveLocalAgilExactProgressive).                                      *)
PartialToldTruly ==
  \A s \in AgilQuery :
    LET tasks == TasksOf(s, query[s].round)
        answers == {t \in tasks : task[t] = "answered"}
    IN /\ query[s].phase = "answered" /\ ~query[s].halted => query[s].partial = (answers # tasks)
       /\ query[s].phase = "answered" /\ answers # tasks => query[s].partial
       /\ query[s].phase = "failed" /\ answers # {} =>
            query[s].kind = "every" /\ \E t \in Task : t[1] = s /\ task[t] = "refused"

(* "An expired token is renewed once and the whole search asked again"     *)
(* (local-agil.ts:2936-2937), and the retry of a progressive search "keeps *)
(* whatever was already mapped" (local-agil.ts:3139): no search fails for  *)
(* an expired token it never renewed.                                      *)
ExpiredTokenIsRenewed ==
  \A s \in AgilQuery \ aborted :
    query[s].phase = "failed" /\ query[s].reason = "refused" => query[s].round = 2

(* Every search ends, whichever others hold the slots: each request has a  *)
(* deadline.                                                               *)
AgilSearchEnds ==
  \A s \in AgilQuery : query[s].phase = "start" ~> query[s].phase \in {"answered", "failed"}
=============================================================================
