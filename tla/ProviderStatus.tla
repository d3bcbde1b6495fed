--------------------------- MODULE ProviderStatus ---------------------------
(***************************************************************************)
(* What the desk says of each provider (ProviderStatusTracker of           *)
(* provider-status.ts): the searches of handleSearchRequest and            *)
(* handleMatrixRequest tell it how they went, and so does the prewarm of   *)
(* provider-prewarm.ts, which runs by itself, may overlap with searches    *)
(* and with an earlier prewarm that hangs, and knows less.                 *)
(***************************************************************************)
EXTENDS Integers, FiniteSets

CONSTANTS
  Asking,          \* searches that ask the providers
  StatusTTL,       \* providerStatusTtlMsFor
  MaxPrewarms,     \* bound: prewarms that are begun
  MaxStatusTime    \* bound of the clock

ASSUME StatusAssumption == {StatusTTL, MaxPrewarms, MaxStatusTime} \subseteq Nat

StatusProvider == {"agil-local", "costamar"}
Never == 0 - 1

VARIABLES
  statusTime,
  status,          \* #records
  asks,            \* each search's request of each provider
  prewarms,        \* how many prewarms are under way
  begunPrewarms,
  heard            \* history: the last answer of a search about each provider, and since when another asks

statusVars == <<statusTime, status, asks, prewarms, begunPrewarms, heard>>

Evidence(state, evidence, reason) ==
  [state |-> state, evidence |-> evidence, reason |-> reason, at |-> statusTime]

StatusInit ==
  /\ statusTime = 0 /\ prewarms = 0 /\ begunPrewarms = 0
  /\ status = [p \in StatusProvider |-> [state |-> "unknown", evidence |-> "none", reason |-> "not_checked", at |-> Never]]
  /\ asks = [s \in Asking |-> [p \in StatusProvider |-> "idle"]]
  /\ heard = [p \in StatusProvider |-> [answer |-> "none", at |-> Never, later |-> FALSE]]

(* Mutant: only good news of a search is kept. *)
KeepsGoodNews(p) == status[p].evidence = "search" /\ status[p].state # "degraded" /\ statusTime - status[p].at < StatusTTL

(* #shouldKeepFreshSearchEvidence *)
KeepsSearch(p) == status[p].evidence = "search" /\ statusTime - status[p].at < StatusTTL

(* markChecking, recordReady, recordDegraded: a prewarm leaves the fresh    *)
(* evidence of a search alone.                                              *)
Takes(p, record) == IF record.evidence = "prewarm" /\ KeepsSearch(p) THEN status[p] ELSE record

(* A search asks its providers, all in one step. *)
AskProviders(s) ==
  /\ \A p \in StatusProvider : asks[s][p] = "idle"
  /\ asks' = [asks EXCEPT ![s] = [p \in StatusProvider |-> "asked"]]
  /\ status' = [p \in StatusProvider |-> Takes(p, Evidence("checking", "search", "check_in_progress"))]
  /\ heard' = [p \in StatusProvider |-> [heard[p] EXCEPT !.later = TRUE]]
  /\ UNCHANGED <<statusTime, prewarms, begunPrewarms>>

SearchOutcome(answer) ==
  CASE answer = "whole"   -> Evidence("ready", "search", "none")
    [] answer = "partial" -> Evidence("degraded", "search", "partial_results")
    [] OTHER              -> Evidence("degraded", "search", "error")

(* recordSearchResult and recordSearchFailure; a stopped search says        *)
(* nothing of its providers, whatever they answer.                          *)
SearchHears(s, p, answer) ==
  /\ asks[s][p] = "asked" /\ asks' = [asks EXCEPT ![s][p] = "over"]
  /\ IF answer = "stopped" THEN UNCHANGED <<status, heard>>
     ELSE /\ status' = [status EXCEPT ![p] = Takes(p, SearchOutcome(answer))]
          /\ heard' = [heard EXCEPT ![p] = [answer |-> answer, at |-> statusTime, later |-> FALSE]]
  /\ UNCHANGED <<statusTime, prewarms, begunPrewarms>>

(* prewarmProvidersSilently: both providers are asked, and told of together *)
(* when both have settled.                                                  *)
BeginPrewarm ==
  /\ begunPrewarms < MaxPrewarms /\ begunPrewarms' = begunPrewarms + 1
  /\ prewarms' = prewarms + 1
  /\ status' = [p \in StatusProvider |-> Takes(p, Evidence("checking", "prewarm", "check_in_progress"))]
  /\ UNCHANGED <<statusTime, asks, heard>>

(* recordCostamarContextAvailable: a prewarm only finds that Click and Book *)
(* Plus has a context.                                                      *)
PrewarmOutcome(p, ok) ==
  IF ~ok THEN Evidence("degraded", "prewarm", "error")
  ELSE IF p = "costamar" THEN Evidence("unknown", "prewarm", "context_only")
  ELSE Evidence("ready", "prewarm", "none")

EndPrewarm(ok) ==
  /\ prewarms > 0 /\ prewarms' = prewarms - 1
  /\ status' = [p \in StatusProvider |-> Takes(p, PrewarmOutcome(p, ok[p]))]
  /\ UNCHANGED <<statusTime, asks, begunPrewarms, heard>>

StatusTimePasses ==
  /\ statusTime < MaxStatusTime /\ statusTime' = statusTime + 1
  /\ UNCHANGED <<status, asks, prewarms, begunPrewarms, heard>>

(* snapshot: an old record is unknown. *)
IsStale(p) == status[p].at # Never /\ statusTime - status[p].at >= StatusTTL
Shown(p) == IF IsStale(p) THEN "unknown" ELSE status[p].state

StatusNext ==
  \/ \E s \in Asking : AskProviders(s)
  \/ \E s \in Asking, p \in StatusProvider :
       \E answer \in {"whole", "partial", "failed", "stopped"} : SearchHears(s, p, answer)
  \/ BeginPrewarm \/ StatusTimePasses
  \/ \E ok \in [StatusProvider -> BOOLEAN] : EndPrewarm(ok)

StatusSpec == StatusInit /\ [][StatusNext]_statusVars

-----------------------------------------------------------------------------
(* What the desk says of a provider is what the last search to hear of it   *)
(* heard, for as long as that is fresh and until another search asks; a     *)
(* prewarm that ends meanwhile, however late it began or ends, says nothing *)
(* over it. What is older than that is not said, and Click and Book Plus is *)
(* only ready when a search found it so.                                    *)
StatusIsLatestEvidence ==
  \A p \in StatusProvider :
    LET said == Shown(p)
    IN /\ (heard[p].answer # "none" /\ ~heard[p].later /\ statusTime - heard[p].at < StatusTTL) =>
            said = (IF heard[p].answer = "whole" THEN "ready" ELSE "degraded")
       /\ said \in {"ready", "degraded"} => statusTime - status[p].at < StatusTTL
       /\ (p = "costamar" /\ said = "ready") => heard[p].answer = "whole"
=============================================================================
