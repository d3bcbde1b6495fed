----------------------------- MODULE MCSearches -----------------------------
(* The searches of the server and what they have in common, checked side by *)
(* side: the jobs, the fares one search reuses of another, what they tell   *)
(* of the providers and the requests they send them. These share no state,  *)
(* so a behaviour moves one of them, its part, and leaves the others where  *)
(* they began.                                                              *)
EXTENDS MCSearchJob, PriceReuse, ProviderStatus, ProviderFetch, TLC

CONSTANTS
  f1, f2, f3              \* requests to providers: of a search, of another and of both

VARIABLE part

searchesVars == <<part, vars, reuseVars, statusVars, fetchVars>>

MCOwner == f1 :> "first" @@ f2 :> "second" @@ f3 :> "both"

SearchesInit ==
  /\ part \in {"jobs", "reuse", "status", "fetch"}
  /\ JobInit /\ ReuseInit /\ StatusInit /\ FetchInit

JobsPart == part = "jobs" /\ UNCHANGED <<part, reuseVars, statusVars, fetchVars>>
ReusePart == part = "reuse" /\ UNCHANGED <<part, vars, statusVars, fetchVars>>
StatusPart == part = "status" /\ UNCHANGED <<part, vars, reuseVars, fetchVars>>
FetchPart == part = "fetch" /\ UNCHANGED <<part, vars, reuseVars, statusVars>>

SearchesNext ==
  \/ JobsPart /\ JobNext
  \/ ReusePart /\ ReuseNext
  \/ StatusPart /\ StatusNext
  \/ FetchPart /\ FetchNext

SearchesSpec == SearchesInit /\ [][SearchesNext]_searchesVars
=============================================================================
