----------------------------- MODULE SearchLease -----------------------------
(* What the runner's search admission promises a job, with no queue order,  *)
(* units or turns: a request waits until it is granted, given up or turned  *)
(* away, what is granted together is a compatible set, and a granted        *)
(* request keeps its place until it is returned.                            *)
CONSTANTS
  Search,      \* the requests
  Compatible   \* the sets of requests that may run together

VARIABLES
  waiting,     \* asked and not answered
  running,     \* granted and not returned
  stopped      \* nothing is granted any more

leaseVars == <<waiting, running, stopped>>

LeaseInit ==
  /\ waiting = {}
  /\ running = {}
  /\ stopped = FALSE

Ask(s) ==
  /\ ~stopped
  /\ s \notin waiting \union running
  /\ waiting' = waiting \union {s}
  /\ UNCHANGED <<running, stopped>>

Grant(s) ==
  /\ ~stopped
  /\ s \in waiting
  /\ running \union {s} \in Compatible
  /\ waiting' = waiting \ {s}
  /\ running' = running \union {s}
  /\ UNCHANGED stopped

(* Asked and granted in one call. *)
Admit(s) ==
  /\ ~stopped
  /\ s \notin waiting \union running
  /\ running \union {s} \in Compatible
  /\ running' = running \union {s}
  /\ UNCHANGED <<waiting, stopped>>

GiveUp(s) ==
  /\ s \in waiting
  /\ waiting' = waiting \ {s}
  /\ UNCHANGED <<running, stopped>>

Return(s) ==
  /\ s \in running
  /\ running' = running \ {s}
  /\ UNCHANGED <<waiting, stopped>>

Stop ==
  /\ ~stopped
  /\ stopped' = TRUE
  /\ waiting' = {}
  /\ UNCHANGED running

LeaseNext ==
  \/ \E s \in Search : Ask(s) \/ Grant(s) \/ Admit(s) \/ GiveUp(s) \/ Return(s)
  \/ Stop

LeaseSpec == LeaseInit /\ [][LeaseNext]_leaseVars
=============================================================================
