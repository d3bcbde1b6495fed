----------------------------- MODULE ProviderCall -----------------------------
(* What the router is promised of a call to a provider, with no workers,    *)
(* pipes or recycling: progress comes only while the call is open, and it   *)
(* ends once, in one way.                                                   *)
EXTENDS Naturals

CONSTANTS Job

VARIABLES
  outcome,  \* how each call ended, if it was made and did
  heard     \* the progress each call's caller was told

callVars == <<outcome, heard>>

Endings == {"resolved", "failed", "cancelled", "stopped"}

CallInit ==
  /\ outcome = [j \in Job |-> "new"]
  /\ heard = [j \in Job |-> 0]

Ask(j) ==
  /\ outcome[j] = "new"
  /\ outcome' = [outcome EXCEPT ![j] = "pending"]
  /\ UNCHANGED heard

(* A call that cannot be made ends at once. *)
TurnAway(j, how) ==
  /\ outcome[j] = "new"
  /\ outcome' = [outcome EXCEPT ![j] = how]
  /\ UNCHANGED heard

(* Progress, which the caller may answer with "stop". *)
Tell(j, goesOn) ==
  /\ outcome[j] = "pending"
  /\ heard' = [heard EXCEPT ![j] = @ + 1]
  /\ outcome' = [outcome EXCEPT ![j] = IF goesOn THEN @ ELSE "cancelled"]

(* The calls of one worker may end together. *)
EndCalls(jobs, how) ==
  /\ \A j \in jobs : outcome[j] = "pending"
  /\ outcome' = [j \in Job |-> IF j \in jobs THEN how ELSE outcome[j]]
  /\ UNCHANGED heard

CallNext ==
  \/ \E j \in Job :
       \/ Ask(j)
       \/ \E how \in {"failed", "cancelled"} : TurnAway(j, how)
       \/ \E goesOn \in BOOLEAN : Tell(j, goesOn)
  \/ \E jobs \in SUBSET Job, how \in Endings : EndCalls(jobs, how)

CallSpec == CallInit /\ [][CallNext]_callVars
=============================================================================
