----------------------------- MODULE MCSearchJob -----------------------------
(* Instances of SearchJob for TLC. *)
EXTENDS SearchJob, FiniteSets

(* Room for one search at a time. *)
OneAtATime == {S \in SUBSET Search : Cardinality(S) <= 1}
=============================================================================
