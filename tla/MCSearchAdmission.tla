------------------------- MODULE MCSearchAdmission -------------------------
(* Instances of SearchAdmission for TLC: two agents, or three browsers, and *)
(* requests of every cost the code knows.                                   *)
EXTENDS SearchAdmission

(* Agent A asks an exact search, a month and a matrix; agent B an exact,    *)
(* a month and a short range.                                               *)
MixedSearch == {"xa1", "mA", "gA", "xb", "mB", "sB"}
MixedKind == [s \in MixedSearch |->
  CASE s \in {"xa1", "xb"} -> "exact" [] s = "gA" -> "matrix" [] OTHER -> "range"]
MixedDays == [s \in MixedSearch |->
  CASE s \in {"mA", "mB"} -> 31 [] s = "sB" -> 7 [] OTHER -> 1]
MixedSession == [s \in MixedSearch |-> IF s \in {"xa1", "mA", "gA"} THEN "A" ELSE "B"]

(* Three agents at the heavy limit: a range longer than a month against    *)
(* short ones and a matrix, and an exact search.                            *)
HeavySearch == {"sA", "lA", "gB", "sB", "sC", "xC"}
HeavyKind == [s \in HeavySearch |->
  CASE s = "xC" -> "exact" [] s = "gB" -> "matrix" [] OTHER -> "range"]
HeavyDays == [s \in HeavySearch |-> CASE s = "lA" -> 40 [] s \in {"gB", "xC"} -> 1 [] OTHER -> 10]
HeavySession == [s \in HeavySearch |->
  CASE s \in {"sA", "lA"} -> "A" [] s \in {"gB", "sB"} -> "B" [] OTHER -> "C"]

(* Three browsers: one that was served waits with the largest search while *)
(* two others come and go.                                                  *)
ThreeSearch == {"sA", "lA", "sB", "sC"}
ThreeKind == [s \in ThreeSearch |-> "range"]
ThreeDays == [s \in ThreeSearch |-> IF s = "lA" THEN 40 ELSE 10]
ThreeSession == [s \in ThreeSearch |->
  CASE s \in {"sA", "lA"} -> "A" [] s = "sB" -> "B" [] OTHER -> "C"]

=============================================================================
