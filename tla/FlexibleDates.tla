---------------------------- MODULE FlexibleDates ----------------------------
(***************************************************************************)
(* What a flexible search asks for (src/src/http-search-contract.ts,       *)
(* src/src/core/flexible-search.ts, src/src/core/matrix.ts): the posted    *)
(* windows and nights are normalized, validated against the date policy    *)
(* and the size limit, and turned into the days of a range or the cells    *)
(* of a matrix that each provider asks one by one.                         *)
(*                                                                         *)
(* A date is a day number, an absent field is Absent; the route, the       *)
(* passengers and the filters are left out.                                *)
(***************************************************************************)
EXTENDS Integers, FiniteSets, Sequences, SequencesExt

CONSTANTS
  Today, LastDay,     \* minSearchDate and maxSearchDate
  PostedDay,          \* days a client may post
  PostedNights,       \* nights a client may post
  MaxStay,            \* MAX_FLEXIBLE_STAY_NIGHTS
  MaxCombinations     \* MAX_ROUNDTRIP_GRID_COMBINATIONS

Absent == -1

ASSUME DatesAssumption ==
  /\ {Today, LastDay, MaxStay, MaxCombinations} \subseteq Nat \ {0}
  /\ PostedDay \subseteq Nat \ {0} /\ PostedNights \subseteq Nat

VARIABLES
  wanted,     \* the request
  stage,      \* how far it came: "posted", "prepared", "refused", "accepted", "drafted"
  draft       \* the date pairs it asks for, in the order they are asked

datesVars == <<wanted, stage, draft>>

Day == PostedDay \union {Absent}
Nights == PostedNights \union {Absent}
Wanted ==
  [trip : {"one-way", "round-trip"}, search : {"stay-range", "roundtrip-grid"},
   flexible : {"exact-stay", "fixed-ranges", "none"},
   depStart : Day, depEnd : Day, retStart : Day, retEnd : Day,
   stay : Nights, min : Nights, max : Nights]

Given(x) == x # Absent
AtLeastOne(n) == IF n < 1 THEN 1 ELSE n
Normal(n) == IF Given(n) THEN AtLeastOne(n) ELSE Absent
Larger(a, b) == IF a < b THEN b ELSE a
Smaller(a, b) == IF a < b THEN a ELSE b

MinNights(w) == IF Given(w.min) THEN AtLeastOne(w.min) ELSE 1
MaxNights(w) == IF Given(w.max) THEN Larger(MinNights(w), AtLeastOne(w.max)) ELSE MinNights(w)

ExactStay(w) ==
  IF Given(w.stay) THEN Normal(w.stay)
  ELSE IF Given(w.min) /\ w.min = w.max THEN Normal(w.min) ELSE Absent

HasLegacyNights(w) ==
  /\ Given(w.min) \/ Given(w.max)
  /\ ExactStay(w) = Absent \/ Normal(w.min) # ExactStay(w) \/ Normal(w.max) # ExactStay(w)

HasWindows(w) == \A day \in {w.depStart, w.depEnd, w.retStart, w.retEnd} : Given(day)

Mode(w) ==
  IF w.trip # "round-trip" \/ w.search # "roundtrip-grid" THEN "none"
  ELSE IF w.flexible # "none" THEN w.flexible
  ELSE IF Given(ExactStay(w)) THEN "exact-stay"
  ELSE IF HasWindows(w) /\ ~HasLegacyNights(w) THEN "fixed-ranges"
  ELSE IF HasLegacyNights(w) THEN "legacy"
  ELSE IF HasWindows(w) THEN "fixed-ranges" ELSE "none"

(* An exact stay says where its returns may fall: as posted, or a stay     *)
(* after the departures.                                                   *)
StayReturns(w) ==
  LET stay == ExactStay(w)
  IN IF Given(w.retStart) /\ Given(w.retEnd) THEN [start |-> w.retStart, end |-> w.retEnd]
     ELSE IF Given(stay) /\ Given(w.depStart) /\ Given(w.depEnd)
     THEN [start |-> w.depStart + stay, end |-> w.depEnd + stay]
     ELSE [start |-> IF Given(w.retStart) THEN w.retStart ELSE w.depStart,
           end |-> IF Given(w.retEnd) THEN w.retEnd ELSE w.depEnd]

(* Mutant: a stay given as equal least and most nights is forgotten. *)
NormalizedWithoutStay(w) ==
  CASE Mode(w) = "exact-stay" ->
         [w EXCEPT !.flexible = "exact-stay", !.retStart = StayReturns(w).start, !.retEnd = StayReturns(w).end,
                   !.min = Absent, !.max = Absent]
    [] Mode(w) = "fixed-ranges" -> [w EXCEPT !.flexible = "fixed-ranges", !.stay = Absent, !.min = Absent, !.max = Absent]
    [] Mode(w) = "legacy" -> [w EXCEPT !.flexible = "none", !.stay = Absent]
    [] OTHER -> w

Normalized(w) ==
  CASE Mode(w) = "exact-stay" ->
         [w EXCEPT !.flexible = "exact-stay", !.retStart = StayReturns(w).start, !.retEnd = StayReturns(w).end,
                   !.stay = ExactStay(w), !.min = Absent, !.max = Absent]
    [] Mode(w) = "fixed-ranges" -> [w EXCEPT !.flexible = "fixed-ranges", !.stay = Absent, !.min = Absent, !.max = Absent]
    [] Mode(w) = "legacy" -> [w EXCEPT !.flexible = "none", !.stay = Absent]
    [] OTHER -> w

(* The windows the dates are enumerated in; the error of a missing one. *)
Returns(w) == IF Mode(w) = "exact-stay" THEN StayReturns(w) ELSE [start |-> w.retStart, end |-> w.retEnd]
Enumerable(w) ==
  /\ Given(w.depStart) /\ Given(w.depEnd)
  /\ w.trip = "round-trip" =>
       IF Mode(w) = "exact-stay" THEN Given(ExactStay(w)) ELSE Given(w.retStart) /\ Given(w.retEnd)

Useful(w, departure, return) ==
  LET nights == return - departure
  IN /\ return > departure
     /\ departure \in w.depStart..w.depEnd
     /\ return \in Returns(w).start..Returns(w).end
     /\ CASE Mode(w) = "exact-stay" -> nights = ExactStay(w)
          [] Mode(w) = "fixed-ranges" -> nights <= MaxStay
          [] OTHER -> nights \in MinNights(w)..MaxNights(w)

Days(from, to) == [i \in 1..Larger(0, to - from + 1) |-> from + i - 1]

(* enumerateUsefulFlexibleRequests: a one-way search asks each departure. *)
Pairs(w) ==
  LET departures == Days(w.depStart, w.depEnd)
      returns == Days(Returns(w).start, Returns(w).end)
      stayed(d) == LET r == d + ExactStay(w)
                   IN IF r \in Returns(w).start..Returns(w).end /\ r > d THEN <<<<d, r>>>> ELSE <<>>
      ranged(d) == FlattenSeq([j \in 1..Len(returns) |->
                     IF Useful(w, d, returns[j]) THEN <<<<d, returns[j]>>>> ELSE <<>>])
  IN IF w.trip = "one-way" THEN [i \in 1..Len(departures) |-> <<departures[i], Absent>>]
     ELSE FlattenSeq([i \in 1..Len(departures) |->
            IF Mode(w) = "exact-stay" THEN stayed(departures[i]) ELSE ranged(departures[i])])

(* Mutant: one departure day is not counted. *)
EstimateOffByOne(from, to, retStart, retEnd, least, most) ==
  Cardinality({p \in (from..(to - 1)) \X (retStart..retEnd) :
    p[2] \in (p[1] + AtLeastOne(least))..(p[1] + most)})

(* estimateRoundTripGridCombinations, its sum over departures as a count.  *)
Estimate(from, to, retStart, retEnd, least, most) ==
  Cardinality({p \in (from..to) \X (retStart..retEnd) :
    p[2] \in (p[1] + AtLeastOne(least))..(p[1] + most)})

TooMany(w, least, most) ==
  HasWindows(w) /\ Estimate(w.depStart, w.depEnd, w.retStart, w.retEnd, least, most) > MaxCombinations

OutsidePolicy(day) == Given(day) /\ day \notin Today..LastDay

(* validateRequest, of what the dates are about. *)
Refused(w) ==
  \/ ~Given(w.depStart) \/ ~Given(w.depEnd)
  \/ /\ w.trip = "round-trip"
     /\ \/ Mode(w) # "exact-stay" /\ (~Given(w.retStart) \/ ~Given(w.retEnd))
        \/ Mode(w) = "exact-stay" /\ (~Given(w.stay) \/ w.stay > MaxStay)
        \/ Mode(w) = "fixed-ranges" /\ TooMany(w, 1, MaxStay)
        \/ /\ Mode(w) \in {"legacy", "none"} /\ (w.search = "stay-range" \/ Mode(w) = "legacy")
           /\ HasWindows(w)
           /\ MaxNights(w) > MaxStay \/ TooMany(w, MinNights(w), Smaller(MaxNights(w), MaxStay))
  \/ Given(w.depStart) /\ Given(w.depEnd) /\ w.depEnd < w.depStart
  \/ Given(w.retStart) /\ Given(w.retEnd) /\ w.retEnd < w.retStart
  \/ \E day \in {w.depStart, w.depEnd, w.retStart, w.retEnd} : OutsidePolicy(day)

DatesInit ==
  /\ wanted \in Wanted
  /\ stage = "posted"
  /\ draft = <<>>

PrepareSearchContract ==
  /\ stage = "posted"
  /\ wanted' = Normalized(wanted)
  /\ stage' = "prepared"
  /\ UNCHANGED draft

ValidateSearchContract ==
  /\ stage = "prepared"
  /\ stage' = IF Refused(wanted) THEN "refused" ELSE "accepted"
  /\ UNCHANGED <<wanted, draft>>

(* A range asks its days in the order they are enumerated, a matrix its    *)
(* cells in waves from the first dates of both axes                        *)
(* (prioritizeMatrixLoadingCells).                                         *)
Before(w, p, q) ==
  IF w.trip = "one-way" THEN p[1] < q[1]
  ELSE \/ p[1] + p[2] < q[1] + q[2]
       \/ p[1] + p[2] = q[1] + q[2] /\ p[1] < q[1]
(* A stable sort: each pair has in front of it those that precede it. *)
InWaves(w, pairs) ==
  LET precedes(j, i) == Before(w, pairs[j], pairs[i]) \/ (~Before(w, pairs[i], pairs[j]) /\ j < i)
  IN [k \in DOMAIN pairs |->
        pairs[CHOOSE i \in DOMAIN pairs : Cardinality({j \in DOMAIN pairs : precedes(j, i)}) = k - 1]]
Prioritized(w) == IF w.search = "stay-range" THEN Pairs(w) ELSE InWaves(w, Pairs(w))

DraftDates ==
  /\ stage = "accepted"
  /\ draft' = Prioritized(wanted)
  /\ stage' = "drafted"
  /\ UNCHANGED wanted

DatesNext == PrepareSearchContract \/ ValidateSearchContract \/ DraftDates

DatesSpec == DatesInit /\ [][DatesNext]_datesVars

---------------------------------------------------------------------------
(* Normalizing a request changes how it is written, never the dates it     *)
(* asks for (normalizeFlexibleRoundTripRequest), and a second time changes *)
(* nothing.                                                                *)
NormalizingKeepsDates ==
  [][stage = "posted" =>
       /\ Normalized(wanted') = wanted'
       /\ Enumerable(wanted) => Enumerable(wanted') /\ ToSet(Pairs(wanted')) = ToSet(Pairs(wanted))]_datesVars

(* What the providers are asked for is what was validated: an accepted     *)
(* request can be enumerated, each of its pairs once, all of them useful   *)
(* ones inside the date policy, none left out, and no more of them than    *)
(* the limit, which is checked on an estimate made before any is           *)
(* enumerated.                                                             *)
AcceptedIsAskable ==
  /\ stage = "accepted" => Enumerable(wanted)
  /\ stage = "drafted" =>
       LET pairs == ToSet(draft)
       IN /\ Cardinality(pairs) = Len(draft)
          /\ \A p \in pairs : \A day \in {p[1], p[2]} : ~OutsidePolicy(day)
          /\ wanted.trip = "round-trip" =>
               /\ pairs = {p \in (Today..LastDay) \X (Today..LastDay) : Useful(wanted, p[1], p[2])}
               /\ Mode(wanted) # "exact-stay" => Len(draft) <= MaxCombinations
=============================================================================
