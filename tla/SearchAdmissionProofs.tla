----------------------- MODULE SearchAdmissionProofs -----------------------
(* What holds of the admission for any requests, sessions and budget: the  *)
(* heavy limit, the exact reserve, and that no capacity is left idle.       *)
EXTENDS SearchAdmission, FiniteSetTheorems, SequenceTheorems, WellFoundedInduction, TLAPS

-----------------------------------------------------------------------------
(* Sums of units. *)

(* A search costs at least one unit and at most the heavy limit. *)
LEMMA CostRange ==
  ASSUME NEW s \in Search
  PROVE  CostUnits(s) \in 1 .. HeavyLimitUnits
BY UnitsAssumption, SearchAssumption DEF CostUnits, HeavyLimitUnits

(* The tokens of a finite set of searches are finite, and their number is a *)
(* natural number.                                                          *)
LEMMA UnitsFinite ==
  ASSUME NEW S \in SUBSET Search
  PROVE  /\ IsFiniteSet(UnitTokens(S))
         /\ UnitsOf(S) \in Nat
<1>1. IsFiniteSet(S)
  BY SearchAssumption, FS_Subset
<1>2. IsFiniteSet(1 .. HeavyLimitUnits)
  BY FS_Interval, UnitsAssumption
<1>3. IsFiniteSet(S \X (1 .. HeavyLimitUnits))
  BY <1>1, <1>2, FS_Product
<1>4. UnitTokens(S) \in SUBSET (S \X (1 .. HeavyLimitUnits))
  BY DEF UnitTokens
<1>5. IsFiniteSet(UnitTokens(S))
  BY <1>3, <1>4, FS_Subset
<1> QED
  BY <1>5, FS_CardinalityType DEF UnitsOf

(* One search holds what it costs. *)
LEMMA UnitsOfOne ==
  ASSUME NEW s \in Search
  PROVE  UnitsOf({s}) = CostUnits(s)
<1>1. CostUnits(s) \in 1 .. HeavyLimitUnits
  BY CostRange
<1>2. UnitTokens({s}) = {s} \X (1 .. CostUnits(s))
  BY <1>1, UnitsAssumption DEF UnitTokens
<1>3. IsFiniteSet({s}) /\ Cardinality({s}) = 1
  BY FS_Singleton
<1>4. IsFiniteSet(1 .. CostUnits(s)) /\ Cardinality(1 .. CostUnits(s)) = CostUnits(s)
  BY <1>1, UnitsAssumption, FS_Interval
<1>5. Cardinality({s} \X (1 .. CostUnits(s)))
        = Cardinality({s}) * Cardinality(1 .. CostUnits(s))
  BY <1>3, <1>4, FS_Product
<1>6. UnitsOf({s}) = Cardinality({s}) * Cardinality(1 .. CostUnits(s))
  BY <1>2, <1>5 DEF UnitsOf
<1>7. UnitsOf({s}) = 1 * CostUnits(s)
  BY <1>3, <1>4, <1>6
<1>8. CostUnits(s) \in Int
  BY <1>1, UnitsAssumption
<1> HIDE DEF UnitsOf, CostUnits
<1> QED
  BY <1>7, <1>8

(* Disjoint sets of searches hold the sum of what each holds. *)
LEMMA UnitsOfDisjoint ==
  ASSUME NEW S \in SUBSET Search, NEW T \in SUBSET Search, S \intersect T = {}
  PROVE  UnitsOf(S \union T) = UnitsOf(S) + UnitsOf(T)
<1>1. UnitTokens(S \union T) = UnitTokens(S) \union UnitTokens(T)
  BY DEF UnitTokens
<1>2. UnitTokens(S) \intersect UnitTokens(T) = {}
  BY DEF UnitTokens
<1>3. /\ IsFiniteSet(UnitTokens(S)) /\ IsFiniteSet(UnitTokens(T))
      /\ UnitsOf(S) \in Nat /\ UnitsOf(T) \in Nat
  BY UnitsFinite
<1>4. Cardinality(UnitTokens(S) \intersect UnitTokens(T)) = 0
  BY <1>2, FS_EmptySet
<1>5. Cardinality(UnitTokens(S) \union UnitTokens(T))
        = Cardinality(UnitTokens(S)) + Cardinality(UnitTokens(T))
            - Cardinality(UnitTokens(S) \intersect UnitTokens(T))
  BY <1>3, FS_Union
<1>6. UnitsOf(S \union T) = UnitsOf(S) + UnitsOf(T) - 0
  BY <1>1, <1>4, <1>5 DEF UnitsOf
<1> HIDE DEF UnitsOf
<1> QED
  BY <1>3, <1>6

(* A part of a set of searches holds no more than the whole. *)
LEMMA UnitsOfPart ==
  ASSUME NEW T \in SUBSET Search, NEW S \in SUBSET T
  PROVE  UnitsOf(S) <= UnitsOf(T)
<1>1. UnitTokens(S) \in SUBSET UnitTokens(T)
  BY DEF UnitTokens
<1>2. IsFiniteSet(UnitTokens(T))
  BY UnitsFinite
<1> QED
  BY <1>1, <1>2, FS_Subset DEF UnitsOf

(* What runs is exact or heavy. *)
LEMMA TotalIsExactAndHeavy ==
  ASSUME active \in SUBSET Search
  PROVE  /\ ExactUnits \in Nat /\ HeavyUnits \in Nat
         /\ TotalUnits = ExactUnits + HeavyUnits
<1>1. /\ ExactOf(active) \in SUBSET Search /\ HeavyOf(active) \in SUBSET Search
      /\ ExactOf(active) \intersect HeavyOf(active) = {}
      /\ active = ExactOf(active) \union HeavyOf(active)
  BY DEF ExactOf, HeavyOf
<1>2. UnitsOf(active) = UnitsOf(ExactOf(active)) + UnitsOf(HeavyOf(active))
  BY <1>1, UnitsOfDisjoint
<1> QED
  BY <1>1, <1>2, UnitsFinite DEF TotalUnits, ExactUnits, HeavyUnits

-----------------------------------------------------------------------------
(* The queue as a sequence. *)

(* Leaving position i keeps a queue of searches, made of the others. *)
LEMMA WithoutType ==
  ASSUME NEW q \in Seq(Search), NEW i \in 1 .. Len(q)
  PROVE  /\ Without(q, i) \in Seq(Search)
         /\ Len(Without(q, i)) = Len(q) - 1
         /\ \A j \in 1 .. Len(q) - 1 :
              Without(q, i)[j] = IF j < i THEN q[j] ELSE q[j + 1]
<1>1. \A j \in 1 .. Len(q) : q[j] \in Search
  BY ElementOfSeq
<1>2. Len(q) \in Nat
  BY LenProperties
<1> DEFINE before == SubSeq(q, 1, i - 1)
           after  == SubSeq(q, i + 1, Len(q))
<1>3. /\ before \in Seq(Search)
      /\ Len(before) = i - 1
      /\ \A j \in 1 .. i - 1 : before[j] = q[j]
  <2>1. \A j \in 1 .. i - 1 : q[j] \in Search
    BY <1>1, <1>2
  <2> QED BY <2>1, <1>2, SubSeqProperties, Z3
<1>4. /\ after \in Seq(Search)
      /\ Len(after) = Len(q) - i
      /\ \A j \in 1 .. Len(q) - i : after[j] = q[i + j]
  <2>1. \A j \in i + 1 .. Len(q) : q[j] \in Search
    BY <1>1, <1>2
  <2> QED BY <2>1, <1>2, SubSeqProperties, Z3
<1> HIDE DEF before, after
<1>5. /\ before \o after \in Seq(Search)
      /\ Len(before \o after) = Len(before) + Len(after)
      /\ \A j \in 1 .. Len(before) + Len(after) :
           (before \o after)[j] = IF j <= Len(before) THEN before[j] ELSE after[j - Len(before)]
  BY <1>3, <1>4, ConcatProperties
<1>6. Without(q, i) = before \o after
  BY DEF Without, before, after
<1>7. Len(before \o after) = Len(q) - 1
  BY <1>2, <1>3, <1>4, <1>5
<1>8. ASSUME NEW j \in 1 .. Len(q) - 1
      PROVE  (before \o after)[j] = IF j < i THEN q[j] ELSE q[j + 1]
  <2>1. CASE j < i
    BY <2>1, <1>2, <1>3, <1>4, <1>5
  <2>2. CASE j >= i
    <3>1. /\ j - Len(before) \in 1 .. Len(q) - i
          /\ i + (j - Len(before)) = j + 1
      BY <2>2, <1>2, <1>3
    <3>2. (before \o after)[j] = after[j - Len(before)]
      BY <2>2, <1>2, <1>3, <1>4, <1>5
    <3>3. after[j - Len(before)] = q[j + 1]
      BY <3>1, <1>4
    <3>4. ~(j < i)
      BY <2>2, <1>2
    <3> QED BY <3>2, <3>3, <3>4
  <2>3. j < i \/ j >= i
    BY <1>2
  <2> QED BY <2>1, <2>2, <2>3
<1> QED
  BY <1>5, <1>6, <1>7, <1>8

(* What is left of a queue without repetitions: the others, still without. *)
LEMMA WithoutRange ==
  ASSUME NEW q \in Seq(Search), NEW i \in DOMAIN q,
         \A j, k \in DOMAIN q : q[j] = q[k] => j = k
  PROVE  /\ {Without(q, i)[j] : j \in DOMAIN Without(q, i)} = {q[j] : j \in DOMAIN q} \ {q[i]}
         /\ \A j, k \in DOMAIN Without(q, i) : Without(q, i)[j] = Without(q, i)[k] => j = k
<1>1. Len(q) \in Nat /\ DOMAIN q = 1 .. Len(q)
  BY LenProperties
<1> DEFINE r == Without(q, i)
<1>2. /\ r \in Seq(Search) /\ Len(r) = Len(q) - 1
      /\ \A j \in 1 .. Len(q) - 1 : r[j] = IF j < i THEN q[j] ELSE q[j + 1]
  BY <1>1, WithoutType
<1>3. DOMAIN r = 1 .. Len(q) - 1
  BY <1>2, LenProperties
<1> HIDE DEF r
<1>4. ASSUME NEW j \in DOMAIN r
      PROVE  r[j] \in {q[k] : k \in DOMAIN q} \ {q[i]}
  <2>1. CASE j < i
    <3>1. r[j] = q[j] /\ j \in DOMAIN q /\ j # i
      BY <2>1, <1>1, <1>2, <1>3
    <3> QED BY <3>1
  <2>2. CASE ~(j < i)
    <3>1. r[j] = q[j + 1] /\ j + 1 \in DOMAIN q /\ j + 1 # i
      BY <2>2, <1>1, <1>2, <1>3
    <3> QED BY <3>1
  <2> QED BY <2>1, <2>2
<1>5. ASSUME NEW k \in DOMAIN q, q[k] # q[i]
      PROVE  \E j \in DOMAIN r : r[j] = q[k]
  <2>1. CASE k < i
    <3>1. k \in DOMAIN r /\ r[k] = q[k]
      BY <2>1, <1>1, <1>2, <1>3
    <3> QED BY <3>1
  <2>2. CASE k > i
    <3>1. k - 1 \in DOMAIN r /\ ~(k - 1 < i) /\ (k - 1) + 1 = k
      BY <2>2, <1>1, <1>3
    <3>2. r[k - 1] = q[(k - 1) + 1]
      BY <3>1, <1>2, <1>3
    <3> QED BY <3>1, <3>2
  <2>3. k < i \/ k > i
    BY <1>1, <1>5
  <2> QED BY <2>1, <2>2, <2>3
<1>6. ASSUME NEW j \in DOMAIN r, NEW k \in DOMAIN r, r[j] = r[k]
      PROVE  j = k
  <2> DEFINE at(n) == IF n < i THEN n ELSE n + 1
  <2>1. /\ at(j) \in DOMAIN q /\ r[j] = q[at(j)]
        /\ at(k) \in DOMAIN q /\ r[k] = q[at(k)]
    BY <1>1, <1>2, <1>3
  <2>2. at(j) = at(k)
    BY <2>1, <1>6
  <2> QED BY <2>2, <1>1, <1>3
<1>7. {r[j] : j \in DOMAIN r} = {q[j] : j \in DOMAIN q} \ {q[i]}
  BY <1>4, <1>5
<1> QED
  BY <1>6, <1>7 DEF r

(* Joining a queue that does not hold the search. *)
LEMMA AppendRange ==
  ASSUME NEW q \in Seq(Search), NEW s \in Search,
         \A j, k \in DOMAIN q : q[j] = q[k] => j = k,
         s \notin {q[j] : j \in DOMAIN q}
  PROVE  /\ Append(q, s) \in Seq(Search)
         /\ {Append(q, s)[j] : j \in DOMAIN Append(q, s)} = {q[j] : j \in DOMAIN q} \union {s}
         /\ \A j, k \in DOMAIN Append(q, s) : Append(q, s)[j] = Append(q, s)[k] => j = k
<1>1. Len(q) \in Nat /\ DOMAIN q = 1 .. Len(q)
  BY LenProperties
<1> DEFINE r == Append(q, s)
<1>2. /\ r \in Seq(Search) /\ Len(r) = Len(q) + 1
      /\ \A j \in 1 .. Len(q) : r[j] = q[j]
      /\ r[Len(q) + 1] = s
  BY <1>1, AppendProperties
<1>3. DOMAIN r = 1 .. Len(q) + 1
  BY <1>2, LenProperties
<1> HIDE DEF r
<1>4. DOMAIN r = DOMAIN q \union {Len(q) + 1}
  BY <1>1, <1>3
<1>5. {r[j] : j \in DOMAIN r} = {q[j] : j \in DOMAIN q} \union {s}
  BY <1>1, <1>2, <1>4
<1>6. \A j, k \in DOMAIN r : r[j] = r[k] => j = k
  BY <1>1, <1>2, <1>4
<1> QED
  BY <1>2, <1>5, <1>6 DEF r

-----------------------------------------------------------------------------
(* The inductive invariant.  HeavyWithinLimit is inductive once a search is *)
(* known to be in one place; NoIdleCapacity needs StopIsFinal, because the  *)
(* calls made after stopAccepting skip the loop that re-establishes it; and *)
(* NoMissedChange has to hold inside a turn that changed nothing yet, since *)
(* such a turn ends without waking anybody.                                 *)

WatchersSawLast ==
  turn # "changed" => \A w \in parked \union upToDate : shown[w] = Occupancy

IInv ==
  /\ TypeOK
  /\ OnePlaceEach
  /\ HeavyWithinLimit
  /\ StopIsFinal
  /\ NoIdleCapacity
  /\ ServedAreWorking
  /\ WatchersSawLast

(* The queue and the running searches keep their types and stay apart. *)
LEMMA QueueStep ==
  ASSUME TypeOK, OnePlaceEach, [Next]_vars
  PROVE  /\ queued' \in Seq(Search) /\ active' \subseteq Search
         /\ OnePlaceEach'
<1> USE DEF TypeOK
<1>1. ASSUME NEW s \in Search, Acquire(s)
      PROVE  queued' \in Seq(Search) /\ active' \subseteq Search /\ OnePlaceEach'
  BY <1>1, AppendRange DEF Acquire, OnePlaceEach, Waiting
<1>2. ASSUME NEW s \in Search, Release(s)
      PROVE  queued' \in Seq(Search) /\ active' \subseteq Search /\ OnePlaceEach'
  BY <1>2 DEF Release, OnePlaceEach, Waiting
<1>3. ASSUME NEW i \in DOMAIN queued,
             queued' = Without(queued, i),
             active' \in {active, active \union {queued[i]}}
      PROVE  queued' \in Seq(Search) /\ active' \subseteq Search /\ OnePlaceEach'
  <2>1. DOMAIN queued = 1 .. Len(queued) /\ queued[i] \in Search
    BY LenProperties, ElementOfSeq
  <2>2. queued' \in Seq(Search) /\ active' \subseteq Search
    BY <1>3, <2>1, WithoutType
  <2>3. /\ {Without(queued, i)[j] : j \in DOMAIN Without(queued, i)} = Waiting \ {queued[i]}
        /\ \A j, k \in DOMAIN Without(queued, i) :
             Without(queued, i)[j] = Without(queued, i)[k] => j = k
    BY WithoutRange DEF OnePlaceEach, Waiting
  <2>4. Waiting' = Waiting \ {queued[i]}
    BY <1>3, <2>3 DEF Waiting
  <2>5. OnePlaceEach'
    BY <1>3, <2>3, <2>4 DEF OnePlaceEach
  <2> QED BY <2>2, <2>5
<1>4. ASSUME NEW i \in DOMAIN queued, StartExact(i) \/ StartHeavy(i) \/ Leave(i)
      PROVE  queued' \in Seq(Search) /\ active' \subseteq Search /\ OnePlaceEach'
  BY <1>3, <1>4 DEF StartExact, StartHeavy, Leave
<1>5. CASE StopAccepting
  <2>1. queued' = <<>> /\ active' = active
    BY <1>5 DEF StopAccepting
  <2> QED BY <2>1, EmptySeq DEF OnePlaceEach, Waiting
<1>6. CASE UNCHANGED <<queued, active>>
  BY <1>6 DEF OnePlaceEach, Waiting
<1> QED
  BY <1>1, <1>2, <1>4, <1>5, <1>6
  DEF Next, EndTurn, MemoryRecheck, MemoryMoves, Watch, WatchEnds, vars, queueVars

(* Type correctness is preserved. *)
LEMMA TypeStep ==
  ASSUME TypeOK, OnePlaceEach, [Next]_vars
  PROVE  TypeOK'
<1>1. queued' \in Seq(Search) /\ active' \subseteq Search
  BY QueueStep
<1>2. \A i \in DOMAIN queued : SessionOf[queued[i]] \in Session
  BY SearchAssumption, LenProperties, ElementOfSeq DEF TypeOK
<1>3. /\ served' \subseteq Session /\ servedBefore' \subseteq Session \X Session
  BY <1>2 DEF TypeOK, Next, Acquire, StartExact, StartHeavy, EndTurn, Release, Leave,
     MemoryRecheck, StopAccepting, MemoryMoves, Watch, WatchEnds, ForgetIdleSessions,
     NoteHeavyAdmission,
     vars, queueVars
<1>4. /\ recheck' \in BOOLEAN /\ stopping' \in BOOLEAN
      /\ turn' \in {"rest", "quiet", "changed"} /\ memoryUsed' \in MemoryReadings
  BY DEF TypeOK, Next, Acquire, StartExact, StartHeavy, EndTurn, Release, Leave,
     MemoryRecheck, StopAccepting, MemoryMoves, Watch, WatchEnds, vars, queueVars
<1>5. /\ parked' \subseteq Watcher /\ upToDate' \subseteq Watcher /\ DOMAIN shown' = Watcher
  BY DEF TypeOK, Next, Acquire, StartExact, StartHeavy, EndTurn, Release, Leave,
     MemoryRecheck, StopAccepting, MemoryMoves, Watch, WatchEnds, Changed, vars, watchVars
<1> QED
  BY <1>1, <1>3, <1>4, <1>5 DEF TypeOK

(* No step lets heavy work past its limit. *)
LEMMA HeavyStep ==
  ASSUME IInv, [Next]_vars
  PROVE  HeavyWithinLimit'
<1> USE DEF IInv, TypeOK
<1>1. HeavyUnits \in Nat /\ HeavyUnits <= HeavyLimitUnits
  BY TotalIsExactAndHeavy DEF HeavyWithinLimit
<1>2. ASSUME active' \in SUBSET active
      PROVE  HeavyWithinLimit'
  <2>1. HeavyOf(active') \in SUBSET HeavyOf(active) /\ HeavyOf(active) \in SUBSET Search
    BY <1>2 DEF HeavyOf
  <2>2. /\ UnitsOf(HeavyOf(active')) <= UnitsOf(HeavyOf(active))
        /\ UnitsOf(HeavyOf(active')) \in Nat /\ UnitsOf(HeavyOf(active)) \in Nat
    BY <2>1, UnitsOfPart, UnitsFinite
  <2>3. HeavyUnits = UnitsOf(HeavyOf(active)) /\ HeavyUnits' = UnitsOf(HeavyOf(active'))
    BY DEF HeavyUnits
  <2> QED BY <1>1, <2>2, <2>3, UnitsAssumption DEF HeavyWithinLimit
<1>3. ASSUME NEW i \in DOMAIN queued, StartExact(i)
      PROVE  HeavyWithinLimit'
  <2>1. HeavyOf(active') = HeavyOf(active)
    BY <1>3 DEF StartExact, ExactFits, HeavyOf
  <2> QED BY <1>1, <2>1 DEF HeavyWithinLimit, HeavyUnits
<1>4. ASSUME NEW i \in DOMAIN queued, StartHeavy(i)
      PROVE  HeavyWithinLimit'
  <2>1. queued[i] \in Search /\ queued[i] \notin active
    BY LenProperties, ElementOfSeq DEF OnePlaceEach, Waiting
  <2>2. /\ HeavyOf(active') = HeavyOf(active) \union {queued[i]}
        /\ HeavyOf(active) \intersect {queued[i]} = {}
        /\ HeavyOf(active) \in SUBSET Search
    BY <1>4, <2>1 DEF StartHeavy, IsFairest, IsSessionsOldest, HeavyOf
  <2>3. UnitsOf(HeavyOf(active')) = UnitsOf(HeavyOf(active)) + UnitsOf({queued[i]})
    BY <2>1, <2>2, UnitsOfDisjoint
  <2>4. UnitsOf({queued[i]}) = CostUnits(queued[i])
    BY <2>1, UnitsOfOne
  <2>5. HeavyUnits + CostUnits(queued[i]) <= HeavyLimitUnits
    BY <1>4 DEF StartHeavy, HeavyFits
  <2>6. HeavyUnits' = HeavyUnits + CostUnits(queued[i])
    BY <2>3, <2>4 DEF HeavyUnits
  <2> QED BY <2>5, <2>6 DEF HeavyWithinLimit
<1>5. CASE ~(active' \in SUBSET active)
  <2>1. \E i \in DOMAIN queued : StartExact(i) \/ StartHeavy(i)
    BY <1>5 DEF Next, Acquire, EndTurn, Release, Leave, MemoryRecheck, StopAccepting,
       MemoryMoves, Watch, WatchEnds, vars, queueVars
  <2> QED BY <2>1, <1>3, <1>4
<1> QED
  BY <1>2, <1>5

(* Nothing that could start anything is left once the runner stops. *)
LEMMA StopStep ==
  ASSUME TypeOK, StopIsFinal, [Next]_vars
  PROVE  StopIsFinal'
<1>1. CASE ~stopping
  BY <1>1 DEF StopIsFinal, Next, Acquire, StartExact, StartHeavy, EndTurn, Release, Leave,
     MemoryRecheck, StopAccepting, MemoryMoves, Watch, WatchEnds, vars, queueVars
<1>2. CASE stopping
  <2>1. queued = <<>> /\ turn = "rest" /\ ~recheck
    BY <1>2 DEF StopIsFinal
  <2>2. DOMAIN queued = {}
    BY <2>1
  <2> QED
    BY <1>2, <2>1, <2>2 DEF StopIsFinal, Next, Acquire, EndTurn, Release,
       MemoryRecheck, StopAccepting, MemoryMoves, Watch, WatchEnds, Changed, vars, queueVars
<1> QED BY <1>1, <1>2

(* Between calls nothing that could start is left waiting. *)
LEMMA NoIdleStep ==
  ASSUME IInv, [Next]_vars
  PROVE  NoIdleCapacity'
<1> USE DEF IInv
<1>1. SUFFICES ASSUME turn' = "rest"
               PROVE  ~ExactCanStart' /\ (HeavyUnitsAllow' => recheck' /\ HeavyUnits' > 0)
  BY DEF NoIdleCapacity
<1>2. HeavyUnits \in Nat
  BY TotalIsExactAndHeavy DEF TypeOK
<1>3. ASSUME queued' = <<>>
      PROVE  ~ExactCanStart' /\ ~HeavyUnitsAllow'
  BY <1>3 DEF ExactCanStart, HeavyUnitsAllow
<1>4. ASSUME UNCHANGED queueVars
      PROVE  /\ ExactCanStart' <=> ExactCanStart
             /\ HeavyUnitsAllow' <=> HeavyUnitsAllow
             /\ HeavyUnits' = HeavyUnits
  BY <1>4 DEF queueVars, ExactCanStart, HeavyUnitsAllow, ExactFits, IsFairest, HeavyFits,
     IsSessionsOldest, IsFairer, ServedLongerAgo, HeavyUnitsHeld, HeavyUnits, ExactUnits,
     TotalUnits, Waiting
<1>5. CASE EndTurn
  <2>1. UNCHANGED queueVars /\ ~ExactCanStart /\ ~HeavyCanStart /\ recheck' = (recheck \/ HeavyUnitsAllow)
    BY <1>5 DEF EndTurn
  <2>2. HeavyUnitsAllow => HeavyUnits # 0
    BY <2>1 DEF HeavyUnitsAllow, HeavyCanStart
  <2>3. ~ExactCanStart' /\ (HeavyUnitsAllow' => HeavyUnitsAllow)
    BY <1>4, <2>1
  <2>4. HeavyUnitsAllow => recheck'
    BY <2>1
  <2>5. HeavyUnitsAllow => HeavyUnits' > 0
    BY <1>2, <1>4, <2>1, <2>2
  <2> QED BY <2>3, <2>4, <2>5
<1>6. CASE \E s \in Search : Release(s)
  <2>1. stopping /\ UNCHANGED queued
    BY <1>1, <1>6 DEF Release, TypeOK
  <2> QED BY <2>1, <1>3 DEF StopIsFinal
<1>7. CASE StopAccepting
  BY <1>3, <1>7 DEF StopAccepting
<1>8. CASE UNCHANGED <<queueVars, turn, recheck>>
  BY <1>1, <1>4, <1>8 DEF NoIdleCapacity
<1>9. \/ EndTurn \/ StopAccepting \/ (\E s \in Search : Release(s))
      \/ UNCHANGED <<queueVars, turn, recheck>>
  BY <1>1 DEF Next, Acquire, StartExact, StartHeavy, Leave,
     MemoryRecheck, MemoryMoves, Watch, WatchEnds, vars
<1> QED
  BY <1>5, <1>6, <1>7, <1>8, <1>9

(* Forgetting the idle sessions leaves those at work, in the order they     *)
(* were in.                                                                 *)
LEMMA ForgetKeepsOrder ==
  ASSUME ServedAreWorking, ForgetIdleSessions(Waiting', active')
  PROVE  ServedAreWorking'
<1> DEFINE working == {SessionOf[s] : s \in Waiting' \union active'}
<1>1. /\ served' = served \intersect working
      /\ servedBefore' = servedBefore \intersect (working \X working)
  BY DEF ForgetIdleSessions
<1>2. served' \subseteq {SessionOf[s] : s \in active' \union Waiting'}
  BY <1>1
<1>3. servedBefore' \subseteq served' \X served'
  BY <1>1 DEF ServedAreWorking
<1>4. ASSUME NEW x \in served', NEW y \in served', x # y
      PROVE  <<x, y>> \in servedBefore' <=> <<y, x>> \notin servedBefore'
  <2>1. x \in served /\ y \in served /\ x \in working /\ y \in working
    BY <1>1
  <2> QED BY <1>1, <1>4, <2>1 DEF ServedAreWorking
<1> QED BY <1>2, <1>3, <1>4 DEF ServedAreWorking

(* The sessions remembered are at work, in an order that is total. *)
LEMMA ServedStep ==
  ASSUME IInv, [Next]_vars
  PROVE  ServedAreWorking'
<1> USE DEF IInv, TypeOK
<1>1. DOMAIN queued = 1 .. Len(queued) /\ Len(queued) \in Nat
  BY LenProperties
<1>2. ASSUME NEW i \in DOMAIN queued
      PROVE  queued[i] \in Search /\ queued[i] \in Waiting
  BY <1>1, ElementOfSeq DEF Waiting
<1>3. ASSUME NEW i \in DOMAIN queued, queued' = Without(queued, i)
      PROVE  Waiting' = Waiting \ {queued[i]}
  <2>1. {Without(queued, i)[j] : j \in DOMAIN Without(queued, i)} = Waiting \ {queued[i]}
    BY WithoutRange DEF OnePlaceEach, Waiting
  <2> QED BY <1>3, <2>1 DEF Waiting
<1>4. ASSUME NEW s \in Search, Acquire(s)
      PROVE  ServedAreWorking'
  <2>1. Waiting' = Waiting \union {s}
    BY <1>4, AppendRange DEF Acquire, Waiting
  <2>2. UNCHANGED <<served, servedBefore, active>>
    BY <1>4 DEF Acquire
  <2> QED BY <2>1, <2>2 DEF ServedAreWorking
<1>5. ASSUME NEW i \in DOMAIN queued, StartExact(i)
      PROVE  ServedAreWorking'
  <2>1. active' \union Waiting' = active \union Waiting
    BY <1>2, <1>3, <1>5 DEF StartExact
  <2>2. UNCHANGED <<served, servedBefore>>
    BY <1>5 DEF StartExact
  <2> QED BY <2>1, <2>2 DEF ServedAreWorking
<1>6. ASSUME NEW i \in DOMAIN queued, StartHeavy(i)
      PROVE  ServedAreWorking'
  <2> DEFINE session == SessionOf[queued[i]]
  <2>1. active' \union Waiting' = active \union Waiting
    BY <1>2, <1>3, <1>6 DEF StartHeavy
  <2>2. /\ served' = served \union {session}
        /\ servedBefore' = {pair \in servedBefore : session \notin {pair[1], pair[2]}}
                              \union ((served \ {session}) \X {session})
    BY <1>6 DEF StartHeavy, NoteHeavyAdmission
  <2>3. served' \subseteq {SessionOf[s] : s \in active' \union Waiting'}
    BY <1>2, <2>1, <2>2 DEF ServedAreWorking
  <2> HIDE DEF session
  <2>4. servedBefore' \subseteq served' \X served'
    BY <2>2 DEF ServedAreWorking
  <2>5. ASSUME NEW x \in served', NEW y \in served', x # y
        PROVE  <<x, y>> \in servedBefore' <=> <<y, x>> \notin servedBefore'
    <3>1. CASE x = session
      BY <2>2, <2>5, <3>1
    <3>2. CASE y = session
      BY <2>2, <2>5, <3>2
    <3>3. CASE x # session /\ y # session
      <4>1. x \in served /\ y \in served
        BY <2>2, <3>3
      <4>2. /\ <<x, y>> \in servedBefore' <=> <<x, y>> \in servedBefore
            /\ <<y, x>> \in servedBefore' <=> <<y, x>> \in servedBefore
        BY <2>2, <3>3
      <4> QED BY <2>5, <4>1, <4>2 DEF ServedAreWorking
    <3> QED BY <3>1, <3>2, <3>3
  <2> QED BY <2>3, <2>4, <2>5 DEF ServedAreWorking
<1>7. ASSUME NEW s \in Search, Release(s)
      PROVE  ServedAreWorking'
  <2>1. Waiting' = Waiting /\ active' = active \ {s}
    BY <1>7 DEF Release, Waiting
  <2>2. ForgetIdleSessions(Waiting', active')
    BY <1>7, <2>1 DEF Release
  <2> QED BY <2>2, ForgetKeepsOrder
<1>8. ASSUME NEW i \in DOMAIN queued, Leave(i)
      PROVE  ServedAreWorking'
  <2>1. Waiting' = Waiting \ {queued[i]} /\ active' = active
    BY <1>3, <1>8 DEF Leave
  <2>2. ForgetIdleSessions(Waiting', active')
    BY <1>8, <2>1 DEF Leave
  <2> QED BY <2>2, ForgetKeepsOrder
<1>9. CASE StopAccepting
  <2>1. Waiting' = {} /\ active' = active
    BY <1>9 DEF StopAccepting, Waiting
  <2>2. CASE queued # <<>>
    <3>1. ForgetIdleSessions(Waiting', active')
      BY <1>9, <2>1, <2>2 DEF StopAccepting
    <3> QED BY <3>1, ForgetKeepsOrder
  <2>3. CASE queued = <<>>
    BY <1>9, <2>3 DEF StopAccepting, ServedAreWorking, Waiting
  <2> QED BY <2>2, <2>3
<1>10. CASE UNCHANGED <<queued, active, served, servedBefore>>
  BY <1>10 DEF ServedAreWorking, Waiting
<1> QED
  BY <1>4, <1>5, <1>6, <1>7, <1>8, <1>9, <1>10
  DEF Next, EndTurn, MemoryRecheck, MemoryMoves, Watch, WatchEnds, vars, queueVars

(* A page that waits for a change has seen the capacity as it is. *)
LEMMA WatchStep ==
  ASSUME IInv, [Next]_vars
  PROVE  WatchersSawLast'
<1> USE DEF IInv, TypeOK
<1>1. CASE turn' = "changed"
  BY <1>1 DEF WatchersSawLast
<1>2. CASE parked' = {} /\ upToDate' = {}
  BY <1>2 DEF WatchersSawLast
<1>3. ASSUME UNCHANGED <<queued, active>>
      PROVE  Occupancy' = Occupancy
  BY <1>3 DEF Occupancy, TotalUnits, Waiting
<1>4. ASSUME UNCHANGED <<queued, active>>, UNCHANGED <<upToDate, shown>>, parked' \subseteq parked,
             turn' = turn \/ turn # "changed"
      PROVE  WatchersSawLast'
  BY <1>3, <1>4 DEF WatchersSawLast
<1>5. CASE EndTurn
  <2>1. CASE turn = "changed"
    BY <1>2, <1>5, <2>1 DEF EndTurn, Changed
  <2>2. CASE turn # "changed"
    BY <1>4, <1>5, <2>2 DEF EndTurn, queueVars, watchVars
  <2> QED BY <2>1, <2>2
<1>6. ASSUME NEW w \in Watcher, Watch(w)
      PROVE  WatchersSawLast'
  <2>1. Occupancy' = Occupancy /\ turn' = turn
    BY <1>3, <1>6 DEF Watch, queueVars
  <2>2. CASE w \in upToDate
    BY <1>6, <2>1, <2>2 DEF Watch, WatchersSawLast
  <2>3. CASE w \notin upToDate
    BY <1>6, <2>1, <2>3 DEF Watch, WatchersSawLast
  <2> QED BY <2>2, <2>3
<1>7. CASE StopAccepting
  <2>1. CASE queued # <<>>
    BY <1>2, <1>7, <2>1 DEF StopAccepting, Changed
  <2>2. CASE queued = <<>>
    BY <1>4, <1>7, <2>2 DEF StopAccepting, watchVars
  <2> QED BY <2>1, <2>2
<1>8. ASSUME NEW s \in Search, Release(s)
      PROVE  WatchersSawLast'
  BY <1>1, <1>2, <1>8 DEF Release, Changed
<1>9. ASSUME NEW w \in Watcher, WatchEnds(w)
      PROVE  WatchersSawLast'
  BY <1>4, <1>9 DEF WatchEnds, queueVars
<1>10. CASE MemoryRecheck
  BY <1>4, <1>10 DEF MemoryRecheck, queueVars, watchVars
<1>11. CASE (\E reading \in MemoryReadings : MemoryMoves(reading)) \/ UNCHANGED vars
  BY <1>4, <1>11 DEF MemoryMoves, vars, queueVars, watchVars
<1>12. ASSUME NEW i \in DOMAIN queued, StartExact(i) \/ StartHeavy(i) \/ Leave(i)
       PROVE  WatchersSawLast'
  BY <1>1, <1>12 DEF StartExact, StartHeavy, Leave
<1>13. ASSUME NEW s \in Search, Acquire(s)
       PROVE  WatchersSawLast'
  BY <1>1, <1>13 DEF Acquire
<1> QED
  BY <1>5, <1>6, <1>7, <1>8, <1>9, <1>10, <1>11, <1>12, <1>13 DEF Next

(* The inductive invariant holds in every state: one step for each call of *)
(* the controller.                                                         *)
LEMMA InvariantHolds == Spec => []IInv
<1>1. Init => IInv
  <2> SUFFICES ASSUME Init PROVE IInv
    OBVIOUS
  <2>1. TypeOK
    BY EmptySeq DEF Init, TypeOK
  <2>2. OnePlaceEach /\ StopIsFinal
    BY DEF Init, OnePlaceEach, StopIsFinal, Waiting
  <2>3. UnitsOf({}) = 0
    BY FS_EmptySet DEF UnitsOf, UnitTokens
  <2>4. HeavyWithinLimit
    BY <2>3, UnitsAssumption DEF Init, HeavyWithinLimit, HeavyUnits, HeavyOf
  <2>5. NoIdleCapacity
    BY DEF Init, NoIdleCapacity, ExactCanStart, HeavyUnitsAllow
  <2>6. ServedAreWorking /\ WatchersSawLast
    BY DEF Init, ServedAreWorking, WatchersSawLast
  <2> QED BY <2>1, <2>2, <2>4, <2>5, <2>6 DEF IInv
<1>2. IInv /\ [Next]_vars => IInv'
  BY QueueStep, TypeStep, HeavyStep, StopStep, NoIdleStep, ServedStep, WatchStep DEF IInv
<1> QED
  BY <1>1, <1>2, PTL DEF Spec

-----------------------------------------------------------------------------
(* Theorems. *)

(* The variables keep their types. *)
THEOREM TypeCorrect == Spec => []TypeOK
BY InvariantHolds, PTL DEF IInv

(* A request holds one place, whatever calls interleave. *)
THEOREM OnePlace == Spec => []OnePlaceEach
BY InvariantHolds, PTL DEF IInv

(* Heavy work never passes its limit: pickNext's check is enough, whatever  *)
(* the costs, the sessions and the memory gauge do.                         *)
THEOREM HeavyLimit == Spec => []HeavyWithinLimit
BY InvariantHolds, PTL DEF IInv

(* The books of admission are true: places, limit, order of the sessions,   *)
(* the stop, and what the pages were told.                                  *)
THEOREM BooksHold == Spec => []BooksAreTrue
<1>1. IInv => BooksAreTrue
  BY DEF IInv, BooksAreTrue, WatchersSawLast, NoMissedChange
<1> QED
  BY <1>1, InvariantHolds, PTL

(* A search that starts is the first of its kind in its session's queue,    *)
(* or the first exact one: nobody later overtakes it.                       *)
LEMMA OrderStep ==
  ASSUME IInv, [Next]_vars, NEW i \in DOMAIN queued, NEW j \in DOMAIN queued, i < j,
         IF IsHeavy(queued[i]) THEN SessionOf[queued[i]] = SessionOf[queued[j]] ELSE TRUE,
         IsHeavy(queued[i]) <=> IsHeavy(queued[j]),
         queued[j] \in active'
  PROVE  queued[i] \in active'
<1> USE DEF IInv, TypeOK
<1>1. DOMAIN queued = 1 .. Len(queued) /\ Len(queued) \in Nat
  BY LenProperties
<1>2. queued[j] \notin active
  BY DEF OnePlaceEach, Waiting
<1>3. \E k \in DOMAIN queued : (StartExact(k) \/ StartHeavy(k)) /\ active' = active \union {queued[k]}
  BY <1>2 DEF Next, Acquire, StartExact, StartHeavy, EndTurn, Release, Leave, MemoryRecheck, StopAccepting,
     MemoryMoves, Watch, WatchEnds, vars, queueVars
<1>4. StartExact(j) \/ StartHeavy(j)
  BY <1>2, <1>3 DEF OnePlaceEach
<1>5. i \in 1 .. j - 1
  BY <1>1
<1>6. CASE StartExact(j)
  BY <1>5, <1>6 DEF StartExact, ExactFits
<1>7. CASE StartHeavy(j)
  BY <1>5, <1>7 DEF StartHeavy, IsFairest, IsSessionsOldest
<1> QED BY <1>4, <1>6, <1>7

(* Nobody is overtaken by a later search of its own kind and session. *)
THEOREM StartsAreInOrder == Spec => StartsInOrder
<1> DEFINE Ordered ==
      \A i, j \in DOMAIN queued :
        (/\ i < j
         /\ IF IsHeavy(queued[i]) THEN SessionOf[queued[i]] = SessionOf[queued[j]] ELSE TRUE
         /\ IsHeavy(queued[i]) <=> IsHeavy(queued[j])
         /\ queued[j] \in active')
        => queued[i] \in active'
<1>1. IInv /\ [Next]_vars => [Ordered]_vars
  BY OrderStep
<1> QED
  BY <1>1, InvariantHolds, PTL DEF Spec, StartsInOrder

(* Every call leaves nothing waiting that it could have started. *)
THEOREM WorkConserving == Spec => []NoIdleCapacity
BY InvariantHolds, PTL DEF IInv

(* Every position that holds an exact search has a first one before it. *)
LEMMA FirstExact ==
  ASSUME TypeOK, NEW i \in DOMAIN queued, ~IsHeavy(queued[i])
  PROVE  \E k \in DOMAIN queued :
           ~IsHeavy(queued[k]) /\ \A j \in 1 .. k - 1 : IsHeavy(queued[j])
<1> DEFINE exactAt == {k \in DOMAIN queued : ~IsHeavy(queued[k])}
<1>1. DOMAIN queued = 1 .. Len(queued) /\ Len(queued) \in Nat
  BY LenProperties DEF TypeOK
<1>2. exactAt \subseteq Nat /\ exactAt # {}
  BY <1>1
<1>3. PICK k \in exactAt : \A j \in exactAt : ~(<<j, k>> \in OpToRel(<, Nat))
  BY <1>2, NatLessThanWellFounded, WFMin
<1>4. \A j \in exactAt : ~(j < k)
  BY <1>2, <1>3 DEF OpToRel
<1>5. \A j \in 1 .. k - 1 : IsHeavy(queued[j])
  BY <1>1, <1>4
<1> QED BY <1>5

(* Between calls an exact search waits only behind a full reserve. *)
THEOREM ExactReserve == Spec => []ReserveServesExact
<1>1. IInv => ReserveServesExact
  <2> SUFFICES ASSUME IInv, turn = "rest", ExactOf(Waiting) # {}, ExactUnits < ExactReservedUnits
               PROVE  FALSE
    BY TotalIsExactAndHeavy, UnitsAssumption DEF ReserveServesExact, IInv, TypeOK
  <2>1. PICK i \in DOMAIN queued : ~IsHeavy(queued[i])
    BY DEF ExactOf, Waiting
  <2>2. PICK k \in DOMAIN queued :
          ~IsHeavy(queued[k]) /\ \A j \in 1 .. k - 1 : IsHeavy(queued[j])
    BY <2>1, FirstExact DEF IInv
  <2>3. CostUnits(queued[k]) = 1
    BY <2>2 DEF CostUnits, IsHeavy
  <2>4. /\ ExactUnits \in Nat /\ HeavyUnits \in Nat
        /\ TotalUnits = ExactUnits + HeavyUnits
    BY TotalIsExactAndHeavy DEF IInv, TypeOK
  <2>5. ExactUnits + 1 <= ExactReservedUnits
    BY <2>4, UnitsAssumption
  <2>6. TotalUnits + 1 <= CapacityUnits
    BY <2>4, <2>5, UnitsAssumption DEF IInv, HeavyWithinLimit, HeavyLimitUnits
  <2>7. ExactFits(k)
    BY <2>2, <2>3, <2>5, <2>6 DEF ExactFits
  <2> QED BY <2>7 DEF IInv, NoIdleCapacity, ExactCanStart
<1> QED
  BY <1>1, InvariantHolds, PTL

(* Two searches whose costs exceed the heavy limit together never run       *)
(* together: two months, or the longest range and anything heavy.           *)
THEOREM NeverTwoMonths ==
  ASSUME NEW a \in Search, NEW b \in Search, a # b, IsHeavy(a), IsHeavy(b),
         CostUnits(a) + CostUnits(b) > HeavyLimitUnits
  PROVE  Spec => [](~{a, b} \subseteq active)
<1>1. IInv => ~({a, b} \subseteq active)
  <2> SUFFICES ASSUME IInv, {a, b} \subseteq active
               PROVE  FALSE
    OBVIOUS
  <2>1. {a, b} \in SUBSET HeavyOf(active) /\ HeavyOf(active) \in SUBSET Search
    BY DEF HeavyOf, IInv, TypeOK
  <2>2. UnitsOf({a, b}) <= HeavyUnits
    BY <2>1, UnitsOfPart DEF HeavyUnits
  <2>3. {a, b} = {a} \union {b} /\ {a} \intersect {b} = {}
    OBVIOUS
  <2>4. UnitsOf({a, b}) = UnitsOf({a}) + UnitsOf({b})
    BY <2>3, UnitsOfDisjoint
  <2>5. UnitsOf({a, b}) = CostUnits(a) + CostUnits(b)
    BY <2>4, UnitsOfOne
  <2>6. CostUnits(a) \in Int /\ CostUnits(b) \in Int /\ HeavyUnits \in Int
    BY CostRange, UnitsAssumption, TotalIsExactAndHeavy DEF IInv, TypeOK
  <2> QED
    BY <2>2, <2>5, <2>6, UnitsAssumption DEF IInv, HeavyWithinLimit
<1> QED
  BY <1>1, InvariantHolds, PTL
(* Each step of the controller is a step of a request's life, or none.      *)
LEMMA LeaseStep ==
  ASSUME IInv, IInv', [Next]_vars
  PROVE  [Lease!LeaseNext]_(Lease!leaseVars)
<1> USE DEF IInv, TypeOK
<1> DEFINE Kept == UNCHANGED <<Waiting, active, stopping>>
<1>1. DOMAIN queued = 1 .. Len(queued) /\ Len(queued) \in Nat
  BY LenProperties
<1>2. Kept => [Lease!LeaseNext]_(Lease!leaseVars)
  BY DEF Lease!leaseVars
<1>3. ASSUME NEW i \in DOMAIN queued
      PROVE  queued[i] \in Search /\ queued[i] \in Waiting
  BY <1>1, ElementOfSeq DEF Waiting
<1>4. ASSUME NEW i \in DOMAIN queued, queued' = Without(queued, i)
       PROVE  Waiting' = Waiting \ {queued[i]}
  <2>1. {Without(queued, i)[j] : j \in DOMAIN Without(queued, i)} = Waiting \ {queued[i]}
    BY WithoutRange DEF OnePlaceEach, Waiting
  <2> QED BY <1>4, <2>1 DEF Waiting
<1>5. ASSUME NEW s \in Search, Acquire(s)
      PROVE  Lease!Ask(s)
  <2>1. Waiting' = Waiting \union {s}
    BY <1>5, AppendRange DEF Acquire, Waiting
  <2> QED BY <1>5, <2>1 DEF Acquire, Lease!Ask
<1>6. ASSUME NEW i \in DOMAIN queued, StartExact(i) \/ StartHeavy(i)
      PROVE  Lease!Grant(queued[i])
  <2>1. Waiting' = Waiting \ {queued[i]} /\ queued[i] \in Waiting /\ queued[i] \in Search
    BY <1>6, <1>3, <1>4 DEF StartExact, StartHeavy
  <2>2. ~stopping /\ UNCHANGED stopping /\ active' = active \union {queued[i]}
    BY <1>6, <1>1 DEF StartExact, StartHeavy, StopIsFinal
  <2>3. UnitsOf(HeavyOf(active')) <= HeavyLimitUnits
    BY DEF HeavyWithinLimit, HeavyUnits
  <2> QED BY <2>1, <2>2, <2>3 DEF Lease!Grant
<1>7. ASSUME NEW i \in DOMAIN queued, Leave(i)
      PROVE  Lease!GiveUp(queued[i])
  <2>1. Waiting' = Waiting \ {queued[i]} /\ queued[i] \in Waiting
    BY <1>7, <1>3, <1>4 DEF Leave
  <2> QED BY <1>7, <2>1 DEF Leave, Lease!GiveUp
<1>8. ASSUME NEW s \in Search, Release(s)
      PROVE  Lease!Return(s)
  BY <1>8 DEF Release, Lease!Return, Waiting
<1>9. ASSUME StopAccepting
      PROVE  Lease!Stop
  BY <1>9 DEF StopAccepting, Lease!Stop, Waiting
<1>10. ASSUME ~\E s \in Search : Acquire(s) \/ Release(s),
             ~\E i \in DOMAIN queued : StartExact(i) \/ StartHeavy(i) \/ Leave(i),
             ~StopAccepting
      PROVE  Kept
  BY <1>10 DEF Next, EndTurn, MemoryRecheck, MemoryMoves, Watch, WatchEnds, Waiting, vars, queueVars
<1> QED
  BY <1>2, <1>5, <1>6, <1>7, <1>8, <1>9, <1>10, <1>3 DEF Lease!LeaseNext

(* The controller implements the lease a job is promised: nothing is        *)
(* granted twice, beside what it may not run with, or after the stop.       *)
THEOREM LeaseRefined == Spec => ImplementsLease
<1>1. Init => Lease!LeaseInit
  BY DEF Init, Lease!LeaseInit, Waiting
<1>2. IInv /\ IInv' /\ [Next]_vars => [Lease!LeaseNext]_(Lease!leaseVars)
  BY LeaseStep
<1> QED
  BY <1>1, <1>2, InvariantHolds, PTL DEF Spec, ImplementsLease, Lease!LeaseSpec
=============================================================================
