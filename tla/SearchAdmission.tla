--------------------------- MODULE SearchAdmission ---------------------------
(***************************************************************************)
(* The runner's shared search capacity (src/src/search-admission.ts):      *)
(* which searches run now, and in what order the rest wait.                *)
(*                                                                         *)
(* A member of Search is one request to `acquire`: its kind, its length in *)
(* days and the session that asked are fixed.  Once it has left, the same  *)
(* member may be asked again, so behaviours go on for ever.                *)
(*                                                                         *)
(* The controller is one JavaScript object: a call runs to its end before  *)
(* anything else does.  A call that may start waiting searches opens a     *)
(* turn, the loop of `startQueued` admits one search per step inside it,   *)
(* and no other call is enabled until EndTurn closes it.                   *)
(***************************************************************************)
EXTENDS Integers, FiniteSets, Sequences, FiniteSetsExt

CONSTANTS
  Search,              \* the requests a behaviour may make
  Session,             \* signed-in browsers, and the unsigned callers as one
  KindOf,              \* Search -> {"exact", "range", "matrix"}
  DaySearches,         \* Search -> exact searches of a range, one a day
  SessionOf,           \* Search -> Session
  CapacityUnits,       \* CAPACITY_UNITS, 7 in the code
  ExactReservedUnits,  \* EXACT_RESERVED_UNITS, 2 in the code
  MemoryRoom,          \* 90% of the unit's limit, in the peak of a range's day
  MemoryReadings,      \* what the gauge may read, NoReading included
  NoReading,           \* the unit's memory cannot be read
  Watcher              \* pages that follow the capacity

(* What a heavy search may hold in total. *)
HeavyLimitUnits == CapacityUnits - ExactReservedUnits

ASSUME SearchAssumption ==
  /\ IsFiniteSet(Search)
  /\ KindOf \in [Search -> {"exact", "range", "matrix"}]
  /\ DaySearches \in [Search -> Nat \ {0}]
  /\ SessionOf \in [Search -> Session]

ASSUME UnitsAssumption ==
  /\ CapacityUnits \in Nat
  /\ ExactReservedUnits \in Nat
  /\ HeavyLimitUnits \in Nat
  /\ HeavyLimitUnits >= 3

ASSUME MemoryAssumption ==
  /\ MemoryRoom \in Nat
  /\ NoReading \notin Nat
  /\ MemoryReadings \subseteq Nat \union {NoReading}

VARIABLES
  queued,        \* the searches that wait, in arrival order
  active,        \* the searches that hold a lease
  served,        \* keys of lastHeavyAdmission: sessions it remembers
  servedBefore,  \* <<x, y>>: both remembered, x had its last heavy search first
  recheck,       \* the memoryRecheck timer is armed
  stopping,      \* stopAccepting was called
  turn,          \* "rest", or a call in progress: "quiet" until it changed anything
  memoryUsed,    \* what the gauge reads now
  parked,        \* watchers held in waitForChange
  upToDate,      \* watchers whose version is the controller's revision
  shown          \* the occupancy each watcher was last answered

queueVars  == <<queued, active, served, servedBefore, stopping>>
watchVars  == <<parked, upToDate, shown>>
vars       == <<queueVars, recheck, turn, memoryUsed, watchVars>>

-----------------------------------------------------------------------------
(* Costs and sums. *)

IsHeavy(s) == KindOf[s] # "exact"

(* searchCostUnits: a short range is ten days or fewer, a month up to 31. *)
CostUnits(s) ==
  CASE KindOf[s] = "exact"  -> 1
    [] KindOf[s] = "matrix" -> 2
    [] OTHER -> IF DaySearches[s] <= 10 THEN 2
                ELSE IF DaySearches[s] <= 31 THEN 3 ELSE HeavyLimitUnits

(* The units a set of searches holds: each search stands for as many tokens *)
(* as it costs, and the sum is the number of tokens.                        *)
UnitTokens(S) == {token \in S \X (1 .. HeavyLimitUnits) : token[2] <= CostUnits(token[1])}
UnitsOf(S) == Cardinality(UnitTokens(S))

HeavyOf(S) == {s \in S : IsHeavy(s)}
ExactOf(S) == {s \in S : ~IsHeavy(s)}

TotalUnits == UnitsOf(active)
ExactUnits == UnitsOf(ExactOf(active))
HeavyUnits == UnitsOf(HeavyOf(active))

(* searchPeakBytes, in units of a range's day (20 MiB): a matrix is three. *)
PeakOf(s) ==
  CASE KindOf[s] = "exact"  -> 0
    [] KindOf[s] = "matrix" -> 3
    [] OTHER -> DaySearches[s]

Waiting == {queued[i] : i \in DOMAIN queued}

(* What a watcher is answered: the snapshot without its version. *)
Occupancy ==
  [activeUnits |-> TotalUnits, queuedUnits |-> UnitsOf(Waiting),
   activeSearches |-> Cardinality(active), queuedSearches |-> Len(queued)]

-----------------------------------------------------------------------------
(* pickNext: who leaves the queue next. *)

(* Mutant: no exact search starts while heavy work waits. *)
ExactYields(i) ==
  /\ ~IsHeavy(queued[i])
  /\ \A j \in 1 .. i - 1 : IsHeavy(queued[j])
  /\ TotalUnits + CostUnits(queued[i]) <= CapacityUnits
  /\ HeavyOf(Waiting) = {}

(* The first exact search in the queue, when it fits. *)
ExactFits(i) ==
  /\ ~IsHeavy(queued[i])
  /\ \A j \in 1 .. i - 1 : IsHeavy(queued[j])
  /\ TotalUnits + CostUnits(queued[i]) <= CapacityUnits
  /\ \/ HeavyOf(Waiting) = {}
     \/ ExactUnits + CostUnits(queued[i]) <= ExactReservedUnits

HeavyUnitsHeld(session) ==
  UnitsOf({s \in HeavyOf(active) : SessionOf[s] = session})

(* Mutant: the session's newest. *)
IsSessionsNewest(i) ==
  /\ IsHeavy(queued[i])
  /\ \A j \in i + 1 .. Len(queued) :
       IsHeavy(queued[j]) => SessionOf[queued[j]] # SessionOf[queued[i]]

(* Position i holds its session's oldest heavy search. *)
IsSessionsOldest(i) ==
  /\ IsHeavy(queued[i])
  /\ \A j \in 1 .. i - 1 :
       IsHeavy(queued[j]) => SessionOf[queued[j]] # SessionOf[queued[i]]

(* lastHeavyAdmission, a session it does not hold counting as the oldest. *)
ServedLongerAgo(x, y) ==
  \/ x \notin served /\ y \in served
  \/ <<x, y>> \in servedBefore

(* Mutant: the cheapest heavy search first. *)
IsCheaper(i, j) ==
  \/ CostUnits(queued[i]) < CostUnits(queued[j])
  \/ CostUnits(queued[i]) = CostUnits(queued[j]) /\ i < j

(* isFairer: fewer heavy units held, then served longer ago, then arrival. *)
IsFairer(i, j) ==
  LET x == SessionOf[queued[i]]
      y == SessionOf[queued[j]]
  IN \/ HeavyUnitsHeld(x) < HeavyUnitsHeld(y)
     \/ /\ HeavyUnitsHeld(x) = HeavyUnitsHeld(y)
        /\ \/ ServedLongerAgo(x, y)
           \/ ~ServedLongerAgo(y, x) /\ i < j

IsFairest(i) ==
  /\ IsSessionsOldest(i)
  /\ \A j \in DOMAIN queued \ {i} : IsSessionsOldest(j) => IsFairer(i, j)

(* Mutant: heavy work may take the reserve. *)
HeavyFitsCapacity(i) == HeavyUnits + CostUnits(queued[i]) <= CapacityUnits

HeavyFits(i) == HeavyUnits + CostUnits(queued[i]) <= HeavyLimitUnits

(* memoryAllows, asked only beside other heavy work. *)
MemoryAllows(i) ==
  LET expected == MapThenSumSet(PeakOf, HeavyOf(active))
  IN IF memoryUsed = NoReading THEN TRUE
     ELSE Max({memoryUsed, expected}) + PeakOf(queued[i]) <= MemoryRoom

ExactCanStart == \E i \in DOMAIN queued : ExactFits(i)

(* The fairest heavy search fits in the units. *)
HeavyUnitsAllow == \E i \in DOMAIN queued : IsFairest(i) /\ HeavyFits(i)

HeavyCanStart ==
  \E i \in DOMAIN queued :
    IsFairest(i) /\ HeavyFits(i) /\ (HeavyUnits = 0 \/ MemoryAllows(i))

-----------------------------------------------------------------------------
(* Bookkeeping the calls share. *)

Without(seq, i) == SubSeq(seq, 1, i - 1) \o SubSeq(seq, i + 1, Len(seq))

(* Mutant: a session is remembered after its last search. *)
ForgetNobody(waiting, running) == UNCHANGED <<served, servedBefore>>

(* forgetIdleSessions, after `waiting` and `running` are what is left. *)
ForgetIdleSessions(waiting, running) ==
  LET working == {SessionOf[s] : s \in waiting \union running}
  IN /\ served' = served \intersect working
     /\ servedBefore' = servedBefore \intersect (working \X working)

(* start() notes when the session last had a heavy search admitted. *)
NoteHeavyAdmission(s) ==
  LET session == SessionOf[s]
  IN /\ served' = served \union {session}
     /\ servedBefore' = {pair \in servedBefore : session \notin {pair[1], pair[2]}}
                          \union ((served \ {session}) \X {session})

(* changed(): a new revision, and every parked watcher is woken. *)
Changed ==
  /\ parked' = {}
  /\ upToDate' = {}
  /\ UNCHANGED shown

Init ==
  /\ queued = <<>>
  /\ active = {}
  /\ served = {}
  /\ servedBefore = {}
  /\ recheck = FALSE
  /\ stopping = FALSE
  /\ turn = "rest"
  /\ memoryUsed \in MemoryReadings
  /\ parked = {}
  /\ upToDate = {}
  /\ shown = [w \in Watcher |-> Occupancy]

(* Mutant: a search is still accepted after stopAccepting. *)
AcquireAnyTime(s) ==
  /\ turn = "rest"
  /\ s \notin active \union Waiting
  /\ queued' = Append(queued, s)
  /\ turn' = "changed"
  /\ UNCHANGED <<active, served, servedBefore, stopping, recheck, memoryUsed, watchVars>>

(* acquire: the search joins the queue and startQueued runs; it ends either *)
(* started or waiting, and both change the capacity.                        *)
Acquire(s) ==
  /\ turn = "rest"
  /\ ~stopping
  /\ s \notin active \union Waiting
  /\ queued' = Append(queued, s)
  /\ turn' = "changed"
  /\ UNCHANGED <<active, served, servedBefore, stopping, recheck, memoryUsed, watchVars>>

(* startQueued, one admission of its loop: an exact search that fits. *)
StartExact(i) ==
  /\ turn # "rest"
  /\ ExactFits(i)
  /\ queued' = Without(queued, i)
  /\ active' = active \union {queued[i]}
  /\ turn' = "changed"
  /\ UNCHANGED <<served, servedBefore, stopping, recheck, memoryUsed, watchVars>>

(* startQueued, one admission of its loop: the fairest session's oldest     *)
(* heavy search, when no exact search goes first.                           *)
StartHeavy(i) ==
  /\ turn # "rest"
  /\ ~ExactCanStart
  /\ IsFairest(i)
  /\ HeavyFits(i)
  /\ HeavyUnits = 0 \/ MemoryAllows(i)
  /\ queued' = Without(queued, i)
  /\ active' = active \union {queued[i]}
  /\ NoteHeavyAdmission(queued[i])
  /\ turn' = "changed"
  /\ UNCHANGED <<stopping, recheck, memoryUsed, watchVars>>

(* startQueued ends: pickNext found nothing.  A heavy search that memory    *)
(* alone holds back is looked at again by the memoryRecheck timer.          *)
EndTurn ==
  /\ turn # "rest"
  /\ ~ExactCanStart
  /\ ~HeavyCanStart
  /\ recheck' = (recheck \/ HeavyUnitsAllow)
  /\ IF turn = "changed" THEN Changed ELSE UNCHANGED watchVars
  /\ turn' = "rest"
  /\ UNCHANGED <<queueVars, memoryUsed>>

(* A lease's release, at most once: later calls find the search gone. *)
Release(s) ==
  /\ turn = "rest"
  /\ s \in active
  /\ active' = active \ {s}
  /\ ForgetIdleSessions(Waiting, active \ {s})
  /\ IF stopping THEN Changed /\ UNCHANGED turn
                 ELSE UNCHANGED watchVars /\ turn' = "changed"
  /\ UNCHANGED <<queued, stopping, recheck, memoryUsed>>

(* Mutant: a departure starts nobody it held back. *)
LeaveQuietly(i) ==
  /\ turn = "rest"
  /\ queued' = Without(queued, i)
  /\ ForgetIdleSessions(Waiting \ {queued[i]}, active)
  /\ UNCHANGED <<active, stopping, recheck, turn, memoryUsed, watchVars>>

(* removeQueued: the job of a waiting search is stopped. *)
Leave(i) ==
  /\ turn = "rest"
  /\ queued' = Without(queued, i)
  /\ ForgetIdleSessions(Waiting \ {queued[i]}, active)
  /\ turn' = "changed"
  /\ UNCHANGED <<active, stopping, recheck, memoryUsed, watchVars>>

(* The memoryRecheck timer fires. *)
MemoryRecheck ==
  /\ turn = "rest"
  /\ recheck
  /\ recheck' = FALSE
  /\ turn' = "quiet"
  /\ UNCHANGED <<queueVars, memoryUsed, watchVars>>

(* Mutant: the waiting searches stay in the queue. *)
StopKeepsQueue ==
  /\ turn = "rest"
  /\ ~stopping
  /\ stopping' = TRUE
  /\ recheck' = FALSE
  /\ UNCHANGED <<queued, served, servedBefore, active, turn, memoryUsed, watchVars>>

(* stopAccepting: the waiting searches are turned away, none starts again. *)
StopAccepting ==
  /\ turn = "rest"
  /\ ~stopping
  /\ stopping' = TRUE
  /\ recheck' = FALSE
  /\ queued' = <<>>
  /\ IF queued # <<>> THEN ForgetIdleSessions({}, active) /\ Changed
                      ELSE UNCHANGED <<served, servedBefore, watchVars>>
  /\ UNCHANGED <<active, turn, memoryUsed>>

(* The unit's memory moves on its own; it tells nobody. *)
MemoryMoves(reading) ==
  /\ reading # memoryUsed
  /\ memoryUsed' = reading
  /\ UNCHANGED <<queueVars, recheck, turn, watchVars>>

(* GET /api/search-capacity with the version last answered: held while it   *)
(* is the current one, answered with the snapshot otherwise.                *)
Watch(w) ==
  /\ turn = "rest"
  /\ w \notin parked
  /\ IF w \in upToDate
       THEN /\ parked' = parked \union {w}
            /\ UNCHANGED <<upToDate, shown>>
       ELSE /\ upToDate' = upToDate \union {w}
            /\ shown' = [shown EXCEPT ![w] = Occupancy]
            /\ UNCHANGED parked
  /\ UNCHANGED <<queueVars, recheck, turn, memoryUsed>>

(* The held read times out, or its page goes away. *)
WatchEnds(w) ==
  /\ turn = "rest"
  /\ w \in parked
  /\ parked' = parked \ {w}
  /\ UNCHANGED <<upToDate, shown, queueVars, recheck, turn, memoryUsed>>

StartQueued == (\E i \in DOMAIN queued : StartExact(i) \/ StartHeavy(i)) \/ EndTurn

Next ==
  \/ \E s \in Search : Acquire(s) \/ Release(s)
  \/ \E i \in DOMAIN queued : StartExact(i) \/ StartHeavy(i) \/ Leave(i)
  \/ EndTurn \/ MemoryRecheck \/ StopAccepting
  \/ \E reading \in MemoryReadings : MemoryMoves(reading)
  \/ \E w \in Watcher : Watch(w) \/ WatchEnds(w)

Spec == Init /\ [][Next]_vars

(* A call runs to its end, a search that runs ends (every provider request  *)
(* has a deadline), and an armed timer fires.  Nobody has to ask, stop,     *)
(* follow or shut down, and memory need not move.  Releases and the timer   *)
(* are strongly fair because a turn in progress disables them for its       *)
(* length, which the event loop's weak fairness does not notice.            *)
Fairness ==
  /\ WF_vars(StartQueued)
  /\ \A s \in Search : SF_vars(Release(s))
  /\ SF_vars(MemoryRecheck)

FairSpec == Spec /\ Fairness

-----------------------------------------------------------------------------
(* Type correctness. *)
TypeOK ==
  /\ queued \in Seq(Search)
  /\ active \subseteq Search
  /\ served \subseteq Session
  /\ servedBefore \subseteq Session \X Session
  /\ recheck \in BOOLEAN
  /\ stopping \in BOOLEAN
  /\ turn \in {"rest", "quiet", "changed"}
  /\ memoryUsed \in MemoryReadings
  /\ parked \subseteq Watcher
  /\ upToDate \subseteq Watcher
  /\ DOMAIN shown = Watcher

(* Heavy work never holds more than the units left by the reserve: two      *)
(* months, or a long range beside anything heavy, never run together.       *)
HeavyWithinLimit == HeavyUnits <= HeavyLimitUnits

(* The reserve does what it is for: between calls, an exact search waits    *)
(* only while exact searches already fill the reserve, whatever else runs   *)
(* or waits.  It rests on HeavyWithinLimit: one more unit always fits.      *)
ReserveServesExact ==
  turn = "rest" /\ ExactOf(Waiting) # {} => ExactUnits >= ExactReservedUnits

(* Between calls nothing that could start is left waiting, unless memory    *)
(* held it back, and then the timer that looks again is armed: no release,  *)
(* departure or recheck leaves capacity idle beside a search it would fit.  *)
NoIdleCapacity ==
  turn = "rest" => ~ExactCanStart /\ (HeavyUnitsAllow => recheck /\ HeavyUnits > 0)

(* A search waits or runs, never both and never twice: a lease is admitted  *)
(* once for each request.                                                   *)
OnePlaceEach ==
  /\ \A i, j \in DOMAIN queued : queued[i] = queued[j] => i = j
  /\ Waiting \intersect active = {}

(* Once the runner stops accepting, the queue stays empty and no turn or    *)
(* timer is left behind that could start anything.                          *)
StopIsFinal == stopping => queued = <<>> /\ turn = "rest" /\ ~recheck

(* The sessions remembered for fairness are exactly sessions at work, and   *)
(* their order is total, so that no comparison of isFairer is arbitrary and *)
(* the map cannot grow with every browser that ever searched.               *)
ServedAreWorking ==
  /\ served \subseteq {SessionOf[s] : s \in active \union Waiting}
  /\ servedBefore \subseteq served \X served
  /\ \A x, y \in served : x # y => (<<x, y>> \in servedBefore <=> <<y, x>> \notin servedBefore)

(* A page held in waitForChange has seen the occupancy as it is: no change  *)
(* of capacity goes by without waking it.                                   *)
NoMissedChange ==
  turn = "rest" => \A w \in parked \union upToDate : shown[w] = Occupancy

(* The books of admission are true at every moment: each search has one     *)
(* place, the heavy ones keep to their limit, the sessions remembered for    *)
(* fairness are those at work (ServedAreWorking), a stop leaves nobody       *)
(* queued (StopIsFinal) and no page waits on capacity that changed           *)
(* (NoMissedChange).                                                         *)
BooksAreTrue ==
  /\ TypeOK /\ OnePlaceEach /\ HeavyWithinLimit
  /\ ServedAreWorking /\ StopIsFinal /\ NoMissedChange

(* A session's heavy searches start in the order it asked for them, and     *)
(* exact searches start in the order anyone did.                            *)
StartsInOrder ==
  [][\A i, j \in DOMAIN queued :
       (/\ i < j
        /\ IF IsHeavy(queued[i]) THEN SessionOf[queued[i]] = SessionOf[queued[j]] ELSE TRUE
        /\ IsHeavy(queued[i]) <=> IsHeavy(queued[j])
        /\ queued[j] \in active')
       => queued[i] \in active']_vars

(* From some time on no session but two, the search's own and one other,   *)
(* asks for heavy work.                                                     *)
AtMostOneRival(s, other) ==
  <>[][\A x \in Search :
         IsHeavy(x) /\ Acquire(x) => SessionOf[x] \in {SessionOf[s], other}]_vars

(* How the searches that wait get their turn (pickNext), in any number of   *)
(* sessions: an exact search starts whoever keeps asking, and a heavy one   *)
(* starts unless two other sessions keep asking for heavy work, unless it   *)
(* leaves or is turned away.                                                *)
WaitingStarts ==
  /\ \A s \in ExactOf(Search) : s \in Waiting ~> s \notin Waiting
  /\ \A s \in HeavyOf(Search) : \A other \in Session \ {SessionOf[s]} :
       AtMostOneRival(s, other) => (s \in Waiting ~> s \notin Waiting)

(* After stopAccepting the running searches drain. *)
StopDrains == stopping ~> active = {}

(* What the controller promises whoever asks, its queue order aside.        *)
Lease == INSTANCE SearchLease WITH
  waiting <- Waiting, running <- active, stopped <- stopping,
  Compatible <- {S \in SUBSET Search : UnitsOf(HeavyOf(S)) <= HeavyLimitUnits}

(* Each call, taken apart into its turns, is a step of a request's life:    *)
(* asked, granted beside what it may run beside, given up, returned; and    *)
(* none is granted after stopAccepting or dropped without being answered.   *)
ImplementsLease == Lease!LeaseSpec

-----------------------------------------------------------------------------
(* What the documents say. *)

(* src/src/search-admission.ts:41-42, "A heavy search that does not fit yet *)
(* is not overtaken by another heavy one, so the largest search is never    *)
(* starved."                                                                *)
LargestNeverStarved ==
  \A s \in Search :
    CostUnits(s) = HeavyLimitUnits => (s \in Waiting ~> s \notin Waiting)
=============================================================================
