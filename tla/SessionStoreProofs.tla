-------------------------- MODULE SessionStoreProofs --------------------------
(* What holds of the session store for any jobs, offers, clock and budgets:  *)
(* it knows what is on disk, writes what it owes, and loses nothing that was *)
(* finished to eviction, refused writes, crashes and stops.                  *)
(* The sums of the budgets stay uninterpreted: which of the evictable jobs   *)
(* leave memory, and which rows a boot reads, is any choice.                 *)
EXTENDS SessionStore, FiniteSetTheorems, TLAPS

-----------------------------------------------------------------------------
(* The inductive invariant, job by job. *)

(* The maps, and the rows, have their types. *)
StoreType(s) ==
  s \in [mem : [Job -> Record], deferred : SUBSET Job, evicted : [Job -> {Never} \union 0..MaxNow],
         evictedPaths : [Job -> SUBSET Offer], known : [Job -> {"none", "stale", "current"}],
         knownPaths : [Job -> SUBSET Offer]]

DiskType(d) == d \in [row : [Job -> Row], pathRow : [Job -> SUBSET Offer]]

(* The job is believed on disk as it is there. *)
KnowsRow(s, d, j) ==
  /\ s.known[j] # "none" <=> d.row[j].status # "none"
  /\ s.knownPaths[j] = d.pathRow[j]
  /\ s.known[j] = "current" /\ Resident(s, j) =>
       /\ d.row[j].status = s.mem[j].status
       /\ d.row[j].offers = s.mem[j].offers
       /\ d.row[j].done = s.mem[j].done

(* A job that was evicted is whole on disk, and only there. *)
EvictedWhole(s, d, j) ==
  /\ s.evicted[j] # Never =>
       /\ s.mem[j].status = "gone"
       /\ d.row[j].status = "completed"
       /\ s.evictedPaths[j] = d.pathRow[j]
  /\ s.evicted[j] = Never => s.evictedPaths[j] = {}

(* A job that was not created left no trace, and only a running one defers. *)
NoTrace(s, j) ==
  /\ s.mem[j].status = "none" =>
       s.known[j] = "none" /\ s.knownPaths[j] = {} /\ s.evicted[j] = Never
  /\ j \in s.deferred => s.mem[j].status = "running"

(* A finished row has the paths of its offers and is of a finished job, with *)
(* the offers it has in memory, and not used later than it was there; of one *)
(* dropped from memory it is past its idle time.                             *)
RowIsWhole(s, d, t, j) ==
  /\ s.mem[j].idle <= t /\ d.row[j].idle <= t
  /\ d.row[j].status = "completed" =>
       /\ d.row[j].offers = d.pathRow[j]
       /\ s.mem[j].status \in {"completed", "gone"}
       /\ s.mem[j].status = "completed" =>
            s.mem[j].offers = d.row[j].offers /\ d.row[j].idle <= s.mem[j].idle
       /\ s.mem[j].status = "gone" /\ s.evicted[j] = Never => t - d.row[j].idle > TTL

Coherent(s, d, t, j) ==
  KnowsRow(s, d, j) /\ EvictedWhole(s, d, j) /\ NoTrace(s, j) /\ RowIsWhole(s, d, t, j)

IInv ==
  /\ TypeOK
  /\ \A j \in Job : Coherent(store, disk, now, j)
  /\ OwedIsScheduled
  /\ NoMissedChange

-----------------------------------------------------------------------------
(* The record of a job that is not in memory. *)
LEMMA GoneRecord ==
  /\ Blank \in Record /\ [Blank EXCEPT !.status = "gone"] \in Record
  /\ [Blank EXCEPT !.status = "gone"].status = "gone"
  /\ [Blank EXCEPT !.status = "gone"].idle = 0
<1>1. 0 \in 0..MaxNow /\ {} \in SUBSET Offer /\ 0 \in Nat
  BY StoreAssumption
<1>2. Blank \in Record
  BY <1>1 DEF Blank, Record
<1>3. [Blank EXCEPT !.status = "gone"] \in Record
  BY <1>2 DEF Record
<1> QED
  BY <1>2, <1>3 DEF Blank

-----------------------------------------------------------------------------
(* What a write carries. *)

(* The fields of the store after a write that was accepted. *)
LEMMA SavedFields ==
  ASSUME NEW s, StoreType(s)
  PROVE  /\ Saved(s).mem = s.mem /\ Saved(s).deferred = s.deferred
         /\ Saved(s).evicted = s.evicted /\ Saved(s).evictedPaths = s.evictedPaths
         /\ \A j \in Job : /\ Saved(s).known[j] = IF j \in Changed(s) THEN "current"
                                                 ELSE IF j \in Removed(s) THEN "none"
                                                 ELSE s.known[j]
                           /\ Saved(s).knownPaths[j] = PathsLeft(s, j)
         /\ StoreType(Saved(s))
<1>1. \A j \in Job : PathsLeft(s, j) \in SUBSET Offer
  BY DEF StoreType, PathsLeft, ActivePaths, Record
<1> DEFINE known == [j \in Job |-> IF j \in Changed(s) THEN "current"
                                 ELSE IF j \in Removed(s) THEN "none" ELSE s.known[j]]
           paths == [j \in Job |-> PathsLeft(s, j)]
<1>2. known \in [Job -> {"none", "stale", "current"}] /\ paths \in [Job -> SUBSET Offer]
  BY <1>1 DEF StoreType
<1>3. Saved(s) = [s EXCEPT !.known = known, !.knownPaths = paths]
  BY DEF Saved
<1> HIDE DEF known, paths
<1>7. StoreType(Saved(s)) /\ Saved(s).known = known /\ Saved(s).knownPaths = paths
  BY <1>2, <1>3 DEF StoreType
<1>8. /\ Saved(s).mem = s.mem /\ Saved(s).deferred = s.deferred
      /\ Saved(s).evicted = s.evicted /\ Saved(s).evictedPaths = s.evictedPaths
  BY DEF StoreType, Saved
<1> QED
  BY <1>7, <1>8 DEF known, paths

(* A write keeps the maps and the file in agreement. *)
LEMMA SavedCoherent ==
  ASSUME NEW s, NEW d, NEW t \in 0..MaxNow, StoreType(s), DiskType(d),
         \A j \in Job : Coherent(s, d, t, j)
  PROVE  /\ DiskType(SavedDisk(s, d))
         /\ \A j \in Job : Coherent(Saved(s), SavedDisk(s, d), t, j)
<1>1. \A j \in Job : PathsLeft(s, j) \in SUBSET Offer /\ ActivePaths(s, j) \in SUBSET Offer
  BY DEF StoreType, PathsLeft, ActivePaths, Record
<1>2. \A j \in Job : RowOf(s.mem[j]) \in Row \/ j \notin Changed(s)
  BY DEF StoreType, RowOf, Row, Record, Changed, Active, Persistable
<1>3. DiskType(SavedDisk(s, d))
  <2>1. NoRow \in Row
    BY StoreAssumption DEF NoRow, Row
  <2> QED
    BY <1>1, <1>2, <2>1 DEF DiskType, SavedDisk
<1>4. ASSUME NEW j \in Job
      PROVE  Coherent(Saved(s), SavedDisk(s, d), t, j)
  <2> DEFINE e == SavedDisk(s, d)
             r == Saved(s)
  <2>1. /\ e.row[j] = IF j \in Changed(s) THEN RowOf(s.mem[j])
                      ELSE IF j \in Removed(s) THEN NoRow ELSE d.row[j]
        /\ e.pathRow[j] = (d.pathRow[j] \ (s.knownPaths[j] \ PathsLeft(s, j)))
                            \union (ActivePaths(s, j) \ s.knownPaths[j])
    BY DEF SavedDisk
  <2>2. /\ r.mem = s.mem /\ r.deferred = s.deferred
        /\ r.evicted = s.evicted /\ r.evictedPaths = s.evictedPaths
        /\ r.known[j] = IF j \in Changed(s) THEN "current"
                        ELSE IF j \in Removed(s) THEN "none" ELSE s.known[j]
        /\ r.knownPaths[j] = PathsLeft(s, j)
    BY SavedFields
  <2> HIDE DEF e, r
  <2>3. e.pathRow[j] = r.knownPaths[j]
    BY <2>1, <2>2 DEF Coherent, KnowsRow, PathsLeft
  <2>4. KnowsRow(r, e, j)
    BY <2>1, <2>2, <2>3 DEF Coherent, KnowsRow, Resident, Changed, Active, Removed, Persistable, RowOf, NoRow
  <2>5. EvictedWhole(r, e, j)
    BY <2>1, <2>2, <2>3 DEF Coherent, KnowsRow, EvictedWhole, Changed, Active, Removed, Persistable,
                            PathsLeft, ActivePaths
  <2>6. NoTrace(r, j)
    BY <2>2 DEF Coherent, NoTrace, EvictedWhole, Changed, Active, Removed, Persistable,
                PathsLeft, ActivePaths
  <2>7. RowIsWhole(r, e, t, j)
    <3>1. e.row[j].status = "completed" => e.row[j].offers = e.pathRow[j]
      BY <2>1, <2>2, <2>3 DEF Coherent, KnowsRow, EvictedWhole, NoTrace, RowIsWhole, Changed, Active,
                              Removed, Persistable, PathsLeft, ActivePaths, RowOf, NoRow, Resident
    <3>2. s.mem[j].idle \in Int /\ t \in Int
      BY DEF StoreType, Record
    <3> QED
      BY <2>1, <2>2, <3>1, <3>2 DEF Coherent, RowIsWhole, RowOf, NoRow, Changed, Active, Persistable
  <2> QED
    BY <2>4, <2>5, <2>6, <2>7 DEF Coherent, e, r
<1> QED
  BY <1>3, <1>4

(* A write that was accepted leaves nothing to write. *)
LEMMA SavedOwesNothing ==
  ASSUME NEW s, StoreType(s)
  PROVE  ~Owes(Saved(s))
<1>1. \A j \in Job : /\ j \notin Changed(Saved(s)) /\ j \notin Removed(Saved(s))
                     /\ PathsLeft(Saved(s), j) = Saved(s).knownPaths[j]
  <2> TAKE j \in Job
  <2>1. j \in Active(Saved(s)) <=> j \in Active(s)
    BY SavedFields DEF Active, Persistable
  <2>2. ActivePaths(Saved(s), j) = ActivePaths(s, j)
    BY SavedFields DEF ActivePaths, Persistable
  <2> DEFINE r == Saved(s)
  <2>a. /\ r.known[j] = IF j \in Changed(s) THEN "current"
                        ELSE IF j \in Removed(s) THEN "none" ELSE s.known[j]
        /\ r.deferred = s.deferred /\ r.evicted = s.evicted
    BY SavedFields
  <2>b. j \in Active(r) <=> j \in Active(s)
    BY <2>1
  <2> HIDE DEF r
  <2>3. j \notin Changed(r)
    BY <2>a, <2>b DEF Changed, Removed
  <2>4. j \notin Removed(r)
    BY <2>a, <2>b DEF Removed, Changed
  <2>5. PathsLeft(Saved(s), j) = Saved(s).knownPaths[j]
    BY SavedFields, <2>2 DEF PathsLeft
  <2> QED
    BY <2>3, <2>4, <2>5 DEF r
<1> QED
  BY <1>1 DEF Owes, Changed, Removed, Active

-----------------------------------------------------------------------------
(* What leaves memory for the disk. *)

(* What an eviction leaves alone, and what it moves from memory to the     *)
(* index of the evicted.                                                   *)
LEMMA EvictFields ==
  ASSUME NEW s, StoreType(s), NEW gone \in SUBSET Job
  PROVE  /\ Evict(s, gone).known = s.known /\ Evict(s, gone).knownPaths = s.knownPaths
         /\ Evict(s, gone).deferred = s.deferred \ gone
         /\ \A j \in Job :
              /\ Evict(s, gone).mem[j] = IF j \in gone THEN [Blank EXCEPT !.status = "gone"]
                                         ELSE s.mem[j]
              /\ Evict(s, gone).evicted[j] = IF j \in gone THEN s.mem[j].idle ELSE s.evicted[j]
              /\ Evict(s, gone).evictedPaths[j] = IF j \in gone THEN s.mem[j].offers
                                                  ELSE s.evictedPaths[j]
         /\ StoreType(Evict(s, gone))
<1>1. [Blank EXCEPT !.status = "gone"] \in Record
  BY GoneRecord
<1>2. \A j \in Job : s.mem[j].idle \in 0..MaxNow /\ s.mem[j].offers \in SUBSET Offer
  BY DEF StoreType, Record
<1> DEFINE mem == [j \in Job |-> IF j \in gone THEN [Blank EXCEPT !.status = "gone"] ELSE s.mem[j]]
           evicted == [j \in Job |-> IF j \in gone THEN s.mem[j].idle ELSE s.evicted[j]]
           paths == [j \in Job |-> IF j \in gone THEN s.mem[j].offers ELSE s.evictedPaths[j]]
<1>3. /\ mem \in [Job -> Record] /\ evicted \in [Job -> {Never} \union 0..MaxNow]
      /\ paths \in [Job -> SUBSET Offer]
  BY <1>1, <1>2 DEF StoreType
<1>4. Evict(s, gone) = [s EXCEPT !.mem = mem, !.deferred = s.deferred \ gone, !.evicted = evicted,
                                 !.evictedPaths = paths]
  BY DEF Evict, StoreType
<1> HIDE DEF mem, evicted, paths
<1> DEFINE deferred == s.deferred \ gone
<1>a. deferred \in SUBSET Job
  BY DEF StoreType
<1>b. Evict(s, gone) = [s EXCEPT !.mem = mem, !.deferred = deferred, !.evicted = evicted,
                                 !.evictedPaths = paths]
  BY <1>4
<1> HIDE DEF deferred
<1>5. /\ StoreType(Evict(s, gone)) /\ Evict(s, gone).mem = mem /\ Evict(s, gone).evicted = evicted
      /\ Evict(s, gone).evictedPaths = paths /\ Evict(s, gone).deferred = deferred
      /\ Evict(s, gone).known = s.known /\ Evict(s, gone).knownPaths = s.knownPaths
  BY <1>3, <1>a, <1>b DEF StoreType
<1> QED
  BY <1>5 DEF mem, evicted, paths, deferred

(* A job leaves memory whole: the file has its row and its paths. *)
LEMMA EvictCoherent ==
  ASSUME NEW s, NEW d, NEW t \in 0..MaxNow, StoreType(s), DiskType(d),
         \A j \in Job : Coherent(s, d, t, j),
         NEW gone \in SUBSET Weighed(s), \A j \in gone : s.mem[j].status = "completed"
  PROVE  \A j \in Job : Coherent(Evict(s, gone), d, t, j)
<1> DEFINE e == Evict(s, gone)
<1>1. gone \in SUBSET Job
  BY DEF Weighed
<1>2. /\ e.known = s.known /\ e.knownPaths = s.knownPaths /\ e.deferred = s.deferred \ gone
      /\ \A j \in Job :
           /\ e.mem[j] = IF j \in gone THEN [Blank EXCEPT !.status = "gone"] ELSE s.mem[j]
           /\ e.evicted[j] = IF j \in gone THEN s.mem[j].idle ELSE s.evicted[j]
           /\ e.evictedPaths[j] = IF j \in gone THEN s.mem[j].offers ELSE s.evictedPaths[j]
  BY <1>1, EvictFields
<1> HIDE DEF e
<1>3. ASSUME NEW j \in Job, j \notin gone
      PROVE  Coherent(e, d, t, j)
  BY <1>2, <1>3 DEF Coherent, KnowsRow, EvictedWhole, NoTrace, RowIsWhole, Resident
<1>4. ASSUME NEW j \in Job, j \in gone
      PROVE  Coherent(e, d, t, j)
  <2>1. /\ s.known[j] = "current" /\ s.mem[j].status = "completed" /\ Resident(s, j)
        /\ d.row[j].status = "completed" /\ d.row[j].offers = s.mem[j].offers
        /\ d.row[j].offers = d.pathRow[j]
    BY <1>4 DEF Weighed, Coherent, KnowsRow, RowIsWhole
  <2>2. e.mem[j].status = "gone" /\ e.mem[j].idle = 0
    BY <1>2, <1>4, GoneRecord
  <2>3. s.mem[j].idle \in Nat
    BY StoreAssumption DEF StoreType, Record
  <2>4. e.evicted[j] # Never /\ e.evictedPaths[j] = d.pathRow[j] /\ j \notin e.deferred
    <3>1. s.mem[j].idle # Never
      BY <2>3 DEF Never
    <3> QED
      BY <1>2, <1>4, <2>1, <3>1
  <2>5. KnowsRow(e, d, j)
    BY <1>2, <2>2 DEF Coherent, KnowsRow, Resident
  <2>6. EvictedWhole(e, d, j)
    BY <2>1, <2>2, <2>4 DEF EvictedWhole
  <2>7. NoTrace(e, j)
    BY <2>2, <2>4 DEF NoTrace
  <2>8. RowIsWhole(e, d, t, j)
    BY <2>1, <2>2, <2>4, StoreAssumption DEF RowIsWhole, Coherent
  <2> QED
    BY <2>5, <2>6, <2>7, <2>8 DEF Coherent
<1> QED
  BY <1>3, <1>4 DEF e

(* Eviction owes the file nothing new. *)
LEMMA EvictOwesNothing ==
  ASSUME NEW s, NEW d, NEW t \in 0..MaxNow, StoreType(s), DiskType(d),
         \A j \in Job : Coherent(s, d, t, j),
         NEW gone \in SUBSET Weighed(s), \A j \in gone : s.mem[j].status = "completed",
         ~Owes(s)
  PROVE  ~Owes(Evict(s, gone))
<1> DEFINE e == Evict(s, gone)
<1>1. gone \in SUBSET Job
  BY DEF Weighed
<1>2. /\ e.known = s.known /\ e.knownPaths = s.knownPaths /\ e.deferred = s.deferred \ gone
      /\ \A j \in Job :
           /\ e.mem[j] = IF j \in gone THEN [Blank EXCEPT !.status = "gone"] ELSE s.mem[j]
           /\ e.evicted[j] = IF j \in gone THEN s.mem[j].idle ELSE s.evicted[j]
           /\ e.evictedPaths[j] = IF j \in gone THEN s.mem[j].offers ELSE s.evictedPaths[j]
  BY <1>1, EvictFields
<1> HIDE DEF e
<1>3. ASSUME NEW j \in Job
      PROVE  /\ j \notin Changed(s) /\ j \notin Removed(s)
             /\ PathsLeft(s, j) = s.knownPaths[j]
  BY DEF Owes
<1>4. ASSUME NEW j \in Job, j \notin gone
      PROVE  j \notin Changed(e) /\ j \notin Removed(e) /\ PathsLeft(e, j) = e.knownPaths[j]
  BY <1>2, <1>3, <1>4 DEF Changed, Removed, Active, Persistable, PathsLeft, ActivePaths
<1>5. ASSUME NEW j \in Job, j \in gone
      PROVE  j \notin Changed(e) /\ j \notin Removed(e) /\ PathsLeft(e, j) = e.knownPaths[j]
  <2>1. /\ s.known[j] = "current" /\ s.mem[j].status = "completed" /\ Resident(s, j)
        /\ d.row[j].status = "completed" /\ d.row[j].offers = s.mem[j].offers
        /\ d.row[j].offers = d.pathRow[j] /\ s.knownPaths[j] = d.pathRow[j]
    BY <1>5 DEF Weighed, Coherent, KnowsRow, RowIsWhole
  <2>2. e.mem[j].status = "gone"
    BY <1>2, <1>5, GoneRecord
  <2>3. s.mem[j].idle \in Nat
    BY StoreAssumption DEF StoreType, Record
  <2>4. e.evicted[j] # Never /\ e.evictedPaths[j] = e.knownPaths[j]
    <3>1. s.mem[j].idle # Never
      BY <2>3 DEF Never
    <3> QED
      BY <1>2, <1>5, <2>1, <3>1
  <2> QED
    BY <2>2, <2>4 DEF Changed, Removed, Active, Persistable, PathsLeft, ActivePaths
<1>6. Changed(e) = {} /\ Removed(e) = {}
  BY <1>4, <1>5 DEF Changed, Removed, Active
<1> QED
  BY <1>4, <1>5, <1>6 DEF Owes, e

(* Which jobs leave is a choice among those that may. *)
LEMMA ChosenAreEvictable ==
  ASSUME NEW s, NEW gone \in EvictChoices(s)
  PROVE  gone \in SUBSET Weighed(s) /\ \A j \in gone : s.mem[j].status = "completed"
<1>1. gone \in SUBSET Evictable(s)
  BY DEF EvictChoices
<1> QED
  BY <1>1 DEF Evictable

-----------------------------------------------------------------------------
(* A write, refused or not. *)

(* What a write and the enforcement after it leave: agreement with the file,  *)
(* nothing owed unless it was refused, and the jobs that run untouched.       *)
LEMMA WriteCoherent ==
  ASSUME NEW s, NEW d, NEW accepted \in BOOLEAN, StoreType(s), DiskType(d), now \in 0..MaxNow,
         \A j \in Job : Coherent(s, d, now, j),
         Write(s, d, accepted)
  PROVE  /\ StoreType(store') /\ DiskType(disk') /\ refused' \in BOOLEAN
         /\ \A j \in Job : Coherent(store', disk', now, j)
         /\ Owes(store') => refused'
         /\ \A j \in Job : \/ store'.mem[j] = s.mem[j] /\ store'.evicted[j] = s.evicted[j]
                           \/ s.mem[j].status = "completed" /\ store'.mem[j].status = "gone"
<1>1. CASE ~Owes(s)
  BY <1>1 DEF Write
<1>2. CASE Owes(s) /\ ~accepted
  BY <1>2 DEF Write
<1>3. CASE Owes(s) /\ accepted
  <2>1. PICK gone \in EvictChoices(Saved(s)) : store' = Evict(Saved(s), gone)
    BY <1>3 DEF Write
  <2>2. disk' = SavedDisk(s, d) /\ refused' = FALSE
    BY <1>3 DEF Write
  <2>3. /\ StoreType(Saved(s)) /\ DiskType(SavedDisk(s, d)) /\ ~Owes(Saved(s))
        /\ \A j \in Job : Coherent(Saved(s), SavedDisk(s, d), now, j)
    BY SavedFields, SavedCoherent, SavedOwesNothing
  <2>4. gone \in SUBSET Weighed(Saved(s)) /\ \A j \in gone : Saved(s).mem[j].status = "completed"
    BY ChosenAreEvictable, Zenon
  <2>5. gone \in SUBSET Job
    BY <2>4 DEF Weighed
  <2>6. /\ \A j \in Job : Coherent(store', disk', now, j)
        /\ ~Owes(store')
    BY <2>1, <2>2, <2>3, <2>4, EvictCoherent, EvictOwesNothing
  <2>7. StoreType(store')
    BY <2>1, <2>3, <2>5, EvictFields
  <2>8. ASSUME NEW j \in Job
        PROVE  \/ store'.mem[j] = s.mem[j] /\ store'.evicted[j] = s.evicted[j]
               \/ s.mem[j].status = "completed" /\ store'.mem[j].status = "gone"
    <3>1. Saved(s).mem = s.mem /\ Saved(s).evicted = s.evicted
      BY SavedFields
    <3>2. /\ store'.mem[j] = IF j \in gone THEN [Blank EXCEPT !.status = "gone"] ELSE Saved(s).mem[j]
          /\ store'.evicted[j] = IF j \in gone THEN Saved(s).mem[j].idle ELSE Saved(s).evicted[j]
      BY <2>1, <2>3, <2>5, EvictFields
    <3> QED
      BY <3>1, <3>2, <2>4, GoneRecord
  <2> QED
    BY <2>2, <2>3, <2>6, <2>7, <2>8
<1> QED
  BY <1>1, <1>2, <1>3

-----------------------------------------------------------------------------
(* The sweep of memory and disk. *)

(* What the purge of the expired leaves alone, and what it takes from      *)
(* memory.                                                                 *)
LEMMA PurgedFields ==
  ASSUME NEW s, StoreType(s)
  PROVE  /\ Purged(s).known = s.known /\ Purged(s).knownPaths = s.knownPaths
         /\ Purged(s).evicted = s.evicted /\ Purged(s).evictedPaths = s.evictedPaths
         /\ Purged(s).deferred = s.deferred \ Expired(s)
         /\ \A j \in Job : Purged(s).mem[j] = IF j \in Expired(s) THEN [Blank EXCEPT !.status = "gone"]
                                              ELSE s.mem[j]
         /\ StoreType(Purged(s))
<1> DEFINE mem == [j \in Job |-> IF j \in Expired(s) THEN [Blank EXCEPT !.status = "gone"] ELSE s.mem[j]]
           deferred == s.deferred \ Expired(s)
<1>1. mem \in [Job -> Record] /\ deferred \in SUBSET Job
  BY GoneRecord DEF StoreType
<1>2. Purged(s) = [s EXCEPT !.mem = mem, !.deferred = deferred]
  BY DEF Purged, StoreType
<1> HIDE DEF mem, deferred
<1>3. /\ StoreType(Purged(s)) /\ Purged(s).mem = mem /\ Purged(s).deferred = deferred
      /\ Purged(s).known = s.known /\ Purged(s).knownPaths = s.knownPaths
      /\ Purged(s).evicted = s.evicted /\ Purged(s).evictedPaths = s.evictedPaths
  BY <1>1, <1>2 DEF StoreType
<1> QED
  BY <1>3 DEF mem, deferred

(* What is dropped from memory is past its idle time on disk as well. *)
LEMMA PurgedCoherent ==
  ASSUME NEW s, NEW d, now \in 0..MaxNow, StoreType(s), DiskType(d),
         \A j \in Job : Coherent(s, d, now, j)
  PROVE  \A j \in Job : Coherent(Purged(s), d, now, j)
<1> DEFINE e == Purged(s)
<1>1. /\ e.known = s.known /\ e.knownPaths = s.knownPaths
      /\ e.evicted = s.evicted /\ e.evictedPaths = s.evictedPaths
      /\ e.deferred = s.deferred \ Expired(s)
      /\ \A j \in Job : e.mem[j] = IF j \in Expired(s) THEN [Blank EXCEPT !.status = "gone"] ELSE s.mem[j]
  BY PurgedFields
<1> HIDE DEF e
<1>2. ASSUME NEW j \in Job, j \notin Expired(s)
      PROVE  Coherent(e, d, now, j)
  BY <1>1, <1>2 DEF Coherent, KnowsRow, EvictedWhole, NoTrace, RowIsWhole, Resident
<1>3. ASSUME NEW j \in Job, j \in Expired(s)
      PROVE  Coherent(e, d, now, j)
  <2>1. /\ Resident(s, j) /\ s.mem[j].status # "running" /\ now - s.mem[j].idle > TTL
    BY <1>3 DEF Expired, Idled
  <2>2. e.mem[j].status = "gone" /\ e.mem[j].idle = 0 /\ j \notin e.deferred
    BY <1>1, <1>3, GoneRecord
  <2>3. s.evicted[j] = Never /\ s.evictedPaths[j] = {}
    BY <2>1 DEF Coherent, EvictedWhole, Resident
  <2>4. /\ s.mem[j].idle \in Int /\ d.row[j].idle \in Int /\ now \in Int /\ TTL \in Int /\ 0 <= now
    BY StoreAssumption DEF StoreType, DiskType, Record, Row
  <2>5. d.row[j].status = "completed" => now - d.row[j].idle > TTL
    BY <2>1, <2>4 DEF Coherent, RowIsWhole, Resident
  <2>6. KnowsRow(e, d, j)
    BY <1>1, <2>2 DEF Coherent, KnowsRow, Resident
  <2>7. EvictedWhole(e, d, j) /\ NoTrace(e, j)
    BY <1>1, <2>2, <2>3 DEF EvictedWhole, NoTrace
  <2>8. RowIsWhole(e, d, now, j)
    BY <2>2, <2>4, <2>5 DEF RowIsWhole, Coherent
  <2> QED
    BY <2>6, <2>7, <2>8 DEF Coherent
<1> QED
  BY <1>2, <1>3 DEF e

(* What the pruning of the old takes from the indexes.                     *)
LEMMA PrunedFields ==
  ASSUME NEW s, StoreType(s), NEW old \in SUBSET Job
  PROVE  /\ Pruned(s, old).mem = s.mem /\ Pruned(s, old).deferred = s.deferred
         /\ \A j \in Job :
              /\ Pruned(s, old).evicted[j] = IF j \in old THEN Never ELSE s.evicted[j]
              /\ Pruned(s, old).known[j] = IF j \in old THEN "none" ELSE s.known[j]
              /\ Pruned(s, old).knownPaths[j]
                   = s.knownPaths[j] \ (IF j \in old THEN s.evictedPaths[j] ELSE {})
              /\ Pruned(s, old).evictedPaths[j] = IF j \in old THEN {} ELSE s.evictedPaths[j]
         /\ StoreType(Pruned(s, old))
<1> DEFINE evicted == [j \in Job |-> IF j \in old THEN Never ELSE s.evicted[j]]
           known == [j \in Job |-> IF j \in old THEN "none" ELSE s.known[j]]
           left == [j \in Job |-> s.knownPaths[j] \ (IF j \in old THEN s.evictedPaths[j] ELSE {})]
           paths == [j \in Job |-> IF j \in old THEN {} ELSE s.evictedPaths[j]]
<1>1. /\ evicted \in [Job -> {Never} \union 0..MaxNow]
      /\ known \in [Job -> {"none", "stale", "current"}]
      /\ left \in [Job -> SUBSET Offer] /\ paths \in [Job -> SUBSET Offer]
  BY DEF StoreType
<1>2. Pruned(s, old) = [s EXCEPT !.evicted = evicted, !.known = known, !.knownPaths = left,
                                 !.evictedPaths = paths]
  BY DEF Pruned
<1> HIDE DEF evicted, known, left, paths
<1>3. /\ StoreType(Pruned(s, old)) /\ Pruned(s, old).mem = s.mem /\ Pruned(s, old).deferred = s.deferred
      /\ Pruned(s, old).evicted = evicted /\ Pruned(s, old).known = known
      /\ Pruned(s, old).knownPaths = left /\ Pruned(s, old).evictedPaths = paths
  BY <1>1, <1>2 DEF StoreType
<1> QED
  BY <1>3 DEF evicted, known, left, paths

(* The sweep of the disk takes an old job's row and paths from both sides. *)
LEMMA PrunedCoherent ==
  ASSUME NEW s, NEW d, now \in 0..MaxNow, StoreType(s), DiskType(d),
         \A j \in Job : Coherent(s, d, now, j),
         NEW old \in SUBSET Job, \A j \in old : s.evicted[j] # Never
  PROVE  /\ DiskType(Dropped(d, old))
         /\ \A j \in Job : Coherent(Pruned(s, old), Dropped(d, old), now, j)
<1> DEFINE e == Pruned(s, old)
           f == Dropped(d, old)
<1>1. /\ e.mem = s.mem /\ e.deferred = s.deferred
      /\ \A j \in Job :
           /\ e.evicted[j] = IF j \in old THEN Never ELSE s.evicted[j]
           /\ e.known[j] = IF j \in old THEN "none" ELSE s.known[j]
           /\ e.knownPaths[j] = s.knownPaths[j] \ (IF j \in old THEN s.evictedPaths[j] ELSE {})
           /\ e.evictedPaths[j] = IF j \in old THEN {} ELSE s.evictedPaths[j]
  BY PrunedFields
<1>2. /\ \A j \in Job : /\ f.row[j] = IF j \in old THEN NoRow ELSE d.row[j]
                        /\ f.pathRow[j] = IF j \in old THEN {} ELSE d.pathRow[j]
  BY DEF Dropped
<1>3. DiskType(f)
  <2>1. NoRow \in Row
    BY StoreAssumption DEF NoRow, Row
  <2> QED
    BY <2>1 DEF DiskType, Dropped
<1> HIDE DEF e, f
<1>4. ASSUME NEW j \in Job, j \notin old
      PROVE  Coherent(e, f, now, j)
  <2>1. e.knownPaths[j] = s.knownPaths[j]
    BY <1>1, <1>4
  <2> QED
    BY <1>1, <1>2, <1>4, <2>1 DEF Coherent, KnowsRow, EvictedWhole, NoTrace, RowIsWhole, Resident
<1>5. ASSUME NEW j \in Job, j \in old
      PROVE  Coherent(e, f, now, j)
  <2>1. /\ s.mem[j].status = "gone" /\ s.evictedPaths[j] = d.pathRow[j]
        /\ s.knownPaths[j] = d.pathRow[j]
    BY <1>5 DEF Coherent, EvictedWhole, KnowsRow
  <2>2. f.row[j].status = "none" /\ f.row[j].idle = 0
    BY <1>2, <1>5 DEF NoRow
  <2>3. e.knownPaths[j] = {} /\ f.pathRow[j] = {} /\ e.evicted[j] = Never /\ e.evictedPaths[j] = {}
    BY <1>1, <1>2, <1>5, <2>1
  <2>4. e.known[j] = "none" /\ e.mem[j] = s.mem[j] /\ e.deferred = s.deferred
    BY <1>1, <1>5
  <2>5. KnowsRow(e, f, j) /\ EvictedWhole(e, f, j) /\ NoTrace(e, j)
    BY <2>1, <2>2, <2>3, <2>4 DEF Coherent, KnowsRow, EvictedWhole, NoTrace
  <2>6. RowIsWhole(e, f, now, j)
    BY <2>2, <2>4 DEF Coherent, RowIsWhole
  <2> QED
    BY <2>5, <2>6 DEF Coherent
<1> QED
  BY <1>3, <1>4, <1>5 DEF e, f

(* The sweep owes the file nothing new, but for what it drops from memory. *)
LEMMA PrunedOwesNothing ==
  ASSUME NEW s, NEW d, now \in 0..MaxNow, StoreType(s), DiskType(d),
         \A j \in Job : Coherent(s, d, now, j), ~Owes(s),
         NEW old \in SUBSET Job, \A j \in old : s.evicted[j] # Never
  PROVE  ~Owes(Pruned(s, old))
<1> DEFINE e == Pruned(s, old)
<1>1. /\ e.mem = s.mem /\ e.deferred = s.deferred
      /\ \A j \in Job :
           /\ e.evicted[j] = IF j \in old THEN Never ELSE s.evicted[j]
           /\ e.known[j] = IF j \in old THEN "none" ELSE s.known[j]
           /\ e.knownPaths[j] = s.knownPaths[j] \ (IF j \in old THEN s.evictedPaths[j] ELSE {})
           /\ e.evictedPaths[j] = IF j \in old THEN {} ELSE s.evictedPaths[j]
  BY PrunedFields
<1> HIDE DEF e
<1>2. ASSUME NEW j \in Job
      PROVE  /\ j \notin Changed(s) /\ j \notin Removed(s)
             /\ PathsLeft(s, j) = s.knownPaths[j]
  BY DEF Owes
<1>3. ASSUME NEW j \in Job, j \notin old
      PROVE  j \notin Changed(e) /\ j \notin Removed(e) /\ PathsLeft(e, j) = e.knownPaths[j]
  BY <1>1, <1>2, <1>3 DEF Changed, Removed, Active, Persistable, PathsLeft, ActivePaths
<1>4. ASSUME NEW j \in Job, j \in old
      PROVE  j \notin Changed(e) /\ j \notin Removed(e) /\ PathsLeft(e, j) = e.knownPaths[j]
  <2>1. /\ s.mem[j].status = "gone" /\ s.evictedPaths[j] = d.pathRow[j]
        /\ s.knownPaths[j] = d.pathRow[j]
    BY <1>4 DEF Coherent, EvictedWhole, KnowsRow
  <2> QED
    BY <1>1, <1>4, <2>1 DEF Changed, Removed, Active, Persistable, PathsLeft, ActivePaths
<1>5. Changed(e) = {} /\ Removed(e) = {}
  BY <1>3, <1>4 DEF Changed, Removed, Active
<1> QED
  BY <1>3, <1>4, <1>5 DEF Owes, e

(* The sweep, its enforcement and its write. *)
LEMMA SweepCoherent ==
  ASSUME IInv, NEW accepted \in BOOLEAN, Sweep(accepted)
  PROVE  IInv'
<1> DEFINE purged == Purged(store)
           old == {j \in Job : accepted /\ store.evicted[j] # Never /\ Idled(store.evicted[j])}
           pruned == Pruned(purged, old)
           swept == Dropped(disk, old)
<1>1. StoreType(store) /\ DiskType(disk) /\ now \in 0..MaxNow /\ now' = now
  BY DEF IInv, TypeOK, StoreType, DiskType, Sweep
<1>2. \A j \in Job : Coherent(store, disk, now, j)
  BY DEF IInv
<1>3. /\ StoreType(purged) /\ \A j \in Job : Coherent(purged, disk, now, j)
      /\ purged.evicted = store.evicted
  BY <1>1, <1>2, PurgedFields, PurgedCoherent
<1>4. old \in SUBSET Job /\ \A j \in old : purged.evicted[j] # Never
  BY <1>3
<1>5. PICK gone \in EvictChoices(pruned) : Write(Evict(pruned, gone), swept, accepted)
  BY DEF Sweep
<1> DEFINE left == Evict(pruned, gone)
<1>6. gone \in SUBSET Weighed(pruned) /\ \A j \in gone : pruned.mem[j].status = "completed"
  BY ChosenAreEvictable, Zenon
<1>7. gone \in SUBSET Job
  BY <1>6 DEF Weighed
<1>8. /\ timer' = (timer \/ Expired(store) # {})
      /\ poll' = [j \in Job |-> IF j \in Expired(store) THEN Unparked ELSE poll[j]]
  BY DEF Sweep
<1> HIDE DEF purged, old, pruned, swept, left
<1>9. /\ StoreType(pruned) /\ DiskType(swept)
      /\ \A j \in Job : Coherent(pruned, swept, now, j)
  BY <1>1, <1>3, <1>4, PrunedFields, PrunedCoherent DEF pruned, swept
<1>10. StoreType(left) /\ \A j \in Job : Coherent(left, swept, now, j)
  BY <1>1, <1>6, <1>7, <1>9, EvictFields, EvictCoherent DEF left
<1>11. /\ StoreType(store') /\ DiskType(disk') /\ refused' \in BOOLEAN
       /\ \A j \in Job : Coherent(store', disk', now, j)
       /\ Owes(store') => refused'
       /\ \A j \in Job : \/ store'.mem[j] = left.mem[j] /\ store'.evicted[j] = left.evicted[j]
                         \/ left.mem[j].status = "completed" /\ store'.mem[j].status = "gone"
  BY <1>1, <1>5, <1>9, <1>10, WriteCoherent DEF left
<1>12. ASSUME NEW j \in Job, IsRunning(j)
       PROVE  store'.mem[j] = store.mem[j] /\ j \notin Expired(store)
  <2>1. j \notin Expired(store)
    BY <1>12 DEF Expired, IsRunning
  <2>2. purged.mem[j] = store.mem[j]
    BY <1>1, <2>1, PurgedFields DEF purged
  <2>3. pruned.mem[j] = purged.mem[j]
    BY <1>3, <1>4, PrunedFields DEF pruned
  <2>4. left.mem[j] = pruned.mem[j]
    BY <1>6, <1>7, <1>9, <1>12, <2>2, <2>3, EvictFields DEF left, IsRunning
  <2> QED
    BY <1>11, <1>12, <2>1, <2>2, <2>3, <2>4 DEF IsRunning
<1>13. NoMissedChange'
  BY <1>8, <1>12 DEF IInv, NoMissedChange, IsRunning
<1>14. TypeOK'
  BY <1>1, <1>8, <1>11 DEF IInv, TypeOK, StoreType, DiskType
<1> QED
  BY <1>1, <1>11, <1>13, <1>14 DEF IInv, OwedIsScheduled, Coherent, KnowsRow, EvictedWhole, NoTrace,
     RowIsWhole, Resident

-----------------------------------------------------------------------------
(* The changes of a job in memory. *)

(* A change of a job that has not ended otherwise than well: it is noted as   *)
(* unwritten, its debounce is armed, and its poll is answered.                *)
LEMMA UpdateCoherent ==
  ASSUME IInv, NEW j \in Job, NEW r \in Record, NEW persist \in BOOLEAN,
         Resident(store, j), r.status \notin {"none", "gone"},
         ~persist => r.status = "running",
         store.mem[j].status # "running" => r.status = store.mem[j].status /\ r.offers = store.mem[j].offers,
         Update(j, r, persist)
  PROVE  IInv'
<1>1. StoreType(store) /\ DiskType(disk) /\ now \in 0..MaxNow
  BY DEF IInv, TypeOK, StoreType, DiskType
<1> DEFINE q == [r EXCEPT !.idle = now]
           known == IF store.known[j] = "none" THEN "none" ELSE "stale"
           deferred == IF persist THEN store.deferred \ {j} ELSE store.deferred \union {j}
<1>2. /\ q \in Record /\ q.status = r.status /\ q.offers = r.offers /\ q.idle = now
  BY <1>1 DEF Record
<1>3. /\ store' = [store EXCEPT !.mem = [store.mem EXCEPT ![j] = q],
                                 !.known = [store.known EXCEPT ![j] = known], !.deferred = deferred]
      /\ poll' = [poll EXCEPT ![j] = Unparked] /\ timer' = TRUE
      /\ UNCHANGED <<disk, refused, now>>
  BY <1>1 DEF Update, StoreType
<1>4. deferred \in SUBSET Job /\ known \in {"none", "stale", "current"}
  BY <1>1 DEF StoreType
<1>5. \A k \in Job : (k \in deferred <=> IF k = j THEN ~persist ELSE k \in store.deferred)
  OBVIOUS
<1>6. known # "current" /\ (known = "none" <=> store.known[j] = "none")
  OBVIOUS
<1> HIDE DEF q, known, deferred
<1>7. /\ StoreType(store') /\ store'.deferred = deferred
      /\ store'.mem = [store.mem EXCEPT ![j] = q] /\ store'.known = [store.known EXCEPT ![j] = known]
      /\ store'.evicted = store.evicted /\ store'.evictedPaths = store.evictedPaths
      /\ store'.knownPaths = store.knownPaths
  BY <1>1, <1>2, <1>3, <1>4 DEF StoreType
<1>8. ASSUME NEW k \in Job, k # j
      PROVE  Coherent(store', disk', now, k)
  <2>1. Coherent(store, disk, now, k)
    BY DEF IInv
  <2>2. /\ store'.mem[k] = store.mem[k] /\ store'.known[k] = store.known[k]
        /\ (k \in store'.deferred <=> k \in store.deferred)
    BY <1>1, <1>5, <1>7, <1>8 DEF StoreType
  <2> QED
    BY <1>3, <1>7, <2>1, <2>2 DEF Coherent, KnowsRow, EvictedWhole, NoTrace, RowIsWhole, Resident
<1>9. Coherent(store', disk', now, j)
  <2>1. Coherent(store, disk, now, j)
    BY DEF IInv
  <2>2. /\ store'.mem[j] = q /\ store'.known[j] = known /\ (j \in store'.deferred <=> ~persist)
    BY <1>1, <1>5, <1>7 DEF StoreType
  <2>3. KnowsRow(store', disk', j)
    BY <1>3, <1>6, <1>7, <2>1, <2>2 DEF Coherent, KnowsRow
  <2>4. EvictedWhole(store', disk', j)
    BY <1>3, <1>7, <2>1 DEF Coherent, EvictedWhole, Resident
  <2>5. NoTrace(store', j)
    BY <1>2, <2>2 DEF NoTrace
  <2>6. RowIsWhole(store', disk', now, j)
    <3>1. now \in Int /\ disk.row[j].idle \in Int
      BY <1>1, StoreAssumption DEF DiskType, Row
    <3> QED
      BY <1>2, <1>3, <2>1, <2>2, <3>1 DEF Coherent, RowIsWhole, Resident
  <2> QED
    BY <2>3, <2>4, <2>5, <2>6 DEF Coherent
<1>10. NoMissedChange'
  <2>1. \A k \in Job : k # j => store'.mem[k] = store.mem[k] /\ poll'[k] = poll[k]
    BY <1>3, <1>7 DEF IInv, TypeOK
  <2>2. poll'[j] = Unparked
    BY <1>3 DEF IInv, TypeOK
  <2> QED
    BY <2>1, <2>2 DEF IInv, NoMissedChange, IsRunning
<1>11. TypeOK'
  BY <1>1, <1>3, <1>7 DEF IInv, TypeOK, StoreType, DiskType
<1>12. OwedIsScheduled'
  BY <1>3 DEF OwedIsScheduled
<1> QED
  BY <1>3, <1>8, <1>9, <1>10, <1>11, <1>12 DEF IInv, Coherent, KnowsRow, EvictedWhole, NoTrace,
     RowIsWhole, Resident

(* A job leaves the queue (markStarted).                                   *)
LEMMA UnqueueCoherent ==
  ASSUME IInv, NEW j \in Job, Unqueue(j)
  PROVE  IInv'
<1>1. store.mem[j] \in Record /\ now \in 0..MaxNow
  BY DEF IInv, TypeOK
<1>2. [store.mem[j] EXCEPT !.queued = FALSE] \in Record
  BY <1>1 DEF Record
<1>3. [store.mem[j] EXCEPT !.queued = FALSE].status = "running"
  BY <1>1 DEF Record, Unqueue, IsRunning
<1> QED
  BY <1>1, <1>2, <1>3, UpdateCoherent DEF Unqueue, Resident, IsRunning

(* Offers are shown, and written if they doubled since the last time.      *)
LEMMA ProgressCoherent ==
  ASSUME IInv, NEW j \in Job, NEW offers \in SUBSET Offer, Progress(j, offers)
  PROVE  IInv'
<1> DEFINE count == Cardinality(offers)
           persist == count > 0 /\ (store.mem[j].saved = 0 \/ count >= 2 * store.mem[j].saved)
           saved == IF persist THEN count ELSE store.mem[j].saved
           r == [store.mem[j] EXCEPT !.offers = offers, !.done = now, !.saved = saved]
<1>1. store.mem[j] \in Record /\ now \in 0..MaxNow
  BY DEF IInv, TypeOK
<1>2. count \in Nat
  BY StoreAssumption, FS_Subset, FS_CardinalityType
<1>3. saved \in Nat /\ persist \in BOOLEAN
  BY <1>1, <1>2 DEF Record
<1>4. Update(j, r, persist) /\ store.mem[j].status = "running"
  BY DEF Progress, IsRunning
<1> HIDE DEF saved, persist, count
<1>5. r \in Record /\ r.status = "running"
  BY <1>1, <1>3, <1>4 DEF Record
<1> QED
  BY <1>3, <1>4, <1>5, UpdateCoherent DEF Resident

(* A job completes, fails or is cancelled.                                 *)
LEMMA EndCoherent ==
  ASSUME IInv, NEW j \in Job,
         \/ \E offers \in SUBSET Offer : Complete(j, offers)
         \/ Fail(j)
         \/ \E keep \in BOOLEAN : Cancel(j, keep)
  PROVE  IInv'
<1>1. store.mem[j] \in Record /\ now \in 0..MaxNow /\ 0 \in Nat
  BY DEF IInv, TypeOK
<1>2. store.mem[j].status = "running"
  BY DEF Complete, Fail, Cancel, IsRunning
<1>3. PICK r \in Record : Update(j, r, TRUE) /\ r.status \in {"completed", "failed", "cancelled"}
  <2>1. ASSUME NEW offers \in SUBSET Offer, Complete(j, offers)
        PROVE  \E r \in Record : Update(j, r, TRUE) /\ r.status \in {"completed", "failed", "cancelled"}
    <3> DEFINE r == [store.mem[j] EXCEPT !.offers = offers, !.status = "completed", !.done = now]
    <3>1. r \in Record /\ r.status = "completed"
      BY <1>1 DEF Record
    <3>2. Update(j, r, TRUE)
      BY <2>1 DEF Complete
    <3> QED
      BY <3>1, <3>2
  <2>2. ASSUME Fail(j)
        PROVE  \E r \in Record : Update(j, r, TRUE) /\ r.status \in {"completed", "failed", "cancelled"}
    <3> DEFINE r == [store.mem[j] EXCEPT !.status = "failed", !.queued = FALSE, !.done = now]
    <3>1. r \in Record /\ r.status = "failed"
      BY <1>1 DEF Record
    <3>2. Update(j, r, TRUE)
      BY <2>2 DEF Fail
    <3> QED
      BY <3>1, <3>2
  <2>3. ASSUME NEW keep \in BOOLEAN, Cancel(j, keep)
        PROVE  \E r \in Record : Update(j, r, TRUE) /\ r.status \in {"completed", "failed", "cancelled"}
    <3> DEFINE r == Cancelled(store.mem[j], keep)
    <3>1. r \in Record /\ r.status \in {"completed", "cancelled"}
      BY <1>1 DEF Record, Cancelled
    <3>2. Update(j, r, TRUE)
      BY <2>3 DEF Cancel
    <3> QED
      BY <3>1, <3>2
  <2> QED
    BY <2>1, <2>2, <2>3
<1> QED
  BY <1>2, <1>3, UpdateCoherent DEF Resident

(* An offer of a job is validated again.                                   *)
LEMMA RevalidateCoherent ==
  ASSUME IInv, NEW j \in Job, Revalidate(j)
  PROVE  IInv'
<1>1. store.mem[j] \in Record
  BY DEF IInv, TypeOK
<1> QED
  BY <1>1, UpdateCoherent DEF Revalidate, Resident

(* A job is made, empty or from an earlier one.                            *)
LEMMA CreateCoherent ==
  ASSUME IInv, NEW j \in Job, NEW offers \in SUBSET Offer, NEW queued \in BOOLEAN,
         Create(j, offers, queued)
  PROVE  IInv'
<1>1. StoreType(store) /\ DiskType(disk) /\ now \in 0..MaxNow
  BY DEF IInv, TypeOK, StoreType, DiskType
<1> DEFINE q == [Blank EXCEPT !.status = "running", !.offers = offers, !.done = now, !.idle = now,
                              !.queued = queued]
           deferred == IF queued THEN store.deferred \union {j} ELSE store.deferred
<1>2. q \in Record /\ q.status = "running" /\ q.idle = now
  BY <1>1, GoneRecord DEF Record
<1>3. /\ store' = [store EXCEPT !.mem = [store.mem EXCEPT ![j] = q], !.deferred = deferred]
      /\ timer' = TRUE /\ UNCHANGED <<disk, refused, poll, now>>
      /\ store.mem[j].status = "none"
  BY <1>1 DEF Create, StoreType
<1>4. deferred \in SUBSET Job /\ \A k \in Job \ {j} : k \in deferred <=> k \in store.deferred
  BY <1>1 DEF StoreType
<1> HIDE DEF q, deferred
<1>5. /\ StoreType(store') /\ store'.deferred = deferred
      /\ store'.mem = [store.mem EXCEPT ![j] = q] /\ store'.known = store.known
      /\ store'.evicted = store.evicted /\ store'.evictedPaths = store.evictedPaths
      /\ store'.knownPaths = store.knownPaths
  BY <1>1, <1>2, <1>3, <1>4 DEF StoreType
<1>6. ASSUME NEW k \in Job, k # j
      PROVE  Coherent(store', disk', now, k)
  <2>1. store'.mem[k] = store.mem[k] /\ (k \in store'.deferred <=> k \in store.deferred)
    BY <1>1, <1>4, <1>5, <1>6 DEF StoreType
  <2> QED
    BY <1>3, <1>5, <2>1 DEF IInv, Coherent, KnowsRow, EvictedWhole, NoTrace, RowIsWhole, Resident
<1>7. Coherent(store', disk', now, j)
  <2>1. store'.mem[j] = q
    BY <1>1, <1>5 DEF StoreType
  <2>2. now \in Int
    BY <1>1
  <2> QED
    BY <1>2, <1>3, <1>5, <2>1, <2>2 DEF IInv, Coherent, KnowsRow, EvictedWhole, NoTrace, RowIsWhole, Resident
<1>8. NoMissedChange'
  <2>1. \A k \in Job : k # j => store'.mem[k] = store.mem[k]
    BY <1>3, <1>5 DEF IInv, TypeOK
  <2>2. poll[j] = Unparked
    BY <1>3 DEF IInv, NoMissedChange, IsRunning
  <2> QED
    BY <1>3, <2>1, <2>2 DEF IInv, NoMissedChange, IsRunning
<1>9. TypeOK'
  BY <1>1, <1>3, <1>5 DEF IInv, TypeOK, StoreType, DiskType
<1>10. OwedIsScheduled'
  BY <1>3 DEF OwedIsScheduled
<1> QED
  BY <1>3, <1>6, <1>7, <1>8, <1>9, <1>10 DEF IInv, Coherent, KnowsRow, EvictedWhole, NoTrace,
     RowIsWhole, Resident

(* An access changes nothing that a write carries. *)
LEMMA TouchCoherent ==
  ASSUME IInv, NEW j \in Job, Touch(j)
  PROVE  IInv'
<1>1. StoreType(store) /\ DiskType(disk) /\ now \in 0..MaxNow
  BY DEF IInv, TypeOK, StoreType, DiskType
<1> DEFINE q == [store.mem[j] EXCEPT !.idle = now]
<1>2. /\ q \in Record /\ q.status = store.mem[j].status /\ q.offers = store.mem[j].offers
      /\ q.done = store.mem[j].done /\ q.idle = now /\ q.queued = store.mem[j].queued
  BY <1>1 DEF StoreType, Record
<1>3. /\ store' = [store EXCEPT !.mem = [store.mem EXCEPT ![j] = q]]
      /\ UNCHANGED <<disk, timer, refused, poll, now>>
  BY <1>1 DEF Touch, StoreType
<1> HIDE DEF q
<1>4. /\ StoreType(store') /\ store'.deferred = store.deferred
      /\ store'.mem = [store.mem EXCEPT ![j] = q] /\ store'.known = store.known
      /\ store'.evicted = store.evicted /\ store'.evictedPaths = store.evictedPaths
      /\ store'.knownPaths = store.knownPaths
  BY <1>1, <1>2, <1>3 DEF StoreType
<1>5. \A k \in Job : /\ store'.mem[k].status = store.mem[k].status
                     /\ store'.mem[k].offers = store.mem[k].offers
                     /\ store'.mem[k].done = store.mem[k].done
                     /\ store'.mem[k].queued = store.mem[k].queued
                     /\ store'.mem[k].idle = IF k = j THEN now ELSE store.mem[k].idle
  BY <1>1, <1>2, <1>4 DEF StoreType
<1>6. ASSUME NEW k \in Job
      PROVE  Coherent(store', disk', now, k)
  <2>1. now \in Int /\ disk.row[k].idle \in Int
    BY <1>1, StoreAssumption DEF DiskType, Row
  <2> QED
    BY <1>3, <1>4, <1>5, <2>1 DEF IInv, Coherent, KnowsRow, EvictedWhole, NoTrace, RowIsWhole, Resident
<1>7. NoMissedChange'
  BY <1>3, <1>5 DEF IInv, NoMissedChange, IsRunning, Seen
<1>8. TypeOK'
  BY <1>1, <1>3, <1>4 DEF IInv, TypeOK, StoreType, DiskType
<1>9. Owes(store') <=> Owes(store)
  <2>1. Active(store') = Active(store)
    BY <1>4, <1>5 DEF Active, Persistable
  <2>2. Changed(store') = Changed(store) /\ Removed(store') = Removed(store)
    BY <1>4, <2>1 DEF Changed, Removed
  <2>3. \A k \in Job : PathsLeft(store', k) = PathsLeft(store, k)
    BY <1>4, <1>5 DEF PathsLeft, ActivePaths, Persistable
  <2> QED
    BY <1>4, <2>2, <2>3 DEF Owes
<1>10. OwedIsScheduled'
  BY <1>3, <1>9 DEF IInv, OwedIsScheduled
<1> QED
  BY <1>3, <1>6, <1>7, <1>8, <1>10 DEF IInv, Coherent, KnowsRow, EvictedWhole, NoTrace,
     RowIsWhole, Resident

(* A poll parks on a revision, or gives up waiting.                        *)
LEMMA PollCoherent ==
  ASSUME IInv, NEW j \in Job, Park(j) \/ PollTimeout(j)
  PROVE  IInv'
<1>a. poll = [k \in Job |-> poll[k]]
  BY DEF IInv, TypeOK
<1>b. /\ UNCHANGED <<store, disk, timer, refused, now>>
      /\ \/ IsRunning(j) /\ poll' = [poll EXCEPT ![j] = Seen(store.mem[j])]
         \/ poll' = [poll EXCEPT ![j] = Unparked]
  BY DEF Park, PollTimeout
<1>1. /\ UNCHANGED <<store, disk, timer, refused, now>>
      /\ \A k \in Job \ {j} : poll'[k] = poll[k]
      /\ \/ poll'[j] = Unparked
         \/ IsRunning(j) /\ poll'[j] = Seen(store.mem[j])
  <2>1. CASE IsRunning(j) /\ poll' = [poll EXCEPT ![j] = Seen(store.mem[j])]
    <3> HIDE DEF Seen
    <3> QED
      BY <1>a, <1>b, <2>1
  <2>2. CASE poll' = [poll EXCEPT ![j] = Unparked]
    <3>1. poll'[j] = Unparked /\ \A k \in Job \ {j} : poll'[k] = poll[k]
      BY <1>a, <2>2
    <3> QED
      BY <1>b, <3>1
  <2> QED
    BY <1>b, <2>1, <2>2
<1>2. TypeOK'
  <2>1. store.mem[j] \in Record
    BY DEF IInv, TypeOK
  <2>2. Seen(store.mem[j]) \in [queued : BOOLEAN, offers : SUBSET Offer]
    BY <2>1 DEF Seen, Record
  <2>3. poll' \in [Job -> {Unparked} \union [queued : BOOLEAN, offers : SUBSET Offer]]
    BY <2>2 DEF IInv, TypeOK, Park, PollTimeout
  <2> QED
    BY <1>1, <2>3 DEF IInv, TypeOK
<1>3. NoMissedChange'
  BY <1>1 DEF IInv, NoMissedChange, IsRunning
<1>4. OwedIsScheduled'
  BY <1>1 DEF IInv, OwedIsScheduled
<1> QED
  BY <1>1, <1>2, <1>3, <1>4 DEF IInv, Coherent, KnowsRow, EvictedWhole, NoTrace, RowIsWhole, Resident

(* The debounce ends in a write, accepted or refused.                      *)
LEMMA PersistCoherent ==
  ASSUME IInv, NEW accepted \in BOOLEAN, PersistTimer(accepted)
  PROVE  IInv'
<1>1. /\ StoreType(store) /\ DiskType(disk) /\ now \in 0..MaxNow /\ now' = now /\ poll' = poll
      /\ timer' = FALSE /\ Write(store, disk, accepted)
  BY DEF IInv, TypeOK, StoreType, DiskType, PersistTimer
<1>2. /\ StoreType(store') /\ DiskType(disk') /\ refused' \in BOOLEAN
      /\ \A j \in Job : Coherent(store', disk', now, j)
      /\ Owes(store') => refused'
      /\ \A j \in Job : store'.mem[j] = store.mem[j] \/ store.mem[j].status = "completed"
  <2>1. \A j \in Job : Coherent(store, disk, now, j)
    BY DEF IInv
  <2> QED
    BY <1>1, <2>1, WriteCoherent
<1>3. NoMissedChange'
  BY <1>1, <1>2 DEF IInv, NoMissedChange, IsRunning
<1>4. TypeOK'
  BY <1>1, <1>2 DEF IInv, TypeOK, StoreType, DiskType
<1> QED
  BY <1>1, <1>2, <1>3, <1>4 DEF IInv, OwedIsScheduled, Coherent, KnowsRow, EvictedWhole, NoTrace,
     RowIsWhole, Resident

(* The grace of the budget ends, and memory is brought back within it.     *)
LEMMA GraceCoherent ==
  ASSUME IInv, GraceEnds
  PROVE  IInv'
<1>1. /\ StoreType(store) /\ DiskType(disk) /\ now \in 0..MaxNow
      /\ \A j \in Job : Coherent(store, disk, now, j)
  BY DEF IInv, TypeOK, StoreType, DiskType
<1>2. PICK gone \in EvictChoices(store) : store' = Evict(store, gone)
  BY DEF GraceEnds
<1>3. UNCHANGED <<disk, timer, refused, poll, now>>
  BY DEF GraceEnds
<1>4. gone \in SUBSET Weighed(store) /\ \A j \in gone : store.mem[j].status = "completed"
  BY ChosenAreEvictable, Zenon
<1>5. gone \in SUBSET Job
  BY <1>4 DEF Weighed
<1>6. /\ StoreType(store') /\ \A j \in Job : Coherent(store', disk, now, j)
      /\ Owes(store') => Owes(store)
  BY <1>1, <1>2, <1>4, <1>5, EvictFields, EvictCoherent, EvictOwesNothing
<1>7. \A j \in Job : store'.mem[j] = store.mem[j] \/ store.mem[j].status = "completed"
  BY <1>1, <1>2, <1>4, <1>5, EvictFields
<1>8. NoMissedChange'
  BY <1>3, <1>7 DEF IInv, NoMissedChange, IsRunning
<1>9. TypeOK'
  BY <1>3, <1>6 DEF IInv, TypeOK, StoreType
<1> QED
  BY <1>3, <1>6, <1>8, <1>9 DEF IInv, OwedIsScheduled, Coherent, KnowsRow, EvictedWhole, NoTrace,
     RowIsWhole, Resident

(* Time passes.                                                            *)
LEMMA TickCoherent ==
  ASSUME IInv, Tick
  PROVE  IInv'
<1>1. now \in 0..MaxNow /\ now' = now + 1 /\ now < MaxNow /\ UNCHANGED <<store, disk, timer, refused, poll>>
  BY DEF IInv, TypeOK, Tick
<1>2. TypeOK'
  BY <1>1, StoreAssumption DEF IInv, TypeOK
<1>3. ASSUME NEW j \in Job
      PROVE  Coherent(store', disk', now', j)
  <2>1. store.mem[j].idle \in Int /\ disk.row[j].idle \in Int /\ now \in Int /\ TTL \in Int
    BY StoreAssumption DEF IInv, TypeOK, Record, Row
  <2>2. Coherent(store, disk, now, j)
    BY DEF IInv
  <2> QED
    BY <1>1, <2>1, <2>2 DEF Coherent, KnowsRow, EvictedWhole, NoTrace, RowIsWhole, Resident
<1>4. NoMissedChange' /\ OwedIsScheduled'
  BY <1>1 DEF IInv, NoMissedChange, OwedIsScheduled, IsRunning
<1> QED
  BY <1>2, <1>3, <1>4 DEF IInv, Coherent, KnowsRow, EvictedWhole, NoTrace, RowIsWhole, Resident

-----------------------------------------------------------------------------
(* A boot of a file. *)

(* A file that a boot can trust: a finished row is whole, and no row is of a  *)
(* job that was never created.                                                *)
Trusted(d) ==
  \A j \in Job :
    /\ d.row[j].idle <= now
    /\ d.row[j].status = "completed" => d.row[j].offers = d.pathRow[j]
    /\ store.mem[j].status = "none" => d.row[j].status = "none"

(* The sweep at boot leaves finished rows that are not past their idle time,  *)
(* and the paths of no others.                                                *)
LEMMA SweptRows ==
  ASSUME NEW d, DiskType(d), now \in 0..MaxNow, Trusted(d)
  PROVE  /\ DiskType(Swept(d)) /\ Trusted(Swept(d))
         /\ \A j \in Job : \/ /\ d.row[j].status = "completed" /\ ~Idled(d.row[j].idle)
                              /\ Swept(d).row[j] = d.row[j] /\ Swept(d).pathRow[j] = d.pathRow[j]
                           \/ /\ d.row[j].status # "completed" \/ Idled(d.row[j].idle)
                              /\ Swept(d).row[j] = NoRow /\ Swept(d).pathRow[j] = {}
<1> DEFINE out == {j \in Job : Idled(d.row[j].idle) \/ d.row[j].status = "running"}
           lost == out \union {j \in Job : ~OnDisk(d, j)}
           e == Swept(d)
<1>1. e = [row |-> [j \in Job |-> IF j \in lost THEN NoRow ELSE d.row[j]],
           pathRow |-> [j \in Job |-> IF j \in lost THEN {} ELSE d.pathRow[j]]]
  BY DEF Swept, Dropped
<1>2. NoRow \in Row /\ NoRow.status = "none" /\ NoRow.idle = 0
  BY StoreAssumption DEF NoRow, Row
<1>3. ASSUME NEW j \in Job
      PROVE  j \in lost <=> d.row[j].status # "completed" \/ Idled(d.row[j].idle)
  <2>1. d.row[j].status \in {"none", "running", "completed"}
    BY DEF DiskType, Row
  <2> QED
    BY <2>1 DEF OnDisk
<1> HIDE DEF lost, e
<1>4. DiskType(e)
  BY <1>1, <1>2 DEF DiskType
<1>5. \A j \in Job : /\ e.row[j] = IF j \in lost THEN NoRow ELSE d.row[j]
                     /\ e.pathRow[j] = IF j \in lost THEN {} ELSE d.pathRow[j]
  BY <1>1
<1>6. Trusted(e)
  BY <1>2, <1>5 DEF Trusted
<1> QED
  BY <1>3, <1>4, <1>5, <1>6 DEF e

(* What a boot makes of a job: it is in memory as it was on disk, or known to *)
(* be on disk only, or nowhere.                                               *)
BootedAs(s, d, j) ==
  /\ s.known[j] \in {"none", "stale", "current"} /\ s.knownPaths[j] = d.pathRow[j]
  /\ j \notin s.deferred
  /\ \/ /\ d.row[j].status = "completed" /\ s.known[j] = "current"
        /\ s.mem[j] = RestoredRecord(d, j)
        /\ s.evicted[j] = Never /\ s.evictedPaths[j] = {}
     \/ /\ d.row[j].status = "completed" /\ s.known[j] # "none"
        /\ s.mem[j].status = "gone" /\ s.mem[j].idle = 0
        /\ s.evicted[j] = d.row[j].idle /\ s.evictedPaths[j] = d.pathRow[j]
     \/ /\ d.row[j].status = "none" /\ d.pathRow[j] = {} /\ s.known[j] = "none"
        /\ s.mem[j].status \in {"none", "gone"} /\ s.mem[j].idle = 0
        /\ store.mem[j].status # "none" => s.mem[j].status = "gone"
        /\ s.evicted[j] = Never /\ s.evictedPaths[j] = {}

(* What a boot reads of a trusted file is as the file has it.              *)
LEMMA LoadedFields ==
  ASSUME NEW d, DiskType(d), Trusted(d),
         \A j \in Job : \/ d.row[j].status = "completed"
                        \/ d.row[j].status = "none" /\ d.pathRow[j] = {},
         NEW in \in RestoreChoices(d)
  PROVE  StoreType(Loaded(d, in)) /\ \A j \in Job : BootedAs(Loaded(d, in), d, j)
<1> DEFINE back == {j \in in : d.row[j].status = "completed"}
           out == {j \in Job : OnDisk(d, j)} \ in
           mem == [j \in Job |-> IF j \in back THEN RestoredRecord(d, j)
                                 ELSE IF store.mem[j].status = "none" THEN Blank
                                 ELSE [Blank EXCEPT !.status = "gone"]]
           evicted == [j \in Job |-> IF j \in out THEN d.row[j].idle ELSE Never]
           paths == [j \in Job |-> IF j \in out THEN d.pathRow[j] ELSE {}]
           known == [j \in Job |-> IF j \in in THEN "current" ELSE IF j \in out THEN "stale" ELSE "none"]
           s == Loaded(d, in)
<1>1. in \in SUBSET {j \in Job : OnDisk(d, j)}
  BY DEF RestoreChoices
<1>2. s = [mem |-> mem, deferred |-> {}, evicted |-> evicted, evictedPaths |-> paths,
           known |-> known, knownPaths |-> d.pathRow]
  BY DEF Loaded
<1>3. \A j \in Job : d.row[j] \in Row /\ d.pathRow[j] \in SUBSET Offer
  BY DEF DiskType
<1>4. \A j \in Job : RestoredRecord(d, j) \in Record
  BY <1>3, GoneRecord DEF RestoredRecord, Row, Record
<1>5. /\ mem \in [Job -> Record] /\ evicted \in [Job -> {Never} \union 0..MaxNow]
      /\ paths \in [Job -> SUBSET Offer] /\ known \in [Job -> {"none", "stale", "current"}]
      /\ d.pathRow \in [Job -> SUBSET Offer]
  BY <1>3, <1>4, GoneRecord DEF DiskType, Row
<1>6. ASSUME NEW j \in Job
      PROVE  /\ j \in back <=> j \in in
             /\ j \in out <=> d.row[j].status = "completed" /\ j \notin in
             /\ j \in in => d.row[j].status = "completed"
  BY <1>1 DEF OnDisk
<1>7. ASSUME NEW j \in Job
      PROVE  /\ mem[j] = IF j \in in THEN RestoredRecord(d, j)
                         ELSE IF store.mem[j].status = "none" THEN Blank
                         ELSE [Blank EXCEPT !.status = "gone"]
             /\ evicted[j] = IF j \in out THEN d.row[j].idle ELSE Never
             /\ paths[j] = IF j \in out THEN d.pathRow[j] ELSE {}
             /\ known[j] = IF j \in in THEN "current" ELSE IF j \in out THEN "stale" ELSE "none"
  BY <1>6
<1> HIDE DEF back, out, mem, evicted, paths, known
<1>8. StoreType(s)
  BY <1>2, <1>5 DEF StoreType
<1>9. ASSUME NEW j \in Job
      PROVE  BootedAs(s, d, j)
  <2>1. /\ s.mem[j] = mem[j] /\ s.evicted[j] = evicted[j] /\ s.evictedPaths[j] = paths[j]
        /\ s.known[j] = known[j] /\ s.knownPaths[j] = d.pathRow[j] /\ s.deferred = {}
    BY <1>2
  <2>2. Blank.status = "none" /\ Blank.idle = 0
    BY DEF Blank
  <2>3. \/ d.row[j].status = "completed"
        \/ d.row[j].status = "none" /\ d.pathRow[j] = {}
    OBVIOUS
  <2>4. store.mem[j].status = "none" => d.row[j].status = "none"
    BY DEF Trusted
  <2> HIDE DEF s
  <2>5. CASE j \in in
    BY <1>6, <1>7, <2>1, <2>5 DEF BootedAs
  <2>6. CASE j \in out
    BY <1>6, <1>7, <2>1, <2>4, <2>6, GoneRecord DEF BootedAs
  <2>7. CASE j \notin in /\ j \notin out
    <3>1. d.row[j].status = "none" /\ d.pathRow[j] = {}
      BY <1>6, <2>3, <2>7
    <3>2. /\ s.known[j] = "none" /\ s.evicted[j] = Never /\ s.evictedPaths[j] = {}
          /\ s.mem[j] = IF store.mem[j].status = "none" THEN Blank ELSE [Blank EXCEPT !.status = "gone"]
      BY <1>7, <2>1, <2>7
    <3>3. /\ s.mem[j].status = IF store.mem[j].status = "none" THEN "none" ELSE "gone"
          /\ s.mem[j].idle = 0
      BY <3>2, <2>2, GoneRecord
    <3> QED
      BY <2>1, <3>1, <3>2, <3>3 DEF BootedAs
  <2> QED
    BY <2>5, <2>6, <2>7
<1> QED
  BY <1>8, <1>9 DEF s

(* A store that is a boot of the file agrees with it and owes it nothing. *)
LEMMA BootedCoherent ==
  ASSUME NEW d, DiskType(d), now \in 0..MaxNow, Trusted(d), NEW s, StoreType(s),
         \A j \in Job : BootedAs(s, d, j)
  PROVE  (\A j \in Job : Coherent(s, d, now, j)) /\ ~Owes(s)
<1>1. ASSUME NEW j \in Job
      PROVE  /\ Coherent(s, d, now, j)
             /\ j \notin Changed(s) /\ j \notin Removed(s) /\ PathsLeft(s, j) = s.knownPaths[j]
  <2>1. /\ d.row[j] \in Row /\ d.pathRow[j] \in SUBSET Offer /\ now \in Nat
        /\ d.row[j].idle # Never
    <3>1. d.row[j].idle \in Nat
      BY StoreAssumption DEF DiskType, Row
    <3> QED
      BY <3>1, StoreAssumption DEF DiskType, Never
  <2>2. /\ RestoredRecord(d, j).status = "completed" /\ RestoredRecord(d, j).offers = d.row[j].offers
        /\ RestoredRecord(d, j).done = d.row[j].done /\ RestoredRecord(d, j).idle = d.row[j].idle
    BY DEF RestoredRecord, Blank
  <2>3. CASE /\ d.row[j].status = "completed" /\ s.known[j] = "current"
             /\ s.mem[j] = RestoredRecord(d, j)
             /\ s.evicted[j] = Never /\ s.evictedPaths[j] = {}
    <3>1. Coherent(s, d, now, j)
      BY <2>1, <2>2, <2>3 DEF BootedAs, Trusted, Coherent, KnowsRow, EvictedWhole, NoTrace, RowIsWhole, Row
    <3> QED
      BY <2>2, <2>3, <3>1 DEF BootedAs, Trusted, Changed, Removed, Active, Persistable, PathsLeft, ActivePaths
  <2>4. CASE /\ d.row[j].status = "completed" /\ s.known[j] # "none"
             /\ s.mem[j].status = "gone" /\ s.mem[j].idle = 0
             /\ s.evicted[j] = d.row[j].idle /\ s.evictedPaths[j] = d.pathRow[j]
    <3>1. Coherent(s, d, now, j)
      BY <2>1, <2>4 DEF BootedAs, Trusted, Coherent, KnowsRow, EvictedWhole, NoTrace, RowIsWhole, Row, Resident
    <3> QED
      BY <2>1, <2>4, <3>1 DEF BootedAs, Trusted, Changed, Removed, Active, Persistable, PathsLeft, ActivePaths
  <2>5. CASE /\ d.row[j].status = "none" /\ s.known[j] = "none"
             /\ s.mem[j].status \in {"none", "gone"} /\ s.mem[j].idle = 0
             /\ s.evicted[j] = Never /\ s.evictedPaths[j] = {}
             /\ s.knownPaths[j] = {} /\ d.pathRow[j] = {}
    <3>1. Coherent(s, d, now, j)
      BY <2>1, <2>5 DEF BootedAs, Trusted, Coherent, KnowsRow, EvictedWhole, NoTrace, RowIsWhole, Row, Resident
    <3> QED
      BY <2>1, <2>5, <3>1 DEF BootedAs, Changed, Removed, Active, Persistable, PathsLeft, ActivePaths
  <2> QED
    BY <2>3, <2>4, <2>5 DEF BootedAs
<1>2. Changed(s) = {} /\ Removed(s) = {}
  BY <1>1 DEF Changed, Removed, Active
<1> QED
  BY <1>1, <1>2 DEF Owes

(* Every start that a boot of a trusted file can make. *)
LEMMA BootCoherent ==
  ASSUME NEW d, DiskType(d), now \in 0..MaxNow, Trusted(d), NEW s \in Booted(Swept(d))
  PROVE  /\ StoreType(s) /\ DiskType(Swept(d)) /\ ~Owes(s)
         /\ \A j \in Job : Coherent(s, Swept(d), now, j)
         /\ \A j \in Job : d.row[j].status = "completed" /\ ~Idled(d.row[j].idle) =>
              Answers(s, Swept(d), j, d.row[j].offers)
         /\ \A j \in Job :
              (d.row[j].status # "completed" \/ Idled(d.row[j].idle)) /\ store.mem[j].status # "none" =>
                s.mem[j].status = "gone" /\ s.evicted[j] = Never
<1> DEFINE e == Swept(d)
<1>a. PICK in \in RestoreChoices(e) : \E gone \in EvictChoices(Loaded(e, in)) : s = Evict(Loaded(e, in), gone)
  BY DEF Booted
<1> DEFINE l == Loaded(e, in)
<1>1. PICK gone \in EvictChoices(l) : s = Evict(l, gone)
  BY <1>a
<1>2. /\ DiskType(e) /\ Trusted(e)
      /\ \A j \in Job : \/ /\ d.row[j].status = "completed" /\ ~Idled(d.row[j].idle)
                           /\ e.row[j] = d.row[j] /\ e.pathRow[j] = d.pathRow[j]
                        \/ /\ d.row[j].status # "completed" \/ Idled(d.row[j].idle)
                           /\ e.row[j] = NoRow /\ e.pathRow[j] = {}
  BY SweptRows
<1> HIDE DEF e
<1>3. NoRow.status = "none"
  BY DEF NoRow
<1>4. \A j \in Job : \/ e.row[j].status = "completed"
                     \/ e.row[j].status = "none" /\ e.pathRow[j] = {}
  BY <1>2, <1>3
<1>5. StoreType(l) /\ \A j \in Job : BootedAs(l, e, j)
  BY <1>2, <1>4, LoadedFields
<1>6. (\A j \in Job : Coherent(l, e, now, j)) /\ ~Owes(l)
  BY <1>2, <1>5, BootedCoherent
<1>7. gone \in SUBSET Weighed(l) /\ \A j \in gone : l.mem[j].status = "completed"
  BY ChosenAreEvictable, Zenon
<1>8. gone \in SUBSET Job
  BY <1>7 DEF Weighed
<1> HIDE DEF l
<1>9. s = Evict(l, gone)
  BY <1>1
<1>10. StoreType(s) /\ ~Owes(s) /\ \A j \in Job : Coherent(s, e, now, j)
  BY <1>2, <1>5, <1>6, <1>7, <1>8, <1>9, EvictFields, EvictCoherent, EvictOwesNothing
<1>11. ASSUME NEW j \in Job
       PROVE  /\ s.mem[j] = IF j \in gone THEN [Blank EXCEPT !.status = "gone"] ELSE l.mem[j]
              /\ s.evicted[j] = IF j \in gone THEN l.mem[j].idle ELSE l.evicted[j]
  BY <1>5, <1>8, <1>9, EvictFields
<1>12. ASSUME NEW j \in Job, d.row[j].status = "completed", ~Idled(d.row[j].idle)
       PROVE  Answers(s, e, j, d.row[j].offers)
  <2>1. e.row[j] = d.row[j] /\ e.pathRow[j] = d.pathRow[j] /\ d.row[j].offers = e.pathRow[j]
    BY <1>2, <1>12 DEF Trusted
  <2>2. d.row[j].idle # Never
    <3>1. d.row[j].idle \in Nat
      BY StoreAssumption DEF DiskType, Row
    <3> QED
      BY <3>1 DEF Never
  <2>3. /\ RestoredRecord(e, j).status = "completed" /\ RestoredRecord(e, j).offers = d.row[j].offers
        /\ RestoredRecord(e, j).idle = d.row[j].idle
    BY <2>1 DEF RestoredRecord, Blank
  <2>4. \/ l.mem[j] = RestoredRecord(e, j) /\ l.evicted[j] = Never
        \/ l.mem[j].status = "gone" /\ l.evicted[j] = d.row[j].idle
    BY <1>5, <1>12, <2>1 DEF BootedAs
  <2>5. CASE j \in gone
    <3>1. s.evicted[j] = d.row[j].idle
      BY <1>7, <1>11, <2>3, <2>4, <2>5
    <3> QED
      BY <1>12, <2>1, <2>2, <3>1 DEF Answers
  <2>6. CASE j \notin gone /\ l.mem[j] = RestoredRecord(e, j)
    BY <1>11, <2>3, <2>6 DEF Answers, Resident
  <2>7. CASE j \notin gone /\ l.evicted[j] = d.row[j].idle
    BY <1>11, <1>12, <2>1, <2>2, <2>7 DEF Answers
  <2> QED
    BY <2>4, <2>5, <2>6, <2>7
<1>13. ASSUME NEW j \in Job, d.row[j].status # "completed" \/ Idled(d.row[j].idle),
              store.mem[j].status # "none"
       PROVE  s.mem[j].status = "gone" /\ s.evicted[j] = Never
  <2>1. e.row[j].status = "none"
    BY <1>2, <1>3, <1>13
  <2>2. l.mem[j].status = "gone" /\ l.evicted[j] = Never
    BY <1>5, <1>13, <2>1 DEF BootedAs
  <2>3. j \notin gone
    BY <1>7, <2>2
  <2> QED
    BY <1>11, <2>2, <2>3
<1>14. \A j \in Job : d.row[j].status = "completed" /\ ~Idled(d.row[j].idle) =>
         Answers(s, e, j, d.row[j].offers)
  BY <1>12
<1>15. \A j \in Job :
         (d.row[j].status # "completed" \/ Idled(d.row[j].idle)) /\ store.mem[j].status # "none" =>
           s.mem[j].status = "gone" /\ s.evicted[j] = Never
  BY <1>13
<1> QED
  BY <1>2, <1>10, <1>14, <1>15 DEF e

(* The jobs an orderly stop cuts. *)
LEMMA CutCoherent ==
  ASSUME IInv
  PROVE  /\ StoreType(Cut(store)) /\ \A j \in Job : Coherent(Cut(store), disk, now, j)
         /\ \A j \in Job : IF IsRunning(j)
              THEN /\ Cut(store).mem[j].status
                        = IF store.mem[j].offers # {} THEN "completed" ELSE "cancelled"
                   /\ Cut(store).mem[j].offers = store.mem[j].offers /\ Cut(store).mem[j].idle = now
                   /\ Cut(store).known[j] # "current" /\ j \notin Cut(store).deferred
              ELSE /\ Cut(store).mem[j] = store.mem[j] /\ Cut(store).known[j] = store.known[j]
                   /\ j \in Cut(store).deferred <=> j \in store.deferred
<1> DEFINE cut == {j \in Job : store.mem[j].status = "running"}
           halted(j) == [Cancelled(store.mem[j], TRUE) EXCEPT !.idle = now]
           mem == [j \in Job |-> IF j \in cut THEN halted(j) ELSE store.mem[j]]
           known == [j \in Job |-> IF j \in cut /\ store.known[j] # "none" THEN "stale" ELSE store.known[j]]
           deferred == store.deferred \ cut
           s == Cut(store)
<1>1. /\ StoreType(store) /\ DiskType(disk) /\ now \in 0..MaxNow
      /\ \A j \in Job : Coherent(store, disk, now, j)
  BY DEF IInv, TypeOK, StoreType, DiskType
<1>2. s = [store EXCEPT !.mem = mem, !.known = known, !.deferred = deferred]
  BY <1>1 DEF Cut, StoreType
<1>3. ASSUME NEW j \in Job
      PROVE  /\ halted(j) \in Record /\ halted(j).idle = now /\ halted(j).offers = store.mem[j].offers
             /\ halted(j).status = IF store.mem[j].offers # {} THEN "completed" ELSE "cancelled"
  <2>1. store.mem[j] \in Record
    BY <1>1 DEF StoreType
  <2>2. /\ Cancelled(store.mem[j], TRUE) \in Record
        /\ Cancelled(store.mem[j], TRUE).offers = store.mem[j].offers
        /\ Cancelled(store.mem[j], TRUE).status = IF store.mem[j].offers # {} THEN "completed" ELSE "cancelled"
    BY <1>1, <2>1 DEF Cancelled, Record
  <2> HIDE DEF Cancelled
  <2> QED
    BY <1>1, <2>2 DEF Record
<1> HIDE DEF halted
<1>4. /\ mem \in [Job -> Record] /\ known \in [Job -> {"none", "stale", "current"}]
      /\ deferred \in SUBSET Job
  BY <1>1, <1>3 DEF StoreType
<1>5. ASSUME NEW j \in Job
      PROVE  /\ mem[j] = IF IsRunning(j) THEN halted(j) ELSE store.mem[j]
             /\ known[j] = IF IsRunning(j) /\ store.known[j] # "none" THEN "stale" ELSE store.known[j]
             /\ j \in deferred <=> j \in store.deferred /\ ~IsRunning(j)
  BY DEF IsRunning
<1> HIDE DEF mem, known, deferred, s, cut
<1>6. /\ StoreType(s) /\ s.mem = mem /\ s.known = known /\ s.deferred = deferred
      /\ s.evicted = store.evicted /\ s.evictedPaths = store.evictedPaths /\ s.knownPaths = store.knownPaths
  BY <1>1, <1>2, <1>4 DEF StoreType
<1>7. ASSUME NEW j \in Job, ~IsRunning(j)
      PROVE  Coherent(s, disk, now, j)
  BY <1>1, <1>5, <1>6, <1>7 DEF Coherent, KnowsRow, EvictedWhole, NoTrace, RowIsWhole, Resident
<1>8. ASSUME NEW j \in Job, IsRunning(j)
      PROVE  Coherent(s, disk, now, j)
  <2>1. /\ s.mem[j] = halted(j) /\ s.known[j] # "current" /\ j \notin s.deferred
        /\ s.known[j] = "none" <=> store.known[j] = "none"
    BY <1>1, <1>5, <1>6, <1>8
  <2>2. /\ Coherent(store, disk, now, j) /\ now \in Int
    BY <1>1
  <2>3. store.mem[j].status = "running"
    BY <1>8 DEF IsRunning
  <2> QED
    BY <1>3, <1>6, <2>1, <2>2, <2>3 DEF Coherent, KnowsRow, EvictedWhole, NoTrace, RowIsWhole
<1>9. ASSUME NEW j \in Job
      PROVE  IF IsRunning(j)
              THEN /\ s.mem[j].status = IF store.mem[j].offers # {} THEN "completed" ELSE "cancelled"
                   /\ s.mem[j].offers = store.mem[j].offers /\ s.mem[j].idle = now
                   /\ s.known[j] # "current" /\ j \notin s.deferred
              ELSE /\ s.mem[j] = store.mem[j] /\ s.known[j] = store.known[j]
                   /\ j \in s.deferred <=> j \in store.deferred
  BY <1>1, <1>3, <1>5, <1>6 DEF Coherent, NoTrace, IsRunning
<1> QED
  BY <1>6, <1>7, <1>8, <1>9 DEF s

(* The file, as it is and as an orderly stop leaves it, can be trusted. *)
LEMMA FilesAreTrusted ==
  ASSUME IInv
  PROVE  /\ DiskType(disk) /\ Trusted(disk)
         /\ DiskType(SavedDisk(Cut(store), disk)) /\ Trusted(SavedDisk(Cut(store), disk))
         /\ \A j \in Job : Coherent(Saved(Cut(store)), SavedDisk(Cut(store), disk), now, j)
<1> DEFINE s == Saved(Cut(store))
           d == SavedDisk(Cut(store), disk)
<1>1. /\ DiskType(disk) /\ now \in 0..MaxNow /\ \A j \in Job : Coherent(store, disk, now, j)
  BY DEF IInv, TypeOK, DiskType
<1>2. Trusted(disk)
  BY <1>1 DEF Trusted, Coherent, KnowsRow, NoTrace, RowIsWhole
<1>3. StoreType(Cut(store)) /\ \A j \in Job : Coherent(Cut(store), disk, now, j)
  BY CutCoherent
<1>4. DiskType(d) /\ \A j \in Job : Coherent(s, d, now, j)
  BY <1>1, <1>3, SavedCoherent
<1>5. \A j \in Job : store.mem[j].status = "none" => s.mem[j].status = "none"
  BY <1>3, CutCoherent, SavedFields DEF IsRunning
<1> HIDE DEF s, d
<1>6. Trusted(d)
  BY <1>4, <1>5 DEF Trusted, Coherent, KnowsRow, NoTrace, RowIsWhole
<1> QED
  BY <1>1, <1>2, <1>4, <1>6 DEF s, d

(* A boot keeps the invariant, whatever file it finds that can be trusted. *)
LEMMA BootKeeps ==
  ASSUME IInv, NEW d, DiskType(d), Trusted(d), Boot(d)
  PROVE  IInv'
<1>1. /\ disk' = Swept(d) /\ store' \in Booted(Swept(d)) /\ timer' = FALSE /\ refused' = FALSE
      /\ poll' = [j \in Job |-> Unparked] /\ now' = now /\ now \in 0..MaxNow
  BY DEF Boot, IInv, TypeOK
<1>2. /\ StoreType(store') /\ DiskType(disk') /\ ~Owes(store')
      /\ \A j \in Job : Coherent(store', disk', now, j)
  BY <1>1, BootCoherent
<1>3. TypeOK'
  BY <1>1, <1>2 DEF TypeOK, StoreType, DiskType
<1> QED
  BY <1>1, <1>2, <1>3 DEF IInv, OwedIsScheduled, NoMissedChange, Coherent, KnowsRow, EvictedWhole,
     NoTrace, RowIsWhole, Resident

(* A crash, or an orderly stop, and the boot that follows.                 *)
LEMMA RestartCoherent ==
  ASSUME IInv, Crash \/ \E accepted \in BOOLEAN : Stop(accepted)
  PROVE  IInv'
<1>1. Boot(disk) \/ Boot(SavedDisk(Cut(store), disk))
  BY DEF Crash, Stop
<1> QED
  BY <1>1, FilesAreTrusted, BootKeeps

-----------------------------------------------------------------------------
(* The empty store and the empty file agree.                               *)
LEMMA InitCoherent == Init => IInv
<1> SUFFICES ASSUME Init PROVE IInv
  OBVIOUS
<1>1. /\ Blank \in Record /\ NoRow \in Row /\ Blank.status = "none" /\ Blank.idle = 0
      /\ NoRow.status = "none" /\ NoRow.idle = 0 /\ 0 \in 0..MaxNow
  BY StoreAssumption, GoneRecord DEF Blank, NoRow, Row
<1>2. StoreType(store) /\ DiskType(disk)
  BY <1>1 DEF Init, StoreType, DiskType
<1>3. /\ store.deferred = {} /\ timer = FALSE /\ refused = FALSE /\ now = 0
      /\ \A j \in Job : /\ store.mem[j] = Blank /\ store.evicted[j] = Never /\ store.evictedPaths[j] = {}
                        /\ store.known[j] = "none" /\ store.knownPaths[j] = {}
                        /\ disk.row[j] = NoRow /\ disk.pathRow[j] = {} /\ poll[j] = Unparked
  BY DEF Init
<1>4. TypeOK
  BY <1>1, <1>2, <1>3 DEF Init, TypeOK, StoreType, DiskType
<1>5. ASSUME NEW j \in Job PROVE Coherent(store, disk, now, j)
  <2>1. /\ store.mem[j].status = "none" /\ store.mem[j].idle = 0 /\ store.evicted[j] = Never
        /\ store.evictedPaths[j] = {} /\ store.known[j] = "none" /\ store.knownPaths[j] = {}
        /\ disk.row[j].status = "none" /\ disk.row[j].idle = 0 /\ disk.pathRow[j] = {}
        /\ j \notin store.deferred /\ now = 0
    BY <1>1, <1>3
  <2> QED
    BY <2>1 DEF Coherent, KnowsRow, EvictedWhole, NoTrace, RowIsWhole, Resident
<1>6. ~Owes(store)
  <2>1. \A j \in Job : /\ j \notin Active(store) /\ j \notin Removed(store)
                       /\ PathsLeft(store, j) = store.knownPaths[j]
    BY <1>1, <1>3 DEF Active, Removed, Persistable, PathsLeft, ActivePaths
  <2>2. Changed(store) = {} /\ Removed(store) = {}
    BY <2>1 DEF Changed, Removed, Active
  <2> QED
    BY <2>1, <2>2 DEF Owes
<1> QED
  BY <1>3, <1>4, <1>5, <1>6 DEF IInv, OwedIsScheduled, NoMissedChange

(* Every step of the store keeps them in agreement.                        *)
LEMMA NextCoherent == IInv /\ [Next]_vars => IInv'
<1> SUFFICES ASSUME IInv, [Next]_vars PROVE IInv'
  OBVIOUS
<1>1. ASSUME NEW j \in Job, NEW offers \in SUBSET Offer,
             \/ \E queued \in BOOLEAN : Create(j, offers, queued)
             \/ Progress(j, offers) \/ Complete(j, offers)
      PROVE  IInv'
  BY <1>1, CreateCoherent, ProgressCoherent, EndCoherent
<1>2. ASSUME NEW j \in Job,
             \/ Unqueue(j) \/ Fail(j) \/ Revalidate(j) \/ Touch(j) \/ Park(j) \/ PollTimeout(j)
             \/ \E keep \in BOOLEAN : Cancel(j, keep)
      PROVE  IInv'
  BY <1>2, UnqueueCoherent, EndCoherent, RevalidateCoherent, TouchCoherent, PollCoherent
<1>3. ASSUME NEW accepted \in BOOLEAN, PersistTimer(accepted) \/ Sweep(accepted) \/ Stop(accepted)
      PROVE  IInv'
  BY <1>3, PersistCoherent, SweepCoherent, RestartCoherent
<1>4. CASE GraceEnds
  BY <1>4, GraceCoherent
<1>5. CASE Tick
  BY <1>5, TickCoherent
<1>6. CASE Crash
  BY <1>6, RestartCoherent
<1>7. CASE UNCHANGED vars
  BY <1>7 DEF vars, IInv, TypeOK, OwedIsScheduled, NoMissedChange, IsRunning, Coherent, KnowsRow,
     EvictedWhole, NoTrace, RowIsWhole, Resident
<1> QED
  BY <1>1, <1>2, <1>3, <1>4, <1>5, <1>6, <1>7 DEF Next

(* For any jobs, offers, budgets and clock, what memory knows of a job,    *)
(* what the file has of it and what is still owed to the file agree in     *)
(* every state (session-store.ts).                                         *)
THEOREM StoreIsCoherent == Spec => []IInv
  BY InitCoherent, NextCoherent, PTL DEF Spec

(* For any jobs, offers, budgets and clock, what the store believes of its    *)
(* file is true, and no poll sleeps on a change.                              *)
THEOREM StoreKnows == Spec => []StoreKnowsItsFile
<1>1. IInv => StoreKnowsItsFile
  <2> SUFFICES ASSUME IInv PROVE StoreKnowsItsFile
    OBVIOUS
  <2>1. ASSUME NEW j \in Job, store.known[j] = "current", Resident(store, j)
        PROVE  [RowOf(store.mem[j]) EXCEPT !.idle = disk.row[j].idle] = disk.row[j]
    <3>1. disk.row[j] \in Row
      BY DEF IInv, TypeOK
    <3>2. /\ disk.row[j].status = store.mem[j].status /\ disk.row[j].offers = store.mem[j].offers
          /\ disk.row[j].done = store.mem[j].done
      BY <2>1 DEF IInv, Coherent, KnowsRow
    <3>3. [RowOf(store.mem[j]) EXCEPT !.idle = disk.row[j].idle]
            = [status |-> store.mem[j].status, offers |-> store.mem[j].offers,
               done |-> store.mem[j].done, idle |-> disk.row[j].idle]
      BY DEF RowOf
    <3>4. disk.row[j] = [status |-> disk.row[j].status, offers |-> disk.row[j].offers,
                         done |-> disk.row[j].done, idle |-> disk.row[j].idle]
      BY <3>1 DEF Row
    <3> QED
      BY <3>2, <3>3, <3>4, Zenon
  <2>2. KnowsItsDisk
    BY <2>1 DEF IInv, Coherent, KnowsRow, KnowsItsDisk, OnDisk
  <2>3. EvictedIsReadable
    BY DEF IInv, Coherent, EvictedWhole, RowIsWhole, EvictedIsReadable, Resident
  <2> QED
    BY <2>2, <2>3 DEF IInv, StoreKnowsItsFile
<1> QED
  BY <1>1, StoreIsCoherent, PTL

(* For any restore budget, a crash at any moment loses no finished search     *)
(* that reached the file and is not past its idle time there.                 *)
THEOREM CrashLosesNothing == Spec => []CrashKeepsCompleted
<1>1. IInv => CrashKeepsCompleted
  <2> SUFFICES ASSUME IInv, NEW j \in Job, disk.row[j].status = "completed", ~Idled(disk.row[j].idle),
                      NEW s \in Booted(Swept(disk))
               PROVE  Answers(s, Swept(disk), j, disk.row[j].offers)
    BY DEF CrashKeepsCompleted
  <2>1. now \in 0..MaxNow
    BY DEF IInv, TypeOK
  <2> QED
    BY <2>1, FilesAreTrusted, BootCoherent
<1> QED
  BY <1>1, StoreIsCoherent, PTL

(* An orderly stop at any moment, its last write accepted, loses nothing that *)
(* was found: neither by the searches it cuts nor by those that had finished. *)
THEOREM StopLosesNothing == Spec => []StopKeepsResults
<1>1. IInv => StopKeepsResults
  <2> DEFINE c == Cut(store)
             d == SavedDisk(c, disk)
  <2> SUFFICES ASSUME IInv, NEW j \in Job,
                      \/ IsRunning(j) /\ store.mem[j].offers # {}
                      \/ /\ store.mem[j].status = "completed" /\ store.known[j] # "current"
                         /\ ~Idled(store.mem[j].idle),
                      NEW s \in Booted(Swept(d))
               PROVE  Answers(s, Swept(d), j, store.mem[j].offers)
    BY DEF StopKeepsResults
  <2>1. now \in 0..MaxNow /\ Coherent(store, disk, now, j)
    BY DEF IInv, TypeOK
  <2>2. /\ c.mem[j].status = "completed" /\ c.mem[j].offers = store.mem[j].offers
        /\ ~Idled(c.mem[j].idle) /\ c.known[j] # "current" /\ j \notin c.deferred
    <3>1. CASE IsRunning(j) /\ store.mem[j].offers # {}
      BY <2>1, <3>1, CutCoherent, StoreAssumption DEF Idled
    <3>2. CASE /\ store.mem[j].status = "completed" /\ store.known[j] # "current"
               /\ ~Idled(store.mem[j].idle)
      BY <2>1, <3>2, CutCoherent DEF Coherent, NoTrace, IsRunning
    <3> QED
      BY <3>1, <3>2
  <2>3. j \in Changed(c)
    BY <2>2 DEF Changed, Active, Persistable
  <2>4. d.row[j] = RowOf(c.mem[j])
    BY <2>3 DEF SavedDisk
  <2>5. /\ d.row[j].status = "completed" /\ d.row[j].offers = store.mem[j].offers
        /\ ~Idled(d.row[j].idle)
    BY <2>2, <2>4 DEF RowOf
  <2>6. DiskType(d) /\ Trusted(d)
    BY FilesAreTrusted
  <2> HIDE DEF d
  <2> QED
    BY <2>1, <2>5, <2>6, BootCoherent
<1> QED
  BY <1>1, StoreIsCoherent, PTL

-----------------------------------------------------------------------------
(* What ended or was dropped stays so. *)

(* A job that ended otherwise than well, or is nowhere. *)
Over(s, j) ==
  \/ s.mem[j].status \in {"failed", "cancelled"}
  \/ s.mem[j].status = "gone" /\ s.evicted[j] = Never

(* From s to r the job is still over: as it was, or dropped. *)
StaysOver(s, r, j) ==
  Over(s, j) => r.mem[j].status \in {s.mem[j].status, "gone"} /\ r.evicted[j] = Never

(* A failed or cancelled job was never evicted. *)
LEMMA OverIsNowhere ==
  ASSUME NEW s, NEW d, NEW j \in Job, Coherent(s, d, now, j), Over(s, j)
  PROVE  s.evicted[j] = Never
BY DEF Over, Coherent, EvictedWhole

(* Only a running job, or one that keeps its status, is changed in memory. *)
LEMMA MemoryKeepsOver ==
  ASSUME IInv, NEW j \in Job,
         \/ \E offers \in SUBSET Offer :
              \/ \E queued \in BOOLEAN : Create(j, offers, queued)
              \/ Progress(j, offers) \/ Complete(j, offers)
         \/ Unqueue(j) \/ Fail(j) \/ Revalidate(j) \/ Touch(j) \/ Park(j) \/ PollTimeout(j)
         \/ \E keep \in BOOLEAN : Cancel(j, keep),
         NEW k \in Job
  PROVE  StaysOver(store, store', k)
<1>1. StoreType(store) /\ Coherent(store, disk, now, k)
  BY DEF IInv, TypeOK, StoreType
<1>2. store'.evicted = store.evicted /\ \E r : store'.mem = [store.mem EXCEPT ![j] = r] \/ store' = store
  <2>1. ASSUME NEW r, NEW persist, Update(j, r, persist)
        PROVE  /\ store'.evicted = store.evicted
               /\ store'.mem = [store.mem EXCEPT ![j] = [r EXCEPT !.idle = now]]
    BY <1>1, <2>1 DEF Update, StoreType
  <2>2. ASSUME NEW offers, NEW queued, Create(j, offers, queued)
        PROVE  /\ store'.evicted = store.evicted
               /\ \E r : store'.mem = [store.mem EXCEPT ![j] = r]
    BY <1>1, <2>2 DEF Create, StoreType
  <2>3. ASSUME Touch(j)
        PROVE  /\ store'.evicted = store.evicted
               /\ \E r : store'.mem = [store.mem EXCEPT ![j] = r]
    BY <1>1, <2>3 DEF Touch, StoreType
  <2>4. ASSUME Park(j) \/ PollTimeout(j)
        PROVE  store' = store
    BY <2>4 DEF Park, PollTimeout
  <2> QED
    BY <2>1, <2>2, <2>3, <2>4 DEF Progress, Complete, Unqueue, Fail, Revalidate, Cancel
<1>3. CASE k # j
  <2>1. store'.mem[k] = store.mem[k]
    BY <1>1, <1>2, <1>3 DEF StoreType
  <2> QED
    BY <1>1, <1>2, <2>1, OverIsNowhere DEF StaysOver
<1>4. CASE k = j /\ store.mem[j].status \in {"none", "running", "completed"}
  BY <1>4 DEF StaysOver, Over
<1>5. CASE k = j /\ store.mem[j].status \notin {"none", "running", "completed"}
  <2>1. Revalidate(j) \/ Touch(j) \/ store' = store
    BY <1>5 DEF Create, Progress, Complete, Unqueue, Fail, Cancel, Park, PollTimeout, IsRunning
  <2>2. store'.mem[j].status = store.mem[j].status
    <3>1. CASE Revalidate(j)
      BY <1>1, <3>1 DEF Revalidate, Update, StoreType, Record
    <3>2. CASE Touch(j)
      BY <1>1, <3>2 DEF Touch, StoreType, Record
    <3> QED
      BY <2>1, <3>1, <3>2
  <2> QED
    BY <1>1, <1>2, <1>5, <2>2, OverIsNowhere DEF StaysOver
<1> QED
  BY <1>3, <1>4, <1>5

(* A write, the grace and the sweep leave a job that is over as it is, or  *)
(* drop it.                                                                *)
LEMMA WritesKeepOver ==
  ASSUME IInv, NEW k \in Job,
         \/ GraceEnds
         \/ \E accepted \in BOOLEAN : PersistTimer(accepted) \/ Sweep(accepted)
  PROVE  StaysOver(store, store', k)
<1>1. /\ StoreType(store) /\ DiskType(disk) /\ now \in 0..MaxNow
      /\ \A j \in Job : Coherent(store, disk, now, j)
  BY DEF IInv, TypeOK, StoreType, DiskType
<1>2. SUFFICES ASSUME Over(store, k), store.evicted[k] = Never
               PROVE  store'.mem[k].status \in {store.mem[k].status, "gone"} /\ store'.evicted[k] = Never
  BY <1>1, OverIsNowhere DEF StaysOver
<1>3. store.mem[k].status # "completed"
  BY <1>2 DEF Over
<1>4. CASE GraceEnds
  <2>1. PICK gone \in EvictChoices(store) : store' = Evict(store, gone)
    BY <1>4 DEF GraceEnds
  <2>2. gone \in SUBSET Weighed(store) /\ \A j \in gone : store.mem[j].status = "completed"
    BY ChosenAreEvictable, Zenon
  <2>3. gone \in SUBSET Job /\ k \notin gone
    BY <1>3, <2>2 DEF Weighed
  <2> QED
    BY <1>1, <1>2, <2>1, <2>3, EvictFields
<1>5. ASSUME NEW accepted \in BOOLEAN, PersistTimer(accepted)
      PROVE  store'.mem[k].status \in {store.mem[k].status, "gone"} /\ store'.evicted[k] = Never
  <2>1. Write(store, disk, accepted)
    BY <1>5 DEF PersistTimer
  <2> QED
    BY <1>1, <1>2, <1>3, <2>1, WriteCoherent
<1>6. ASSUME NEW accepted \in BOOLEAN, Sweep(accepted)
      PROVE  store'.mem[k].status \in {store.mem[k].status, "gone"} /\ store'.evicted[k] = Never
  <2> DEFINE purged == Purged(store)
             old == {j \in Job : accepted /\ store.evicted[j] # Never /\ Idled(store.evicted[j])}
             pruned == Pruned(purged, old)
  <2>1. PICK gone \in EvictChoices(pruned) : Write(Evict(pruned, gone), Dropped(disk, old), accepted)
    BY <1>6 DEF Sweep
  <2>2. gone \in SUBSET Weighed(pruned) /\ \A j \in gone : pruned.mem[j].status = "completed"
    BY ChosenAreEvictable, Zenon
  <2>3. gone \in SUBSET Job
    BY <2>2 DEF Weighed
  <2> DEFINE left == Evict(pruned, gone)
             e == Dropped(disk, old)
  <2> HIDE DEF purged, old, pruned, left, e
  <2>4. /\ StoreType(purged) /\ \A j \in Job : Coherent(purged, disk, now, j)
        /\ purged.evicted = store.evicted
        /\ purged.mem[k].status \in {store.mem[k].status, "gone"}
    BY <1>1, GoneRecord, PurgedFields, PurgedCoherent DEF purged
  <2>5. old \in SUBSET Job /\ \A j \in old : purged.evicted[j] # Never
    BY <2>4 DEF old
  <2>6. /\ StoreType(pruned) /\ DiskType(e) /\ \A j \in Job : Coherent(pruned, e, now, j)
        /\ pruned.evicted[k] = Never /\ pruned.mem[k] = purged.mem[k]
    BY <1>1, <1>2, <2>4, <2>5, PrunedFields, PrunedCoherent DEF pruned, e
  <2>7. pruned.mem[k].status # "completed" /\ k \notin gone
    BY <1>3, <2>2, <2>4, <2>6
  <2>8. /\ StoreType(left) /\ \A j \in Job : Coherent(left, e, now, j)
        /\ left.mem[k] = pruned.mem[k] /\ left.evicted[k] = Never
    BY <1>1, <2>2, <2>3, <2>6, <2>7, EvictFields, EvictCoherent DEF left
  <2>9. Write(left, e, accepted)
    BY <2>1 DEF left, e
  <2>10. \/ store'.mem[k] = left.mem[k] /\ store'.evicted[k] = left.evicted[k]
         \/ left.mem[k].status = "completed"
    BY <1>1, <2>6, <2>8, <2>9, WriteCoherent
  <2> QED
    BY <2>4, <2>6, <2>7, <2>8, <2>10
<1> QED
  BY <1>4, <1>5, <1>6

(* So do a crash and a stop, with the boot after them.                     *)
LEMMA RestartKeepsOver ==
  ASSUME IInv, NEW k \in Job, Crash \/ \E accepted \in BOOLEAN : Stop(accepted)
  PROVE  StaysOver(store, store', k)
<1>1. /\ StoreType(store) /\ DiskType(disk) /\ now \in 0..MaxNow
      /\ \A j \in Job : Coherent(store, disk, now, j)
  BY DEF IInv, TypeOK, StoreType, DiskType
<1>2. SUFFICES ASSUME Over(store, k)
               PROVE  store'.mem[k].status = "gone" /\ store'.evicted[k] = Never
  BY DEF StaysOver
<1>3. store.mem[k].status # "none"
  BY <1>2 DEF Over
<1> DEFINE d == SavedDisk(Cut(store), disk)
           s == Saved(Cut(store))
<1>4. disk.row[k].status # "completed" \/ Idled(disk.row[k].idle)
  BY <1>1, <1>2 DEF Over, Coherent, RowIsWhole, Idled
<1>5. d.row[k].status # "completed" \/ Idled(d.row[k].idle)
  <2>1. StoreType(Cut(store)) /\ Cut(store).mem[k] = store.mem[k] /\ Cut(store).evicted = store.evicted
    <3>1. ~IsRunning(k)
      BY <1>2 DEF Over, IsRunning
    <3>2. Cut(store).evicted = store.evicted
      BY <1>1 DEF Cut, StoreType
    <3> QED
      BY <3>1, <3>2, CutCoherent
  <2>2. s.mem[k] = store.mem[k] /\ s.evicted[k] = store.evicted[k]
    BY <2>1, SavedFields
  <2>3. Coherent(s, d, now, k)
    BY FilesAreTrusted
  <2> HIDE DEF s, d
  <2> QED
    BY <1>2, <2>2, <2>3 DEF Over, Coherent, RowIsWhole, Idled
<1>6. \/ store' \in Booted(Swept(disk))
      \/ store' \in Booted(Swept(d))
  BY DEF Crash, Stop, Boot
<1>7. DiskType(disk) /\ Trusted(disk) /\ DiskType(d) /\ Trusted(d)
  BY FilesAreTrusted
<1> HIDE DEF d
<1> QED
  BY <1>1, <1>3, <1>4, <1>5, <1>6, <1>7, BootCoherent

(* A search that failed or was cancelled, or that was dropped from memory and *)
(* disk, is never finished or readable again, whatever is refused, evicted,   *)
(* crashed or restarted.                                                      *)
THEOREM OverIsFinal == Spec => NeverRevived
<1>1. IInv /\ [Next]_vars => (\A j \in Job : StaysOver(store, store', j)) \/ UNCHANGED vars
  <2> SUFFICES ASSUME IInv, Next, NEW k \in Job PROVE StaysOver(store, store', k)
    OBVIOUS
  <2>1. CASE Tick
    <3>1. store' = store /\ Coherent(store, disk, now, k)
      BY <2>1 DEF Tick, IInv
    <3> QED
      BY <3>1, OverIsNowhere DEF StaysOver
  <2> QED
    BY <2>1, MemoryKeepsOver, WritesKeepOver, RestartKeepsOver DEF Next
<1>2. IInv /\ [Next]_vars =>
        [\A j \in Job :
           (\/ store.mem[j].status \in {"failed", "cancelled"}
            \/ store.mem[j].status = "gone" /\ store.evicted[j] = Never)
           => store'.mem[j].status \in {store.mem[j].status, "gone"} /\ store'.evicted[j] = Never]_vars
  BY <1>1 DEF StaysOver, Over
<1> QED
  BY <1>2, StoreIsCoherent, PTL DEF Spec, NeverRevived
=============================================================================
