----------------------------- MODULE SessionStore -----------------------------
(***************************************************************************)
(* The session store of the runner (src/src/session-store.ts): the search  *)
(* and matrix jobs in memory, their purchase paths, and the SQLite rows    *)
(* that outlive the process.  Writes are debounced and may be refused,     *)
(* progress may be deferred, finished jobs leave memory for the disk, and  *)
(* the process may stop or crash and boot again.                           *)
(*                                                                         *)
(* A job stands for a search or a matrix, which the code keeps in twin     *)
(* maps; an offer (a cell) stands for itself and for its purchase path.    *)
(* `known` abstracts the persisted versions: whether the store believes    *)
(* there is a row, and whether it believes the row is this version.        *)
(* Revisions are left out: a parked poll stands for what its page has seen. *)
(***************************************************************************)
EXTENDS Integers, FiniteSetsExt

CONSTANTS
  Job,
  Offer,
  Followed,        \* bound: the jobs that wait in the queue, and that pages poll, read and revalidate
  TTL,             \* COMPLETED_SEARCH_SESSION_TTL_MS
  Grace,           \* COMPLETED_SEARCH_SESSION_RESIDENT_GRACE_MS
  ResidentBudget,  \* completedResidentBudgetBytes
  RestoreBudget,   \* persistedRestoreBudgetBytes
  MaxNow           \* bound: the clock

ASSUME StoreAssumption ==
  /\ {TTL, Grace, ResidentBudget, RestoreBudget, MaxNow} \subseteq Nat
  /\ IsFiniteSet(Job) /\ IsFiniteSet(Offer)
  /\ Followed \subseteq Job

Never == -1

VARIABLES
  store,    \* the process: its maps
  disk,     \* the database file
  timer,    \* persistTimer is set
  refused,  \* the last write was refused, and not made since
  poll,     \* each job's parked poll: what the page has seen, or Unparked
  now

vars == <<store, disk, timer, refused, poll, now>>

Record ==
  [status : {"none", "running", "completed", "failed", "cancelled", "gone"}, queued : BOOLEAN,
   offers : SUBSET Offer, done : 0..MaxNow, idle : 0..MaxNow, saved : Nat]

Row == [status : {"none", "running", "completed"}, offers : SUBSET Offer,
        done : 0..MaxNow, idle : 0..MaxNow]

Blank == [status |-> "none", queued |-> FALSE, offers |-> {}, done |-> 0, idle |-> 0,
          saved |-> 0]
NoRow == [status |-> "none", offers |-> {}, done |-> 0, idle |-> 0]

(* What a page sees of a running job, and no page waiting. *)
Seen(r) == [queued |-> r.queued, offers |-> r.offers]
Unparked == [queued |-> FALSE, offers |-> {}, status |-> "unparked"]

Resident(s, j) == s.mem[j].status \notin {"none", "gone"}
OnDisk(d, j) == d.row[j].status # "none"
RowOf(r) == [status |-> r.status, offers |-> r.offers, done |-> r.done, idle |-> r.idle]

(* Bytes of a row with its paths. *)
Bytes(offers) == 1 + Cardinality(offers)

-----------------------------------------------------------------------------
(* persistNow: what a write carries, and what it leaves.                    *)

(* isPersistableStatus *)
Persistable(s, j) == s.mem[j].status \in {"completed", "running"}
Active(s) == {j \in Job : Persistable(s, j) /\ j \notin s.deferred}
ActivePaths(s, j) == IF Persistable(s, j) THEN s.mem[j].offers ELSE {}

Changed(s) == {j \in Active(s) : s.known[j] # "current"}

Removed(s) ==
  {j \in Job \ (Active(s) \union s.deferred) : s.known[j] # "none" /\ s.evicted[j] = Never}

PathsLeft(s, j) == (s.knownPaths[j] \intersect s.evictedPaths[j]) \union ActivePaths(s, j)

Owes(s) == Changed(s) \union Removed(s) # {} \/ \E j \in Job : PathsLeft(s, j) # s.knownPaths[j]

(* The persisted* maps, updated only once the transaction commits. *)
Saved(s) ==
  [s EXCEPT !.known = [j \in Job |-> IF j \in Changed(s) THEN "current"
                                     ELSE IF j \in Removed(s) THEN "none" ELSE s.known[j]],
            !.knownPaths = [j \in Job |-> PathsLeft(s, j)]]

SavedDisk(s, d) ==
  [row |-> [j \in Job |-> IF j \in Changed(s) THEN RowOf(s.mem[j])
                          ELSE IF j \in Removed(s) THEN NoRow ELSE d.row[j]],
   pathRow |-> [j \in Job |-> (d.pathRow[j] \ (s.knownPaths[j] \ PathsLeft(s, j)))
                               \union (ActivePaths(s, j) \ s.knownPaths[j])]]

-----------------------------------------------------------------------------
(* enforceCompletedResidentBudget. *)

(* Mutant: a job whose changes are not on disk counts as weighed. *)
WeighedUnsaved(s) == {j \in Job : Resident(s, j) /\ s.known[j] # "none"}

(* The jobs whose row and paths are on disk as they are in memory. *)
Weighed(s) ==
  {j \in Job : Resident(s, j) /\ s.known[j] = "current" /\ s.mem[j].offers \subseteq s.knownPaths[j]}

Weight(s, jobs) == MapThenSumSet(LAMBDA j : Bytes(s.mem[j].offers), jobs)

Evictable(s) == {j \in Weighed(s) : s.mem[j].status = "completed" /\ now - s.mem[j].done >= Grace}

UsedBefore(a, b) == a.idle < b.idle \/ (a.idle = b.idle /\ a.done < b.done)

(* The least recently used go until the rest fits; equals in any order. *)
EvictChoices(s) ==
  LET fits(gone) == Weight(s, Weighed(s) \ gone) <= ResidentBudget
  IN {gone \in SUBSET Evictable(s) :
        /\ \A j \in gone, k \in Evictable(s) \ gone : ~UsedBefore(s.mem[k], s.mem[j])
        /\ fits(gone) \/ gone = Evictable(s)
        /\ gone # {} => \E j \in gone : /\ \A k \in gone : ~UsedBefore(s.mem[j], s.mem[k])
                                        /\ ~fits(gone \ {j})}

(* evictResidentJob *)
Evict(s, gone) ==
  [s EXCEPT !.mem = [j \in Job |-> IF j \in gone THEN [Blank EXCEPT !.status = "gone"]
                                   ELSE s.mem[j]],
            !.deferred = @ \ gone,
            !.evicted = [j \in Job |-> IF j \in gone THEN s.mem[j].idle ELSE s.evicted[j]],
            !.evictedPaths = [j \in Job |-> IF j \in gone THEN s.mem[j].offers
                                            ELSE s.evictedPaths[j]]]

(* A write of the store s, refused or not, and the enforcement after it. *)
Write(s, d, accepted) ==
  IF ~Owes(s)
    THEN store' = s /\ disk' = d /\ refused' = FALSE
    ELSE IF accepted
      THEN /\ \E gone \in EvictChoices(Saved(s)) : store' = Evict(Saved(s), gone)
           /\ disk' = SavedDisk(s, d)
           /\ refused' = FALSE
      ELSE store' = s /\ disk' = d /\ refused' = TRUE

-----------------------------------------------------------------------------
(* updateSearchJob, updateMatrixJob: every change of a job in memory.       *)

(* Mutant: the debounce is left to the next save. *)
TouchedUnscheduled(j, r, persist) ==
  /\ store' = [store EXCEPT
       !.mem[j] = [r EXCEPT !.idle = now],
       !.known[j] = IF @ = "none" THEN @ ELSE "stale",
       !.deferred = IF persist THEN @ \ {j} ELSE @ \union {j}]
  /\ poll' = [poll EXCEPT ![j] = Unparked]
  /\ timer' = (timer \/ persist)
  /\ UNCHANGED <<disk, refused, now>>

(* Mutant: only a final status answers the parked poll. *)
UpdateWakesAtEnd(j, r, persist) ==
  /\ store' = [store EXCEPT
       !.mem[j] = [r EXCEPT !.idle = now],
       !.known[j] = IF @ = "none" THEN @ ELSE "stale",
       !.deferred = IF persist THEN @ \ {j} ELSE @ \union {j}]
  /\ poll' = [poll EXCEPT ![j] = IF r.status = "running" THEN @ ELSE Unparked]
  /\ timer' = TRUE
  /\ UNCHANGED <<disk, refused, now>>

Update(j, r, persist) ==
  /\ store' = [store EXCEPT
       !.mem[j] = [r EXCEPT !.idle = now],
       !.known[j] = IF @ = "none" THEN @ ELSE "stale",
       !.deferred = IF persist THEN @ \ {j} ELSE @ \union {j}]
  /\ poll' = [poll EXCEPT ![j] = Unparked]
  /\ timer' = TRUE
  /\ UNCHANGED <<disk, refused, now>>

IsRunning(j) == store.mem[j].status = "running"

(* createSearchJob, with the offers of an earlier search or none; one that  *)
(* has to wait is marked queued, without persisting, before any write.      *)
Create(j, offers, queued) ==
  /\ store.mem[j].status = "none" /\ (queued => j \in Followed)
  /\ store' = [store EXCEPT
       !.mem[j] = [Blank EXCEPT !.status = "running", !.offers = offers, !.done = now, !.idle = now,
                                !.queued = queued],
       !.deferred = IF queued THEN @ \union {j} ELSE @]
  /\ timer' = TRUE
  /\ UNCHANGED <<disk, refused, poll, now>>

(* The lease of a queued job arrives: the mark goes, without persisting. *)
Unqueue(j) ==
  /\ IsRunning(j) /\ store.mem[j].queued
  /\ Update(j, [store.mem[j] EXCEPT !.queued = FALSE], FALSE)

(* A progress snapshot; it is persisted when the offers doubled since the   *)
(* last one that was.                                                       *)
Progress(j, offers) ==
  LET count == Cardinality(offers)
      persist == count > 0 /\ (store.mem[j].saved = 0 \/ count >= 2 * store.mem[j].saved)
  IN /\ IsRunning(j) /\ ~store.mem[j].queued
     /\ Update(j, [store.mem[j] EXCEPT !.offers = offers, !.done = now,
                                       !.saved = IF persist THEN count ELSE @], persist)

(* Mutant: a search that was stopped completes all the same. *)
CompleteAnyway(j, offers) ==
  /\ Resident(store, j) /\ ~store.mem[j].queued
  /\ Update(j, [store.mem[j] EXCEPT !.offers = offers, !.status = "completed", !.done = now], TRUE)

Complete(j, offers) ==
  /\ IsRunning(j) /\ ~store.mem[j].queued
  /\ Update(j, [store.mem[j] EXCEPT !.offers = offers, !.status = "completed", !.done = now], TRUE)

(* failJob *)
Fail(j) ==
  /\ IsRunning(j)
  /\ Update(j, [store.mem[j] EXCEPT !.status = "failed", !.queued = FALSE, !.done = now], TRUE)

(* cancelSearchJob on a running job's record. *)
Cancelled(r, keep) ==
  [r EXCEPT !.status = IF keep /\ r.offers # {} THEN "completed" ELSE "cancelled",
            !.queued = FALSE, !.done = now]

Cancel(j, keep) ==
  /\ IsRunning(j)
  /\ Update(j, Cancelled(store.mem[j], keep), TRUE)

(* updateOffer: an offer's revalidated price. *)
Revalidate(j) ==
  /\ j \in Followed /\ Resident(store, j) /\ store.mem[j].offers # {}
  /\ Update(j, store.mem[j], TRUE)

(* getSearchJob, getOffer, getSession, resolvePurchasePath: the access is   *)
(* noted in memory, and the persisted version follows it unwritten.         *)
Touch(j) ==
  /\ j \in Followed /\ Resident(store, j) /\ store.mem[j].idle # now
  /\ store' = [store EXCEPT !.mem[j].idle = now]
  /\ UNCHANGED <<disk, timer, refused, poll, now>>

(* waitForSearchJobChange: a poll that has seen the job as it is parks. *)
Park(j) ==
  /\ j \in Followed /\ IsRunning(j) /\ poll[j] = Unparked
  /\ poll' = [poll EXCEPT ![j] = Seen(store.mem[j])]
  /\ UNCHANGED <<store, disk, timer, refused, now>>

PollTimeout(j) ==
  /\ poll[j] # Unparked
  /\ poll' = [poll EXCEPT ![j] = Unparked]
  /\ UNCHANGED <<store, disk, timer, refused, now>>

-----------------------------------------------------------------------------
(* The debounce fires. *)
PersistTimer(accepted) ==
  /\ timer
  /\ timer' = FALSE
  /\ Write(store, disk, accepted)
  /\ UNCHANGED <<poll, now>>

Idled(idle) == now - idle > TTL

(* purgeExpired: the jobs in memory. *)
Expired(s) == {j \in Job : Resident(s, j) /\ s.mem[j].status # "running" /\ Idled(s.mem[j].idle)}

Purged(s) ==
  [s EXCEPT !.mem = [j \in Job |-> IF j \in Expired(s) THEN [Blank EXCEPT !.status = "gone"]
                                   ELSE s.mem[j]],
            !.deferred = @ \ Expired(s)]

(* Mutant: the paths of a pruned job keep their entry. *)
PrunedKeepsPaths(s, jobs) ==
  [s EXCEPT !.evicted = [j \in Job |-> IF j \in jobs THEN Never ELSE s.evicted[j]],
            !.known = [j \in Job |-> IF j \in jobs THEN "none" ELSE s.known[j]]]

(* pruneExpiredDiskOnlyRows *)
Pruned(s, jobs) ==
  [s EXCEPT !.evicted = [j \in Job |-> IF j \in jobs THEN Never ELSE s.evicted[j]],
            !.known = [j \in Job |-> IF j \in jobs THEN "none" ELSE s.known[j]],
            !.knownPaths = [j \in Job |-> s.knownPaths[j] \ (IF j \in jobs THEN s.evictedPaths[j] ELSE {})],
            !.evictedPaths = [j \in Job |-> IF j \in jobs THEN {} ELSE s.evictedPaths[j]]]

Dropped(d, jobs) ==
  [row |-> [j \in Job |-> IF j \in jobs THEN NoRow ELSE d.row[j]],
   pathRow |-> [j \in Job |-> IF j \in jobs THEN {} ELSE d.pathRow[j]]]

(* maintainSessionStoreIfInitialized, every minute: the sweep of memory and *)
(* disk, the budget, and a write.                                           *)
Sweep(accepted) ==
  LET purged == Purged(store)
      old == {j \in Job : accepted /\ store.evicted[j] # Never /\ Idled(store.evicted[j])}
      pruned == Pruned(purged, old)
  IN /\ \E gone \in EvictChoices(pruned) : Write(Evict(pruned, gone), Dropped(disk, old), accepted)
     /\ timer' = (timer \/ Expired(store) # {})
     /\ poll' = [j \in Job |-> IF j \in Expired(store) THEN Unparked ELSE poll[j]]
     /\ UNCHANGED now

(* The grace of a job over the budget ends. *)
GraceEnds ==
  /\ \E gone \in EvictChoices(store) : gone # {} /\ store' = Evict(store, gone)
  /\ UNCHANGED <<disk, timer, refused, poll, now>>

Tick ==
  /\ now < MaxNow
  /\ now' = now + 1
  /\ UNCHANGED <<store, disk, timer, refused, poll>>

-----------------------------------------------------------------------------
(* loadPersisted. *)

(* PERSISTED_SWEEP_STATEMENTS: expired rows, rows of no finished job, and   *)
(* the paths of no row.                                                     *)
Swept(d) ==
  LET out == {j \in Job : Idled(d.row[j].idle) \/ d.row[j].status = "running"}
  IN Dropped(d, out \union {j \in Job : ~OnDisk(d, j)})

(* What fits the restore budget is read, the most recently used first; a    *)
(* row that does not fit is passed over.                                    *)
RestoreChoices(d) ==
  LET rows == {j \in Job : OnDisk(d, j)}
      weigh(jobs) == MapThenSumSet(LAMBDA j : Bytes(d.row[j].offers), jobs)
  IN {in \in SUBSET rows :
        /\ weigh(in) <= RestoreBudget
        /\ \A j \in rows \ in :
             weigh({k \in in : d.row[k].idle >= d.row[j].idle} \union {j}) > RestoreBudget}

RestoredRecord(d, j) ==
  [Blank EXCEPT !.status = "completed", !.offers = d.row[j].offers,
                !.done = d.row[j].done, !.idle = d.row[j].idle]

(* Mutant: a row over the budget is not noted as on disk only. *)
LoadedResidents(d, in) ==
  LET back == {j \in in : d.row[j].status = "completed"}
  IN [mem |-> [j \in Job |->
         IF j \in back THEN RestoredRecord(d, j)
         ELSE IF store.mem[j].status = "none" THEN Blank ELSE [Blank EXCEPT !.status = "gone"]],
      deferred |-> {},
      evicted |-> [j \in Job |-> Never],
      evictedPaths |-> [j \in Job |-> {}],
      known |-> [j \in Job |-> IF j \in in THEN "current" ELSE IF OnDisk(d, j) THEN "stale" ELSE "none"],
      knownPaths |-> d.pathRow]

(* loadSqlitePayload: only finished jobs come back to memory; the rows that  *)
(* were not read are on disk only.                                           *)
Loaded(d, in) ==
  LET back == {j \in in : d.row[j].status = "completed"}
      out == {j \in Job : OnDisk(d, j)} \ in
  IN [mem |-> [j \in Job |->
         IF j \in back THEN RestoredRecord(d, j)
         ELSE IF store.mem[j].status = "none" THEN Blank ELSE [Blank EXCEPT !.status = "gone"]],
      deferred |-> {},
      evicted |-> [j \in Job |-> IF j \in out THEN d.row[j].idle ELSE Never],
      evictedPaths |-> [j \in Job |-> IF j \in out THEN d.pathRow[j] ELSE {}],
      known |-> [j \in Job |-> IF j \in in THEN "current" ELSE IF j \in out THEN "stale" ELSE "none"],
      knownPaths |-> d.pathRow]

(* The stores that a boot of the swept disk d may start from. *)
Booted(d) ==
  UNION {{Evict(Loaded(d, in), gone) : gone \in EvictChoices(Loaded(d, in))} : in \in RestoreChoices(d)}

(* A boot of what is on the disk d: sweep, load, budget.  The write at its  *)
(* end is left out: OwedIsScheduled shows that it has nothing to carry.     *)
Boot(d) ==
  /\ disk' = Swept(d)
  /\ store' \in Booted(disk')
  /\ timer' = FALSE
  /\ refused' = FALSE
  /\ poll' = [j \in Job |-> Unparked]
  /\ UNCHANGED now

(* The process dies and boots again. *)
Crash == Boot(disk)

(* Mutant: the jobs an orderly stop cuts keep nothing. *)
CutForGood(s) ==
  LET cut == {j \in Job : s.mem[j].status = "running"}
  IN [s EXCEPT !.mem = [j \in Job |-> IF j \in cut
                          THEN [Cancelled(s.mem[j], FALSE) EXCEPT !.idle = now]
                          ELSE s.mem[j]],
               !.known = [j \in Job |-> IF j \in cut /\ s.known[j] # "none" THEN "stale" ELSE s.known[j]],
               !.deferred = @ \ cut]

(* cancelRunningJobs of an orderly stop, keeping what was found. *)
Cut(s) ==
  LET cut == {j \in Job : s.mem[j].status = "running"}
  IN [s EXCEPT !.mem = [j \in Job |-> IF j \in cut
                          THEN [Cancelled(s.mem[j], TRUE) EXCEPT !.idle = now]
                          ELSE s.mem[j]],
               !.known = [j \in Job |-> IF j \in cut /\ s.known[j] # "none" THEN "stale" ELSE s.known[j]],
               !.deferred = @ \ cut]

(* An orderly stop: the jobs are cancelled, close() writes what is owed, *)
(* and the process boots again.                                          *)
Stop(accepted) ==
  /\ Boot(IF accepted THEN SavedDisk(Cut(store), disk) ELSE disk)

-----------------------------------------------------------------------------
Init ==
  /\ store = [mem |-> [j \in Job |-> Blank], deferred |-> {}, evicted |-> [j \in Job |-> Never],
              evictedPaths |-> [j \in Job |-> {}], known |-> [j \in Job |-> "none"],
              knownPaths |-> [j \in Job |-> {}]]
  /\ disk = [row |-> [j \in Job |-> NoRow], pathRow |-> [j \in Job |-> {}]]
  /\ timer = FALSE
  /\ refused = FALSE
  /\ poll = [j \in Job |-> Unparked]
  /\ now = 0

Next ==
  \/ \E j \in Job, offers \in SUBSET Offer :
       \/ \E queued \in BOOLEAN : Create(j, offers, queued)
       \/ Progress(j, offers) \/ Complete(j, offers)
  \/ \E j \in Job :
       \/ Unqueue(j) \/ Fail(j) \/ Revalidate(j) \/ Touch(j) \/ Park(j) \/ PollTimeout(j)
       \/ \E keep \in BOOLEAN : Cancel(j, keep)
  \/ \E accepted \in BOOLEAN : PersistTimer(accepted) \/ Sweep(accepted) \/ Stop(accepted)
  \/ GraceEnds \/ Tick \/ Crash

Spec == Init /\ [][Next]_vars

-----------------------------------------------------------------------------
(* Every map and row has its type. *)
TypeOK ==
  /\ store \in [mem : [Job -> Record], deferred : SUBSET Job, evicted : [Job -> {Never} \union 0..MaxNow],
                evictedPaths : [Job -> SUBSET Offer], known : [Job -> {"none", "stale", "current"}],
                knownPaths : [Job -> SUBSET Offer]]
  /\ disk \in [row : [Job -> Row], pathRow : [Job -> SUBSET Offer]]
  /\ {timer, refused} \subseteq BOOLEAN
  /\ poll \in [Job -> {Unparked} \union [queued : BOOLEAN, offers : SUBSET Offer]]
  /\ now \in 0..MaxNow

(* The persisted maps tell the truth about the file, through refused writes, *)
(* evictions, sweeps and restarts: a job believed saved is on disk as it is  *)
(* in memory, but for the time of its last access.                           *)
KnowsItsDisk ==
  \A j \in Job :
    /\ store.known[j] # "none" <=> OnDisk(disk, j)
    /\ store.knownPaths[j] = disk.pathRow[j]
    /\ store.known[j] = "current" /\ Resident(store, j) =>
         [RowOf(store.mem[j]) EXCEPT !.idle = disk.row[j].idle] = disk.row[j]

(* The durability policy (session-store.ts:2288-2308): whatever differs from *)
(* the file has its debounce armed, or was refused by the disk.              *)
OwedIsScheduled == Owes(store) => timer \/ refused

(* A job that left memory is whole on disk: its row, finished, and exactly   *)
(* the purchase paths it had, so its links go on resolving.                  *)
EvictedIsReadable ==
  \A j \in Job : store.evicted[j] # Never =>
    /\ ~Resident(store, j)
    /\ disk.row[j].status = "completed"
    /\ disk.row[j].offers = disk.pathRow[j]
    /\ store.evictedPaths[j] = disk.pathRow[j]

(* A poll never sleeps on a change: one that is parked has seen the job as   *)
(* it is, and the job still runs.                                            *)
NoMissedChange ==
  \A j \in Job : poll[j] # Unparked => IsRunning(j) /\ poll[j] = Seen(store.mem[j])

(* What the store believes of its file is true: it knows what is on disk     *)
(* (KnowsItsDisk), what a write still owes is scheduled (OwedIsScheduled),   *)
(* what left memory can be read again (EvictedIsReadable), and no poll       *)
(* sleeps on a change (NoMissedChange).                                      *)
StoreKnowsItsFile == TypeOK /\ KnowsItsDisk /\ OwedIsScheduled /\ EvictedIsReadable /\ NoMissedChange

(* What the API answers of a job: the resident record, or the row of a job   *)
(* on disk only that is not past its idle time (readPersistedSearchJob).     *)
Answers(s, d, j, offers) ==
  \/ Resident(s, j) /\ s.mem[j].status = "completed" /\ s.mem[j].offers = offers
  \/ /\ s.evicted[j] # Never /\ ~Idled(d.row[j].idle)
     /\ d.row[j].status = "completed" /\ d.row[j].offers = offers /\ d.pathRow[j] = offers

(* A crash now would lose no finished search that reached the file and is    *)
(* not past its idle time there, whatever the restore budget: it would answer *)
(* with the same offers, from memory or from the file.                       *)
CrashKeepsCompleted ==
  LET d == Swept(disk) IN
  \A j \in Job : disk.row[j].status = "completed" /\ ~Idled(disk.row[j].idle) =>
    \A s \in Booted(d) : Answers(s, d, j, disk.row[j].offers)

(* An orderly stop now, its last write accepted, would lose nothing that was *)
(* found: after the restart a running job answers with the offers it has,    *)
(* and so does a finished one whose changes the file had not seen.           *)
StopKeepsResults ==
  LET d == Swept(SavedDisk(Cut(store), disk))
      owed(j) == \/ IsRunning(j) /\ store.mem[j].offers # {}
                 \/ store.mem[j].status = "completed" /\ store.known[j] # "current" /\ ~Idled(store.mem[j].idle)
  IN \A j \in Job : owed(j) => \A s \in Booted(d) : Answers(s, d, j, store.mem[j].offers)

(* A job that failed or was cancelled, or that was dropped from memory and   *)
(* disk, is never finished or readable again, restarts included.             *)
NeverRevived ==
  [][\A j \in Job :
       (\/ store.mem[j].status \in {"failed", "cancelled"}
        \/ store.mem[j].status = "gone" /\ store.evicted[j] = Never)
       => store'.mem[j].status \in {store.mem[j].status, "gone"} /\ store'.evicted[j] = Never]_vars
=============================================================================
