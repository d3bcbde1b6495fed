--------------------------- MODULE SearchJobProofs ---------------------------
(* What SearchJob keeps for any number of jobs and providers, any set of     *)
(* searches that may run together, and any bound on partial answers.        *)
EXTENDS SearchJob, TLAPS

(* The larger of two numbers. *)
LEMMA MaxOfTwo ==
  ASSUME NEW a \in Int, NEW b \in Int
  PROVE  Max({a, b}) \in {a, b} /\ Max({a, b}) >= a /\ Max({a, b}) >= b
<1>1. \E x \in {a, b} : \A y \in {a, b} : x >= y
  <2>1. CASE a >= b
    BY <2>1
  <2>2. CASE b >= a
    BY <2>2
  <2> QED BY <2>1, <2>2
<1>2. Max({a, b}) \in {a, b} /\ \A y \in {a, b} : Max({a, b}) >= y
  BY <1>1 DEF Max
<1> QED
  BY <1>2

-----------------------------------------------------------------------------
(* What each operator does to a record, field by field. *)

(* Publishing and disposing leave these alone, and publish only what a      *)
(* running job found.                                                       *)
SameWork(r, n) ==
  /\ n.status = r.status /\ n.queued = r.queued /\ n.phase = r.phase /\ n.aborted = r.aborted
  /\ n.found = r.found /\ n.answered = r.answered
  /\ n.published = r.published \/ (Running(r) /\ n.published = r.found)

(* A flush publishes what was pending, once the job runs. *)
LEMMA FlushedFields ==
  ASSUME NEW r \in JobRecord
  PROVE  LET n == Flushed(r)
         IN /\ n \in JobRecord /\ SameWork(r, n) /\ n.registered = r.registered /\ ~n.dirty
            /\ r.dirty /\ Running(r) => n.published = r.found
            /\ ~r.dirty => n.published = r.published
<1>1. CASE ~r.dirty
  BY <1>1 DEF Flushed, JobRecord, SameWork
<1>2. CASE r.dirty
  <2> DEFINE x == Max({r.count + 1, 2 * r.count})
             y == Synced(r)
  <2>1. r.count \in Nat
    BY DEF JobRecord
  <2>2. x \in Nat
    <3> \A c \in Nat : /\ c + 1 \in Nat /\ 2 * c \in Nat
                       /\ c + 1 \in Int /\ 2 * c \in Int
      OBVIOUS
    <3>1. /\ r.count + 1 \in Nat /\ 2 * r.count \in Nat
          /\ r.count + 1 \in Int /\ 2 * r.count \in Int
      BY <2>1
    <3>2. x \in {r.count + 1, 2 * r.count}
      BY <3>1, MaxOfTwo, Zenon DEF x
    <3> HIDE DEF x
    <3> QED BY <3>1, <3>2
  <2>3. /\ y \in JobRecord /\ SameWork(r, y) /\ y.registered = r.registered
        /\ Running(r) => y.published = r.found
    BY DEF Synced, Running, JobRecord, SameWork
  <2>4. Flushed(r) = [y EXCEPT !.timer = FALSE, !.dirty = FALSE, !.next = x]
    BY <1>2 DEF Flushed
  <2> HIDE DEF x, y
  <2>5. Flushed(r) \in JobRecord
    BY <2>2, <2>3, <2>4 DEF JobRecord
  <2>6. /\ SameWork(y, Flushed(r)) /\ Flushed(r).registered = y.registered
        /\ ~Flushed(r).dirty /\ Flushed(r).published = y.published
    BY <2>2, <2>3, <2>4 DEF JobRecord, SameWork
  <2> QED
    BY <1>2, <2>3, <2>5, <2>6 DEF SameWork
<1> QED
  BY <1>1, <1>2

(* A mark leaves its change published, or pending with the timer set when   *)
(* a milestone was reached.                                                 *)
LEMMA MarkedFields ==
  ASSUME NEW r \in JobRecord, NEW elapsed \in BOOLEAN
  PROVE  LET n == Marked(r, elapsed)
         IN /\ n \in JobRecord /\ SameWork(r, n) /\ n.registered = r.registered
            /\ \/ Running(r) => n.published = r.found
               \/ n.dirty /\ (n.timer \/ n.count < n.next)
<1> DEFINE m == [r EXCEPT !.count = @ + 1, !.dirty = TRUE]
<1>1. m \in JobRecord
  <2>1. r.count + 1 \in Nat
    BY DEF JobRecord
  <2>2. \A x \in Nat : [r EXCEPT !.count = x, !.dirty = TRUE] \in JobRecord
    BY DEF JobRecord
  <2>3. m = [r EXCEPT !.count = r.count + 1, !.dirty = TRUE]
    OBVIOUS
  <2> QED BY <2>1, <2>2, <2>3
<1>2. SameWork(r, m) /\ m.registered = r.registered /\ m.dirty = TRUE
  BY DEF JobRecord, SameWork
<1>3. Marked(r, elapsed) = IF m.count < m.next THEN m
                           ELSE IF elapsed THEN Flushed(m) ELSE [m EXCEPT !.timer = TRUE]
  BY DEF Marked
<1> HIDE DEF m
<1>4. CASE m.count < m.next
  BY <1>1, <1>2, <1>3, <1>4
<1>5. CASE ~(m.count < m.next) /\ elapsed
  BY <1>1, <1>2, <1>3, <1>5, FlushedFields DEF SameWork, Running
<1>6. CASE ~(m.count < m.next) /\ ~elapsed
  <2> DEFINE t == [m EXCEPT !.timer = TRUE]
  <2>1. t \in JobRecord /\ SameWork(r, t) /\ t.registered = r.registered /\ t.dirty /\ t.timer
    BY <1>1, <1>2 DEF SameWork, JobRecord
  <2> QED BY <1>3, <1>6, <2>1
<1> QED
  BY <1>4, <1>5, <1>6

(* Disposing a registered sync lets go of it, flushed or not. *)
LEMMA DisposedFields ==
  ASSUME NEW r \in JobRecord, NEW flush \in BOOLEAN
  PROVE  LET n == Disposed(r, flush)
         IN /\ n \in JobRecord /\ SameWork(r, n) /\ ~n.registered
            /\ ~r.registered => n = r
            /\ r.registered /\ flush /\ r.dirty /\ Running(r) => n.published = r.found
            /\ ~r.dirty \/ ~flush => n.published = r.published
<1> DEFINE f == IF flush THEN Flushed(r) ELSE r
<1>1. CASE ~r.registered
  BY <1>1 DEF Disposed, SameWork, JobRecord
<1>2. CASE r.registered
  <2>1. /\ f \in JobRecord /\ SameWork(r, f)
        /\ flush /\ r.dirty /\ Running(r) => f.published = r.found
        /\ ~r.dirty \/ ~flush => f.published = r.published
    <3>1. CASE flush
      BY <3>1, FlushedFields
    <3>2. CASE ~flush
      BY <3>2 DEF SameWork
    <3> QED BY <3>1, <3>2
  <2>2. Disposed(r, flush) = [f EXCEPT !.dirty = FALSE, !.timer = FALSE, !.registered = FALSE]
    BY <1>2 DEF Disposed
  <2> HIDE DEF f
  <2>3. Disposed(r, flush) \in JobRecord
    BY <2>1, <2>2 DEF JobRecord
  <2>4. SameWork(f, Disposed(r, flush)) /\ Disposed(r, flush).published = f.published
    BY <2>1, <2>2 DEF JobRecord, SameWork
  <2>5. ~Disposed(r, flush).registered
    BY <2>1, <2>2 DEF JobRecord
  <2> QED BY <1>2, <2>1, <2>3, <2>4, <2>5 DEF SameWork
<1> QED
  BY <1>1, <1>2

(* A cancel ends a running job, with its offers when asked to keep them. *)
LEMMA CancelledFields ==
  ASSUME NEW r \in JobRecord, NEW keep \in BOOLEAN
  PROVE  LET n == Cancelled(r, keep)
         IN /\ n \in JobRecord /\ ~Running(n)
            /\ ~Running(r) => n = r
            /\ Running(r) => ~n.queued
            /\ ~keep => n.status \notin {"completed", "failed"} \/ ~Running(r)
            /\ Running(r) => n.status # "none"
            /\ n.phase = r.phase /\ n.aborted = r.aborted /\ n.registered = r.registered
            /\ n.found = r.found /\ n.published = r.published /\ n.answered = r.answered
<1>1. CASE ~Running(r)
  BY <1>1 DEF Cancelled
<1>2. CASE Running(r)
  <2> DEFINE st == IF keep /\ HasOffers(r.published) THEN "completed" ELSE "cancelled"
  <2>1. st \in {"completed", "cancelled"} /\ (~keep => st = "cancelled")
    OBVIOUS
  <2>2. Cancelled(r, keep) = [r EXCEPT !.status = st, !.queued = FALSE]
    BY <1>2 DEF Cancelled
  <2> HIDE DEF st
  <2> QED BY <1>2, <2>1, <2>2 DEF JobRecord, Running, Statuses
<1> QED
  BY <1>1, <1>2

(* An abort leaves the store's record alone and takes a waiting job out of  *)
(* the queue.                                                               *)
LEMMA AbortedFields ==
  ASSUME NEW r \in JobRecord
  PROVE  LET n == Aborted(r)
         IN /\ n \in JobRecord
            /\ ~Live(r) => n = r
            /\ Live(r) => n.aborted
            /\ n.phase = IF r.phase = "waiting" THEN "turnedAway" ELSE r.phase
            /\ n.status = r.status /\ n.queued = r.queued /\ n.registered = r.registered
            /\ n.found = r.found /\ n.published = r.published /\ n.answered = r.answered
<1>1. CASE ~Live(r)
  BY <1>1 DEF Aborted, Live
<1>2. CASE Live(r)
  <2> DEFINE ph == IF r.phase = "waiting" THEN "turnedAway" ELSE r.phase
  <2>1. ph \in Phases
    BY DEF JobRecord, Phases
  <2>2. Aborted(r) = [r EXCEPT !.aborted = TRUE, !.phase = ph]
    BY <1>2 DEF Aborted
  <2> HIDE DEF ph
  <2>3. Aborted(r) \in JobRecord
    BY <2>1, <2>2 DEF JobRecord
  <2>4. Aborted(r).phase = ph
    BY <2>2 DEF JobRecord
  <2>5. /\ Aborted(r).aborted /\ Aborted(r).status = r.status /\ Aborted(r).queued = r.queued
        /\ Aborted(r).registered = r.registered /\ Aborted(r).found = r.found
        /\ Aborted(r).published = r.published /\ Aborted(r).answered = r.answered
    BY <2>2 DEF JobRecord
  <2> QED BY <1>2, <2>3, <2>4, <2>5 DEF ph
<1> QED
  BY <1>1, <1>2

-----------------------------------------------------------------------------
(* The inductive invariant, job by job: its phase, its status, its queued   *)
(* mark and its sync agree, and a provider that has not answered is within  *)
(* the bound; while the runner serves a running job has its sync, after     *)
(* that no job has; and the cancelled runner runs none.                     *)
JobSound(r) ==
  /\ r.status = "none" => r.phase = "none"
  /\ Running(r) => r.phase \notin {"none", "settled", "gone"}
  /\ r.phase \in {"waiting", "granted", "delayed", "resolving", "quoting"}
       => Running(r) \/ r.aborted
  /\ r.queued => Running(r) /\ r.phase \in {"waiting", "granted", "turnedAway"}
  /\ r.phase = "waiting" => r.queued
  /\ Running(r) /\ r.published # r.found => r.dirty /\ (r.timer \/ r.count < r.next)
  /\ r.registered => Live(r) /\ r.phase # "settled"
  /\ r.aborted => ~Running(r) /\ ~r.registered
  /\ \A p \in Provider \ r.answered : r.found[p] <= MaxUpdates

RecordOK(r, s) ==
  /\ r \in JobRecord
  /\ JobSound(r)
  /\ s = "serving" /\ Running(r) => r.registered
  /\ s # "serving" => ~r.registered
  /\ s = "cancelled" => ~Running(r)

IInv ==
  /\ waiting \subseteq Search /\ running \subseteq Search /\ stopped \in BOOLEAN
  /\ shutdown \in {"serving", "draining", "cancelled"}
  /\ job \in [Search -> JobRecord]
  /\ \A j \in Search : RecordOK(job[j], shutdown)
  /\ CapacityFollowsWork
  /\ stopped <=> shutdown # "serving"
  /\ stopped => waiting = {}

(* What a step does to one job: it stays sound, does not end twice, and     *)
(* keeps what it found if it ends with its offers while the runner serves.  *)
KeepsEnd(r, n) ==
  r.status \in {"completed", "failed", "cancelled"}
    => n.status = r.status /\ n.published = r.published

KeepsFound(r, n, s) ==
  s = "serving" /\ Running(r) /\ n.status \in {"completed", "failed"} => n.published = r.found

GoodStep(r, n, s) == RecordOK(n, s) /\ KeepsEnd(r, n) /\ KeepsFound(r, n, s)

(* A stop ends the job and keeps its offers when it may. *)
LEMMA StoppedFields ==
  ASSUME NEW r \in JobRecord, NEW keep \in BOOLEAN, r.queued => Running(r),
         Running(r) /\ r.published # r.found => r.dirty
  PROVE  LET n == Stopped(r, keep)
         IN /\ n \in JobRecord /\ ~Running(n) /\ ~n.registered /\ ~n.queued
            /\ n.phase = IF r.phase = "waiting" THEN "turnedAway" ELSE r.phase
            /\ Live(r) => n.aborted
            /\ ~Live(r) => n.aborted = r.aborted
            /\ r.status # "none" => n.status # "none"
            /\ KeepsEnd(r, n) /\ n.found = r.found /\ n.answered = r.answered
            /\ r.registered => KeepsFound(r, n, "serving")
<1> DEFINE d == Disposed(r, keep)
           c == Cancelled(d, keep)
           n == Aborted(c)
<1>1. Stopped(r, keep) = n
  BY DEF Stopped
<1>2. /\ d \in JobRecord /\ SameWork(r, d) /\ ~d.registered
      /\ r.registered /\ keep /\ r.dirty /\ Running(r) => d.published = r.found
      /\ ~r.dirty => d.published = r.published
  BY DisposedFields
<1> HIDE DEF d
<1>3. /\ c \in JobRecord /\ ~Running(c)
      /\ ~Running(d) => c = d
      /\ Running(d) => ~c.queued
      /\ ~keep => c.status \notin {"completed", "failed"} \/ ~Running(d)
      /\ Running(d) => c.status # "none"
      /\ c.phase = d.phase /\ c.aborted = d.aborted /\ c.registered = d.registered
      /\ c.found = d.found /\ c.published = d.published /\ c.answered = d.answered
  BY <1>2, CancelledFields
<1> HIDE DEF c
<1>4. /\ n \in JobRecord
      /\ ~Live(c) => n = c
      /\ Live(c) => n.aborted
      /\ n.phase = IF c.phase = "waiting" THEN "turnedAway" ELSE c.phase
      /\ n.status = c.status /\ n.queued = c.queued /\ n.registered = c.registered
      /\ n.found = c.found /\ n.published = c.published /\ n.answered = c.answered
  BY <1>3, AbortedFields
<1> HIDE DEF n
<1>5. /\ n \in JobRecord /\ ~Running(n) /\ ~n.registered /\ ~n.queued
      /\ n.phase = IF r.phase = "waiting" THEN "turnedAway" ELSE r.phase
      /\ Live(r) => n.aborted
      /\ ~Live(r) => n.aborted = r.aborted
      /\ n.found = r.found /\ n.answered = r.answered
      /\ r.status # "none" => n.status # "none"
  BY <1>2, <1>3, <1>4 DEF SameWork, Running, Live
<1>6. KeepsEnd(r, n)
  BY <1>2, <1>3, <1>4 DEF SameWork, Running, KeepsEnd
<1>7. r.registered => KeepsFound(r, n, "serving")
  BY <1>2, <1>3, <1>4 DEF SameWork, Running, KeepsFound
<1> QED
  BY <1>1, <1>5, <1>6, <1>7

(* A stop, by a client, for want of one, or because the queue turned the    *)
(* job away, is a good step.                                                *)
LEMMA StopGood ==
  ASSUME NEW r, NEW keep \in BOOLEAN, NEW s, RecordOK(r, s), Live(r)
  PROVE  GoodStep(r, Stopped(r, keep), s)
<1> DEFINE n == Stopped(r, keep)
<1>1. /\ n \in JobRecord /\ ~Running(n) /\ ~n.registered /\ ~n.queued
      /\ n.phase = IF r.phase = "waiting" THEN "turnedAway" ELSE r.phase
      /\ n.aborted /\ r.status # "none" /\ n.status # "none"
      /\ KeepsEnd(r, n) /\ n.found = r.found /\ n.answered = r.answered
      /\ r.registered => KeepsFound(r, n, "serving")
  BY StoppedFields DEF RecordOK, JobSound, Live
<1> HIDE DEF n
<1>2. RecordOK(n, s)
  BY <1>1 DEF RecordOK, JobSound
<1>3. KeepsFound(r, n, s)
  BY <1>1 DEF RecordOK, KeepsFound
<1> QED
  BY <1>1, <1>2, <1>3 DEF GoodStep, n

(* The phases of a run, by themselves. *)
LEMMA PhaseGood ==
  ASSUME NEW r, NEW s, RecordOK(r, s), NEW ph,
         \/ r.phase = "waiting" /\ ph = "granted"
         \/ r.phase = "delayed" /\ ph = "resolving" /\ Running(r)
         \/ r.phase = "delayed" /\ ph = "settled" /\ r.aborted
         \/ r.phase = "resolving" /\ ph = "quoting" /\ Running(r)
         \/ r.phase = "settled" /\ ph = "gone"
  PROVE  GoodStep(r, [r EXCEPT !.phase = ph], s)
<1> DEFINE n == [r EXCEPT !.phase = ph]
<1>1. ph \in Phases
  BY DEF Phases
<1>2. n \in JobRecord
  BY <1>1 DEF RecordOK, JobRecord
<1>3. /\ n.phase = ph /\ n.status = r.status /\ n.queued = r.queued /\ n.aborted = r.aborted
      /\ n.found = r.found /\ n.published = r.published /\ n.answered = r.answered
      /\ n.registered = r.registered
      /\ n.dirty = r.dirty /\ n.timer = r.timer /\ n.count = r.count /\ n.next = r.next
  BY DEF RecordOK, JobRecord
<1> HIDE DEF n
<1>4. JobSound(n)
  BY <1>3 DEF RecordOK, JobSound, Running, Live
<1>5. RecordOK(n, s)
  BY <1>2, <1>3, <1>4 DEF RecordOK, Running
<1>6. KeepsEnd(r, n) /\ KeepsFound(r, n, s)
  BY <1>3 DEF KeepsEnd, KeepsFound, Running
<1> QED
  BY <1>5, <1>6 DEF GoodStep, n

(* A step that leaves the fields the invariant speaks of as they are. *)
LEMMA SameGood ==
  ASSUME NEW r, NEW s, RecordOK(r, s), NEW n \in JobRecord,
         n.status = r.status, n.queued = r.queued, n.phase = r.phase, n.aborted = r.aborted,
         n.found = r.found, n.published = r.published, n.answered = r.answered,
         n.registered = r.registered, n.dirty = r.dirty, n.timer = r.timer,
         n.count = r.count, n.next = r.next
  PROVE  GoodStep(r, n, s)
<1>1. JobSound(n)
  BY DEF RecordOK, JobSound, Running, Live
<1> QED
  BY <1>1 DEF GoodStep, RecordOK, KeepsEnd, KeepsFound, Running

(* The trailing timer. *)
LEMMA FlushGood ==
  ASSUME NEW r, NEW s, RecordOK(r, s)
  PROVE  GoodStep(r, Flushed(r), s)
<1> DEFINE n == Flushed(r)
<1>1. /\ n \in JobRecord /\ SameWork(r, n) /\ n.registered = r.registered
      /\ r.dirty /\ Running(r) => n.published = r.found
      /\ ~r.dirty => n.published = r.published
  BY FlushedFields DEF RecordOK
<1> HIDE DEF n
<1>2. Running(r) => n.published = r.found
  BY <1>1 DEF RecordOK, JobSound
<1>3. JobSound(n)
  BY <1>1, <1>2 DEF RecordOK, JobSound, SameWork, Running, Live
<1>4. RecordOK(n, s) /\ KeepsEnd(r, n) /\ KeepsFound(r, n, s)
  BY <1>1, <1>3 DEF RecordOK, KeepsEnd, KeepsFound, SameWork, Running
<1> QED
  BY <1>4 DEF GoodStep, n

(* A provider's answer, partial or whole, marked on a job that runs. *)
LEMMA MarkGood ==
  ASSUME NEW r, NEW s, RecordOK(r, s), Running(r), r.phase = "resolving",
         NEW a \in JobRecord, NEW elapsed \in BOOLEAN,
         a.status = r.status, a.queued = r.queued, a.phase = r.phase, a.aborted = r.aborted,
         a.registered = r.registered,
         \A p \in Provider \ a.answered : a.found[p] <= MaxUpdates
  PROVE  GoodStep(r, Marked(a, elapsed), s)
<1> DEFINE n == Marked(a, elapsed)
<1>1. /\ n \in JobRecord /\ SameWork(a, n) /\ n.registered = a.registered
      /\ \/ Running(a) => n.published = a.found
         \/ n.dirty /\ (n.timer \/ n.count < n.next)
  BY MarkedFields
<1> HIDE DEF n
<1>2. JobSound(n)
  BY <1>1 DEF RecordOK, JobSound, SameWork, Running, Live
<1>3. RecordOK(n, s) /\ KeepsEnd(r, n) /\ KeepsFound(r, n, s)
  BY <1>1, <1>2 DEF RecordOK, KeepsEnd, KeepsFound, SameWork, Running
<1> QED
  BY <1>3 DEF GoodStep, n

(* A partial answer grows a level within the bound. *)
LEMMA GrownLevel ==
  ASSUME NEW level \in Level, level <= MaxUpdates
  PROVE  Grown(level) \in Level
BY JobAssumption DEF Grown, Level, Seed

(* A delta of a provider that is still answering is a good step of its     *)
(* job.                                                                    *)
LEMMA UpdateGood ==
  ASSUME NEW r, NEW s, RecordOK(r, s), Running(r), r.phase = "resolving",
         NEW p \in Provider, p \notin r.answered, Grown(r.found[p]) <= MaxUpdates,
         NEW elapsed \in BOOLEAN
  PROVE  GoodStep(r, Marked(Heard(r, p), elapsed), s)
<1> DEFINE f == [r.found EXCEPT ![p] = Grown(@)]
           a == Heard(r, p)
<1>1. r \in JobRecord /\ r.found \in [Provider -> Level]
  BY DEF RecordOK, JobRecord
<1>2. r.found[p] \in Level /\ r.found[p] <= MaxUpdates
  BY <1>1, JobAssumption DEF RecordOK, JobSound
<1>3. Grown(r.found[p]) \in Level
  BY <1>2, GrownLevel
<1>4. f \in [Provider -> Level] /\ \A q \in Provider : f[q] = IF q = p THEN Grown(r.found[p])
                                                              ELSE r.found[q]
  BY <1>1, <1>3
<1>5. a = [r EXCEPT !.found = f]
  BY <1>1 DEF Heard
<1> HIDE DEF f, a
<1>6. a \in JobRecord
  BY <1>1, <1>4, <1>5 DEF JobRecord
<1>7. /\ a.status = r.status /\ a.queued = r.queued /\ a.phase = r.phase /\ a.aborted = r.aborted
      /\ a.registered = r.registered /\ a.answered = r.answered /\ a.found = f
  BY <1>1, <1>5 DEF JobRecord
<1>8. \A q \in Provider \ a.answered : a.found[q] <= MaxUpdates
  BY <1>3, <1>4, <1>7 DEF RecordOK, JobSound
<1>9. GoodStep(r, Marked(a, elapsed), s)
  BY <1>6, <1>7, <1>8, MarkGood
<1> QED
  BY <1>9 DEF a

(* The answer of a provider is a good step of its job.                     *)
LEMMA AnsweredGood ==
  ASSUME NEW r, NEW s, RecordOK(r, s), r.phase = "resolving",
         NEW p \in Provider, NEW level \in Level, NEW elapsed \in BOOLEAN
  PROVE  GoodStep(r, Answered(r, p, level, elapsed), s)
<1> DEFINE a == [r EXCEPT !.answered = @ \union {p}]
           b == [a EXCEPT !.found[p] = level]
<1>1. r \in JobRecord
  BY DEF RecordOK
<1>2. /\ a \in JobRecord
      /\ a.status = r.status /\ a.queued = r.queued /\ a.phase = r.phase /\ a.aborted = r.aborted
      /\ a.registered = r.registered /\ a.answered = r.answered \union {p} /\ a.found = r.found
      /\ a.published = r.published /\ a.dirty = r.dirty /\ a.timer = r.timer
      /\ a.count = r.count /\ a.next = r.next
  BY <1>1 DEF JobRecord
<1>3. Answered(r, p, level, elapsed) = IF Running(r) THEN Marked(b, elapsed) ELSE a
  BY DEF Answered
<1> HIDE DEF a
<1>4. CASE Running(r)
  <2>1. b \in JobRecord
    BY <1>2 DEF JobRecord
  <2>2. /\ b.status = r.status /\ b.queued = r.queued /\ b.phase = r.phase /\ b.aborted = r.aborted
        /\ b.registered = r.registered /\ b.answered = r.answered \union {p}
    BY <1>2 DEF JobRecord
  <2>3. \A q \in Provider \ {p} : b.found[q] = r.found[q]
    BY <1>2 DEF JobRecord
  <2> HIDE DEF b
  <2>4. \A q \in Provider \ b.answered : b.found[q] <= MaxUpdates
    BY <2>2, <2>3 DEF RecordOK, JobSound
  <2> QED BY <1>3, <1>4, <2>1, <2>2, <2>4, MarkGood
<1>5. CASE ~Running(r)
  <2>1. JobSound(a)
    BY <1>2 DEF RecordOK, JobSound, Running, Live
  <2>2. RecordOK(a, s) /\ KeepsEnd(r, a) /\ KeepsFound(r, a, s)
    BY <1>2, <1>5, <2>1 DEF RecordOK, KeepsEnd, KeepsFound, Running
  <2> QED BY <1>3, <1>5, <2>2 DEF GoodStep
<1> QED
  BY <1>4, <1>5

(* A run that finds its job ended settles. *)
LEMMA EndedGood ==
  ASSUME NEW r, NEW s, RecordOK(r, s), ~Running(r), r.phase \in {"delayed", "resolving"}
  PROVE  GoodStep(r, [Disposed(r, FALSE) EXCEPT !.phase = "settled"], s)
<1> DEFINE d == Disposed(r, FALSE)
           n == [d EXCEPT !.phase = "settled"]
<1>1. d \in JobRecord /\ SameWork(r, d) /\ ~d.registered
  BY DisposedFields DEF RecordOK
<1> HIDE DEF d
<1>2. n \in JobRecord
  BY <1>1 DEF JobRecord, Phases
<1>3. /\ n.status = d.status /\ n.queued = d.queued /\ n.phase = "settled"
      /\ n.aborted = d.aborted /\ n.found = d.found /\ n.answered = d.answered
      /\ n.published = d.published /\ n.registered = d.registered
  BY <1>1 DEF JobRecord
<1> HIDE DEF n
<1>4. JobSound(n)
  BY <1>1, <1>3 DEF RecordOK, JobSound, SameWork, Running, Live
<1>5. RecordOK(n, s) /\ KeepsEnd(r, n) /\ KeepsFound(r, n, s)
  BY <1>1, <1>2, <1>3, <1>4 DEF RecordOK, KeepsEnd, KeepsFound, SameWork, Running
<1> QED
  BY <1>5 DEF GoodStep, n, d

(* The end of a run that completes. *)
LEMMA CompleteGood ==
  ASSUME NEW r, NEW s, RecordOK(r, s), r.phase = "quoting"
  PROVE  GoodStep(r, [Completed(Disposed(r, FALSE)) EXCEPT !.phase = "settled"], s)
<1> DEFINE d == Disposed(r, FALSE)
           c == Completed(d)
           n == [c EXCEPT !.phase = "settled"]
<1>1. d \in JobRecord /\ SameWork(r, d) /\ ~d.registered
  BY DisposedFields DEF RecordOK
<1> HIDE DEF d
<1>2. /\ c \in JobRecord /\ ~Running(c) /\ c.queued = d.queued /\ c.aborted = d.aborted
      /\ c.found = d.found /\ c.answered = d.answered /\ c.registered = d.registered
      /\ Running(d) => c.published = d.found /\ c.status = "completed"
      /\ ~Running(d) => c.status = d.status /\ c.published = d.published
  BY <1>1 DEF Completed, Running, JobRecord, Statuses
<1> HIDE DEF c
<1>3. n \in JobRecord
  BY <1>2 DEF JobRecord, Phases
<1>4. /\ n.status = c.status /\ n.queued = c.queued /\ n.phase = "settled"
      /\ n.aborted = c.aborted /\ n.found = c.found /\ n.answered = c.answered
      /\ n.published = c.published /\ n.registered = c.registered
  BY <1>2 DEF JobRecord
<1> HIDE DEF n
<1>5. JobSound(n)
  BY <1>1, <1>2, <1>4 DEF RecordOK, JobSound, SameWork, Running, Live
<1>6. RecordOK(n, s) /\ KeepsEnd(r, n) /\ KeepsFound(r, n, s)
  BY <1>1, <1>2, <1>3, <1>4, <1>5 DEF RecordOK, KeepsEnd, KeepsFound, SameWork, Running
<1> QED
  BY <1>6 DEF GoodStep, n, c, d

(* The end of a run that throws. *)
LEMMA FailGood ==
  ASSUME NEW r, NEW s, RecordOK(r, s), r.phase = "quoting"
  PROVE  GoodStep(r, [Failed(r) EXCEPT !.phase = "settled"], s)
<1> DEFINE d == Disposed(r, TRUE)
           c == Failed(r)
           n == [c EXCEPT !.phase = "settled"]
<1>1. /\ d \in JobRecord /\ SameWork(r, d) /\ ~d.registered
      /\ r.registered /\ r.dirty /\ Running(r) => d.published = r.found
      /\ ~r.dirty => d.published = r.published
  BY DisposedFields DEF RecordOK
<1>2. c = IF Running(d) THEN [d EXCEPT !.status = "failed", !.queued = FALSE] ELSE d
  BY DEF Failed
<1> HIDE DEF d, c
<1>3. /\ c \in JobRecord /\ ~Running(c) /\ c.aborted = d.aborted
      /\ c.queued => d.queued /\ ~Running(d)
      /\ c.found = d.found /\ c.answered = d.answered /\ c.registered = d.registered
      /\ c.published = d.published
      /\ ~Running(d) => c.status = d.status
      /\ Running(d) => c.status = "failed"
  BY <1>1, <1>2 DEF Running, JobRecord, Statuses
<1>4. n \in JobRecord
  BY <1>3 DEF JobRecord, Phases
<1>5. /\ n.status = c.status /\ n.queued = c.queued /\ n.phase = "settled"
      /\ n.aborted = c.aborted /\ n.found = c.found /\ n.answered = c.answered
      /\ n.published = c.published /\ n.registered = c.registered
  BY <1>3 DEF JobRecord
<1> HIDE DEF n
<1>6. JobSound(n)
  BY <1>1, <1>3, <1>5 DEF RecordOK, JobSound, SameWork, Running, Live
<1>7. RecordOK(n, s)
  BY <1>1, <1>3, <1>4, <1>5, <1>6 DEF RecordOK, SameWork, Running
<1>8. KeepsEnd(r, n) /\ KeepsFound(r, n, s)
  BY <1>1, <1>3, <1>5 DEF RecordOK, JobSound, KeepsEnd, KeepsFound, SameWork, Running
<1> QED
  BY <1>7, <1>8 DEF GoodStep, n, c

(* The lease arrives: the mark goes from a job that runs. *)
LEMMA ArriveGood ==
  ASSUME NEW r, NEW s, RecordOK(r, s), r.phase = "granted"
  PROVE  GoodStep(r, [r EXCEPT !.phase = "delayed",
                               !.queued = IF Running(r) THEN FALSE ELSE @], s)
<1> DEFINE q == IF Running(r) THEN FALSE ELSE r.queued
           n == [r EXCEPT !.phase = "delayed", !.queued = q]
<1>1. r \in JobRecord /\ q \in BOOLEAN /\ ~q
  BY DEF RecordOK, JobSound, JobRecord
<1> HIDE DEF q
<1>2. n \in JobRecord
  BY <1>1 DEF JobRecord, Phases
<1>3. /\ n.phase = "delayed" /\ ~n.queued /\ n.status = r.status /\ n.aborted = r.aborted
      /\ n.found = r.found /\ n.published = r.published /\ n.answered = r.answered
      /\ n.registered = r.registered /\ n.dirty = r.dirty /\ n.timer = r.timer
      /\ n.count = r.count /\ n.next = r.next
  BY <1>1 DEF JobRecord
<1> HIDE DEF n
<1>4. JobSound(n)
  BY <1>3 DEF RecordOK, JobSound, Running, Live
<1>5. RecordOK(n, s) /\ KeepsEnd(r, n) /\ KeepsFound(r, n, s)
  BY <1>2, <1>3, <1>4 DEF RecordOK, KeepsEnd, KeepsFound, Running
<1> QED
  BY <1>5 DEF GoodStep, n, q

(* The queue turned it away: stopped with the runner's reason, or already. *)
LEMMA TurnedAwayGood ==
  ASSUME NEW r, NEW s, RecordOK(r, s), r.phase = "turnedAway",
         NEW n, n = LET ended == [r EXCEPT !.phase = "gone"]
                    IN IF ended.aborted THEN ended ELSE Stopped(ended, TRUE)
  PROVE  GoodStep(r, n, s) /\ n.phase = "gone"
<1> DEFINE e == [r EXCEPT !.phase = "gone"]
<1>1. e \in JobRecord
  BY DEF RecordOK, JobRecord, Phases
<1>2. /\ e.phase = "gone" /\ e.queued = r.queued /\ e.status = r.status /\ e.aborted = r.aborted
      /\ e.found = r.found /\ e.published = r.published /\ e.answered = r.answered
      /\ e.registered = r.registered /\ e.dirty = r.dirty
  BY DEF RecordOK, JobRecord
<1>3. n = IF e.aborted THEN e ELSE Stopped(e, TRUE)
  OBVIOUS
<1> HIDE DEF e
<1>4. CASE e.aborted
  <2>1. JobSound(e)
    BY <1>2, <1>4 DEF RecordOK, JobSound, Running, Live
  <2>2. RecordOK(e, s) /\ KeepsEnd(r, e) /\ KeepsFound(r, e, s)
    BY <1>1, <1>2, <1>4, <2>1 DEF RecordOK, JobSound, KeepsEnd, KeepsFound, Running
  <2> QED BY <1>2, <1>3, <1>4, <2>2 DEF GoodStep
<1>5. CASE ~e.aborted
  <2>1. /\ n \in JobRecord /\ ~Running(n) /\ ~n.registered /\ ~n.queued
        /\ n.phase = "gone" /\ n.aborted = e.aborted /\ n.status # "none"
        /\ KeepsEnd(e, n) /\ n.found = e.found /\ n.answered = e.answered
        /\ e.registered => KeepsFound(e, n, "serving")
    <3>1. e.queued => Running(e)
      BY <1>2 DEF RecordOK, JobSound, Running
    <3>2. Running(e) /\ e.published # e.found => e.dirty
      BY <1>2 DEF RecordOK, JobSound, Running
    <3>3. ~Live(e) /\ e.phase # "waiting" /\ e.status # "none"
      BY <1>2 DEF Live, RecordOK, JobSound
    <3> QED BY <1>1, <1>2, <1>3, <1>5, <3>1, <3>2, <3>3, StoppedFields, ZenonT(60)
  <2>2. JobSound(n)
    BY <1>2, <1>5, <2>1 DEF RecordOK, JobSound, Live
  <2>3. RecordOK(n, s)
    BY <2>1, <2>2 DEF RecordOK
  <2>4. KeepsEnd(r, n) /\ KeepsFound(r, n, s)
    BY <1>2, <2>1 DEF RecordOK, KeepsEnd, KeepsFound, Running
  <2> QED BY <2>1, <2>3, <2>4 DEF GoodStep
<1> QED
  BY <1>4, <1>5

(* A search the runner takes: held in the queue, or given its capacity. *)
LEMMA AcceptedFields ==
  ASSUME NEW j \in Search, NEW ph \in Phases
  PROVE  LET n == Accepted(j, ph)
         IN /\ n \in JobRecord
            /\ n.status = "running" /\ n.phase = ph /\ n.queued = (ph = "waiting")
            /\ n.published = n.found /\ n.registered /\ ~n.dirty /\ ~n.aborted
            /\ \A p \in Provider : n.found[p] <= MaxUpdates
<1> DEFINE lv == [p \in Provider |-> IF j \in Seeded THEN Seed ELSE 0]
           q == (ph = "waiting")
<1>1. lv \in [Provider -> Level] /\ \A p \in Provider : lv[p] <= MaxUpdates
  BY JobAssumption DEF Level, Seed
<1>2. NoJob \in JobRecord /\ ~NoJob.dirty /\ ~NoJob.aborted
  <2>1. [p \in Provider |-> 0] \in [Provider -> Level]
    BY JobAssumption DEF Level, Seed
  <2> QED BY <2>1 DEF NoJob, JobRecord, Statuses, Phases
<1>3. Accepted(j, ph) = [NoJob EXCEPT !.status = "running", !.phase = ph, !.queued = q,
                                      !.found = lv, !.published = lv, !.registered = TRUE]
  BY DEF Accepted
<1>4. q \in BOOLEAN
  OBVIOUS
<1> HIDE DEF lv, q
<1>5. Accepted(j, ph) \in JobRecord
  BY <1>1, <1>2, <1>3, <1>4 DEF JobRecord, Statuses
<1>6. /\ Accepted(j, ph).status = "running" /\ Accepted(j, ph).phase = ph
      /\ Accepted(j, ph).queued = q /\ Accepted(j, ph).published = lv
      /\ Accepted(j, ph).found = lv /\ Accepted(j, ph).registered
      /\ ~Accepted(j, ph).dirty /\ ~Accepted(j, ph).aborted
  BY <1>2, <1>3 DEF JobRecord
<1> QED
  BY <1>1, <1>5, <1>6 DEF q

(* The acceptance of a job is a good step of it.                           *)
LEMMA AcceptedGood ==
  ASSUME NEW j \in Search, NEW ph \in {"waiting", "granted"}, NEW r, r.status = "none"
  PROVE  GoodStep(r, Accepted(j, ph), "serving")
<1> DEFINE n == Accepted(j, ph)
<1>1. /\ n \in JobRecord
      /\ n.status = "running" /\ n.phase = ph /\ n.queued = (ph = "waiting")
      /\ n.published = n.found /\ n.registered /\ ~n.dirty /\ ~n.aborted
      /\ \A p \in Provider : n.found[p] <= MaxUpdates
  BY AcceptedFields DEF Phases
<1> HIDE DEF n
<1>2. JobSound(n)
  BY <1>1 DEF JobSound, Running, Live
<1>3. RecordOK(n, "serving") /\ KeepsEnd(r, n) /\ KeepsFound(r, n, "serving")
  BY <1>1, <1>2 DEF RecordOK, KeepsEnd, KeepsFound, Running
<1> QED
  BY <1>3 DEF GoodStep, n

(* A search the stopping runner rejects. *)
LEMMA RejectedGood ==
  ASSUME NEW j \in Search, NEW r, r.status = "none", NEW s
  PROVE  /\ GoodStep(r, Stopped(Accepted(j, "gone"), TRUE), s)
         /\ Stopped(Accepted(j, "gone"), TRUE).phase = "gone"
<1> DEFINE a == Accepted(j, "gone")
           n == Stopped(a, TRUE)
<1>1. /\ a \in JobRecord
      /\ a.status = "running" /\ a.phase = "gone" /\ a.queued = ("gone" = "waiting")
      /\ a.published = a.found /\ a.registered /\ ~a.dirty /\ ~a.aborted
      /\ \A p \in Provider : a.found[p] <= MaxUpdates
  BY AcceptedFields DEF Phases
<1> HIDE DEF a
<1>2. ~Live(a) /\ a.phase # "waiting" /\ Running(a) /\ a.status # "none"
  BY <1>1 DEF Live, Running
<1>3. /\ n \in JobRecord /\ ~Running(n) /\ ~n.registered /\ ~n.queued
      /\ n.phase = "gone" /\ n.aborted = a.aborted /\ n.status # "none"
      /\ n.found = a.found /\ n.answered = a.answered
  BY <1>1, <1>2, StoppedFields
<1> HIDE DEF n
<1>4. JobSound(n)
  BY <1>1, <1>3 DEF JobSound, Live
<1>5. RecordOK(n, s) /\ KeepsEnd(r, n) /\ KeepsFound(r, n, s)
  BY <1>3, <1>4 DEF RecordOK, KeepsEnd, KeepsFound, Running
<1> QED
  BY <1>3, <1>5 DEF GoodStep, n, a

(* The shutdown lets go of the sync, and turns a waiting job away. *)
LEMMA DrainGood ==
  ASSUME NEW r, RecordOK(r, "serving"), NEW turned \in BOOLEAN, turned <=> r.phase = "waiting",
         NEW n, n = [Disposed(r, TRUE) EXCEPT !.phase = IF turned THEN "turnedAway" ELSE @]
  PROVE  /\ RecordOK(n, "draining") /\ KeepsEnd(r, n) /\ KeepsFound(r, n, "serving")
         /\ n.phase = IF turned THEN "turnedAway" ELSE r.phase
<1> DEFINE d == Disposed(r, TRUE)
           ph == IF turned THEN "turnedAway" ELSE r.phase
<1>1. /\ d \in JobRecord /\ SameWork(r, d) /\ ~d.registered
      /\ ~r.registered => d = r
      /\ r.registered /\ r.dirty /\ Running(r) => d.published = r.found
      /\ ~r.dirty => d.published = r.published
  BY DisposedFields DEF RecordOK
<1>2. ph \in Phases
  BY DEF RecordOK, JobRecord, Phases
<1>3. n = [d EXCEPT !.phase = ph]
  BY <1>1 DEF SameWork
<1> HIDE DEF d, ph
<1>4. n \in JobRecord
  BY <1>1, <1>2, <1>3 DEF JobRecord
<1>5. /\ n.phase = ph /\ n.status = d.status /\ n.queued = d.queued /\ n.aborted = d.aborted
      /\ n.found = d.found /\ n.published = d.published /\ n.answered = d.answered
      /\ n.registered = d.registered
  BY <1>1, <1>3 DEF JobRecord
<1>6. Running(r) => d.published = r.found
  BY <1>1 DEF RecordOK, JobSound
<1>7. JobSound(n)
  <2>1. /\ n.status = r.status /\ n.queued = r.queued /\ n.aborted = r.aborted
        /\ n.found = r.found /\ n.answered = r.answered /\ ~n.registered
        /\ Running(r) => n.published = n.found
    BY <1>1, <1>5, <1>6 DEF SameWork
  <2>2. CASE turned
    <3>1. n.phase = "turnedAway" /\ r.phase = "waiting"
      BY <1>5, <2>2 DEF ph
    <3> QED BY <2>1, <3>1 DEF RecordOK, JobSound, Running
  <2>3. CASE ~turned
    <3>1. n.phase = r.phase
      BY <1>5, <2>3 DEF ph
    <3> QED BY <2>1, <3>1 DEF RecordOK, JobSound, Running
  <2> QED BY <2>2, <2>3
<1>8. RecordOK(n, "draining")
  BY <1>1, <1>4, <1>5, <1>7 DEF RecordOK
<1>9. KeepsEnd(r, n) /\ KeepsFound(r, n, "serving")
  BY <1>1, <1>5 DEF KeepsEnd, KeepsFound, SameWork, Running
<1> QED
  BY <1>5, <1>8, <1>9 DEF ph

(* The drain is over. *)
LEMMA CancelGood ==
  ASSUME NEW r, RecordOK(r, "draining"), r.phase # "waiting",
         NEW n, n = Aborted(Cancelled(r, TRUE))
  PROVE  /\ RecordOK(n, "cancelled") /\ KeepsEnd(r, n) /\ n.phase = r.phase
<1> DEFINE c == Cancelled(r, TRUE)
<1>1. /\ c \in JobRecord /\ ~Running(c)
      /\ ~Running(r) => c = r
      /\ Running(r) => ~c.queued /\ c.status # "none"
      /\ c.phase = r.phase /\ c.aborted = r.aborted /\ c.registered = r.registered
      /\ c.found = r.found /\ c.published = r.published /\ c.answered = r.answered
  BY CancelledFields DEF RecordOK
<1> HIDE DEF c
<1>2. /\ n \in JobRecord
      /\ ~Live(c) => n = c
      /\ Live(c) => n.aborted
      /\ n.phase = c.phase
      /\ n.status = c.status /\ n.queued = c.queued /\ n.registered = c.registered
      /\ n.found = c.found /\ n.published = c.published /\ n.answered = c.answered
  BY <1>1, AbortedFields DEF c
<1>3. ~n.queued /\ ~n.registered
  BY <1>1, <1>2 DEF RecordOK, JobSound
<1>4. JobSound(n)
  BY <1>1, <1>2, <1>3 DEF RecordOK, JobSound, Running, Live
<1> QED
  BY <1>1, <1>2, <1>3, <1>4 DEF RecordOK, KeepsEnd, Running

-----------------------------------------------------------------------------
(* The invariant holds initially and every step keeps it. *)
LEMMA InitInv == JobInit => IInv
<1> SUFFICES ASSUME JobInit
             PROVE  IInv
  OBVIOUS
<1>1. NoJob \in JobRecord
  <2>1. [p \in Provider |-> 0] \in [Provider -> Level]
    BY JobAssumption DEF Level, Seed
  <2> QED BY <2>1 DEF NoJob, JobRecord, Statuses, Phases
<1>2. RecordOK(NoJob, "serving")
  <2>1. JobSound(NoJob)
    BY JobAssumption DEF JobSound, NoJob, Running
  <2> QED BY <1>1, <2>1 DEF RecordOK, NoJob, Running
<1>3. CapacityFollowsWork
  BY DEF JobInit, LeaseInit, CapacityFollowsWork, NoJob, Holding
<1> QED
  BY <1>1, <1>2, <1>3 DEF JobInit, LeaseInit, IInv

(* What a step does to all the jobs' ends and offers. *)
StepKeeps ==
  \A k \in Search : KeepsEnd(job[k], job'[k]) /\ KeepsFound(job[k], job'[k], shutdown)

(* A good step of one job, whose place in the queue moves with its phase. *)
LEMMA OneJob ==
  ASSUME IInv, NEW j \in Search, NEW n, job' = [job EXCEPT ![j] = n],
         GoodStep(job[j], n, shutdown), shutdown' = shutdown, stopped' = stopped,
         waiting' \subseteq Search, running' \subseteq Search,
         \A k \in Search \ {j} : (k \in waiting' <=> k \in waiting) /\ (k \in running' <=> k \in running),
         j \in waiting' <=> n.phase = "waiting", j \in running' <=> n.phase \in Holding,
         stopped => waiting' = {}
  PROVE  IInv' /\ StepKeeps
<1>1. job' \in [Search -> JobRecord] /\ job'[j] = n /\ \A k \in Search \ {j} : job'[k] = job[k]
  BY DEF IInv, GoodStep, RecordOK
<1>2. \A k \in Search : RecordOK(job'[k], shutdown)
  BY <1>1 DEF IInv, GoodStep
<1>3. CapacityFollowsWork'
  BY <1>1 DEF IInv, CapacityFollowsWork
<1>4. StepKeeps
  <2>1. \A k \in Search \ {j} : KeepsEnd(job[k], job'[k]) /\ KeepsFound(job[k], job'[k], shutdown)
    BY <1>1 DEF KeepsEnd, KeepsFound, Running
  <2> QED BY <1>1, <2>1 DEF GoodStep, StepKeeps
<1> QED
  BY <1>1, <1>2, <1>3, <1>4 DEF IInv

(* A good step of one job that keeps its place. *)
LEMMA JobOnly ==
  ASSUME IInv, NEW j \in Search, NEW n, job' = [job EXCEPT ![j] = n],
         GoodStep(job[j], n, shutdown), shutdown' = shutdown, UNCHANGED leaseVars,
         n.phase = "waiting" <=> job[j].phase = "waiting",
         n.phase \in Holding <=> job[j].phase \in Holding
  PROVE  IInv' /\ StepKeeps
BY OneJob DEF IInv, CapacityFollowsWork, leaseVars

(* A stop of a live job, from the queue too. *)
LEMMA StopStep ==
  ASSUME IInv, NEW j \in Search, NEW keep \in BOOLEAN, Live(job[j]), StopJob(j, keep)
  PROVE  IInv' /\ StepKeeps
<1> DEFINE r == job[j]
           n == Stopped(r, keep)
<1>1. RecordOK(r, shutdown)
  BY DEF IInv
<1>2. GoodStep(r, n, shutdown)
  BY <1>1, StopGood
<1>3. n.phase = IF r.phase = "waiting" THEN "turnedAway" ELSE r.phase
  BY <1>1, StoppedFields DEF RecordOK, JobSound
<1>4. job' = [job EXCEPT ![j] = n] /\ shutdown' = shutdown
  BY DEF StopJob
<1> HIDE DEF n
<1>5. CASE r.phase = "waiting"
  <2>1. GiveUp(j)
    BY <1>5 DEF StopJob
  <2>2. j \notin running
    BY <1>5 DEF IInv, CapacityFollowsWork, Holding
  <2> QED
    BY <1>2, <1>3, <1>4, <1>5, <2>1, <2>2, OneJob DEF GiveUp, IInv, Holding
<1>6. CASE r.phase # "waiting"
  <2>1. UNCHANGED leaseVars
    BY <1>6 DEF StopJob
  <2> QED BY <1>2, <1>3, <1>4, <1>6, <2>1, JobOnly
<1> QED
  BY <1>5, <1>6

(* A step that only parks, follows or goes silent. *)
LEMMA FollowStep ==
  ASSUME IInv, NEW j \in Search, GoSilent(j) \/ Follow(j) \/ PollEnds(j)
  PROVE  IInv' /\ StepKeeps
<1> DEFINE r == job[j]
<1>1. RecordOK(r, shutdown) /\ r \in JobRecord
  BY DEF IInv, RecordOK
<1>2. PICK pk \in BOOLEAN, si \in BOOLEAN :
        /\ job' = [job EXCEPT ![j] = [r EXCEPT !.parked = pk, !.silent = si]]
        /\ UNCHANGED <<leaseVars, shutdown>>
  <2>1. CASE GoSilent(j)
    <3>1. job' = [job EXCEPT ![j] = [r EXCEPT !.parked = r.parked, !.silent = TRUE]]
      BY <1>1, <2>1 DEF GoSilent, JobRecord, IInv
    <3> QED BY <1>1, <2>1, <3>1 DEF GoSilent, JobRecord
  <2>2. CASE Follow(j)
    <3>1. job' = [job EXCEPT ![j] = [r EXCEPT !.parked = TRUE, !.silent = r.silent]]
      BY <1>1, <2>2 DEF Follow, JobRecord, IInv
    <3> QED BY <1>1, <2>2, <3>1 DEF Follow, JobRecord
  <2>3. CASE PollEnds(j)
    <3>1. job' = [job EXCEPT ![j] = [r EXCEPT !.parked = FALSE, !.silent = FALSE]]
      BY <1>1, <2>3 DEF PollEnds, JobRecord, IInv
    <3> QED BY <2>3, <3>1 DEF PollEnds
  <2> QED BY <2>1, <2>2, <2>3
<1> DEFINE n == [r EXCEPT !.parked = pk, !.silent = si]
<1>3. n \in JobRecord
  BY <1>1 DEF JobRecord
<1>4. /\ n.status = r.status /\ n.queued = r.queued /\ n.phase = r.phase
      /\ n.aborted = r.aborted /\ n.found = r.found /\ n.published = r.published
      /\ n.answered = r.answered /\ n.registered = r.registered /\ n.dirty = r.dirty
      /\ n.timer = r.timer /\ n.count = r.count /\ n.next = r.next
  BY <1>1 DEF JobRecord
<1>5. job' = [job EXCEPT ![j] = n] /\ UNCHANGED leaseVars /\ shutdown' = shutdown
  BY <1>2
<1> HIDE DEF n
<1>6. GoodStep(r, n, shutdown)
  BY <1>1, <1>3, <1>4, SameGood
<1> QED
  BY <1>4, <1>5, <1>6, JobOnly

(* A step of one provider of one job. *)
LEMMA ProviderStep ==
  ASSUME IInv, NEW j \in Search, NEW p \in Provider,
         Update(j, p) \/ ProviderCompletes(j, p) \/ ProviderFails(j, p)
  PROVE  IInv' /\ StepKeeps
<1> DEFINE r == job[j]
<1>1. /\ RecordOK(r, shutdown) /\ r \in JobRecord
      /\ r.phase = "resolving" /\ p \notin r.answered
      /\ UNCHANGED leaseVars /\ shutdown' = shutdown
  BY DEF IInv, RecordOK, Update, ProviderCompletes, ProviderFails, Awaited
<1>2. \E n : job' = [job EXCEPT ![j] = n] /\ GoodStep(r, n, shutdown) /\ n.phase = "resolving"
  <2>1. CASE Update(j, p)
    <3> DEFINE a == Heard(r, p)
    <3>1. PICK elapsed \in BOOLEAN : job' = [job EXCEPT ![j] = Marked(a, elapsed)]
      BY <2>1 DEF Update
    <3>2. GoodStep(r, Marked(a, elapsed), shutdown)
      <4>1. Running(r) /\ Grown(r.found[p]) <= MaxUpdates
        BY <2>1 DEF Update
      <4> QED BY <1>1, <4>1, UpdateGood
    <3>3. Marked(a, elapsed).phase = "resolving"
      <4>1. r.found \in [Provider -> Level] /\ r.found[p] \in Level /\ r.found[p] <= MaxUpdates
        BY <1>1 DEF JobRecord, RecordOK, JobSound
      <4>2. Grown(r.found[p]) \in Level
        BY <4>1, GrownLevel
      <4>3. a \in JobRecord /\ a.phase = "resolving"
        BY <1>1, <4>1, <4>2 DEF JobRecord, Heard
      <4> HIDE DEF a
      <4> QED BY <4>3, MarkedFields DEF SameWork
    <3> QED BY <3>1, <3>2, <3>3
  <2>2. ASSUME NEW level \in Level, NEW elapsed \in BOOLEAN,
               job' = [job EXCEPT ![j] = Answered(r, p, level, elapsed)]
        PROVE  \E n : job' = [job EXCEPT ![j] = n] /\ GoodStep(r, n, shutdown)
                      /\ n.phase = "resolving"
    <3> DEFINE a == [r EXCEPT !.answered = @ \union {p}]
               b == [a EXCEPT !.found[p] = level]
    <3>1. GoodStep(r, Answered(r, p, level, elapsed), shutdown)
      BY <1>1, AnsweredGood
    <3>2. a \in JobRecord /\ b \in JobRecord /\ a.phase = "resolving" /\ b.phase = "resolving"
      <4>1. a \in JobRecord /\ a.phase = "resolving"
        BY <1>1 DEF JobRecord
      <4> HIDE DEF a
      <4> QED BY <4>1 DEF JobRecord
    <3>3. Answered(r, p, level, elapsed) = IF Running(r) THEN Marked(b, elapsed) ELSE a
      BY DEF Answered
    <3> HIDE DEF a, b
    <3>4. Answered(r, p, level, elapsed).phase = "resolving"
      BY <3>2, <3>3, MarkedFields DEF SameWork
    <3> QED BY <2>2, <3>1, <3>4
  <2>3. r.found \in [Provider -> Level] /\ r.found[p] \in Level /\ r.found[p] <= MaxUpdates
    BY <1>1 DEF JobRecord, RecordOK, JobSound
  <2>4. CASE ProviderCompletes(j, p)
    <3>1. Grown(r.found[p]) \in Level /\ 0 \in Level
      BY <2>3, GrownLevel, JobAssumption DEF Level, Seed
    <3>2. PICK elapsed \in BOOLEAN, level \in {0, Grown(r.found[p])} :
            job' = [job EXCEPT ![j] = Answered(r, p, level, elapsed)]
      BY <2>4 DEF ProviderCompletes
    <3> QED BY <2>2, <3>1, <3>2
  <2>5. CASE ProviderFails(j, p)
    <3> DEFINE level == Max({0, r.found[p]})
    <3>1. r.found[p] \in Int /\ 0 \in Int
      BY <2>3, JobAssumption DEF Level, Seed
    <3>2. level \in {0, r.found[p]}
      BY <3>1, MaxOfTwo, Zenon DEF level
    <3>3. PICK elapsed \in BOOLEAN : job' = [job EXCEPT ![j] = Answered(r, p, level, elapsed)]
      BY <2>5 DEF ProviderFails
    <3> HIDE DEF level
    <3>4. level \in Level
      BY <2>3, <3>2, JobAssumption DEF Level, Seed
    <3> QED BY <2>2, <3>3, <3>4
  <2> QED BY <2>1, <2>4, <2>5
<1>3. PICK n : job' = [job EXCEPT ![j] = n] /\ GoodStep(r, n, shutdown) /\ n.phase = "resolving"
  BY <1>2
<1> QED
  BY <1>1, <1>3, JobOnly

(* A search asked: waiting, running, or turned away by a stopping runner. *)
LEMMA AcceptStep ==
  ASSUME IInv, NEW j \in Search, AcceptSearch(j)
  PROVE  IInv' /\ StepKeeps
<1> DEFINE r == job[j]
<1>1. r.status = "none" /\ shutdown' = shutdown
  BY DEF AcceptSearch
<1>2. RecordOK(r, shutdown) /\ r \in JobRecord
  BY DEF IInv, RecordOK
<1>3. j \notin waiting /\ j \notin running => r.phase # "waiting" /\ r.phase \notin Holding
  BY DEF IInv, CapacityFollowsWork
<1>4. CASE Ask(j) /\ job' = [job EXCEPT ![j] = Accepted(j, "waiting")]
  <2> DEFINE n == Accepted(j, "waiting")
  <2>1. shutdown = "serving" /\ GoodStep(r, n, shutdown)
    BY <1>1, <1>4, AcceptedGood DEF IInv, Ask
  <2>2. n.phase = "waiting"
    BY AcceptedFields DEF Phases
  <2> HIDE DEF n
  <2> QED BY <1>1, <1>4, <2>1, <2>2, OneJob DEF n, Ask, IInv, Holding
<1>5. CASE Admit(j) /\ job' = [job EXCEPT ![j] = Accepted(j, "granted")]
  <2> DEFINE n == Accepted(j, "granted")
  <2>1. shutdown = "serving" /\ GoodStep(r, n, shutdown)
    BY <1>1, <1>5, AcceptedGood DEF IInv, Admit
  <2>2. n.phase = "granted"
    BY AcceptedFields DEF Phases
  <2> HIDE DEF n
  <2> QED BY <1>1, <1>5, <2>1, <2>2, OneJob DEF n, Admit, IInv, Holding
<1>6. CASE /\ stopped
           /\ job' = [job EXCEPT ![j] = Stopped(Accepted(j, "gone"), TRUE)]
           /\ UNCHANGED leaseVars
  <2> DEFINE n == Stopped(Accepted(j, "gone"), TRUE)
  <2>1. GoodStep(r, n, shutdown) /\ n.phase = "gone"
    BY <1>1, RejectedGood
  <2>2. r.phase = "none"
    BY <1>1, <1>2 DEF RecordOK, JobSound
  <2> HIDE DEF n
  <2> QED BY <1>1, <1>6, <2>1, <2>2, JobOnly DEF n, Holding
<1> QED
  BY <1>4, <1>5, <1>6 DEF AcceptSearch

(* SIGTERM. *)
LEMMA DrainStep ==
  ASSUME IInv, StopAccepting
  PROVE  IInv' /\ StepKeeps
<1> DEFINE n(j) == [Disposed(job[j], TRUE) EXCEPT !.phase = IF j \in waiting THEN "turnedAway" ELSE @]
<1>1. /\ shutdown = "serving" /\ shutdown' = "draining"
      /\ job' = [j \in Search |-> n(j)]
      /\ waiting' = {} /\ running' = running /\ stopped' = TRUE
  BY DEF StopAccepting, Stop
<1>2. ASSUME NEW j \in Search
      PROVE  /\ RecordOK(n(j), "draining") /\ KeepsEnd(job[j], n(j))
             /\ KeepsFound(job[j], n(j), "serving")
             /\ n(j).phase = IF j \in waiting THEN "turnedAway" ELSE job[j].phase
  <2> DEFINE r == job[j]
             turned == j \in waiting
             m == [Disposed(r, TRUE) EXCEPT !.phase = IF turned THEN "turnedAway" ELSE @]
  <2>1. RecordOK(r, "serving") /\ turned \in BOOLEAN /\ (turned <=> r.phase = "waiting")
    BY <1>1 DEF IInv, CapacityFollowsWork
  <2> HIDE DEF r, turned
  <2>2. /\ RecordOK(m, "draining") /\ KeepsEnd(r, m) /\ KeepsFound(r, m, "serving")
        /\ m.phase = IF turned THEN "turnedAway" ELSE r.phase
    BY <2>1, DrainGood
  <2> QED BY <2>2 DEF r, turned
<1> HIDE DEF n
<1>3. job' \in [Search -> JobRecord] /\ \A j \in Search : job'[j] = n(j)
  BY <1>1, <1>2 DEF RecordOK
<1>4. StepKeeps
  BY <1>1, <1>2, <1>3 DEF StepKeeps
<1>5. CapacityFollowsWork'
  BY <1>1, <1>2, <1>3 DEF CapacityFollowsWork, IInv, Holding
<1> QED
  BY <1>1, <1>2, <1>3, <1>4, <1>5 DEF IInv

(* The end of the drain's window. *)
LEMMA CancelStep ==
  ASSUME IInv, CancelRunningJobs
  PROVE  IInv' /\ StepKeeps
<1> DEFINE n(j) == Aborted(Cancelled(job[j], TRUE))
<1>1. /\ shutdown = "draining" /\ shutdown' = "cancelled"
      /\ job' = [j \in Search |-> n(j)]
      /\ UNCHANGED leaseVars
  BY DEF CancelRunningJobs
<1>2. ASSUME NEW j \in Search
      PROVE  RecordOK(n(j), "cancelled") /\ KeepsEnd(job[j], n(j)) /\ n(j).phase = job[j].phase
  <2>1. RecordOK(job[j], "draining") /\ job[j].phase # "waiting"
    BY <1>1 DEF IInv, CapacityFollowsWork
  <2> QED BY <2>1, CancelGood
<1> HIDE DEF n
<1>3. job' \in [Search -> JobRecord] /\ \A j \in Search : job'[j] = n(j)
  BY <1>1, <1>2 DEF RecordOK
<1>4. StepKeeps
  BY <1>1, <1>2, <1>3 DEF StepKeeps, KeepsFound
<1>5. CapacityFollowsWork'
  BY <1>1, <1>2, <1>3 DEF CapacityFollowsWork, IInv, leaseVars
<1> QED
  BY <1>1, <1>2, <1>3, <1>4, <1>5 DEF IInv, leaseVars

(* Every step. *)
LEMMA StepInv == IInv /\ [JobNext]_vars => IInv' /\ StepKeeps
<1> SUFFICES ASSUME IInv, [JobNext]_vars
             PROVE  IInv' /\ StepKeeps
  OBVIOUS
<1> USE DEF leaseVars
<1>1. ASSUME NEW j \in Search PROVE RecordOK(job[j], shutdown) /\ job[j] \in JobRecord
  BY DEF IInv, RecordOK
<1>2. ASSUME NEW j \in Search, AcceptSearch(j) PROVE IInv' /\ StepKeeps
  BY <1>2, AcceptStep
<1>3. ASSUME NEW j \in Search, GrantLease(j) PROVE IInv' /\ StepKeeps
  <2> DEFINE n == [job[j] EXCEPT !.phase = "granted"]
  <2>1. job[j].phase = "waiting"
    BY <1>3 DEF GrantLease, Grant, IInv, CapacityFollowsWork
  <2>2. GoodStep(job[j], n, shutdown) /\ n.phase = "granted"
    BY <1>1, <2>1, PhaseGood DEF JobRecord
  <2>3. job' = [job EXCEPT ![j] = n]
    BY <1>3 DEF GrantLease
  <2> HIDE DEF n
  <2> QED BY <1>3, <2>2, <2>3, OneJob DEF GrantLease, Grant, IInv, Holding
<1>4. ASSUME NEW j \in Search, LeaseArrives(j) PROVE IInv' /\ StepKeeps
  <2> DEFINE n == [job[j] EXCEPT !.phase = "delayed", !.queued = IF Running(job[j]) THEN FALSE ELSE @]
  <2>1. job[j].phase = "granted" /\ UNCHANGED <<leaseVars, shutdown>>
    BY <1>4 DEF LeaseArrives
  <2>2. GoodStep(job[j], n, shutdown)
    BY <1>1, <2>1, ArriveGood
  <2>3. n.phase = "delayed"
    BY <1>1 DEF JobRecord
  <2>4. job' = [job EXCEPT ![j] = n]
    BY <1>1, <1>4 DEF LeaseArrives, IInv
  <2> HIDE DEF n
  <2> QED BY <2>1, <2>2, <2>3, <2>4, JobOnly DEF Holding
<1>5. ASSUME NEW j \in Search, Run(j) PROVE IInv' /\ StepKeeps
  <2> DEFINE n == IF job[j].aborted THEN [job[j] EXCEPT !.phase = "settled"]
                  ELSE IF ~Running(job[j]) THEN [Disposed(job[j], FALSE) EXCEPT !.phase = "settled"]
                  ELSE [job[j] EXCEPT !.phase = "resolving"]
  <2>1. job[j].phase = "delayed" /\ UNCHANGED <<leaseVars, shutdown>>
    BY <1>5 DEF Run
  <2>2. GoodStep(job[j], n, shutdown)
    <3>1. CASE job[j].aborted
      BY <1>1, <2>1, <3>1, PhaseGood
    <3>2. CASE ~job[j].aborted /\ ~Running(job[j])
      BY <1>1, <2>1, <3>2, EndedGood
    <3>3. CASE ~job[j].aborted /\ Running(job[j])
      BY <1>1, <2>1, <3>3, PhaseGood
    <3> QED BY <3>1, <3>2, <3>3
  <2>3. n.phase \in {"settled", "resolving"}
    BY <1>1, DisposedFields DEF JobRecord
  <2>4. job' = [job EXCEPT ![j] = n]
    BY <1>5 DEF Run
  <2> HIDE DEF n
  <2> QED BY <2>1, <2>2, <2>3, <2>4, JobOnly DEF Holding
<1>6. ASSUME NEW j \in Search, AllSettled(j) PROVE IInv' /\ StepKeeps
  <2> DEFINE n == IF Running(job[j]) THEN [job[j] EXCEPT !.phase = "quoting"]
                  ELSE [Disposed(job[j], FALSE) EXCEPT !.phase = "settled"]
  <2>1. job[j].phase = "resolving" /\ UNCHANGED <<leaseVars, shutdown>>
    BY <1>6 DEF AllSettled
  <2>2. GoodStep(job[j], n, shutdown)
    <3>1. CASE Running(job[j])
      BY <1>1, <2>1, <3>1, PhaseGood
    <3>2. CASE ~Running(job[j])
      BY <1>1, <2>1, <3>2, EndedGood
    <3> QED BY <3>1, <3>2
  <2>3. n.phase \in {"settled", "quoting"}
    BY <1>1, DisposedFields DEF JobRecord
  <2>4. job' = [job EXCEPT ![j] = n]
    BY <1>6 DEF AllSettled
  <2> HIDE DEF n
  <2> QED BY <2>1, <2>2, <2>3, <2>4, JobOnly DEF Holding
<1>7. ASSUME NEW j \in Search, Complete(j) PROVE IInv' /\ StepKeeps
  <2> DEFINE c == Completed(Disposed(job[j], FALSE))
             n == [c EXCEPT !.phase = "settled"]
  <2>1. job[j].phase = "quoting" /\ UNCHANGED <<leaseVars, shutdown>>
        /\ job' = [job EXCEPT ![j] = n]
    BY <1>7 DEF Complete
  <2>2. GoodStep(job[j], n, shutdown)
    BY <1>1, <2>1, CompleteGood
  <2>3. c \in JobRecord
    <3>1. Disposed(job[j], FALSE) \in JobRecord
      BY <1>1, DisposedFields
    <3> QED BY <3>1 DEF Completed, JobRecord, Statuses
  <2>4. n.phase = "settled"
    BY <2>3 DEF JobRecord
  <2> HIDE DEF n
  <2> QED BY <2>1, <2>2, <2>4, JobOnly DEF Holding
<1>8. ASSUME NEW j \in Search, RunThrows(j) PROVE IInv' /\ StepKeeps
  <2> DEFINE c == Failed(job[j])
             n == [c EXCEPT !.phase = "settled"]
  <2>1. job[j].phase = "quoting" /\ UNCHANGED <<leaseVars, shutdown>>
        /\ job' = [job EXCEPT ![j] = n]
    BY <1>8 DEF RunThrows
  <2>2. GoodStep(job[j], n, shutdown)
    BY <1>1, <2>1, FailGood
  <2>3. c \in JobRecord
    <3>1. Disposed(job[j], TRUE) \in JobRecord
      BY <1>1, DisposedFields
    <3> QED BY <3>1 DEF Failed, JobRecord, Statuses
  <2>4. n.phase = "settled"
    BY <2>3 DEF JobRecord
  <2> HIDE DEF n
  <2> QED BY <2>1, <2>2, <2>4, JobOnly DEF Holding
<1>9. ASSUME NEW j \in Search, ReleaseLease(j) PROVE IInv' /\ StepKeeps
  <2> DEFINE n == [job[j] EXCEPT !.phase = "gone"]
  <2>1. job[j].phase = "settled" /\ Return(j) /\ shutdown' = shutdown
        /\ job' = [job EXCEPT ![j] = n]
    BY <1>9 DEF ReleaseLease
  <2>2. GoodStep(job[j], n, shutdown) /\ n.phase = "gone"
    BY <1>1, <2>1, PhaseGood DEF JobRecord
  <2> HIDE DEF n
  <2>3. j \notin waiting
    BY <2>1 DEF IInv, CapacityFollowsWork
  <2> QED BY <2>1, <2>2, <2>3, OneJob DEF Return, IInv, Holding
<1>10. ASSUME NEW j \in Search, TurnedAway(j) PROVE IInv' /\ StepKeeps
  <2> DEFINE n == LET ended == [job[j] EXCEPT !.phase = "gone"]
                  IN IF ended.aborted THEN ended ELSE Stopped(ended, TRUE)
  <2>1. job[j].phase = "turnedAway" /\ UNCHANGED <<leaseVars, shutdown>>
        /\ job' = [job EXCEPT ![j] = n]
    BY <1>10 DEF TurnedAway
  <2>2. GoodStep(job[j], n, shutdown) /\ n.phase = "gone"
    BY <1>1, <2>1, TurnedAwayGood
  <2> HIDE DEF n
  <2> QED BY <2>1, <2>2, JobOnly DEF Holding
<1>11. ASSUME NEW j \in Search, SyncTimer(j) PROVE IInv' /\ StepKeeps
  <2>1. UNCHANGED <<leaseVars, shutdown>> /\ job' = [job EXCEPT ![j] = Flushed(job[j])]
    BY <1>11 DEF SyncTimer
  <2>2. GoodStep(job[j], Flushed(job[j]), shutdown) /\ Flushed(job[j]).phase = job[j].phase
    BY <1>1, FlushGood, FlushedFields DEF SameWork
  <2> QED BY <2>1, <2>2, JobOnly
<1>12. ASSUME NEW j \in Search, Cancel(j) \/ StopUnfollowed(j) PROVE IInv' /\ StepKeeps
  BY <1>12, StopStep DEF Cancel, StopUnfollowed
<1>13. ASSUME NEW j \in Search, GoSilent(j) \/ Follow(j) \/ PollEnds(j) PROVE IInv' /\ StepKeeps
  BY <1>13, FollowStep
<1>14. ASSUME NEW j \in Search, NEW p \in Provider,
              Update(j, p) \/ ProviderCompletes(j, p) \/ ProviderFails(j, p)
       PROVE  IInv' /\ StepKeeps
  BY <1>14, ProviderStep
<1>15. ASSUME StopAccepting PROVE IInv' /\ StepKeeps
  BY <1>15, DrainStep
<1>16. ASSUME CancelRunningJobs PROVE IInv' /\ StepKeeps
  BY <1>16, CancelStep
<1>17. ASSUME UNCHANGED vars PROVE IInv' /\ StepKeeps
  <2>1. IInv'
    BY <1>17 DEF vars, IInv, CapacityFollowsWork
  <2>2. StepKeeps
    BY <1>17 DEF vars, StepKeeps, KeepsEnd, KeepsFound, Running
  <2> QED BY <2>1, <2>2
<1> QED
  BY <1>2, <1>3, <1>4, <1>5, <1>6, <1>7, <1>8, <1>9, <1>10, <1>11, <1>12, <1>13, <1>14,
     <1>15, <1>16, <1>17 DEF JobNext


(* The inductive invariant of the specification. *)
THEOREM InvHolds == JobSpec => []IInv
<1>1. JobInit => IInv
  BY InitInv
<1>2. IInv /\ [JobNext]_vars => IInv'
  BY StepInv
<1> QED
  BY <1>1, <1>2, PTL DEF JobSpec

(* Every variable has its type, the levels of what was found included. *)
THEOREM TypeCorrect == JobSpec => []TypeOK
<1>1. IInv => TypeOK
  BY DEF IInv, TypeOK
<1> QED
  BY <1>1, InvHolds, PTL

(* A job holds capacity exactly from its grant to the end of its work, and  *)
(* waits exactly while the queue has it, through stops and the shutdown.    *)
THEOREM CapacityFollows == JobSpec => []CapacityFollowsWork
<1>1. IInv => CapacityFollowsWork
  BY DEF IInv
<1> QED
  BY <1>1, InvHolds, PTL

(* No job is left running with nobody to end it, and no ended job keeps     *)
(* provider work that was not hung up on.                                   *)
THEOREM EndsWithWork == JobSpec => []EndsWithItsWork
<1>1. IInv => EndsWithItsWork
  BY DEF IInv, RecordOK, JobSound, EndsWithItsWork
<1> QED
  BY <1>1, InvHolds, PTL

(* Nothing that runs or has ended is shown as queued. *)
THEOREM QueuedTrue == JobSpec => []QueuedMarkIsTrue
<1>1. IInv => QueuedMarkIsTrue
  BY DEF IInv, RecordOK, JobSound, QueuedMarkIsTrue
<1> QED
  BY <1>1, InvHolds, PTL

(* What was found and is not published is pending, and scheduled once due. *)
THEOREM PendingScheduled == JobSpec => []PendingIsScheduled
<1>1. IInv => PendingIsScheduled
  BY DEF IInv, RecordOK, JobSound, PendingIsScheduled
<1> QED
  BY <1>1, InvHolds, PTL

(* A job that is over leaves no progress sync behind. *)
THEOREM SyncsLive == JobSpec => []SyncsAreLive
<1>1. IInv => SyncsAreLive
  BY DEF IInv, RecordOK, JobSound, SyncsAreLive
<1> QED
  BY <1>1, InvHolds, PTL

(* No job runs once the shutdown has cancelled. *)
THEOREM ShutdownEndsAll == JobSpec => []ShutdownEndsJobs
<1>1. IInv => ShutdownEndsJobs
  BY DEF IInv, RecordOK, ShutdownEndsJobs
<1> QED
  BY <1>1, InvHolds, PTL

(* A job ends once, and its offers are not touched afterwards. *)
THEOREM EndsOnce == JobSpec => FinalIsFinal
<1>1. IInv /\ [JobNext]_vars => [\A j \in Search :
        job[j].status \in {"completed", "failed", "cancelled"}
          => /\ job'[j].status = job[j].status
             /\ job'[j].published = job[j].published]_vars
  BY StepInv DEF StepKeeps, KeepsEnd
<1> QED
  BY <1>1, InvHolds, PTL DEF JobSpec, FinalIsFinal

(* While the runner serves, a job that ends with its offers keeps all it    *)
(* had found.                                                               *)
THEOREM EndKeeps == JobSpec => EndKeepsWhatWasFound
<1>1. IInv /\ [JobNext]_vars => [shutdown = "serving" =>
        \A j \in Search :
          Running(job[j]) /\ job'[j].status \in {"completed", "failed"}
            => job'[j].published = job[j].found]_vars
  BY StepInv DEF StepKeeps, KeepsFound
<1> QED
  BY <1>1, InvHolds, PTL DEF JobSpec, EndKeepsWhatWasFound
=============================================================================
