--------------------------- MODULE WorkerPoolProofs ---------------------------
(* What holds of a provider's pool for any jobs, workers and recycling limit: *)
(* no worker that leaves takes a job with it, and the calls end as the router *)
(* is promised.                                                               *)
EXTENDS WorkerPool, FiniteSetTheorems, SequenceTheorems, TLAPS

-----------------------------------------------------------------------------
(* The inductive invariant, in parts. *)

InLine == [id : Job, type : {"run", "cancel"}]
OutLine == [id : Job, type : {"progress", "resolved", "failed"}]

PipeType == inbox \in [Worker -> Seq(InLine)] /\ outbox \in [Worker -> Seq(OutLine)]

(* The processes are spawned in order, and one that was not is untouched. *)
BornInOrder ==
  \E k \in 0..MaxWorkers : \A w \in Worker : process[w].state # "unborn" <=> w <= k

UnbornIsBlank ==
  \A w \in Worker : process[w].state = "unborn" =>
    /\ process[w] = Unborn /\ client[w] = NewClient /\ inbox[w] = <<>> /\ outbox[w] = <<>>
    /\ w \notin closed /\ w \notin signals /\ hit[w] = "nothing" /\ w # current
    /\ \A j \in Job : on[j] # w

NewIsNowhere ==
  \A j \in Job :
    /\ outcome[j] = "new" => on[j] = NoWorker
    /\ on[j] = NoWorker => reached[j] = "nowhere" /\ outcome[j] \notin {"pending", "stopped"}
    /\ reached[j] = "nowhere" => heard[j] = 0

(* The jobs that ended on a worker. *)
Done(w) == {j \in Job : on[j] = w /\ outcome[j] \notin {"new", "pending"}}

CountIsExact == \A w \in Worker : client[w].completedJobs = Cardinality(Done(w))

(* A worker that is told to leave is out of the map, and idle but for the     *)
(* stop of the pool; one that left without being hit was told to.             *)
LeavingIsIdle ==
  \A w \in Worker :
    /\ client[w].retiring <=> w \in closed
    /\ w \in closed => w # current /\ (stopped \/ client[w].jobs = {})
    /\ client[w].exitSeen => process[w].state = "exited" /\ w # current
    /\ process[w].stdinEnded => w \in closed
    /\ process[w].state \in {"stopping", "exited"} /\ hit[w] = "nothing" => w \in closed
    /\ hit[w] # "nothing" => process[w].state \in {"stopping", "exited"}

(* Two signals at one worker, or one without the unit's, are the pool's stop. *)
OneSignal ==
  ~stopped =>
    \A w \in Worker :
      /\ ~(w \in signals /\ process[w].grace)
      /\ restart \/ (w \notin signals /\ ~process[w].grace)

(* A job is run once, on its own worker. *)
InputIsOurs ==
  \A w \in Worker : \A i \in 1..Len(inbox[w]) :
    /\ on[inbox[w][i].id] = w
    /\ inbox[w][i].type = "run" => reached[inbox[w][i].id] = "nowhere"

RunsDiffer ==
  \A w \in Worker : \A i, k \in 1..Len(inbox[w]) :
    inbox[w][i] = inbox[w][k] /\ inbox[w][i].type = "run" => i = k

PendingIsRead ==
  \A w \in Worker :
    /\ \A j \in process[w].pending : on[j] = w /\ reached[j] = "read"
    /\ process[w].told \subseteq process[w].pending

RunOnce == InputIsOurs /\ RunsDiffer /\ PendingIsRead

BegunIsPending ==
  \A j \in Job :
    reached[j] = "read" /\ process[on[j]].state = "up" => j \in process[on[j]].pending

(* What a worker wrote of a job is in its output until it is read, and tells  *)
(* of progress once.                                                          *)
OutputIsOurs ==
  \A w \in Worker : \A i \in 1..Len(outbox[w]) :
    /\ on[outbox[w][i].id] = w
    /\ reached[outbox[w][i].id] # "nowhere"
    /\ outbox[w][i].type # "progress" => reached[outbox[w][i].id] = "answered"

ProgressIsNews ==
  \A w \in Worker : \A i \in 1..Len(outbox[w]) :
    outbox[w][i].type = "progress" =>
      /\ heard[outbox[w][i].id] = 0
      /\ outbox[w][i].id \notin process[w].pending \ process[w].told

ProgressDiffers ==
  \A w \in Worker : \A i, k \in 1..Len(outbox[w]) :
    outbox[w][i] = outbox[w][k] /\ outbox[w][i].type = "progress" => i = k

(* An answer to a job. *)
IsAnswer(line, j) == line.id = j /\ line.type # "progress"

AnswerIsThere ==
  \A j \in Job : reached[j] = "answered" /\ outcome[j] = "pending" =>
    \E i \in 1..Len(outbox[on[j]]) : IsAnswer(outbox[on[j]][i], j)

UntoldIsUnheard ==
  \A w \in Worker, j \in Job : j \in process[w].pending \ process[w].told => heard[j] = 0

WrittenIsThere ==
  OutputIsOurs /\ ProgressIsNews /\ ProgressDiffers /\ AnswerIsThere /\ UntoldIsUnheard

(* The jobs that are rejected, and those that a signal may find.              *)
RejectedByExit ==
  /\ \A j \in Job : outcome[j] = "stopped" => client[on[j]].exitSeen
  /\ \A w \in Worker : hit[w] = "signal" =>
       stopped \/ \A j \in Job \ Prewarm : on[j] = w /\ reached[j] = "read" =>
                    outcome[j] \notin {"pending", "stopped"}

IInv ==
  /\ WorkersAreSafe
  /\ PipeType /\ BornInOrder /\ UnbornIsBlank /\ NewIsNowhere /\ CountIsExact
  /\ LeavingIsIdle /\ OneSignal /\ RunOnce /\ BegunIsPending /\ WrittenIsThere /\ RejectedByExit

-----------------------------------------------------------------------------
(* What the operators that settle jobs do to the records. *)

(* The absent worker is none of the workers.                               *)
LEMMA NoWorkerIsNone == NoWorker \notin Worker
  BY DEF NoWorker, Worker

(* The pool once these jobs of a worker are settled. *)
EndsAs(w, jobs, how) ==
  /\ \A j \in Job : outcome'[j] = IF j \in jobs THEN how ELSE outcome[j]
  /\ outcome' \in [Job -> {outcome[j] : j \in Job} \union {how}]
  /\ client' = [client EXCEPT ![w] = client'[w]]
  /\ client'[w].jobs = client[w].jobs \ jobs
  /\ client'[w].completedJobs = client[w].completedJobs + Cardinality(jobs)
  /\ client'[w].retiring = (client[w].retiring \/ Recycles(w, jobs))
  /\ client'[w].exitSeen = client[w].exitSeen
  /\ client'[w] \in [jobs : SUBSET Job, completedJobs : Nat, retiring : BOOLEAN, exitSeen : BOOLEAN]
  /\ \A v \in Worker \ {w} : client'[v] = client[v]
  /\ current' = IF Recycles(w, jobs) /\ current = w THEN NoWorker ELSE current
  /\ closed' = IF Recycles(w, jobs) THEN closed \union {w} ELSE closed

(* A settle ends these jobs and no other.                                  *)
LEMMA SettleFields ==
  ASSUME TypeOK, NEW w \in Worker, NEW jobs \in SUBSET Job, NEW how, Settle(w, jobs, how)
  PROVE  EndsAs(w, jobs, how)
<1>1. client \in [Worker -> Client] /\ outcome \in [Job -> {outcome[j] : j \in Job}]
  BY DEF TypeOK
<1> DEFINE left == client[w].jobs \ jobs
           count == client[w].completedJobs + Cardinality(jobs)
           retires == client[w].retiring \/ Recycles(w, jobs)
           c == [client[w] EXCEPT !.jobs = left, !.completedJobs = count, !.retiring = retires]
<1>2. client' = [client EXCEPT ![w] = c]
  <2>1. client' = Settled(w, jobs)
    BY DEF Settle
  <2> QED
    BY <1>1, <2>1 DEF Settled
<1>a. Cardinality(jobs) \in Nat
  BY PoolAssumption, FS_Subset, FS_CardinalityType
<1>b. left \in SUBSET Job /\ count \in Nat /\ retires \in BOOLEAN
  BY <1>1, <1>a DEF Client, Recycles
<1> HIDE DEF left, count, retires
<1>3. /\ c.jobs = left /\ c.completedJobs = count /\ c.retiring = retires /\ c.exitSeen = client[w].exitSeen
      /\ c \in [jobs : SUBSET Job, completedJobs : Nat, retiring : BOOLEAN, exitSeen : BOOLEAN]
  BY <1>1, <1>b DEF Client
<1> HIDE DEF c
<1>4. client'[w] = c /\ \A v \in Worker \ {w} : client'[v] = client[v]
  BY <1>1, <1>2
<1>5. client' = [client EXCEPT ![w] = client'[w]]
  BY <1>2, <1>4
<1>6. /\ \A j \in Job : outcome'[j] = IF j \in jobs THEN how ELSE outcome[j]
      /\ outcome' \in [Job -> {outcome[j] : j \in Job} \union {how}]
  BY DEF Settle
<1> QED
  BY <1>3, <1>4, <1>5, <1>6 DEF Settle, InMapAfter, ClosedAfter, left, count, retires, EndsAs

(* The jobs of a worker are not among those that ended on it. *)
LEMMA DoneIsFinite ==
  ASSUME NEW S \in SUBSET Job
  PROVE  IsFiniteSet(S) /\ Cardinality(S) \in Nat /\ Cardinality(S) <= Cardinality(Job)
BY PoolAssumption, FS_Subset, FS_CardinalityType

(* Two sets of jobs that share none count as much as both together.        *)
LEMMA DisjointCount ==
  ASSUME NEW S \in SUBSET Job, NEW T \in SUBSET Job, S \intersect T = {}
  PROVE  Cardinality(S \union T) = Cardinality(S) + Cardinality(T)
<1>1. IsFiniteSet(S) /\ IsFiniteSet(T) /\ Cardinality(S) \in Nat /\ Cardinality(T) \in Nat
  BY DoneIsFinite
<1>2. Cardinality(S \union T) = Cardinality(S) + Cardinality(T) - Cardinality(S \intersect T)
  BY <1>1, FS_Union
<1>3. Cardinality(S \intersect T) = 0
  BY FS_EmptySet
<1> QED
  BY <1>1, <1>2, <1>3

(* The records of the pool, and the sets and flags they go with. *)
PoolType ==
  /\ outcome \in [Job -> {"new", "pending", "resolved", "failed", "cancelled", "stopped"}]
  /\ current \in Worker \union {NoWorker}
  /\ client \in [Worker -> Client]
  /\ closed \subseteq Worker

(* Settling jobs of a worker, or one that it never had, keeps the pool's books. *)
Settles(w, jobs, how) ==
  /\ Settle(w, jobs, how)
  /\ jobs \in SUBSET Job
  /\ \A j \in jobs : outcome[j] = "new" \/ (outcome[j] = "pending" /\ on[j] = w)
  /\ \A j \in Job : on'[j] = IF j \in jobs THEN w ELSE on[j]
  /\ on' \in [Job -> Worker \union {NoWorker}]
  /\ UNCHANGED <<stopped, process, signals, restart, reached, hit>>

(* A settle keeps the pool's own books: counts, pending jobs and the       *)
(* workers that leave.                                                     *)
LEMMA SettleKeeps ==
  ASSUME IInv, NEW w \in Worker, NEW jobs,
         NEW how \in {"resolved", "failed", "cancelled", "stopped"}, Settles(w, jobs, how)
  PROVE  /\ PoolType' /\ PendingIsTracked' /\ CountIsExact' /\ LeavingIsIdle'
         /\ NoForgottenWorker'
<1>0. /\ Settle(w, jobs, how) /\ jobs \in SUBSET Job
      /\ \A j \in jobs : outcome[j] = "new" \/ (outcome[j] = "pending" /\ on[j] = w)
      /\ \A j \in Job : on'[j] = IF j \in jobs THEN w ELSE on[j]
      /\ UNCHANGED <<stopped, process, signals, restart, reached, hit>>
  BY DEF Settles
<1>1. /\ TypeOK /\ PendingIsTracked /\ CountIsExact /\ LeavingIsIdle /\ NoForgottenWorker
      /\ client[w] \in Client /\ client \in [Worker -> Client] /\ NewIsNowhere
  BY DEF IInv, WorkersAreSafe, TypeOK
<1>2. jobs \in SUBSET Job
  BY <1>0
<1>3. /\ \A j \in Job : outcome'[j] = IF j \in jobs THEN how ELSE outcome[j]
      /\ outcome' \in [Job -> {outcome[j] : j \in Job} \union {how}]
      /\ client' = [client EXCEPT ![w] = client'[w]]
      /\ client'[w].jobs = client[w].jobs \ jobs
      /\ client'[w].completedJobs = client[w].completedJobs + Cardinality(jobs)
      /\ client'[w].retiring = (client[w].retiring \/ Recycles(w, jobs))
      /\ client'[w].exitSeen = client[w].exitSeen
      /\ client'[w] \in [jobs : SUBSET Job, completedJobs : Nat, retiring : BOOLEAN, exitSeen : BOOLEAN]
      /\ \A v \in Worker \ {w} : client'[v] = client[v]
      /\ current' = IF Recycles(w, jobs) /\ current = w THEN NoWorker ELSE current
      /\ closed' = IF Recycles(w, jobs) THEN closed \union {w} ELSE closed
  BY <1>0, <1>1, <1>2, SettleFields DEF EndsAs
<1>4. /\ \A j \in jobs : outcome[j] \in {"new", "pending"} /\ on[j] \in {w, NoWorker} /\ on'[j] = w
      /\ \A j \in jobs : outcome[j] = "pending" => on[j] = w
      /\ \A j \in Job \ jobs : on'[j] = on[j]
      /\ UNCHANGED <<stopped, process, hit>>
  BY <1>0, <1>1, <1>2 DEF NewIsNowhere
<1>5. CountIsExact'
  <2>1. Done(w)' = Done(w) \union jobs /\ Done(w) \intersect jobs = {}
    BY <1>2, <1>3, <1>4 DEF Done
  <2>2. Done(w) \in SUBSET Job
    BY DEF Done
  <2>3. Cardinality(Done(w)') = Cardinality(Done(w)) + Cardinality(jobs)
    BY <1>2, <2>1, <2>2, DisjointCount
  <2>4. client'[w].completedJobs = Cardinality(Done(w)')
    BY <1>1, <1>3, <2>3 DEF CountIsExact
  <2>5. ASSUME NEW v \in Worker, v # w
        PROVE  Done(v)' = Done(v)
    BY <1>2, <1>3, <1>4, <2>5, NoWorkerIsNone DEF Done
  <2> QED
    BY <1>1, <1>3, <2>4, <2>5 DEF CountIsExact
<1>6. PoolType'
  <2>1. client'[w].completedJobs \in 0..Cardinality(Job)
    <3>1. client'[w].completedJobs = Cardinality(Done(w)')
      BY <1>5 DEF CountIsExact
    <3>2. Done(w)' \in SUBSET Job
      BY DEF Done
    <3>3. Cardinality(Done(w)') \in Nat /\ Cardinality(Done(w)') <= Cardinality(Job) /\ Cardinality(Job) \in Nat
      BY <3>2, DoneIsFinite
    <3> QED
      BY <3>1, <3>3
  <2>2. client'[w].jobs \in SUBSET Job /\ client'[w].exitSeen \in BOOLEAN
    BY <1>3
  <2>3. client'[w].retiring \in BOOLEAN
    BY <1>3
  <2>4. client'[w] \in Client
    BY <1>3, <2>1, <2>2, <2>3 DEF Client
  <2>5. client' \in [Worker -> Client]
    BY <1>1, <1>3, <2>4
  <2>6. outcome' \in [Job -> {"new", "pending", "resolved", "failed", "cancelled", "stopped"}]
    BY <1>1, <1>3 DEF TypeOK
  <2> QED
    BY <1>1, <1>3, <2>5, <2>6 DEF TypeOK, PoolType
<1>7. PendingIsTracked'
  BY <1>1, <1>2, <1>3, <1>4, NoWorkerIsNone DEF PendingIsTracked
<1>8. LeavingIsIdle'
  <2>1. \A v \in Worker : client'[v].exitSeen = client[v].exitSeen
    BY <1>3
  <2>2. ASSUME NEW v \in Worker, v # w
        PROVE  /\ client'[v] = client[v]
               /\ v \in closed' <=> v \in closed
               /\ v = current' => v = current
    BY <1>3, <2>2, NoWorkerIsNone
  <2>3. /\ client'[w].retiring <=> w \in closed'
        /\ w \in closed' => w # current' /\ (stopped \/ client'[w].jobs = {})
        /\ current' = w => current = w
        /\ w \in closed => w \in closed'
    BY <1>1, <1>3, <1>4, NoWorkerIsNone DEF LeavingIsIdle, Recycles
  <2> QED
    BY <1>1, <1>4, <2>1, <2>2, <2>3 DEF LeavingIsIdle
<1>9. NoForgottenWorker'
  BY <1>1, <1>3, <1>4 DEF NoForgottenWorker, IsUp
<1> QED
  BY <1>5, <1>6, <1>7, <1>8, <1>9

-----------------------------------------------------------------------------
(* The processes that leave, and what reaches them. *)

(* A process leaves with no word: it was told to, or something hit it. *)
LEMMA GoneKeeps ==
  ASSUME IInv, NEW w \in Worker, IsUp(w), NEW p \in {Exited, Stopping}, Gone(w, p),
         UNCHANGED <<outcome, heard, poolVars, closed, outbox, restart, reached>>,
         NEW h \in {"nothing", "crash", "signal", "grace"}, hit' = [hit EXCEPT ![w] = h],
         h = "nothing" => w \in closed,
         h = "signal" => stopped \/ \A j \in Job \ Prewarm : on[j] = w /\ reached[j] = "read" =>
                                      outcome[j] \notin {"pending", "stopped"}
  PROVE  IInv'
<1>1. /\ TypeOK /\ PipeType /\ PendingIsTracked /\ BornInOrder /\ UnbornIsBlank
      /\ LeavingIsIdle /\ OneSignal /\ RunOnce /\ BegunIsPending /\ RejectedByExit
  BY DEF IInv, WorkersAreSafe
<1>2. /\ p.state \in {"stopping", "exited"} /\ p.pending = {} /\ p.told = {}
      /\ p.stdinEnded = FALSE /\ p.grace = FALSE /\ p \in Process
  <2>1. NoProcess("exited") \in Process /\ NoProcess("stopping") \in Process
    BY DEF NoProcess, Process
  <2>2. CASE p = Exited
    BY <2>1, <2>2 DEF Exited, NoProcess
  <2>3. CASE p = Stopping
    BY <2>1, <2>3 DEF Stopping, NoProcess
  <2> QED
    BY <2>2, <2>3
<1> HIDE DEF Exited, Stopping
<1>3. /\ process' = [process EXCEPT ![w] = p] /\ inbox' = [inbox EXCEPT ![w] = <<>>]
      /\ signals' = signals \ {w}
      /\ UNCHANGED <<outcome, heard, on, current, client, stopped, closed, outbox, restart, reached>>
  BY DEF Gone, poolVars
<1>4. /\ process'[w] = p /\ inbox'[w] = <<>> /\ hit'[w] = h
      /\ \A v \in Worker \ {w} : process'[v] = process[v] /\ inbox'[v] = inbox[v] /\ hit'[v] = hit[v]
  BY <1>1, <1>3 DEF TypeOK, PipeType
<1>5. hit[w] = "nothing" /\ process[w].state = "up"
  BY <1>1 DEF LeavingIsIdle, IsUp
<1>6. \A j \in Job : outcome[j] = "stopped" => on[j] # w
  BY <1>1, <1>5 DEF RejectedByExit, LeavingIsIdle
<1>7. TypeOK' /\ PipeType'
  <2>1. <<>> \in Seq(InLine)
    OBVIOUS
  <2> QED
    BY <1>1, <1>2, <1>3, <2>1 DEF TypeOK, PipeType
<1>8. \A v \in Worker : process'[v].state = "unborn" <=> process[v].state = "unborn"
  BY <1>2, <1>4, <1>5
<1>9. BornInOrder' /\ UnbornIsBlank'
  BY <1>1, <1>3, <1>4, <1>5, <1>8 DEF BornInOrder, UnbornIsBlank
<1>10. LeavingIsIdle'
  <2>1. ASSUME NEW v \in Worker, v # w
        PROVE  /\ process'[v] = process[v] /\ hit'[v] = hit[v]
    BY <1>4, <2>1
  <2> QED
    BY <1>1, <1>2, <1>3, <1>4, <1>5, <2>1 DEF LeavingIsIdle
<1>11. OneSignal'
  BY <1>1, <1>2, <1>3, <1>4 DEF OneSignal
<1>12. RunOnce'
  BY <1>1, <1>2, <1>3, <1>4 DEF RunOnce, InputIsOurs, RunsDiffer, PendingIsRead
<1>13. BegunIsPending'
  BY <1>1, <1>2, <1>3, <1>4 DEF BegunIsPending
<1>14. WrittenIsThere'
  <2>1. \A v \in Worker : process'[v].pending \ process'[v].told \subseteq process[v].pending \ process[v].told
    BY <1>2, <1>4
  <2> QED
    BY <1>3, <2>1 DEF IInv, WrittenIsThere, OutputIsOurs, ProgressIsNews, ProgressDiffers,
       AnswerIsThere, UntoldIsUnheard
<1>15. RejectedByExit'
  BY <1>1, <1>3, <1>4 DEF RejectedByExit
<1>16. RecycleHarmsNobody' /\ BegunSurvivesSignal'
  BY <1>3, <1>4, <1>6 DEF IInv, WorkersAreSafe, RecycleHarmsNobody, BegunSurvivesSignal, RejectedByExit
<1>17. NoForgottenWorker'
  BY <1>2, <1>3, <1>4 DEF IInv, WorkersAreSafe, NoForgottenWorker, IsUp
<1>18. PendingIsTracked' /\ AnswerBeatsExit' /\ NewIsNowhere' /\ CountIsExact'
  BY <1>3 DEF IInv, WorkersAreSafe, PendingIsTracked, AnswerBeatsExit, NewIsNowhere, CountIsExact, Done
<1> QED
  BY <1>7, <1>9, <1>10, <1>11, <1>12, <1>13, <1>14, <1>15, <1>16, <1>17, <1>18
     DEF IInv, WorkersAreSafe

(* What a signal finds: a worker that works on nothing that began, or that    *)
(* its runner hung up on, or stops.                                           *)
LEMMA SignalFinds ==
  ASSUME IInv, NEW w \in Worker, IsUp(w), w \in signals,
         process[w].grace \/ process[w].stdinEnded \/ Running(process[w]) = {}
  PROVE  stopped \/ \A j \in Job \ Prewarm : on[j] = w /\ reached[j] = "read" =>
                      outcome[j] \notin {"pending", "stopped"}
<1> SUFFICES ASSUME ~stopped, NEW j \in Job \ Prewarm, on[j] = w, reached[j] = "read"
             PROVE  outcome[j] \notin {"pending", "stopped"}
  OBVIOUS
<1>1. outcome[j] # "stopped"
  BY DEF IInv, RejectedByExit, LeavingIsIdle, IsUp
<1>2. CASE process[w].grace
  BY <1>2 DEF IInv, OneSignal
<1>3. CASE process[w].stdinEnded
  BY <1>1, <1>3 DEF IInv, WorkersAreSafe, LeavingIsIdle, PendingIsTracked
<1>4. CASE Running(process[w]) = {}
  BY <1>4 DEF IInv, BegunIsPending, IsUp, Running
<1> QED
  BY <1>1, <1>2, <1>3, <1>4

(* A crash, or the end of the grace, at any moment.                        *)
LEMMA CrashKeeps ==
  ASSUME IInv, NEW w \in Worker, Crash(w) \/ GraceEnds(w)
  PROVE  IInv'
BY GoneKeeps DEF Crash, GraceEnds

(* A signal, or the end of the input, may leave the process up. *)
LEMMA StaysUp ==
  ASSUME IInv, NEW w \in Worker, IsUp(w), NEW p \in Process,
         p.state = "up", p.pending = process[w].pending, p.told = process[w].told,
         p.stdinEnded => w \in closed,
         p.grace => process[w].grace \/ (w \in signals /\ signals' = signals \ {w}),
         signals' \subseteq signals,
         process' = [process EXCEPT ![w] = p],
         UNCHANGED <<outcome, heard, poolVars, pipeVars, restart, reached, hit>>
  PROVE  IInv'
<1>1. /\ TypeOK /\ PipeType /\ PendingIsTracked /\ BornInOrder /\ UnbornIsBlank
      /\ LeavingIsIdle /\ OneSignal /\ RunOnce /\ BegunIsPending /\ RejectedByExit
  BY DEF IInv, WorkersAreSafe
<1>2. UNCHANGED <<outcome, heard, on, current, client, stopped, inbox, closed, outbox, restart, reached, hit>>
  BY DEF poolVars, pipeVars
<1>3. /\ process'[w] = p /\ process[w].state = "up"
      /\ \A v \in Worker \ {w} : process'[v] = process[v]
  BY <1>1 DEF TypeOK, IsUp
<1>4. \A v \in Worker :
        /\ process'[v].state = process[v].state
        /\ process'[v].pending = process[v].pending
        /\ process'[v].told = process[v].told
        /\ process'[v].stdinEnded => process[v].stdinEnded \/ v \in closed
  BY <1>3
<1>5. TypeOK' /\ PipeType'
  BY <1>1, <1>2 DEF TypeOK, PipeType
<1>6. UnbornIsBlank'
  BY <1>1, <1>2, <1>3 DEF UnbornIsBlank
<1>7. OneSignal'
  BY <1>1, <1>2, <1>3 DEF OneSignal
<1>8. BornInOrder' /\ LeavingIsIdle' /\ RunOnce' /\ BegunIsPending'
  <2>1. BornInOrder'
    BY <1>1, <1>4 DEF BornInOrder
  <2>2. LeavingIsIdle'
    BY <1>1, <1>2, <1>4 DEF LeavingIsIdle
  <2>3. RunOnce'
    BY <1>1, <1>2, <1>4 DEF RunOnce, InputIsOurs, RunsDiffer, PendingIsRead
  <2>4. BegunIsPending'
    <3>1. \A j \in Job : reached[j] = "read" => on[j] \in Worker
      BY <1>1 DEF IInv, NewIsNowhere, TypeOK
    <3> QED
      BY <1>1, <1>2, <1>4, <3>1 DEF BegunIsPending
  <2> QED
    BY <2>1, <2>2, <2>3, <2>4
<1>9. WrittenIsThere' /\ NoForgottenWorker'
  BY <1>2, <1>4 DEF IInv, WorkersAreSafe, NoForgottenWorker, IsUp, WrittenIsThere, OutputIsOurs,
     ProgressIsNews, ProgressDiffers, AnswerIsThere, UntoldIsUnheard
<1>10. /\ PendingIsTracked' /\ AnswerBeatsExit' /\ NewIsNowhere' /\ CountIsExact' /\ RejectedByExit'
       /\ RecycleHarmsNobody' /\ BegunSurvivesSignal'
  BY <1>2 DEF IInv, WorkersAreSafe, PendingIsTracked, AnswerBeatsExit, NewIsNowhere, CountIsExact, Done,
     RejectedByExit, RecycleHarmsNobody, BegunSurvivesSignal
<1> QED
  BY <1>5, <1>6, <1>7, <1>8, <1>9, <1>10 DEF IInv, WorkersAreSafe

(* The signal of the unit: an idle worker stops, one at work begins its    *)
(* grace.                                                                  *)
LEMMA SignalArrivesKeeps ==
  ASSUME IInv, NEW w \in Worker, SignalArrives(w)
  PROVE  IInv'
<1>1. CASE process[w].grace \/ process[w].stdinEnded \/ Running(process[w]) = {}
  BY <1>1, SignalFinds, GoneKeeps DEF SignalArrives
<1>2. CASE ~(process[w].grace \/ process[w].stdinEnded \/ Running(process[w]) = {})
  <2> DEFINE p == [process[w] EXCEPT !.grace = TRUE]
  <2>1. process[w] \in Process /\ process \in [Worker -> Process]
    BY DEF IInv, WorkersAreSafe, TypeOK
  <2>2. /\ p \in Process /\ p.state = "up" /\ p.pending = process[w].pending
        /\ p.told = process[w].told /\ p.stdinEnded = process[w].stdinEnded
    BY <2>1 DEF Process, SignalArrives, IsUp
  <2>3. /\ process' = [process EXCEPT ![w] = p] /\ signals' = signals \ {w} /\ IsUp(w) /\ w \in signals
        /\ UNCHANGED <<outcome, heard, poolVars, pipeVars, restart, reached, hit>>
    BY <1>2, <2>1 DEF SignalArrives, pipeVars
  <2>4. process[w].stdinEnded => w \in closed
    BY DEF IInv, LeavingIsIdle
  <2> HIDE DEF p
  <2> QED
    BY <2>2, <2>3, <2>4, StaysUp
<1> QED
  BY <1>1, <1>2

(* The end of the input stops a worker that is idle or in its grace, and   *)
(* lets one at work finish.                                                *)
LEMMA InputEndsKeeps ==
  ASSUME IInv, NEW w \in Worker, InputEnds(w)
  PROVE  IInv'
<1>1. /\ IsUp(w) /\ w \in closed /\ process[w] \in Process /\ process \in [Worker -> Process]
      /\ hit[w] = "nothing" /\ hit \in [Worker -> {"nothing", "crash", "signal", "grace"}]
  BY DEF InputEnds, IInv, WorkersAreSafe, TypeOK, LeavingIsIdle, IsUp
<1>2. ASSUME NEW p \in {Exited, Stopping}, Gone(w, p) PROVE IInv'
  <2>1. hit' = [hit EXCEPT ![w] = "nothing"]
    BY <1>1 DEF InputEnds
  <2>2. UNCHANGED <<outcome, heard, poolVars, closed, outbox, restart, reached>>
    BY DEF InputEnds
  <2> QED
    BY <1>1, <1>2, <2>1, <2>2, GoneKeeps
<1>3. CASE ~process[w].grace /\ process[w].pending # {}
  <2> DEFINE p == [process[w] EXCEPT !.stdinEnded = TRUE]
  <2>1. /\ p \in Process /\ p.state = "up" /\ p.pending = process[w].pending
        /\ p.told = process[w].told /\ p.grace = process[w].grace
    BY <1>1 DEF Process, IsUp
  <2>2. /\ process' = [process EXCEPT ![w] = p] /\ signals' = signals
        /\ UNCHANGED <<outcome, heard, poolVars, pipeVars, restart, reached, hit>>
    BY <1>1, <1>3 DEF InputEnds, pipeVars
  <2> HIDE DEF p
  <2> QED
    BY <1>1, <2>1, <2>2, StaysUp
<1> QED
  BY <1>2, <1>3 DEF InputEnds

-----------------------------------------------------------------------------
(* What a worker reads and writes. *)

(* The lines of a pipe after one is written, and after one is read. *)
LEMMA WriteLine ==
  ASSUME NEW S, NEW s \in Seq(S), NEW x \in S
  PROVE  /\ Append(s, x) \in Seq(S) /\ Len(Append(s, x)) = Len(s) + 1 /\ Len(s) \in Nat
         /\ Append(s, x)[Len(s) + 1] = x
         /\ \A i \in 1..Len(s) : Append(s, x)[i] = s[i]
BY AppendProperties

(* The head and the tail of a pipe, line by line.                          *)
LEMMA ReadLine ==
  ASSUME NEW S, NEW s \in Seq(S), s # <<>>
  PROVE  /\ Head(s) \in S /\ Tail(s) \in Seq(S) /\ Len(Tail(s)) = Len(s) - 1
         /\ Len(s) \in Nat \ {0} /\ Head(s) = s[1]
         /\ \A i \in 1..Len(s) - 1 : Tail(s)[i] = s[i + 1]
<1>1. Len(s) \in Nat /\ Len(s) # 0
  BY EmptySeq, LenProperties
<1> QED
  BY <1>1, HeadTailProperties, ElementOfSeq

(* What the two ways to answer have in common. *)
LEMMA AnswerFields ==
  ASSUME IInv, NEW w \in Worker, NEW j \in Job, NEW type \in {"resolved", "failed"}, Answer(w, j, type)
  PROVE  /\ process' = [process EXCEPT ![w] = process'[w]] /\ process'[w] \in Process
         /\ process'[w].pending = process[w].pending \ {j} /\ process'[w].told = process[w].told \ {j}
         /\ process'[w].stdinEnded => process[w].stdinEnded
         /\ process'[w].grace => process[w].grace
         /\ process'[w].state \in {"up", "exited"}
         /\ process'[w].state = "exited" => w \in closed
         /\ inbox' = [inbox EXCEPT ![w] = inbox'[w]] /\ inbox'[w] \in {inbox[w], <<>>}
         /\ signals' \subseteq signals
         /\ outbox' = [outbox EXCEPT ![w] = Append(outbox[w], Line(j, type))]
         /\ reached' = [reached EXCEPT ![j] = "answered"]
         /\ process[w].state = "up" /\ j \in process[w].pending
         /\ UNCHANGED <<outcome, heard, on, current, client, stopped, closed, restart, hit>>
<1>1. /\ process \in [Worker -> Process] /\ inbox \in [Worker -> Seq(InLine)]
      /\ process[w].told \subseteq process[w].pending /\ (process[w].stdinEnded => w \in closed)
  BY DEF IInv, WorkersAreSafe, TypeOK, PipeType, RunOnce, PendingIsRead, LeavingIsIdle
<1>2. /\ process[w].state = "up" /\ j \in process[w].pending
      /\ outbox' = [outbox EXCEPT ![w] = Append(outbox[w], Line(j, type))]
      /\ reached' = [reached EXCEPT ![j] = "answered"]
      /\ UNCHANGED <<outcome, heard, on, current, client, stopped, closed, restart, hit>>
  BY DEF Answer, IsUp, poolVars
<1>3. CASE process[w].stdinEnded /\ process[w].pending = {j}
  <2>1. /\ process' = [process EXCEPT ![w] = Exited] /\ inbox' = [inbox EXCEPT ![w] = <<>>]
        /\ signals' = signals \ {w}
    BY <1>3 DEF Answer, Gone
  <2>2. /\ Exited \in Process /\ Exited.state = "exited" /\ Exited.pending = {} /\ Exited.told = {}
        /\ Exited.stdinEnded = FALSE /\ Exited.grace = FALSE
    BY DEF Exited, NoProcess, Process
  <2> HIDE DEF Exited
  <2>3. process'[w] = Exited /\ inbox'[w] = <<>>
    BY <1>1, <2>1
  <2>4. process' = [process EXCEPT ![w] = process'[w]] /\ inbox' = [inbox EXCEPT ![w] = inbox'[w]]
    BY <2>1, <2>3
  <2>5. process[w].told \ {j} = {} /\ process[w].pending \ {j} = {}
    BY <1>1, <1>3
  <2> QED
    BY <1>1, <1>2, <1>3, <2>1, <2>2, <2>3, <2>4, <2>5
<1>4. CASE ~(process[w].stdinEnded /\ process[w].pending = {j})
  <2> DEFINE p == [process[w] EXCEPT !.pending = process[w].pending \ {j},
                                     !.aborted = process[w].aborted \ {j},
                                     !.told = process[w].told \ {j}]
  <2>1. process' = [process EXCEPT ![w] = p] /\ inbox' = inbox /\ signals' = signals
    BY <1>1, <1>4 DEF Answer
  <2>2. /\ p \in Process /\ p.state = process[w].state /\ p.pending = process[w].pending \ {j}
        /\ p.told = process[w].told \ {j} /\ p.stdinEnded = process[w].stdinEnded
        /\ p.grace = process[w].grace
    BY <1>1 DEF Process
  <2> HIDE DEF p
  <2>3. process'[w] = p /\ process' = [process EXCEPT ![w] = process'[w]]
    BY <1>1, <2>1
  <2>4. inbox' = [inbox EXCEPT ![w] = inbox'[w]]
    BY <1>1, <2>1
  <2> QED
    BY <1>1, <1>2, <2>1, <2>2, <2>3, <2>4
<1> QED
  BY <1>3, <1>4

(* A line about a job that its worker works on. *)
Writes(w, j, type) ==
  /\ outbox' = [outbox EXCEPT ![w] = Append(outbox[w], Line(j, type))]
  /\ UNCHANGED <<outcome, heard, on>>
  /\ on[j] = w /\ reached[j] = "read"
  /\ \A k \in Job : reached'[k] = IF k = j /\ type # "progress" THEN "answered" ELSE reached[k]
  /\ \A v \in Worker : process'[v].pending \ process'[v].told \subseteq process[v].pending \ process[v].told
  /\ type = "progress" => /\ j \notin process'[w].pending \ process'[w].told
                          /\ j \in process[w].pending \ process[w].told

(* A line a worker writes is of a job it runs, after those it wrote        *)
(* before.                                                                 *)
LEMMA OutputAppended ==
  ASSUME IInv, NEW w \in Worker, NEW j \in Job, NEW type \in {"progress", "resolved", "failed"},
         Writes(w, j, type)
  PROVE  outbox' \in [Worker -> Seq(OutLine)] /\ WrittenIsThere'
<1>a. /\ outbox' = [outbox EXCEPT ![w] = Append(outbox[w], Line(j, type))]
      /\ UNCHANGED <<outcome, heard, on>>
      /\ on[j] = w /\ reached[j] = "read"
      /\ \A k \in Job : reached'[k] = IF k = j /\ type # "progress" THEN "answered" ELSE reached[k]
      /\ \A v \in Worker : process'[v].pending \ process'[v].told \subseteq process[v].pending \ process[v].told
      /\ type = "progress" => /\ j \notin process'[w].pending \ process'[w].told
                              /\ j \in process[w].pending \ process[w].told
  BY DEF Writes
<1> DEFINE o == outbox[w]
           line == Line(j, type)
<1>1. /\ outbox \in [Worker -> Seq(OutLine)] /\ OutputIsOurs /\ ProgressIsNews
      /\ ProgressDiffers /\ AnswerIsThere /\ UntoldIsUnheard /\ NewIsNowhere /\ TypeOK
  BY DEF IInv, PipeType, WrittenIsThere, WorkersAreSafe
<1>2. line \in OutLine /\ line.id = j /\ line.type = type
  BY DEF Line, OutLine
<1> HIDE DEF line
<1>3. /\ o \in Seq(OutLine) /\ outbox'[w] \in Seq(OutLine) /\ Len(o) \in Nat
      /\ Len(outbox'[w]) = Len(o) + 1 /\ outbox'[w][Len(o) + 1] = line
      /\ \A i \in 1..Len(o) : outbox'[w][i] = o[i]
  <2>1. o \in Seq(OutLine) /\ outbox'[w] = Append(o, line)
    BY <1>1, <1>a DEF line
  <2> QED
    BY <1>2, <2>1, WriteLine
<1>4. \A v \in Worker \ {w} : outbox'[v] = outbox[v]
  BY <1>1, <1>a
<1>5. \A v \in Worker : \A i \in 1..Len(outbox[v]) : outbox[v][i] \in OutLine
  BY <1>1, ElementOfSeq
<1> HIDE DEF o
(* Every line was there, or is the new one. *)
<1>6. ASSUME NEW v \in Worker, NEW i \in 1..Len(outbox'[v])
      PROVE  \/ i \in 1..Len(outbox[v]) /\ outbox'[v][i] = outbox[v][i]
             \/ v = w /\ i = Len(o) + 1 /\ outbox'[v][i] = line
  BY <1>3, <1>4, <1>6 DEF o
<1>7. ASSUME NEW v \in Worker, NEW i \in 1..Len(outbox[v])
      PROVE  i \in 1..Len(outbox'[v]) /\ outbox'[v][i] = outbox[v][i]
  BY <1>3, <1>4, <1>7 DEF o
<1>8. \A k \in Job : /\ reached[k] # "nowhere" => reached'[k] # "nowhere"
                     /\ reached[k] = "answered" => reached'[k] = "answered"
  BY <1>a
<1>9. OutputIsOurs'
  <2> SUFFICES ASSUME NEW v \in Worker, NEW i \in 1..Len(outbox'[v])
               PROVE  /\ on[outbox'[v][i].id] = v
                      /\ reached'[outbox'[v][i].id] # "nowhere"
                      /\ outbox'[v][i].type # "progress" => reached'[outbox'[v][i].id] = "answered"
    BY <1>a DEF OutputIsOurs
  <2>1. CASE i \in 1..Len(outbox[v]) /\ outbox'[v][i] = outbox[v][i]
    <3>1. outbox[v][i].id \in Job
      BY <1>5, <2>1 DEF OutLine
    <3> QED
      BY <1>1, <1>a, <1>8, <2>1, <3>1 DEF OutputIsOurs
  <2>2. CASE v = w /\ outbox'[v][i] = line
    BY <1>a, <1>2, <2>2
  <2> QED
    BY <1>6, <2>1, <2>2
<1>10. ProgressIsNews'
  <2> SUFFICES ASSUME NEW v \in Worker, NEW i \in 1..Len(outbox'[v]), outbox'[v][i].type = "progress"
               PROVE  /\ heard[outbox'[v][i].id] = 0
                      /\ outbox'[v][i].id \notin process'[v].pending \ process'[v].told
    BY <1>a DEF ProgressIsNews
  <2>1. CASE i \in 1..Len(outbox[v]) /\ outbox'[v][i] = outbox[v][i]
    BY <1>1, <1>a, <1>5, <2>1 DEF ProgressIsNews, OutLine
  <2>2. CASE v = w /\ outbox'[v][i] = line
    BY <1>1, <1>a, <1>2, <2>2 DEF UntoldIsUnheard
  <2> QED
    BY <1>6, <2>1, <2>2
<1>11. ProgressDiffers'
  <2> SUFFICES ASSUME NEW v \in Worker, NEW i \in 1..Len(outbox'[v]), NEW k \in 1..Len(outbox'[v]),
                      outbox'[v][i] = outbox'[v][k], outbox'[v][i].type = "progress"
               PROVE  i = k
    BY DEF ProgressDiffers
  <2>1. type = "progress" => \A n \in 1..Len(outbox[w]) : outbox[w][n] # line
    BY <1>1, <1>a, <1>2 DEF ProgressIsNews
  <2>2. outbox'[v][i] = line => type = "progress"
    BY <1>2
  <2>3. CASE i \in 1..Len(outbox[v]) /\ outbox'[v][i] = outbox[v][i]
    <3>1. outbox'[v][k] = line => v # w
      BY <2>1, <2>2, <2>3
    <3>2. k \in 1..Len(outbox[v]) /\ outbox'[v][k] = outbox[v][k]
      BY <1>6, <3>1
    <3> QED
      BY <1>1, <2>3, <3>2 DEF ProgressDiffers
  <2>4. CASE v = w /\ i = Len(o) + 1 /\ outbox'[v][i] = line
    <3>1. ~(k \in 1..Len(outbox[v]) /\ outbox'[v][k] = outbox[v][k])
      BY <2>1, <2>2, <2>4
    <3> QED
      BY <1>6, <2>4, <3>1
  <2> QED
    BY <1>6, <2>3, <2>4
<1>12. AnswerIsThere'
  <2> SUFFICES ASSUME NEW k \in Job, reached'[k] = "answered", outcome[k] = "pending"
               PROVE  \E i \in 1..Len(outbox'[on[k]]) : IsAnswer(outbox'[on[k]][i], k)
    BY <1>a DEF AnswerIsThere, IsAnswer
  <2>1. CASE reached[k] = "answered"
    <3>1. PICK i \in 1..Len(outbox[on[k]]) : IsAnswer(outbox[on[k]][i], k)
      BY <1>1, <1>a, <2>1 DEF AnswerIsThere
    <3>2. on[k] \in Worker
      BY <1>1, <2>1 DEF NewIsNowhere, TypeOK
    <3> QED
      BY <1>7, <3>1, <3>2
  <2>2. CASE reached[k] # "answered"
    <3>1. k = j /\ type # "progress"
      BY <1>a, <2>2
    <3>2. Len(o) + 1 \in 1..Len(outbox'[w])
      BY <1>3
    <3> QED
      BY <1>a, <1>2, <1>3, <3>1, <3>2 DEF IsAnswer
  <2> QED
    BY <2>1, <2>2
<1>13. UntoldIsUnheard'
  BY <1>1, <1>a DEF UntoldIsUnheard
<1>14. outbox' \in [Worker -> Seq(OutLine)]
  BY <1>1, <1>a, <1>3
<1> QED
  BY <1>9, <1>10, <1>11, <1>12, <1>13, <1>14 DEF WrittenIsThere

(* A worker writes the answer of a job it runs.                            *)
LEMMA AnswerKeeps ==
  ASSUME IInv, NEW w \in Worker, NEW j \in Job, NEW type \in {"resolved", "failed"}, Answer(w, j, type)
  PROVE  IInv'
<1>1. /\ TypeOK /\ PipeType /\ PendingIsTracked /\ BornInOrder /\ UnbornIsBlank /\ NewIsNowhere
      /\ LeavingIsIdle /\ OneSignal /\ RunOnce /\ BegunIsPending /\ WrittenIsThere /\ RejectedByExit
  BY DEF IInv, WorkersAreSafe
<1>2. /\ process' = [process EXCEPT ![w] = process'[w]] /\ process'[w] \in Process
      /\ process'[w].pending = process[w].pending \ {j} /\ process'[w].told = process[w].told \ {j}
      /\ process'[w].stdinEnded => process[w].stdinEnded
      /\ process'[w].grace => process[w].grace
      /\ process'[w].state \in {"up", "exited"}
      /\ process'[w].state = "exited" => w \in closed
      /\ inbox' = [inbox EXCEPT ![w] = inbox'[w]] /\ inbox'[w] \in {inbox[w], <<>>}
      /\ signals' \subseteq signals
      /\ outbox' = [outbox EXCEPT ![w] = Append(outbox[w], Line(j, type))]
      /\ reached' = [reached EXCEPT ![j] = "answered"]
      /\ process[w].state = "up" /\ j \in process[w].pending
      /\ UNCHANGED <<outcome, heard, on, current, client, stopped, closed, restart, hit>>
  BY AnswerFields
<1>3. /\ \A v \in Worker \ {w} :
           process'[v] = process[v] /\ inbox'[v] = inbox[v] /\ outbox'[v] = outbox[v]
      /\ outbox'[w] = Append(outbox[w], Line(j, type))
      /\ \A k \in Job \ {j} : reached'[k] = reached[k]
      /\ reached'[j] = "answered"
  BY <1>1, <1>2 DEF TypeOK, PipeType
<1>4. on[j] = w /\ reached[j] = "read"
  BY <1>1, <1>2 DEF RunOnce, PendingIsRead
<1>5. outcome[j] # "stopped"
  BY <1>1, <1>2, <1>4 DEF RejectedByExit, LeavingIsIdle
<1>6. \A v \in Worker : process'[v].pending \ process'[v].told \subseteq process[v].pending \ process[v].told
  BY <1>2, <1>3
<1>7. outbox' \in [Worker -> Seq(OutLine)] /\ WrittenIsThere'
  <2>1. Writes(w, j, type)
    BY <1>2, <1>3, <1>4, <1>6 DEF Writes
  <2> QED
    BY <2>1, OutputAppended
<1>8. PipeType'
  <2>1. <<>> \in Seq(InLine)
    OBVIOUS
  <2>2. inbox'[w] \in Seq(InLine)
    BY <1>1, <1>2, <2>1 DEF PipeType
  <2>3. inbox' \in [Worker -> Seq(InLine)]
    BY <1>1, <1>2, <2>2 DEF PipeType
  <2> QED
    BY <1>7, <2>3 DEF PipeType
<1>9. TypeOK'
  <2>1. process' \in [Worker -> Process] /\ reached' \in [Job -> {"nowhere", "read", "answered"}]
    BY <1>1, <1>2 DEF TypeOK
  <2> QED
    BY <1>1, <1>2, <2>1 DEF TypeOK
<1>10. \A v \in Worker : process'[v].state = "unborn" <=> process[v].state = "unborn"
  BY <1>2, <1>3
<1>11. BornInOrder' /\ UnbornIsBlank'
  <2>1. BornInOrder'
    BY <1>1, <1>10 DEF BornInOrder
  <2>2. ASSUME NEW v \in Worker, process'[v].state = "unborn"
        PROVE  v # w /\ process[v].state = "unborn"
    BY <1>2, <1>10, <2>2
  <2>3. UnbornIsBlank'
    BY <1>1, <1>2, <1>3, <2>2 DEF UnbornIsBlank
  <2> QED
    BY <2>1, <2>3
<1>12. NewIsNowhere'
  BY <1>1, <1>2, <1>3, <1>4, NoWorkerIsNone DEF NewIsNowhere
<1>13. LeavingIsIdle'
  <2>1. ASSUME NEW v \in Worker, v # w
        PROVE  process'[v] = process[v]
    BY <1>3, <2>1
  <2>2. hit[w] = "nothing" /\ ~client[w].exitSeen
    BY <1>1, <1>2 DEF LeavingIsIdle
  <2> QED
    BY <1>1, <1>2, <2>1, <2>2 DEF LeavingIsIdle
<1>14. OneSignal'
  BY <1>1, <1>2, <1>3 DEF OneSignal
<1>15. InputIsOurs' /\ RunsDiffer'
  <2>1. \A v \in Worker : inbox'[v] = inbox[v] \/ inbox'[v] = <<>>
    BY <1>2, <1>3
  <2>2. RunsDiffer'
    BY <1>1, <2>1 DEF RunOnce, RunsDiffer
  <2>3. ASSUME NEW v \in Worker, NEW i \in 1..Len(inbox'[v])
        PROVE  /\ on[inbox'[v][i].id] = v
               /\ inbox'[v][i].type = "run" => reached'[inbox'[v][i].id] = "nowhere"
    <3>1. inbox'[v] = inbox[v]
      BY <2>1, <2>3
    <3>2. inbox[v][i] \in InLine
      BY <1>1, <2>3, <3>1, ElementOfSeq DEF PipeType
    <3>3. inbox[v][i].id \in Job
      BY <3>2 DEF InLine
    <3>4. /\ on[inbox[v][i].id] = v
          /\ inbox[v][i].type = "run" => reached[inbox[v][i].id] = "nowhere"
      BY <1>1, <2>3, <3>1 DEF RunOnce, InputIsOurs
    <3> QED
      BY <1>3, <1>4, <3>1, <3>3, <3>4
  <2> QED
    BY <1>2, <2>2, <2>3 DEF InputIsOurs
<1>16. PendingIsRead'
  <2>1. \A v \in Worker : process[v].pending \subseteq Job
    BY <1>1 DEF TypeOK, Process
  <2>2. /\ \A k \in process'[w].pending : on[k] = w /\ reached'[k] = "read"
        /\ process'[w].told \subseteq process'[w].pending
    BY <1>1, <1>2, <1>3, <2>1 DEF RunOnce, PendingIsRead
  <2>3. ASSUME NEW v \in Worker, v # w, NEW k \in process[v].pending
        PROVE  on[k] = v /\ reached'[k] = "read"
    BY <1>1, <1>3, <1>4, <2>1, <2>3 DEF RunOnce, PendingIsRead
  <2>4. \A v \in Worker \ {w} : process[v].told \subseteq process[v].pending
    BY <1>1 DEF RunOnce, PendingIsRead
  <2> QED
    BY <1>2, <1>3, <2>2, <2>3, <2>4 DEF PendingIsRead
<1>17. BegunIsPending'
  <2>1. ASSUME NEW k \in Job, reached'[k] = "read", process'[on[k]].state = "up"
        PROVE  k \in process'[on[k]].pending
    <3>1. k # j /\ reached[k] = "read"
      BY <1>3, <2>1
    <3>2. on[k] \in Worker
      BY <1>1, <3>1 DEF NewIsNowhere, TypeOK
    <3>3. process[on[k]].state = "up"
      BY <1>2, <1>3, <2>1, <3>2
    <3> QED
      BY <1>1, <1>2, <1>3, <3>1, <3>2, <3>3 DEF BegunIsPending
  <2> QED
    BY <1>2, <2>1 DEF BegunIsPending
<1>18. RejectedByExit'
  BY <1>1, <1>2, <1>3 DEF RejectedByExit
<1>19. AnswerBeatsExit' /\ BegunSurvivesSignal'
  BY <1>2, <1>3, <1>5 DEF IInv, WorkersAreSafe, AnswerBeatsExit, BegunSurvivesSignal
<1>20. NoForgottenWorker'
  BY <1>2, <1>3 DEF IInv, WorkersAreSafe, NoForgottenWorker, IsUp
<1>21. PendingIsTracked' /\ RecycleHarmsNobody' /\ CountIsExact'
  BY <1>2 DEF IInv, WorkersAreSafe, PendingIsTracked, RecycleHarmsNobody, CountIsExact, Done
<1> QED
  BY <1>7, <1>8, <1>9, <1>11, <1>12, <1>13, <1>14, <1>15, <1>16, <1>17, <1>18, <1>19, <1>20, <1>21
     DEF IInv, WorkersAreSafe, RunOnce

(* A worker writes progress of a job it runs.                              *)
LEMMA ProgressKeeps ==
  ASSUME IInv, NEW w \in Worker, NEW j \in Job, Progress(w, j)
  PROVE  IInv'
<1>1. /\ TypeOK /\ PipeType /\ PendingIsTracked /\ BornInOrder /\ UnbornIsBlank /\ NewIsNowhere
      /\ LeavingIsIdle /\ OneSignal /\ RunOnce /\ BegunIsPending /\ WrittenIsThere /\ RejectedByExit
      /\ NoForgottenWorker
  BY DEF IInv, WorkersAreSafe
<1> DEFINE p == [process[w] EXCEPT !.told = process[w].told \union {j}]
<1>2. process[w] \in Process /\ process \in [Worker -> Process]
  BY <1>1 DEF TypeOK
<1>3. /\ p \in Process /\ p.told = process[w].told \union {j} /\ p.pending = process[w].pending
      /\ p.state = process[w].state /\ p.grace = process[w].grace
      /\ p.stdinEnded = process[w].stdinEnded
  BY <1>2 DEF Process
<1>4. process' = [process EXCEPT ![w] = p]
  BY <1>2 DEF Progress
<1> HIDE DEF p
<1>5. /\ UNCHANGED <<outcome, heard, on, current, client, stopped, inbox, closed, signals, restart, reached, hit>>
      /\ outbox' = [outbox EXCEPT ![w] = Append(outbox[w], Line(j, "progress"))]
      /\ process[w].state = "up" /\ j \in process[w].pending \ process[w].told
  BY DEF Progress, poolVars, IsUp, Running
<1>6. process'[w] = p /\ \A v \in Worker \ {w} : process'[v] = process[v] /\ outbox'[v] = outbox[v]
  BY <1>1, <1>2, <1>4, <1>5 DEF PipeType
<1>7. Writes(w, j, "progress")
  <2>1. on[j] = w /\ reached[j] = "read"
    BY <1>1, <1>5 DEF RunOnce, PendingIsRead
  <2> QED
    BY <1>3, <1>5, <1>6, <2>1 DEF Writes
<1>8. outbox' \in [Worker -> Seq(OutLine)] /\ WrittenIsThere'
  BY <1>7, OutputAppended
<1>9. \A v \in Worker : /\ process'[v].state = process[v].state
                        /\ process'[v].pending = process[v].pending
                        /\ process'[v].grace = process[v].grace
                        /\ process'[v].stdinEnded = process[v].stdinEnded
  BY <1>3, <1>6
<1>10. PipeType' /\ TypeOK'
  BY <1>1, <1>3, <1>4, <1>5, <1>8 DEF PipeType, TypeOK
<1>11. BornInOrder' /\ NewIsNowhere' /\ LeavingIsIdle' /\ OneSignal' /\ RejectedByExit' /\ NoForgottenWorker'
  <2>1. BornInOrder'
    BY <1>1, <1>9 DEF BornInOrder
  <2>2. LeavingIsIdle'
    BY <1>1, <1>5, <1>9 DEF LeavingIsIdle
  <2>3. NewIsNowhere' /\ OneSignal' /\ RejectedByExit' /\ NoForgottenWorker'
    BY <1>1, <1>5, <1>9 DEF NewIsNowhere, OneSignal, RejectedByExit, NoForgottenWorker, IsUp
  <2> QED
    BY <2>1, <2>2, <2>3
<1>12. UnbornIsBlank'
  BY <1>1, <1>3, <1>5, <1>6 DEF UnbornIsBlank
<1>13. RunOnce'
  <2>1. PendingIsRead'
    BY <1>1, <1>3, <1>5, <1>6 DEF RunOnce, PendingIsRead
  <2> QED
    BY <1>1, <1>5, <2>1 DEF RunOnce, InputIsOurs, RunsDiffer
<1>14. BegunIsPending'
  <2>1. \A k \in Job : reached[k] = "read" => on[k] \in Worker
    BY <1>1 DEF NewIsNowhere, TypeOK
  <2> QED
    BY <1>1, <1>5, <1>9, <2>1 DEF BegunIsPending
<1>15. /\ PendingIsTracked' /\ RecycleHarmsNobody' /\ CountIsExact' /\ AnswerBeatsExit'
       /\ BegunSurvivesSignal'
  BY <1>5 DEF IInv, WorkersAreSafe, PendingIsTracked, RecycleHarmsNobody, CountIsExact, Done,
     AnswerBeatsExit, BegunSurvivesSignal
<1> QED
  BY <1>8, <1>10, <1>11, <1>12, <1>13, <1>14, <1>15 DEF IInv, WorkersAreSafe

(* The process of a worker that was told to stop is gone. *)
LEMMA StopExitsKeeps ==
  ASSUME IInv, NEW w \in Worker, StopExits(w)
  PROVE  IInv'
<1>1. /\ TypeOK /\ PipeType /\ PendingIsTracked /\ BornInOrder /\ UnbornIsBlank /\ NewIsNowhere
      /\ LeavingIsIdle /\ OneSignal /\ RunOnce /\ BegunIsPending /\ WrittenIsThere /\ RejectedByExit
      /\ NoForgottenWorker
  BY DEF IInv, WorkersAreSafe
<1>2. /\ Exited \in Process /\ Exited.state = "exited" /\ Exited.pending = {} /\ Exited.told = {}
      /\ Exited.stdinEnded = FALSE /\ Exited.grace = FALSE
  BY DEF Exited, NoProcess, Process
<1> HIDE DEF Exited
<1>3. /\ process[w].state = "stopping" /\ process' = [process EXCEPT ![w] = Exited]
      /\ UNCHANGED <<outcome, heard, on, current, client, stopped, inbox, closed, outbox, signals,
                     restart, reached, hit>>
  BY DEF StopExits, poolVars, pipeVars
<1>4. process'[w] = Exited /\ \A v \in Worker \ {w} : process'[v] = process[v]
  BY <1>1, <1>3 DEF TypeOK
<1>5. TypeOK' /\ PipeType'
  BY <1>1, <1>2, <1>3 DEF TypeOK, PipeType
<1>6. BornInOrder' /\ UnbornIsBlank'
  BY <1>1, <1>2, <1>3, <1>4 DEF BornInOrder, UnbornIsBlank
<1>7. LeavingIsIdle'
  <2>1. ASSUME NEW v \in Worker, v # w PROVE process'[v] = process[v]
    BY <1>4, <2>1
  <2> QED
    BY <1>1, <1>2, <1>3, <1>4, <2>1 DEF LeavingIsIdle
<1>8. OneSignal' /\ RejectedByExit' /\ NoForgottenWorker'
  BY <1>1, <1>2, <1>3, <1>4 DEF OneSignal, RejectedByExit, NoForgottenWorker, IsUp
<1>9. RunOnce' /\ BegunIsPending'
  BY <1>1, <1>2, <1>3, <1>4 DEF RunOnce, InputIsOurs, RunsDiffer, PendingIsRead, BegunIsPending
<1>10. WrittenIsThere'
  <2>1. \A v \in Worker : process'[v].pending \ process'[v].told \subseteq process[v].pending \ process[v].told
    BY <1>2, <1>4
  <2> QED
    BY <1>1, <1>3, <2>1 DEF WrittenIsThere, OutputIsOurs, ProgressIsNews, ProgressDiffers,
       AnswerIsThere, UntoldIsUnheard
<1>11. /\ PendingIsTracked' /\ RecycleHarmsNobody' /\ CountIsExact' /\ AnswerBeatsExit'
       /\ BegunSurvivesSignal' /\ NewIsNowhere'
  BY <1>3 DEF IInv, WorkersAreSafe, PendingIsTracked, RecycleHarmsNobody, CountIsExact, Done,
     AnswerBeatsExit, BegunSurvivesSignal, NewIsNowhere
<1> QED
  BY <1>5, <1>6, <1>7, <1>8, <1>9, <1>10, <1>11 DEF IInv, WorkersAreSafe

(* The parts that say nothing of the pool's records, nor of what it signals. *)
LEMMA WorkersUntouched ==
  ASSUME IInv, UNCHANGED <<outcome, heard, on, inbox, outbox, process, reached, hit>>
  PROVE  /\ PipeType' /\ BornInOrder' /\ NewIsNowhere' /\ RunOnce' /\ BegunIsPending'
         /\ WrittenIsThere' /\ AnswerBeatsExit'
<1>1. PipeType' /\ BornInOrder' /\ NewIsNowhere' /\ BegunIsPending' /\ AnswerBeatsExit'
  BY DEF IInv, WorkersAreSafe, PipeType, BornInOrder, NewIsNowhere, BegunIsPending, AnswerBeatsExit
<1>2. RunOnce'
  BY DEF IInv, RunOnce, InputIsOurs, RunsDiffer, PendingIsRead
<1>3. WrittenIsThere'
  BY DEF IInv, WrittenIsThere, OutputIsOurs, ProgressIsNews, ProgressDiffers, AnswerIsThere,
     UntoldIsUnheard
<1> QED
  BY <1>1, <1>2, <1>3

(* The unit is signalled, and its pool sees an exit, or is stopped. *)
LEMMA UnitSignalledKeeps ==
  ASSUME IInv, UnitSignalled
  PROVE  IInv'
<1>1. /\ TypeOK /\ UnbornIsBlank /\ LeavingIsIdle /\ OneSignal
  BY DEF IInv, WorkersAreSafe
<1>2. /\ UNCHANGED <<outcome, heard, on, current, client, stopped, inbox, closed, outbox, process, reached, hit>>
      /\ ~restart /\ restart' = TRUE /\ signals' = signals \union {w \in Worker : IsUp(w)}
  BY DEF UnitSignalled, poolVars, pipeVars
<1>3. TypeOK' /\ UnbornIsBlank' /\ OneSignal'
  BY <1>1, <1>2 DEF TypeOK, UnbornIsBlank, OneSignal, IsUp
<1>4. LeavingIsIdle'
  BY <1>1, <1>2 DEF LeavingIsIdle
<1>5. /\ PendingIsTracked' /\ RecycleHarmsNobody' /\ CountIsExact' /\ BegunSurvivesSignal'
      /\ RejectedByExit' /\ NoForgottenWorker'
  BY <1>2 DEF IInv, WorkersAreSafe, PendingIsTracked, RecycleHarmsNobody, CountIsExact, Done,
     BegunSurvivesSignal, RejectedByExit, NoForgottenWorker, IsUp
<1> QED
  BY <1>2, <1>3, <1>4, <1>5, WorkersUntouched DEF IInv, WorkersAreSafe

(* The pool hears that a process exited, before it has read its output.    *)
LEMMA ExitSeenKeeps ==
  ASSUME IInv, NEW w \in Worker, ExitSeen(w)
  PROVE  IInv'
<1>1. /\ TypeOK /\ UnbornIsBlank /\ LeavingIsIdle /\ OneSignal /\ CountIsExact /\ PendingIsTracked
      /\ RejectedByExit /\ NoForgottenWorker
  BY DEF IInv, WorkersAreSafe
<1>2. UNCHANGED <<outcome, heard, on, stopped, inbox, closed, outbox, process, signals, restart, reached, hit>>
  BY DEF ExitSeen, pipeVars, procVars
<1> DEFINE c == [client[w] EXCEPT !.exitSeen = TRUE]
<1>3. /\ client' = [client EXCEPT ![w] = c] /\ current' = IF current = w THEN NoWorker ELSE current
      /\ process[w].state = "exited"
  BY <1>1 DEF ExitSeen, TypeOK
<1>4. /\ c \in Client /\ c.jobs = client[w].jobs /\ c.completedJobs = client[w].completedJobs
      /\ c.retiring = client[w].retiring /\ c.exitSeen = TRUE
  BY <1>1 DEF TypeOK, Client
<1> HIDE DEF c
<1>5. client'[w] = c /\ \A v \in Worker \ {w} : client'[v] = client[v]
  BY <1>1, <1>3 DEF TypeOK
<1>6. \A v \in Worker : /\ client'[v].jobs = client[v].jobs
                        /\ client'[v].completedJobs = client[v].completedJobs
                        /\ client'[v].retiring = client[v].retiring
                        /\ client[v].exitSeen => client'[v].exitSeen
                        /\ client'[v].exitSeen => client[v].exitSeen \/ v = w
                        /\ v = current' => v = current /\ v # w
  BY <1>3, <1>4, <1>5, NoWorkerIsNone
<1>7. TypeOK'
  <2>1. client' \in [Worker -> Client] /\ current' \in Worker \union {NoWorker}
    BY <1>1, <1>3, <1>4 DEF TypeOK
  <2> QED
    BY <1>1, <1>2, <2>1 DEF TypeOK
<1>8. UnbornIsBlank'
  BY <1>1, <1>2, <1>3, <1>5, <1>6 DEF UnbornIsBlank
<1>9. LeavingIsIdle'
  BY <1>1, <1>2, <1>3, <1>6 DEF LeavingIsIdle
<1>10. PendingIsTracked' /\ CountIsExact' /\ OneSignal'
  BY <1>1, <1>2, <1>6 DEF PendingIsTracked, CountIsExact, Done, OneSignal
<1>11. RejectedByExit'
  <2>1. \A j \in Job : outcome[j] = "stopped" => on[j] \in Worker
    BY <1>1 DEF IInv, NewIsNowhere, TypeOK
  <2> QED
    BY <1>1, <1>2, <1>6, <2>1 DEF RejectedByExit
<1>12. NoForgottenWorker' /\ RecycleHarmsNobody' /\ BegunSurvivesSignal'
  BY <1>1, <1>2, <1>3 DEF IInv, WorkersAreSafe, NoForgottenWorker, IsUp, RecycleHarmsNobody, BegunSurvivesSignal
<1> QED
  BY <1>2, <1>7, <1>8, <1>9, <1>10, <1>11, <1>12, WorkersUntouched DEF IInv, WorkersAreSafe

(* The pool is stopped: inputs end and nothing is taken any more.          *)
LEMMA StopPoolKeeps ==
  ASSUME IInv, StopPool
  PROVE  IInv'
<1>1. /\ TypeOK /\ UnbornIsBlank /\ LeavingIsIdle /\ OneSignal /\ CountIsExact /\ PendingIsTracked
      /\ RejectedByExit /\ NoForgottenWorker
  BY DEF IInv, WorkersAreSafe
<1>2. /\ UNCHANGED <<outcome, heard, on, inbox, outbox, process, restart, reached, hit>>
      /\ stopped' = TRUE /\ current' = NoWorker
  BY DEF StopPool
<1>3. \A w \in Worker : w # current'
  BY <1>2, NoWorkerIsNone
<1>4. CASE current = NoWorker
  <2>1. UNCHANGED <<client, closed, signals>>
    BY <1>4 DEF StopPool
  <2>2. TypeOK' /\ UnbornIsBlank' /\ LeavingIsIdle'
    BY <1>1, <1>2, <1>3, <2>1 DEF TypeOK, UnbornIsBlank, LeavingIsIdle
  <2>3. /\ OneSignal' /\ CountIsExact' /\ PendingIsTracked' /\ RejectedByExit' /\ NoForgottenWorker'
        /\ RecycleHarmsNobody' /\ BegunSurvivesSignal'
    BY <1>1, <1>2, <1>4, <2>1 DEF OneSignal, CountIsExact, Done, PendingIsTracked, RejectedByExit,
       NoForgottenWorker, IsUp, RecycleHarmsNobody, BegunSurvivesSignal
  <2> QED
    BY <1>2, <2>2, <2>3, WorkersUntouched DEF IInv, WorkersAreSafe
<1>5. CASE current # NoWorker
  <2> DEFINE w == current
             c == [client[w] EXCEPT !.retiring = TRUE]
  <2>1. w \in Worker /\ client \in [Worker -> Client]
    BY <1>1, <1>5 DEF TypeOK
  <2>2. /\ client' = [client EXCEPT ![w] = c] /\ closed' = closed \union {w} /\ signals' = signals \union {w}
    BY <1>5, <2>1 DEF StopPool
  <2>3. /\ c \in Client /\ c.jobs = client[w].jobs /\ c.completedJobs = client[w].completedJobs
        /\ c.retiring = TRUE /\ c.exitSeen = client[w].exitSeen
    BY <2>1 DEF Client
  <2> HIDE DEF c
  <2>4. client'[w] = c /\ \A v \in Worker \ {w} : client'[v] = client[v]
    BY <2>1, <2>2
  <2>5. \A v \in Worker : /\ client'[v].jobs = client[v].jobs
                          /\ client'[v].completedJobs = client[v].completedJobs
                          /\ client'[v].exitSeen = client[v].exitSeen
                          /\ client'[v].retiring <=> (client[v].retiring \/ v = w)
    BY <2>1, <2>3, <2>4 DEF Client
  <2>6. TypeOK'
    BY <1>1, <1>2, <2>1, <2>2, <2>3 DEF TypeOK
  <2>7. UnbornIsBlank'
    BY <1>1, <1>2, <1>3, <2>2, <2>4 DEF UnbornIsBlank
  <2>8. LeavingIsIdle'
    <3>1. \A v \in Worker : v \in closed' <=> v \in closed \/ v = w
      BY <2>2
    <3> QED
      BY <1>1, <1>2, <1>3, <2>5, <3>1 DEF LeavingIsIdle
  <2>9. CountIsExact' /\ PendingIsTracked' /\ OneSignal' /\ NoForgottenWorker'
    BY <1>1, <1>2, <2>2, <2>5 DEF CountIsExact, Done, PendingIsTracked, OneSignal, NoForgottenWorker, IsUp
  <2>10. RejectedByExit'
    <3>1. \A j \in Job : outcome[j] = "stopped" => on[j] \in Worker
      BY <1>1 DEF IInv, NewIsNowhere, TypeOK
    <3> QED
      BY <1>1, <1>2, <2>5, <3>1 DEF RejectedByExit
  <2>11. RecycleHarmsNobody' /\ BegunSurvivesSignal'
    BY <1>2 DEF RecycleHarmsNobody, BegunSurvivesSignal
  <2> QED
    BY <1>2, <2>6, <2>7, <2>8, <2>9, <2>10, <2>11, WorkersUntouched DEF IInv, WorkersAreSafe
<1> QED
  BY <1>4, <1>5

(* A call that never reaches a worker. *)
LEMMA TurnAwayKeeps ==
  ASSUME IInv, NEW j \in Job, NEW how \in {"failed", "cancelled"}, TurnAway(j, how)
  PROVE  IInv'
<1>1. /\ TypeOK /\ NewIsNowhere /\ CountIsExact /\ PendingIsTracked
  BY DEF IInv, WorkersAreSafe
<1>2. /\ UNCHANGED <<heard, on, current, client, stopped, inbox, closed, outbox, process, signals,
                     restart, reached, hit>>
      /\ outcome' = [outcome EXCEPT ![j] = how] /\ outcome[j] = "new"
  BY DEF TurnAway, poolVars, pipeVars, procVars
<1>3. outcome'[j] = how /\ \A k \in Job \ {j} : outcome'[k] = outcome[k]
  BY <1>1, <1>2 DEF TypeOK
<1>4. on[j] = NoWorker
  BY <1>1, <1>2 DEF NewIsNowhere
<1>5. \A k \in Job : /\ outcome'[k] = "pending" <=> outcome[k] = "pending"
                     /\ outcome'[k] = "stopped" <=> outcome[k] = "stopped"
  BY <1>2, <1>3
<1>6. TypeOK'
  BY <1>1, <1>2 DEF TypeOK
<1>7. NewIsNowhere' /\ PendingIsTracked'
  BY <1>1, <1>2, <1>3, <1>5 DEF NewIsNowhere, PendingIsTracked
<1>8. CountIsExact'
  <2>1. ASSUME NEW w \in Worker PROVE Done(w)' = Done(w)
    BY <1>2, <1>3, <1>4, NoWorkerIsNone DEF Done
  <2> QED
    BY <1>1, <1>2, <2>1 DEF CountIsExact
<1>9. /\ PipeType' /\ BornInOrder' /\ UnbornIsBlank' /\ OneSignal' /\ BegunIsPending' /\ NoForgottenWorker'
  BY <1>2 DEF IInv, WorkersAreSafe, PipeType, BornInOrder, UnbornIsBlank, OneSignal, BegunIsPending,
     NoForgottenWorker, IsUp
<1>10. LeavingIsIdle' /\ RunOnce'
  BY <1>2 DEF IInv, LeavingIsIdle, RunOnce, InputIsOurs, RunsDiffer, PendingIsRead
<1>11. WrittenIsThere'
  BY <1>2, <1>5 DEF IInv, WrittenIsThere, OutputIsOurs, ProgressIsNews, ProgressDiffers,
     AnswerIsThere, UntoldIsUnheard
<1>12. RejectedByExit' /\ RecycleHarmsNobody' /\ AnswerBeatsExit' /\ BegunSurvivesSignal'
  BY <1>2, <1>5 DEF IInv, WorkersAreSafe, RejectedByExit, RecycleHarmsNobody, AnswerBeatsExit, BegunSurvivesSignal
<1> QED
  BY <1>6, <1>7, <1>8, <1>9, <1>10, <1>11, <1>12 DEF IInv, WorkersAreSafe

-----------------------------------------------------------------------------
(* A worker is spawned, and a line is read. *)

(* The worker to be spawned is the first that was not.                     *)
LEMMA SpawnedIsNext ==
  ASSUME TypeOK, BornInOrder, Spawned \in Worker
  PROVE  /\ process[Spawned].state = "unborn"
         /\ \E k \in 0..MaxWorkers - 1 :
              Spawned = k + 1 /\ \A w \in Worker : process[w].state # "unborn" <=> w <= k
<1>1. PICK k \in 0..MaxWorkers : \A w \in Worker : process[w].state # "unborn" <=> w <= k
  BY DEF BornInOrder
<1>2. {w \in Worker : process[w].state # "unborn"} = 1..k
  BY <1>1, PoolAssumption DEF Worker
<1>3. Cardinality(1..k) = k
  BY <1>1, FS_Interval
<1>4. Spawned = 1 + k
  BY <1>2, <1>3 DEF Spawned
<1> QED
  BY <1>1, <1>4, PoolAssumption DEF Worker

(* The process that is spawned is one nobody knows yet. *)
LEMMA SpawnKeeps ==
  ASSUME IInv, Spawned \in Worker, process' = [process EXCEPT ![Spawned].state = "up"]
  PROVE  /\ process' \in [Worker -> Process] /\ BornInOrder'
         /\ process'[Spawned].state = "up" /\ process[Spawned] = Unborn
         /\ process'[Spawned].pending = {} /\ process'[Spawned].told = {}
         /\ process'[Spawned].stdinEnded = FALSE /\ process'[Spawned].grace = FALSE
         /\ \A v \in Worker \ {Spawned} : process'[v] = process[v]
<1>1. /\ TypeOK /\ BornInOrder /\ UnbornIsBlank /\ process \in [Worker -> Process]
  BY DEF IInv, WorkersAreSafe, TypeOK
<1>2. PICK k \in 0..MaxWorkers - 1 :
        Spawned = k + 1 /\ \A v \in Worker : process[v].state # "unborn" <=> v <= k
  BY <1>1, SpawnedIsNext
<1>3. process[Spawned] = Unborn
  BY <1>1, SpawnedIsNext DEF UnbornIsBlank
<1> DEFINE w == Spawned
           p == [process[w] EXCEPT !.state = "up"]
<1>4. process' = [process EXCEPT ![w] = p]
  BY <1>1
<1>5. /\ p \in Process /\ p.state = "up" /\ p.pending = {} /\ p.told = {}
      /\ p.stdinEnded = FALSE /\ p.grace = FALSE
  <2>1. /\ process[w].pending = {} /\ process[w].told = {} /\ process[w].stdinEnded = FALSE
        /\ process[w].grace = FALSE
    BY <1>3 DEF Unborn, NoProcess
  <2> QED
    BY <1>1, <2>1 DEF Process
<1> HIDE DEF p, w
<1>6. process'[w] = p /\ \A v \in Worker \ {w} : process'[v] = process[v]
  BY <1>1, <1>4 DEF w
<1>7. BornInOrder'
  <2>1. k + 1 \in 0..MaxWorkers
    BY <1>2, PoolAssumption
  <2>2. \A v \in Worker : process'[v].state # "unborn" <=> v <= k + 1
    BY <1>2, <1>5, <1>6 DEF Worker, w
  <2> QED
    BY <2>1, <2>2 DEF BornInOrder
<1>8. process' \in [Worker -> Process]
  BY <1>1, <1>4, <1>5 DEF w
<1> QED
  BY <1>3, <1>5, <1>6, <1>7, <1>8 DEF w

(* A worker is spawned with no job, as after a recycling.                  *)
LEMMA StartKeeps ==
  ASSUME IInv, Start
  PROVE  IInv'
<1>1. /\ TypeOK /\ PipeType /\ PendingIsTracked /\ BornInOrder /\ UnbornIsBlank /\ NewIsNowhere
      /\ LeavingIsIdle /\ OneSignal /\ RunOnce /\ BegunIsPending /\ WrittenIsThere /\ RejectedByExit
      /\ NoForgottenWorker
  BY DEF IInv, WorkersAreSafe
<1>2. /\ UNCHANGED <<outcome, heard, on, client, stopped, inbox, closed, outbox, signals, restart, reached, hit>>
      /\ current = NoWorker /\ current' = Spawned /\ Spawned \in Worker
      /\ process' = [process EXCEPT ![Spawned].state = "up"]
  BY DEF Start, pipeVars
<1> DEFINE w == Spawned
<1>3. /\ process' \in [Worker -> Process] /\ BornInOrder'
      /\ process'[w].state = "up" /\ process[w] = Unborn
      /\ process'[w].pending = {} /\ process'[w].told = {}
      /\ process'[w].stdinEnded = FALSE /\ process'[w].grace = FALSE
      /\ \A v \in Worker \ {w} : process'[v] = process[v]
  BY <1>2, SpawnKeeps
<1>4. /\ client[w] = NewClient /\ inbox[w] = <<>> /\ outbox[w] = <<>> /\ w \notin closed
      /\ w \notin signals /\ hit[w] = "nothing" /\ \A j \in Job : on[j] # w
  BY <1>1, <1>2, <1>3, SpawnedIsNext DEF UnbornIsBlank
<1>w. w \in Worker /\ current' = w
  BY <1>2
<1> HIDE DEF w
<1>5. TypeOK' /\ PipeType'
  BY <1>1, <1>2, <1>3, <1>w DEF TypeOK, PipeType
<1>6. UnbornIsBlank'
  BY <1>1, <1>2, <1>3, <1>w DEF UnbornIsBlank
<1>7. LeavingIsIdle'
  <2>1. client[w].exitSeen = FALSE
    BY <1>4 DEF NewClient
  <2>2. ASSUME NEW v \in Worker, v # w PROVE process'[v] = process[v] /\ v # current'
    BY <1>3, <1>w, <2>2
  <2> QED
    BY <1>1, <1>2, <1>3, <1>4, <1>w, <2>1, <2>2 DEF LeavingIsIdle
<1>8. OneSignal' /\ NoForgottenWorker'
  <2>1. \A v \in Worker : v # w => process'[v] = process[v] /\ v # current
    BY <1>2, <1>3, NoWorkerIsNone
  <2>2. OneSignal'
    BY <1>1, <1>2, <1>3, <1>4, <2>1 DEF OneSignal
  <2>3. NoForgottenWorker'
    BY <1>1, <1>2, <1>w, <2>1 DEF NoForgottenWorker, IsUp
  <2> QED
    BY <2>2, <2>3
<1>9. \A v \in Worker : process'[v].pending = process[v].pending /\ process'[v].told = process[v].told
  <2>1. process[w].pending = {} /\ process[w].told = {}
    BY <1>3 DEF Unborn, NoProcess
  <2> QED
    BY <1>3, <2>1
<1>10. RunOnce' /\ WrittenIsThere'
  <2>1. RunOnce'
    BY <1>1, <1>2, <1>9 DEF RunOnce, InputIsOurs, RunsDiffer, PendingIsRead
  <2>2. WrittenIsThere'
    BY <1>1, <1>2, <1>9 DEF WrittenIsThere, OutputIsOurs, ProgressIsNews, ProgressDiffers,
       AnswerIsThere, UntoldIsUnheard
  <2> QED
    BY <2>1, <2>2
<1>11. BegunIsPending'
  <2>1. \A j \in Job : reached[j] = "read" => on[j] \in Worker \ {w}
    BY <1>1, <1>4 DEF NewIsNowhere, TypeOK
  <2> QED
    BY <1>1, <1>2, <1>3, <2>1 DEF BegunIsPending
<1>12. /\ PendingIsTracked' /\ RecycleHarmsNobody' /\ CountIsExact' /\ AnswerBeatsExit'
       /\ BegunSurvivesSignal' /\ NewIsNowhere' /\ RejectedByExit'
  BY <1>2 DEF IInv, WorkersAreSafe, PendingIsTracked, RecycleHarmsNobody, CountIsExact, Done,
     AnswerBeatsExit, BegunSurvivesSignal, NewIsNowhere, RejectedByExit
<1> QED
  BY <1>3, <1>5, <1>6, <1>7, <1>8, <1>10, <1>11, <1>12 DEF IInv, WorkersAreSafe

(* A worker reads a line: a job it begins, or a cancel.                    *)
LEMMA ReadsKeeps ==
  ASSUME IInv, NEW w \in Worker, Reads(w)
  PROVE  IInv'
<1>1. /\ TypeOK /\ PipeType /\ PendingIsTracked /\ BornInOrder /\ UnbornIsBlank /\ NewIsNowhere
      /\ LeavingIsIdle /\ OneSignal /\ RunOnce /\ BegunIsPending /\ WrittenIsThere /\ RejectedByExit
      /\ NoForgottenWorker
  BY DEF IInv, WorkersAreSafe
<1> DEFINE s == inbox[w]
           line == Head(inbox[w])
           j == Head(inbox[w]).id
           pend == IF line.type = "run" THEN process[w].pending \union {line.id} ELSE process[w].pending
           abort == IF line.type = "cancel" /\ line.id \in Running(process[w])
                      THEN process[w].aborted \union {line.id} ELSE process[w].aborted
           p == [process[w] EXCEPT !.pending = pend, !.aborted = abort]
<1>2. /\ UNCHANGED <<outcome, heard, on, current, client, stopped, closed, outbox, signals, restart, hit>>
      /\ process[w].state = "up" /\ s # <<>> /\ inbox' = [inbox EXCEPT ![w] = Tail(s)]
      /\ reached' = IF line.type = "run" THEN [reached EXCEPT ![j] = "read"] ELSE reached
  BY DEF Reads, poolVars, IsUp
<1>3. process' = [process EXCEPT ![w] = p] /\ process[w] \in Process
  BY <1>1 DEF Reads, TypeOK
<1>4. s \in Seq(InLine) /\ s # <<>>
  BY <1>1, <1>2 DEF PipeType
<1>5. /\ line \in InLine /\ Tail(s) \in Seq(InLine) /\ Len(Tail(s)) = Len(s) - 1
      /\ Len(s) \in Nat \ {0} /\ line = s[1]
      /\ \A i \in 1..Len(s) - 1 : Tail(s)[i] = s[i + 1]
  BY <1>4, ReadLine
<1>6. j \in Job /\ line.type \in {"run", "cancel"} /\ line.id = j
  BY <1>5 DEF InLine
<1>7. /\ on[j] = w /\ (line.type = "run" => reached[j] = "nowhere")
  BY <1>1, <1>5 DEF RunOnce, InputIsOurs
<1>8. pend \subseteq Job /\ abort \subseteq Job /\ process[w].pending \subseteq pend
  BY <1>3, <1>6 DEF Process
<1>9. /\ p \in Process /\ p.pending = pend /\ p.told = process[w].told /\ p.state = "up"
      /\ p.stdinEnded = process[w].stdinEnded /\ p.grace = process[w].grace
  BY <1>2, <1>3, <1>8 DEF Process
<1>10. pend = process[w].pending \/ (line.type = "run" /\ pend = process[w].pending \union {j})
  OBVIOUS
<1>11. line.type = "run" => pend = process[w].pending \union {j}
  OBVIOUS
<1>12. /\ \A k \in Job \ {j} : reached'[k] = reached[k]
       /\ reached'[j] = IF line.type = "run" THEN "read" ELSE reached[j]
       /\ reached' \in [Job -> {"nowhere", "read", "answered"}]
  BY <1>1, <1>2, <1>6 DEF TypeOK
<1> HIDE DEF p, pend, abort
<1>13. /\ process'[w] = p /\ inbox'[w] = Tail(s)
       /\ \A v \in Worker \ {w} : process'[v] = process[v] /\ inbox'[v] = inbox[v]
  BY <1>1, <1>2, <1>3 DEF TypeOK, PipeType
<1>14. TypeOK' /\ PipeType'
  BY <1>1, <1>2, <1>3, <1>5, <1>9, <1>12 DEF TypeOK, PipeType
<1>15. \A v \in Worker : /\ process'[v].state = process[v].state
                         /\ process'[v].stdinEnded = process[v].stdinEnded
                         /\ process'[v].grace = process[v].grace
  BY <1>2, <1>9, <1>13
<1>16. BornInOrder' /\ LeavingIsIdle' /\ OneSignal' /\ NoForgottenWorker'
  <2>1. BornInOrder'
    BY <1>1, <1>15 DEF BornInOrder
  <2>2. LeavingIsIdle'
    BY <1>1, <1>2, <1>15 DEF LeavingIsIdle
  <2>3. OneSignal' /\ NoForgottenWorker'
    BY <1>1, <1>2, <1>15 DEF OneSignal, NoForgottenWorker, IsUp
  <2> QED
    BY <2>1, <2>2, <2>3
<1>17. UnbornIsBlank'
  BY <1>1, <1>2, <1>9, <1>13 DEF UnbornIsBlank
<1>18. NewIsNowhere'
  <2>1. on[j] # NoWorker /\ on[j] \in Worker
    BY <1>7, NoWorkerIsNone
  <2>2. \A k \in Job : reached'[k] = "nowhere" => reached[k] = "nowhere"
    BY <1>7, <1>12
  <2> QED
    BY <1>1, <1>2, <1>12, <2>1, <2>2 DEF NewIsNowhere
<1>19. outcome[j] # "stopped"
  BY <1>1, <1>2, <1>6, <1>7 DEF RejectedByExit, LeavingIsIdle
<1>20. AnswerBeatsExit' /\ BegunSurvivesSignal' /\ RejectedByExit'
  <2>1. AnswerBeatsExit' /\ BegunSurvivesSignal'
    BY <1>2, <1>12, <1>19 DEF IInv, WorkersAreSafe, AnswerBeatsExit, BegunSurvivesSignal
  <2>2. \A v \in Worker : hit[v] = "signal" => v # w
    BY <1>1, <1>2 DEF LeavingIsIdle
  <2>3. RejectedByExit'
    BY <1>1, <1>2, <1>7, <1>12, <2>2 DEF RejectedByExit
  <2> QED
    BY <2>1, <2>3
(* The lines left in the input. *)
<1>21. ASSUME NEW v \in Worker, NEW i \in 1..Len(inbox'[v])
       PROVE  \E k \in 1..Len(inbox[v]) : inbox'[v][i] = inbox[v][k] /\ (v = w => k = i + 1) /\ (v # w => k = i)
  <2>1. CASE v = w
    <3>1. i \in 1..Len(s) - 1 /\ inbox'[v][i] = s[i + 1] /\ i + 1 \in 1..Len(s)
      <4>1. inbox'[v] = Tail(s) /\ Len(inbox'[v]) = Len(s) - 1 /\ i \in 1..Len(s) - 1
        BY <1>5, <1>13, <1>21, <2>1
      <4>2. i + 1 \in 1..Len(s)
        BY <1>5, <4>1
      <4>3. Tail(s)[i] = s[i + 1]
        BY <1>5, <4>1
      <4> QED
        BY <4>1, <4>2, <4>3
    <3> QED
      BY <2>1, <3>1
  <2>2. CASE v # w
    BY <1>13, <1>21, <2>2
  <2> QED
    BY <2>1, <2>2
<1>o. on' = on
  BY <1>2
<1>22. \A v \in Worker : \A i \in 1..Len(inbox[v]) : inbox[v][i] \in InLine
  BY <1>1, ElementOfSeq DEF PipeType
<1>23. InputIsOurs'
  <2> SUFFICES ASSUME NEW v \in Worker, NEW i \in 1..Len(inbox'[v])
               PROVE  /\ on[inbox'[v][i].id] = v
                      /\ inbox'[v][i].type = "run" => reached'[inbox'[v][i].id] = "nowhere"
    BY <1>o DEF InputIsOurs
  <2>1. PICK k \in 1..Len(inbox[v]) : inbox'[v][i] = inbox[v][k] /\ (v = w => k = i + 1) /\ (v # w => k = i)
    BY <1>21
  <2> DEFINE l == inbox[v][k]
  <2>2. l \in InLine /\ on[l.id] = v /\ (l.type = "run" => reached[l.id] = "nowhere")
    BY <1>1, <1>22 DEF RunOnce, InputIsOurs
  <2>3. l.id \in Job
    BY <2>2 DEF InLine
  <2>4. ASSUME l.type = "run" PROVE reached'[l.id] = "nowhere"
    <3>1. CASE l.id # j
      BY <1>12, <2>2, <2>3, <2>4, <3>1
    <3>2. CASE l.id = j /\ line.type = "run"
      <4>1. v = w
        BY <1>7, <2>2, <3>2
      <4>2. l = line
        BY <1>5, <2>2, <2>4, <3>2 DEF InLine
      <4>3. 1 \in 1..Len(s) /\ s[1] = line /\ k \in 1..Len(s) /\ s[k] = line
        BY <1>5, <4>1, <4>2
      <4>4. k = 1
        BY <1>1, <3>2, <4>3 DEF RunOnce, RunsDiffer
      <4> QED
        BY <1>13, <1>5, <2>1, <4>1, <4>4
    <3>3. CASE l.id = j /\ line.type # "run"
      BY <1>12, <2>2, <2>4, <3>3
    <3> QED
      BY <3>1, <3>2, <3>3
  <2> QED
    BY <2>1, <2>2, <2>4
<1>24. RunsDiffer'
  <2> SUFFICES ASSUME NEW v \in Worker, NEW i \in 1..Len(inbox'[v]), NEW k \in 1..Len(inbox'[v]),
                      inbox'[v][i] = inbox'[v][k], inbox'[v][i].type = "run"
               PROVE  i = k
    BY DEF RunsDiffer
  <2>1. PICK a \in 1..Len(inbox[v]) : inbox'[v][i] = inbox[v][a] /\ (v = w => a = i + 1) /\ (v # w => a = i)
    BY <1>21
  <2>2. PICK b \in 1..Len(inbox[v]) : inbox'[v][k] = inbox[v][b] /\ (v = w => b = k + 1) /\ (v # w => b = k)
    BY <1>21
  <2>3. a = b
    BY <1>1, <2>1, <2>2 DEF RunOnce, RunsDiffer
  <2>4. i \in Nat /\ k \in Nat
    <3>1. Len(inbox'[v]) \in Nat
      BY <1>14, LenProperties DEF PipeType
    <3> QED
      BY <3>1
  <2> QED
    BY <2>1, <2>2, <2>3, <2>4
<1>25. PendingIsRead'
  <2>1. \A v \in Worker : process[v].pending \subseteq Job
    BY <1>1 DEF TypeOK, Process
  <2>2. \A v \in Worker : \A k \in process[v].pending : on[k] = v /\ reached[k] = "read" /\ reached'[k] = "read"
    BY <1>1, <1>7, <1>12, <2>1 DEF RunOnce, PendingIsRead
  <2>3. \A v \in Worker : process[v].told \subseteq process[v].pending
    BY <1>1 DEF RunOnce, PendingIsRead
  <2>4. \A k \in pend : on[k] = w /\ reached'[k] = "read"
    BY <1>7, <1>10, <1>12, <2>2
  <2> QED
    BY <1>2, <1>8, <1>9, <1>13, <2>2, <2>3, <2>4 DEF PendingIsRead
<1>26. BegunIsPending'
  <2>1. ASSUME NEW k \in Job, reached'[k] = "read", process'[on[k]].state = "up"
        PROVE  k \in process'[on[k]].pending
    <3>1. CASE k = j /\ line.type = "run"
      BY <1>7, <1>9, <1>11, <1>13, <3>1
    <3>2. CASE ~(k = j /\ line.type = "run")
      <4>1. reached[k] = "read"
        BY <1>12, <2>1, <3>2
      <4>2. on[k] \in Worker
        BY <1>1, <4>1 DEF NewIsNowhere, TypeOK
      <4>3. k \in process[on[k]].pending
        BY <1>1, <1>15, <2>1, <4>1, <4>2 DEF BegunIsPending
      <4> QED
        BY <1>8, <1>9, <1>13, <4>2, <4>3
    <3> QED
      BY <3>1, <3>2
  <2> QED
    BY <1>2, <2>1 DEF BegunIsPending
<1>27. \A v \in Worker : \A i \in 1..Len(outbox[v]) : outbox[v][i] \in OutLine
  BY <1>1, ElementOfSeq DEF PipeType
<1>28. \A k \in Job : reached[k] # "nowhere" => reached'[k] = reached[k]
  BY <1>7, <1>12
<1>29. OutputIsOurs' /\ ProgressDiffers' /\ AnswerIsThere'
  <2>1. OutputIsOurs'
    <3> SUFFICES ASSUME NEW v \in Worker, NEW i \in 1..Len(outbox[v])
                 PROVE  /\ on[outbox[v][i].id] = v
                        /\ reached'[outbox[v][i].id] # "nowhere"
                        /\ outbox[v][i].type # "progress" => reached'[outbox[v][i].id] = "answered"
      BY <1>2 DEF OutputIsOurs
    <3>1. outbox[v][i].id \in Job
      BY <1>27 DEF OutLine
    <3> QED
      BY <1>1, <1>28, <3>1 DEF WrittenIsThere, OutputIsOurs
  <2>2. \A k \in Job : reached'[k] = "answered" => reached[k] = "answered"
    BY <1>12
  <2>3. ProgressDiffers' /\ AnswerIsThere'
    BY <1>1, <1>2, <2>2 DEF WrittenIsThere, ProgressDiffers, AnswerIsThere
  <2> QED
    BY <2>1, <2>3
<1>30. \A v \in Worker, k \in Job :
         k \in process'[v].pending \ process'[v].told =>
           \/ k \in process[v].pending \ process[v].told
           \/ k = j /\ reached[j] = "nowhere"
  BY <1>7, <1>9, <1>10, <1>13
<1>31. ProgressIsNews'
  <2> SUFFICES ASSUME NEW v \in Worker, NEW i \in 1..Len(outbox[v]), outbox[v][i].type = "progress"
               PROVE  /\ heard[outbox[v][i].id] = 0
                      /\ outbox[v][i].id \notin process'[v].pending \ process'[v].told
    BY <1>2 DEF ProgressIsNews
  <2>1. outbox[v][i].id \in Job
    BY <1>27 DEF OutLine
  <2>2. /\ heard[outbox[v][i].id] = 0 /\ outbox[v][i].id \notin process[v].pending \ process[v].told
        /\ reached[outbox[v][i].id] # "nowhere"
    BY <1>1 DEF WrittenIsThere, ProgressIsNews, OutputIsOurs
  <2> QED
    BY <1>30, <2>1, <2>2
<1>32. UntoldIsUnheard'
  BY <1>1, <1>2, <1>6, <1>30 DEF WrittenIsThere, UntoldIsUnheard, NewIsNowhere
<1>33. PendingIsTracked' /\ RecycleHarmsNobody' /\ CountIsExact'
  BY <1>2 DEF IInv, WorkersAreSafe, PendingIsTracked, RecycleHarmsNobody, CountIsExact, Done
<1> QED
  BY <1>14, <1>16, <1>17, <1>18, <1>20, <1>23, <1>24, <1>25, <1>26, <1>29, <1>31, <1>32, <1>33
     DEF IInv, WorkersAreSafe, RunOnce, WrittenIsThere

-----------------------------------------------------------------------------
(* A job is submitted. *)

(* What was written to a worker stays written to it. *)
OnIsKept == \A j \in Job : on[j] # NoWorker => on'[j] = on[j]

(* The line may be dropped, at a worker that is gone. *)
Sends(w, line) ==
  /\ inbox' = inbox \/ inbox' = [inbox EXCEPT ![w] = Append(inbox[w], line)]
  /\ line \in InLine /\ on'[line.id] = w
  /\ line.type = "run" => on[line.id] = NoWorker

(* A line the pool sends is of a job of that worker, and of no other.      *)
LEMMA InputAppended ==
  ASSUME IInv, NEW w \in Worker, NEW line, Sends(w, line), OnIsKept, UNCHANGED reached
  PROVE  inbox' \in [Worker -> Seq(InLine)] /\ InputIsOurs' /\ RunsDiffer'
<1>1. /\ inbox \in [Worker -> Seq(InLine)] /\ InputIsOurs /\ RunsDiffer /\ NewIsNowhere /\ TypeOK
  BY DEF IInv, PipeType, RunOnce, WorkersAreSafe
<1>2. /\ inbox' = inbox \/ inbox' = [inbox EXCEPT ![w] = Append(inbox[w], line)]
      /\ line \in InLine /\ on'[line.id] = w
      /\ line.type = "run" => on[line.id] = NoWorker
      /\ \A j \in Job : on[j] # NoWorker => on'[j] = on[j]
  BY DEF Sends, OnIsKept
<1>3. \A v \in Worker : \A i \in 1..Len(inbox[v]) : inbox[v][i] \in InLine /\ inbox[v][i].id \in Job
  <2>1. \A v \in Worker : \A i \in 1..Len(inbox[v]) : inbox[v][i] \in InLine
    BY <1>1, ElementOfSeq
  <2> QED
    BY <2>1 DEF InLine
<1>4. \A v \in Worker : \A i \in 1..Len(inbox[v]) : on'[inbox[v][i].id] = v
  BY <1>1, <1>2, <1>3, NoWorkerIsNone DEF InputIsOurs
<1>5. CASE inbox' = inbox
  BY <1>1, <1>4, <1>5 DEF InputIsOurs, RunsDiffer
<1>6. CASE inbox' = [inbox EXCEPT ![w] = Append(inbox[w], line)]
  <2> DEFINE s == inbox[w]
  <2>1. /\ inbox'[w] \in Seq(InLine) /\ Len(s) \in Nat /\ Len(inbox'[w]) = Len(s) + 1
        /\ inbox'[w][Len(s) + 1] = line /\ \A i \in 1..Len(s) : inbox'[w][i] = s[i]
    <3>1. s \in Seq(InLine) /\ inbox'[w] = Append(s, line)
      BY <1>1, <1>6
    <3> QED
      BY <1>2, <3>1, WriteLine
  <2>2. \A v \in Worker \ {w} : inbox'[v] = inbox[v]
    BY <1>1, <1>6
  <2> HIDE DEF s
  <2>3. ASSUME NEW v \in Worker, NEW i \in 1..Len(inbox'[v])
        PROVE  \/ i \in 1..Len(inbox[v]) /\ inbox'[v][i] = inbox[v][i]
               \/ v = w /\ i = Len(s) + 1 /\ inbox'[v][i] = line
    BY <2>1, <2>2, <2>3 DEF s
  <2>4. inbox' \in [Worker -> Seq(InLine)]
    BY <1>1, <1>6, <2>1
  <2>5. \A v \in Worker : \A i \in 1..Len(inbox[v]) : inbox[v][i] = line => line.type # "run"
    BY <1>1, <1>2, NoWorkerIsNone DEF InputIsOurs
  <2>6. line.type = "run" => reached[line.id] = "nowhere"
    BY <1>1, <1>2 DEF NewIsNowhere, InLine
  <2>7. InputIsOurs'
    <3> SUFFICES ASSUME NEW v \in Worker, NEW i \in 1..Len(inbox'[v])
                 PROVE  /\ on'[inbox'[v][i].id] = v
                        /\ inbox'[v][i].type = "run" => reached[inbox'[v][i].id] = "nowhere"
      BY DEF InputIsOurs
    <3>1. CASE i \in 1..Len(inbox[v]) /\ inbox'[v][i] = inbox[v][i]
      BY <1>1, <1>4, <3>1 DEF InputIsOurs
    <3>2. CASE v = w /\ inbox'[v][i] = line
      BY <1>2, <2>6, <3>2
    <3> QED
      BY <2>3, <3>1, <3>2
  <2>8. RunsDiffer'
    <3> SUFFICES ASSUME NEW v \in Worker, NEW i \in 1..Len(inbox'[v]), NEW k \in 1..Len(inbox'[v]),
                        inbox'[v][i] = inbox'[v][k], inbox'[v][i].type = "run"
                 PROVE  i = k
      BY DEF RunsDiffer
    <3>1. CASE i \in 1..Len(inbox[v]) /\ inbox'[v][i] = inbox[v][i]
      <4>1. inbox'[v][k] # line
        BY <2>5, <3>1
      <4>2. k \in 1..Len(inbox[v]) /\ inbox'[v][k] = inbox[v][k]
        BY <2>3, <4>1
      <4> QED
        BY <1>1, <3>1, <4>2 DEF RunsDiffer
    <3>2. CASE v = w /\ i = Len(s) + 1 /\ inbox'[v][i] = line
      <4>1. ~(k \in 1..Len(inbox[v]) /\ inbox'[v][k] = inbox[v][k])
        BY <2>5, <3>2
      <4> QED
        BY <2>3, <3>2, <4>1
    <3> QED
      BY <2>3, <3>1, <3>2
  <2> QED
    BY <2>4, <2>7, <2>8
<1> QED
  BY <1>2, <1>5, <1>6

(* The worker that takes a job: the one in the map, or the one just spawned. *)
Takes(w) ==
  /\ process' \in [Worker -> Process] /\ BornInOrder'
  /\ \A v \in Worker : process'[v].pending = process[v].pending /\ process'[v].told = process[v].told
  /\ \A v \in Worker \ {w} : process'[v] = process[v]
  /\ process'[w].stdinEnded = process[w].stdinEnded /\ process'[w].grace = process[w].grace
  /\ process'[w].state # "unborn"
  /\ process'[w].state = process[w].state \/ (process[w].state = "unborn" /\ process'[w].state = "up")
  /\ w \notin closed /\ ~client[w].exitSeen /\ current \in {w, NoWorker}
  /\ process[w].state = "unborn" => hit[w] = "nothing" /\ w \notin signals /\ \A j \in Job : on[j] # w

(* A job is sent to a worker that takes it.                                *)
LEMMA SubmitToKeeps ==
  ASSUME IInv, NEW j \in Job, NEW w \in Worker, SubmitTo(j, w), Takes(w)
  PROVE  IInv'
<1>1. /\ TypeOK /\ PipeType /\ PendingIsTracked /\ BornInOrder /\ UnbornIsBlank /\ NewIsNowhere
      /\ LeavingIsIdle /\ OneSignal /\ RunOnce /\ BegunIsPending /\ WrittenIsThere /\ RejectedByExit
      /\ NoForgottenWorker
  BY DEF IInv, WorkersAreSafe
<1>2. /\ process' \in [Worker -> Process] /\ BornInOrder'
      /\ \A v \in Worker : process'[v].pending = process[v].pending /\ process'[v].told = process[v].told
      /\ \A v \in Worker \ {w} : process'[v] = process[v]
      /\ process'[w].stdinEnded = process[w].stdinEnded /\ process'[w].grace = process[w].grace
      /\ process'[w].state # "unborn"
      /\ process'[w].state = process[w].state \/ (process[w].state = "unborn" /\ process'[w].state = "up")
      /\ w \notin closed /\ ~client[w].exitSeen /\ current \in {w, NoWorker}
      /\ process[w].state = "unborn" => hit[w] = "nothing" /\ w \notin signals /\ \A k \in Job : on[k] # w
  BY DEF Takes
<1> DEFINE line == Line(j, "run")
           c == [client[w] EXCEPT !.jobs = client[w].jobs \union {j}]
<1>3. /\ UNCHANGED <<heard, stopped, closed, outbox, signals, restart, reached, hit>>
      /\ outcome[j] = "new" /\ outcome' = [outcome EXCEPT ![j] = "pending"]
      /\ on' = [on EXCEPT ![j] = w] /\ current' = w
      /\ inbox' = [inbox EXCEPT ![w] = Written(w, line)]
  BY DEF SubmitTo
<1>4. client' = [client EXCEPT ![w] = c] /\ client[w] \in Client
  BY <1>1 DEF SubmitTo, TypeOK
<1>5. /\ c \in Client /\ c.jobs = client[w].jobs \union {j} /\ c.completedJobs = client[w].completedJobs
      /\ c.retiring = client[w].retiring /\ c.exitSeen = client[w].exitSeen
  BY <1>4 DEF Client
<1> HIDE DEF c
<1>6. /\ client'[w] = c /\ \A v \in Worker \ {w} : client'[v] = client[v]
      /\ outcome'[j] = "pending" /\ \A k \in Job \ {j} : outcome'[k] = outcome[k]
      /\ on'[j] = w /\ \A k \in Job \ {j} : on'[k] = on[k]
  BY <1>1, <1>3, <1>4 DEF TypeOK
<1>7. on[j] = NoWorker /\ reached[j] = "nowhere" /\ heard[j] = 0
  BY <1>1, <1>3 DEF NewIsNowhere
<1>8. OnIsKept
  BY <1>6, <1>7 DEF OnIsKept
<1>9. inbox' \in [Worker -> Seq(InLine)] /\ InputIsOurs' /\ RunsDiffer'
  <2>1. inbox' = inbox \/ inbox' = [inbox EXCEPT ![w] = Append(inbox[w], line)]
    <3>1. CASE Written(w, line) = inbox[w]
      BY <1>1, <1>3, <3>1 DEF PipeType
    <3>2. CASE Written(w, line) = Append(inbox[w], line)
      BY <1>3, <3>2
    <3> QED
      BY <3>1, <3>2 DEF Written
  <2>2. line \in InLine /\ line.id = j
    BY DEF Line, InLine
  <2>3. Sends(w, line)
    BY <1>6, <1>7, <2>1, <2>2 DEF Sends
  <2> QED
    BY <1>3, <1>8, <2>3, InputAppended
<1>10. TypeOK' /\ PipeType'
  <2>1. client' \in [Worker -> Client] /\ on' \in [Job -> Worker \union {NoWorker}]
    BY <1>1, <1>3, <1>4, <1>5 DEF TypeOK
  <2>2. outcome' \in [Job -> {"new", "pending", "resolved", "failed", "cancelled", "stopped"}]
    BY <1>1, <1>3 DEF TypeOK
  <2> QED
    BY <1>1, <1>2, <1>3, <1>9, <2>1, <2>2 DEF TypeOK, PipeType
<1>11. \A v \in Worker : v # w => process'[v] = process[v] /\ client'[v] = client[v] /\ inbox'[v] = inbox[v]
  <2>1. \A v \in Worker \ {w} : inbox'[v] = inbox[v]
    BY <1>1, <1>3 DEF PipeType
  <2> QED
    BY <1>2, <1>6, <2>1
<1>12. UnbornIsBlank'
  <2> SUFFICES ASSUME NEW v \in Worker, process'[v].state = "unborn"
               PROVE  /\ process'[v] = Unborn /\ client'[v] = NewClient /\ inbox'[v] = <<>>
                      /\ outbox'[v] = <<>> /\ v \notin closed' /\ v \notin signals'
                      /\ hit'[v] = "nothing" /\ v # current' /\ \A k \in Job : on'[k] # v
    BY DEF UnbornIsBlank
  <2>1. v # w
    BY <1>2
  <2> QED
    BY <1>1, <1>3, <1>6, <1>11, <2>1 DEF UnbornIsBlank
<1>13. LeavingIsIdle'
  <2>1. ASSUME NEW v \in Worker
        PROVE  /\ client'[v].retiring <=> client[v].retiring
               /\ client'[v].exitSeen <=> client[v].exitSeen
               /\ v # w => client'[v].jobs = client[v].jobs /\ process'[v] = process[v]
               /\ process'[v].stdinEnded <=> process[v].stdinEnded
    BY <1>2, <1>5, <1>6, <1>11
  <2>2. /\ process'[w].state \in {"stopping", "exited"} /\ hit[w] = "nothing" => w \in closed
        /\ hit[w] # "nothing" => process'[w].state \in {"stopping", "exited"}
    BY <1>1, <1>2 DEF LeavingIsIdle
  <2> QED
    BY <1>1, <1>2, <1>3, <2>1, <2>2 DEF LeavingIsIdle
<1>14. OneSignal' /\ NoForgottenWorker'
  <2>1. \A v \in Worker : process'[v].grace = process[v].grace
    BY <1>2
  <2>2. OneSignal'
    BY <1>1, <1>3, <2>1 DEF OneSignal
  <2>3. \A v \in Worker : v = current => v = w
    BY <1>2, NoWorkerIsNone
  <2>4. NoForgottenWorker'
    BY <1>1, <1>3, <1>11, <2>3 DEF NoForgottenWorker, IsUp
  <2> QED
    BY <2>2, <2>4
<1>15. PendingIsTracked' /\ CountIsExact'
  <2>1. PendingIsTracked'
    BY <1>1, <1>3, <1>5, <1>6, <1>7, NoWorkerIsNone DEF PendingIsTracked
  <2>2. ASSUME NEW v \in Worker PROVE Done(v)' = Done(v)
    BY <1>3, <1>6 DEF Done
  <2>3. \A v \in Worker : client'[v].completedJobs = client[v].completedJobs
    BY <1>5, <1>6
  <2>4. ASSUME NEW v \in Worker PROVE client'[v].completedJobs = Cardinality(Done(v)')
    <3>1. client[v].completedJobs = Cardinality(Done(v))
      BY <1>1 DEF IInv, CountIsExact
    <3>2. Done(v)' = Done(v)
      BY <2>2
    <3> QED
      BY <2>3, <3>1, <3>2
  <2>5. CountIsExact'
    BY <2>4 DEF CountIsExact
  <2> QED
    BY <2>1, <2>5
<1>16. NewIsNowhere'
  BY <1>1, <1>3, <1>6, <1>7, NoWorkerIsNone DEF NewIsNowhere
<1>17. PendingIsRead' /\ BegunIsPending'
  <2>1. \A v \in Worker : process[v].pending \subseteq Job
    BY <1>1 DEF TypeOK, Process
  <2>2. PendingIsRead'
    BY <1>1, <1>2, <1>3, <1>6, <1>7, <2>1 DEF RunOnce, PendingIsRead
  <2>3. ASSUME NEW k \in Job, reached[k] = "read", process'[on'[k]].state = "up"
        PROVE  k \in process'[on'[k]].pending
    <3>1. k # j /\ on'[k] = on[k] /\ on[k] \in Worker
      BY <1>1, <1>6, <1>7, <2>3 DEF NewIsNowhere, TypeOK
    <3>2. process[on[k]].state = "up"
      BY <1>2, <1>11, <2>3, <3>1
    <3> QED
      BY <1>1, <1>2, <2>3, <3>1, <3>2 DEF BegunIsPending
  <2> QED
    BY <1>3, <2>2, <2>3 DEF BegunIsPending
<1>18. WrittenIsThere'
  <2>1. \A v \in Worker : \A i \in 1..Len(outbox[v]) : outbox[v][i] \in OutLine
    BY <1>1, ElementOfSeq DEF PipeType
  <2>2. OutputIsOurs'
    <3> SUFFICES ASSUME NEW v \in Worker, NEW i \in 1..Len(outbox[v])
                 PROVE  /\ on'[outbox[v][i].id] = v
                        /\ reached[outbox[v][i].id] # "nowhere"
                        /\ outbox[v][i].type # "progress" => reached[outbox[v][i].id] = "answered"
      BY <1>3 DEF OutputIsOurs
    <3>1. outbox[v][i].id \in Job
      BY <2>1 DEF OutLine
    <3> QED
      BY <1>1, <1>6, <1>7, <3>1 DEF WrittenIsThere, OutputIsOurs
  <2>3. ProgressIsNews' /\ ProgressDiffers' /\ UntoldIsUnheard'
    BY <1>1, <1>2, <1>3 DEF WrittenIsThere, ProgressIsNews, ProgressDiffers, UntoldIsUnheard
  <2>4. AnswerIsThere'
    BY <1>1, <1>3, <1>6, <1>7 DEF WrittenIsThere, AnswerIsThere
  <2> QED
    BY <2>2, <2>3, <2>4 DEF WrittenIsThere
<1>19. RejectedByExit'
  <2>1. \A k \in Job : outcome'[k] = "stopped" => client'[on'[k]].exitSeen
    <3> SUFFICES ASSUME NEW k \in Job, outcome'[k] = "stopped"
                 PROVE  client'[on'[k]].exitSeen
      OBVIOUS
    <3>1. k # j /\ outcome[k] = "stopped" /\ on'[k] = on[k]
      BY <1>6
    <3>2. on[k] \in Worker
      BY <1>1, <3>1 DEF NewIsNowhere, TypeOK
    <3> QED
      BY <1>1, <1>5, <1>6, <3>1, <3>2 DEF RejectedByExit
  <2> QED
    BY <1>1, <1>3, <1>6, <1>7, <2>1 DEF RejectedByExit
<1>20. RecycleHarmsNobody' /\ AnswerBeatsExit' /\ BegunSurvivesSignal'
  BY <1>3, <1>6 DEF IInv, WorkersAreSafe, RecycleHarmsNobody, AnswerBeatsExit, BegunSurvivesSignal
<1> QED
  BY <1>2, <1>9, <1>10, <1>12, <1>13, <1>14, <1>15, <1>16, <1>17, <1>18, <1>19, <1>20
     DEF IInv, WorkersAreSafe, RunOnce

(* A job is submitted, to the current worker or to one that is spawned for *)
(* it.                                                                     *)
LEMMA SubmitKeeps ==
  ASSUME IInv, NEW j \in Job, Submit(j) \/ SubmitSpawning(j)
  PROVE  IInv'
<1>1. TypeOK /\ BornInOrder /\ UnbornIsBlank /\ LeavingIsIdle
  BY DEF IInv, WorkersAreSafe
<1>2. CASE Submit(j)
  <2>1. SubmitTo(j, current) /\ process' = process /\ current \in Worker
    BY <1>1, <1>2 DEF Submit, TypeOK
  <2>2. Takes(current)
    BY <1>1, <2>1 DEF Takes, TypeOK, BornInOrder, UnbornIsBlank, LeavingIsIdle
  <2> QED
    BY <2>1, <2>2, SubmitToKeeps
<1>3. CASE SubmitSpawning(j)
  <2>1. /\ SubmitTo(j, Spawned) /\ current = NoWorker /\ Spawned \in Worker
        /\ process' = [process EXCEPT ![Spawned].state = "up"]
    BY <1>3 DEF SubmitSpawning
  <2>2. /\ process' \in [Worker -> Process] /\ BornInOrder'
        /\ process'[Spawned].state = "up" /\ process[Spawned] = Unborn
        /\ process'[Spawned].pending = {} /\ process'[Spawned].told = {}
        /\ process'[Spawned].stdinEnded = FALSE /\ process'[Spawned].grace = FALSE
        /\ \A v \in Worker \ {Spawned} : process'[v] = process[v]
    BY <2>1, SpawnKeeps
  <2>3. /\ Unborn.pending = {} /\ Unborn.told = {} /\ Unborn.stdinEnded = FALSE
        /\ Unborn.grace = FALSE /\ Unborn.state = "unborn"
    BY DEF Unborn, NoProcess
  <2>4. /\ client[Spawned] = NewClient /\ Spawned \notin closed /\ Spawned \notin signals
        /\ hit[Spawned] = "nothing" /\ \A k \in Job : on[k] # Spawned
    BY <1>1, <2>1, <2>2, <2>3 DEF UnbornIsBlank
  <2>5. ~client[Spawned].exitSeen
    BY <2>4 DEF NewClient
  <2>6. \A v \in Worker : process'[v].pending = process[v].pending /\ process'[v].told = process[v].told
    BY <2>2, <2>3
  <2>7. Takes(Spawned)
    BY <2>1, <2>2, <2>3, <2>4, <2>5, <2>6 DEF Takes
  <2> QED
    BY <2>1, <2>7, SubmitToKeeps
<1> QED
  BY <1>2, <1>3

-----------------------------------------------------------------------------
(* What is read of an output, and what ends a job. *)

(* The first line of an output is taken, and its caller may hear of it. *)
TakesLine(w) ==
  /\ outbox[w] # <<>>
  /\ outbox' = [outbox EXCEPT ![w] = Tail(outbox[w])]
  /\ LET line == Head(outbox[w]) IN
     /\ \/ heard' = heard
        \/ line.type = "progress" /\ heard' = [heard EXCEPT ![line.id] = heard[line.id] + 1]
     /\ line.type # "progress" => outcome'[line.id] # "pending"

(* What the pool reads of a pipe leaves the rest of it as it was written.  *)
LEMMA OutputRead ==
  ASSUME IInv, NEW w \in Worker, TakesLine(w) \/ UNCHANGED <<outbox, heard>>,
         OnIsKept, UNCHANGED <<process, reached>>,
         \A j \in Job : outcome'[j] = "pending" => outcome[j] = "pending"
  PROVE  /\ outbox' \in [Worker -> Seq(OutLine)] /\ heard' \in [Job -> {0, 1}] /\ WrittenIsThere'
         /\ \A v \in Worker \ {w} : outbox'[v] = outbox[v]
         /\ \A j \in Job : heard'[j] = heard[j] \/ reached[j] # "nowhere"
<1>1. /\ outbox \in [Worker -> Seq(OutLine)] /\ heard \in [Job -> {0, 1}] /\ NewIsNowhere
      /\ on \in [Job -> Worker \union {NoWorker}] /\ OutputIsOurs /\ ProgressIsNews
      /\ ProgressDiffers /\ AnswerIsThere /\ UntoldIsUnheard /\ PendingIsRead
      /\ \A v \in Worker : process[v].pending \subseteq Job
  BY DEF IInv, PipeType, WrittenIsThere, WorkersAreSafe, TypeOK, RunOnce, Process
<1>2. /\ process' = process /\ reached' = reached
      /\ \A j \in Job : on[j] # NoWorker => on'[j] = on[j]
  BY DEF OnIsKept
<1>3. \A v \in Worker : \A i \in 1..Len(outbox[v]) : outbox[v][i] \in OutLine /\ outbox[v][i].id \in Job
  <2>1. \A v \in Worker : \A i \in 1..Len(outbox[v]) : outbox[v][i] \in OutLine
    BY <1>1, ElementOfSeq
  <2> QED
    BY <2>1 DEF OutLine
<1>4. \A j \in Job : reached[j] = "answered" => on[j] \in Worker /\ on'[j] = on[j]
  BY <1>1, <1>2 DEF NewIsNowhere
<1>5. \A v \in Worker : \A i \in 1..Len(outbox[v]) : on'[outbox[v][i].id] = v
  BY <1>1, <1>2, <1>3, NoWorkerIsNone DEF OutputIsOurs
<1>6. CASE UNCHANGED <<outbox, heard>>
  <2>1. OutputIsOurs'
    BY <1>1, <1>2, <1>5, <1>6 DEF OutputIsOurs
  <2>2. ProgressIsNews' /\ ProgressDiffers' /\ UntoldIsUnheard'
    BY <1>1, <1>2, <1>6 DEF ProgressIsNews, ProgressDiffers, UntoldIsUnheard
  <2>3. AnswerIsThere'
    BY <1>1, <1>2, <1>4, <1>6 DEF AnswerIsThere
  <2> QED
    BY <1>1, <1>6, <2>1, <2>2, <2>3 DEF WrittenIsThere
<1>7. CASE TakesLine(w)
  <2> DEFINE o == outbox[w]
             line == Head(outbox[w])
             j == Head(outbox[w]).id
  <2>1. /\ o # <<>> /\ outbox' = [outbox EXCEPT ![w] = Tail(o)]
        /\ heard' = heard \/ (line.type = "progress" /\ heard' = [heard EXCEPT ![j] = heard[j] + 1])
        /\ line.type # "progress" => outcome'[j] # "pending"
    BY <1>7 DEF TakesLine
  <2>2. o \in Seq(OutLine)
    BY <1>1
  <2>3. /\ line \in OutLine /\ Tail(o) \in Seq(OutLine) /\ Len(Tail(o)) = Len(o) - 1
        /\ Len(o) \in Nat \ {0} /\ line = o[1]
        /\ \A i \in 1..Len(o) - 1 : Tail(o)[i] = o[i + 1]
    BY <2>1, <2>2, ReadLine
  <2>4. outbox'[w] = Tail(o) /\ \A v \in Worker \ {w} : outbox'[v] = outbox[v]
    BY <1>1, <2>1
  <2>5. 1 \in 1..Len(o) /\ j \in Job /\ on[j] = w /\ reached[j] # "nowhere"
    BY <1>1, <1>3, <2>3 DEF OutputIsOurs
  <2>6. line.type = "progress" => heard[j] = 0 /\ j \notin process[w].pending \ process[w].told
    BY <1>1, <2>3, <2>5 DEF ProgressIsNews
  <2> HIDE DEF o, line, j
  <2>7. /\ heard' \in [Job -> {0, 1}] /\ \A k \in Job \ {j} : heard'[k] = heard[k]
        /\ heard'[j] = heard[j] \/ line.type = "progress"
    <3>1. CASE heard' = heard
      BY <1>1, <3>1
    <3>2. CASE line.type = "progress" /\ heard' = [heard EXCEPT ![j] = heard[j] + 1]
      <4>1. heard[j] + 1 = 1
        BY <2>6, <3>2
      <4>2. heard' = [heard EXCEPT ![j] = 1]
        BY <3>2, <4>1
      <4> QED
        BY <1>1, <3>2, <4>2
    <3> QED
      BY <2>1, <3>1, <3>2
  <2>8. outbox' \in [Worker -> Seq(OutLine)]
    BY <1>1, <2>1, <2>3
  <2>9. ASSUME NEW v \in Worker, NEW i \in 1..Len(outbox'[v])
        PROVE  \E k \in 1..Len(outbox[v]) :
                 outbox'[v][i] = outbox[v][k] /\ (v = w => k = i + 1) /\ (v # w => k = i)
    <3>1. CASE v = w
      <4>1. outbox'[v] = Tail(o) /\ Len(outbox'[v]) = Len(o) - 1 /\ i \in 1..Len(o) - 1
        BY <2>3, <2>4, <2>9, <3>1
      <4>2. i + 1 \in 1..Len(o)
        BY <2>3, <4>1
      <4>3. Tail(o)[i] = o[i + 1]
        BY <2>3, <4>1
      <4> QED
        BY <3>1, <4>1, <4>2, <4>3 DEF o
    <3>2. CASE v # w
      BY <2>4, <2>9, <3>2
    <3> QED
      BY <3>1, <3>2
  <2>10. \A v \in Worker : \A i \in 1..Len(outbox'[v]) : i \in Nat
    <3>1. \A v \in Worker : Len(outbox'[v]) \in Nat
      BY <2>8, LenProperties
    <3> QED
      BY <3>1
  <2>11. OutputIsOurs'
    <3> SUFFICES ASSUME NEW v \in Worker, NEW i \in 1..Len(outbox'[v])
                 PROVE  /\ on'[outbox'[v][i].id] = v
                        /\ reached[outbox'[v][i].id] # "nowhere"
                        /\ outbox'[v][i].type # "progress" => reached[outbox'[v][i].id] = "answered"
      BY <1>2 DEF OutputIsOurs
    <3>1. PICK k \in 1..Len(outbox[v]) : outbox'[v][i] = outbox[v][k]
      BY <2>9
    <3> QED
      BY <1>1, <1>5, <3>1 DEF OutputIsOurs
  <2>12. ProgressDiffers'
    <3> SUFFICES ASSUME NEW v \in Worker, NEW i \in 1..Len(outbox'[v]), NEW k \in 1..Len(outbox'[v]),
                        outbox'[v][i] = outbox'[v][k], outbox'[v][i].type = "progress"
                 PROVE  i = k
      BY DEF ProgressDiffers
    <3>1. PICK a \in 1..Len(outbox[v]) :
            outbox'[v][i] = outbox[v][a] /\ (v = w => a = i + 1) /\ (v # w => a = i)
      BY <2>9
    <3>2. PICK b \in 1..Len(outbox[v]) :
            outbox'[v][k] = outbox[v][b] /\ (v = w => b = k + 1) /\ (v # w => b = k)
      BY <2>9
    <3>3. a = b
      BY <1>1, <3>1, <3>2 DEF ProgressDiffers
    <3> QED
      BY <2>10, <3>1, <3>2, <3>3
  <2>13. ProgressIsNews'
    <3> SUFFICES ASSUME NEW v \in Worker, NEW i \in 1..Len(outbox'[v]), outbox'[v][i].type = "progress"
                 PROVE  /\ heard'[outbox'[v][i].id] = 0
                        /\ outbox'[v][i].id \notin process[v].pending \ process[v].told
      BY <1>2 DEF ProgressIsNews
    <3>1. PICK k \in 1..Len(outbox[v]) :
            outbox'[v][i] = outbox[v][k] /\ (v = w => k = i + 1) /\ (v # w => k = i)
      BY <2>9
    <3> DEFINE l == outbox[v][k]
    <3>2. /\ l.id \in Job /\ l \in OutLine /\ l.type = "progress" /\ on[l.id] = v
          /\ heard[l.id] = 0 /\ l.id \notin process[v].pending \ process[v].told
      BY <1>1, <1>3, <3>1 DEF ProgressIsNews, OutputIsOurs
    <3>3. CASE l.id # j \/ line.type # "progress"
      BY <2>7, <3>1, <3>2, <3>3
    <3>4. CASE l.id = j /\ line.type = "progress"
      <4>1. v = w
        BY <2>5, <3>2, <3>4
      <4>2. l = line
        BY <2>3, <3>2, <3>4, SMTT(30) DEF OutLine, j, line
      <4>3. k = 1
        BY <1>1, <2>3, <2>5, <3>2, <4>1, <4>2 DEF ProgressDiffers, o
      <4> QED
        BY <2>10, <3>1, <4>1, <4>3
    <3> QED
      BY <3>3, <3>4
  <2>14. AnswerIsThere'
    <3> SUFFICES ASSUME NEW k \in Job, reached[k] = "answered", outcome'[k] = "pending"
                 PROVE  \E i \in 1..Len(outbox'[on'[k]]) : IsAnswer(outbox'[on'[k]][i], k)
      BY <1>2 DEF AnswerIsThere
    <3>1. on[k] \in Worker /\ on'[k] = on[k] /\ outcome[k] = "pending"
      BY <1>4
    <3>2. PICK n \in 1..Len(outbox[on[k]]) : IsAnswer(outbox[on[k]][n], k)
      BY <1>1, <3>1 DEF AnswerIsThere
    <3>3. CASE on[k] # w
      BY <2>4, <3>1, <3>2, <3>3
    <3>4. CASE on[k] = w
      <4>1. n \in 1..Len(o) /\ IsAnswer(o[n], k)
        BY <3>2, <3>4 DEF o
      <4>2. n # 1
        BY <2>1, <2>3, <4>1 DEF IsAnswer, j, line
      <4>3. n - 1 \in 1..Len(o) - 1 /\ Tail(o)[n - 1] = o[n]
        <5>1. n - 1 \in 1..Len(o) - 1 /\ (n - 1) + 1 = n
          BY <2>3, <4>1, <4>2
        <5> QED
          BY <2>3, <5>1
      <4> QED
        BY <2>3, <2>4, <3>1, <3>4, <4>1, <4>3
    <3> QED
      BY <3>3, <3>4
  <2>15. UntoldIsUnheard'
    <3> SUFFICES ASSUME NEW v \in Worker, NEW k \in Job, k \in process[v].pending \ process[v].told
                 PROVE  heard'[k] = 0
      BY <1>2 DEF UntoldIsUnheard
    <3>1. heard[k] = 0 /\ on[k] = v
      BY <1>1 DEF UntoldIsUnheard, PendingIsRead
    <3>2. k = j => line.type # "progress"
      BY <2>5, <2>6, <3>1
    <3> QED
      BY <2>7, <3>1, <3>2
  <2> QED
    BY <2>4, <2>5, <2>7, <2>8, <2>11, <2>12, <2>13, <2>14, <2>15 DEF WrittenIsThere
<1> QED
  BY <1>6, <1>7

(* What the end of jobs leaves as it was, whoever ends them. *)
LEMMA SettlesRest ==
  ASSUME IInv, NEW w \in Worker, NEW jobs,
         NEW how \in {"resolved", "failed", "cancelled", "stopped"}, Settles(w, jobs, how),
         how = "stopped" => client[w].exitSeen /\ outbox[w] = <<>> /\ jobs \subseteq client[w].jobs
  PROVE  /\ OnIsKept /\ RejectedByExit' /\ RecycleHarmsNobody' /\ AnswerBeatsExit'
         /\ BegunSurvivesSignal' /\ OneSignal' /\ BornInOrder' /\ BegunIsPending' /\ PendingIsRead'
         /\ \A j \in Job : on'[j] = NoWorker => on[j] = NoWorker /\ outcome'[j] = outcome[j]
         /\ \A j \in Job : outcome'[j] = "new" => outcome[j] = "new" /\ on'[j] = on[j]
         /\ \A j \in Job : outcome'[j] = "pending" => outcome[j] = "pending"
<1>1. /\ TypeOK /\ PendingIsTracked /\ LeavingIsIdle /\ NewIsNowhere /\ RejectedByExit
      /\ RecycleHarmsNobody /\ AnswerBeatsExit /\ BegunSurvivesSignal /\ OneSignal /\ BornInOrder
      /\ BegunIsPending /\ PendingIsRead /\ AnswerIsThere /\ client[w] \in Client
  BY DEF IInv, WorkersAreSafe, TypeOK, RunOnce, WrittenIsThere
<1>2. /\ Settle(w, jobs, how) /\ jobs \in SUBSET Job
      /\ \A j \in jobs : outcome[j] = "new" \/ (outcome[j] = "pending" /\ on[j] = w)
      /\ \A j \in Job : on'[j] = IF j \in jobs THEN w ELSE on[j]
      /\ UNCHANGED <<stopped, process, signals, restart, reached, hit>>
  BY DEF Settles
<1>3. /\ \A j \in Job : outcome'[j] = IF j \in jobs THEN how ELSE outcome[j]
      /\ \A v \in Worker : client'[v].exitSeen = client[v].exitSeen
  <2>1. EndsAs(w, jobs, how)
    BY <1>1, <1>2, SettleFields
  <2>2. /\ \A j \in Job : outcome'[j] = IF j \in jobs THEN how ELSE outcome[j]
        /\ client'[w].exitSeen = client[w].exitSeen
        /\ \A v \in Worker \ {w} : client'[v] = client[v]
    BY <2>1 DEF EndsAs
  <2> QED
    BY <2>2
<1>4. /\ \A j \in jobs : on[j] \in {w, NoWorker} /\ (outcome[j] = "new" => on[j] = NoWorker)
      /\ \A j \in Job : on[j] # NoWorker => on'[j] = on[j]
      /\ \A j \in Job : reached[j] # "nowhere" => on[j] \in Worker /\ on'[j] = on[j]
      /\ \A j \in Job : outcome[j] = "stopped" => on[j] \in Worker /\ on'[j] = on[j]
  BY <1>1, <1>2 DEF NewIsNowhere, TypeOK
<1>5. OnIsKept
  BY <1>4 DEF OnIsKept
<1>6. how = "stopped" =>
        /\ \A j \in jobs : outcome[j] = "pending" /\ on[j] = w /\ on'[j] = w
        /\ client[w].exitSeen /\ process[w].state = "exited" /\ outbox[w] = <<>>
        /\ jobs # {} => stopped \/ hit[w] # "nothing"
  BY <1>1, <1>2 DEF PendingIsTracked, LeavingIsIdle
(* A job that is rejected now, or was before. *)
<1>7. ASSUME NEW j \in Job, outcome'[j] = "stopped"
      PROVE  \/ outcome[j] = "stopped" /\ on'[j] = on[j] /\ on[j] \in Worker
             \/ how = "stopped" /\ j \in jobs
  BY <1>3, <1>4, <1>7
<1>8. RecycleHarmsNobody'
  <2> SUFFICES ASSUME NEW j \in Job, outcome'[j] = "stopped"
               PROVE  stopped \/ hit[on'[j]] # "nothing"
    BY <1>2 DEF RecycleHarmsNobody
  <2> QED
    BY <1>1, <1>6, <1>7 DEF RecycleHarmsNobody
<1>9. AnswerBeatsExit'
  <2> SUFFICES ASSUME NEW j \in Job, outcome'[j] = "stopped"
               PROVE  reached[j] # "answered"
    BY <1>2 DEF AnswerBeatsExit
  <2>1. CASE how = "stopped" /\ j \in jobs
    <3>1. outcome[j] = "pending" /\ on[j] = w /\ outbox[w] = <<>>
      BY <1>6, <2>1
    <3>2. 1..Len(outbox[w]) = {}
      BY <3>1
    <3> QED
      BY <1>1, <3>1, <3>2 DEF AnswerIsThere
  <2> QED
    BY <1>1, <1>7, <2>1 DEF AnswerBeatsExit
<1>10. BegunSurvivesSignal'
  <2> SUFFICES ASSUME NEW j \in Job \ Prewarm, outcome'[j] = "stopped", reached[j] = "read", ~stopped
               PROVE  hit[on'[j]] \in {"crash", "grace"}
    BY <1>2 DEF BegunSurvivesSignal
  <2>1. CASE how = "stopped" /\ j \in jobs
    <3>1. outcome[j] = "pending" /\ on[j] = w /\ on'[j] = w /\ hit[w] # "nothing"
      BY <1>6, <2>1
    <3>2. hit[w] # "signal"
      BY <1>1, <3>1 DEF RejectedByExit
    <3> QED
      BY <1>1, <3>1, <3>2 DEF TypeOK
  <2> QED
    BY <1>1, <1>7, <2>1 DEF BegunSurvivesSignal
<1>11. RejectedByExit'
  <2>1. ASSUME NEW j \in Job, outcome'[j] = "stopped" PROVE client'[on'[j]].exitSeen
    BY <1>1, <1>3, <1>6, <1>7, <2>1 DEF RejectedByExit
  <2>2. ASSUME NEW v \in Worker, hit[v] = "signal", ~stopped, NEW j \in Job \ Prewarm,
               on'[j] = v, reached[j] = "read"
        PROVE  outcome'[j] \notin {"pending", "stopped"}
    <3>1. on[j] = v /\ outcome[j] \notin {"pending", "stopped"}
      BY <1>1, <1>4, <2>2 DEF RejectedByExit
    <3>2. j \notin jobs
      BY <1>1, <1>2, <1>4, <2>2, <3>1, NoWorkerIsNone
    <3> QED
      BY <1>3, <3>1, <3>2
  <2> QED
    BY <1>2, <2>1, <2>2 DEF RejectedByExit
<1>12. OneSignal' /\ BornInOrder'
  BY <1>1, <1>2 DEF OneSignal, BornInOrder
<1>13. PendingIsRead'
  <2>1. \A v \in Worker : \A j \in process[v].pending : j \in Job /\ on[j] = v /\ on'[j] = v /\ reached[j] = "read"
    BY <1>1, <1>4 DEF PendingIsRead, TypeOK, Process
  <2> QED
    BY <1>1, <1>2, <2>1 DEF PendingIsRead
<1>14. BegunIsPending'
  BY <1>1, <1>2, <1>4 DEF BegunIsPending
<1>15. /\ \A j \in Job : on'[j] = NoWorker => on[j] = NoWorker /\ outcome'[j] = outcome[j]
       /\ \A j \in Job : outcome'[j] = "new" => outcome[j] = "new" /\ on'[j] = on[j]
       /\ \A j \in Job : outcome'[j] = "pending" => outcome[j] = "pending"
  BY <1>2, <1>3, <1>4, NoWorkerIsNone
<1> QED
  BY <1>5, <1>8, <1>9, <1>10, <1>11, <1>12, <1>13, <1>14, <1>15

(* The calls that end, with the line that hangs up on one of them and the line *)
(* that was read.                                                              *)
Hangs(w, jobs) ==
  inbox' = inbox \/ \E j \in jobs : on[j] = w /\ inbox' = [inbox EXCEPT ![w] = Append(inbox[w], Line(j, "cancel"))]

(* Jobs of a worker end, by its answer, a cancel or its exit.              *)
LEMMA EndsKeep ==
  ASSUME IInv, NEW w \in Worker, NEW jobs,
         NEW how \in {"resolved", "failed", "cancelled", "stopped"}, Settles(w, jobs, how),
         how = "stopped" => client[w].exitSeen /\ outbox[w] = <<>> /\ jobs \subseteq client[w].jobs,
         Hangs(w, jobs), TakesLine(w) \/ UNCHANGED <<outbox, heard>>,
         process[w].state # "unborn"
  PROVE  IInv'
<1>1. /\ TypeOK /\ UnbornIsBlank /\ NewIsNowhere /\ inbox \in [Worker -> Seq(InLine)]
  BY DEF IInv, WorkersAreSafe, PipeType
<1>2. /\ Settle(w, jobs, how) /\ jobs \in SUBSET Job
      /\ \A j \in Job : on'[j] = IF j \in jobs THEN w ELSE on[j]
      /\ on' \in [Job -> Worker \union {NoWorker}]
      /\ UNCHANGED <<stopped, process, signals, restart, reached, hit>>
  BY DEF Settles
<1>3. /\ PoolType' /\ PendingIsTracked' /\ CountIsExact' /\ LeavingIsIdle' /\ NoForgottenWorker'
  BY SettleKeeps
<1>4. /\ OnIsKept /\ RejectedByExit' /\ RecycleHarmsNobody' /\ AnswerBeatsExit'
      /\ BegunSurvivesSignal' /\ OneSignal' /\ BornInOrder' /\ BegunIsPending' /\ PendingIsRead'
      /\ \A j \in Job : on'[j] = NoWorker => on[j] = NoWorker /\ outcome'[j] = outcome[j]
      /\ \A j \in Job : outcome'[j] = "new" => outcome[j] = "new" /\ on'[j] = on[j]
      /\ \A j \in Job : outcome'[j] = "pending" => outcome[j] = "pending"
  BY SettlesRest
<1>5. /\ outbox' \in [Worker -> Seq(OutLine)] /\ heard' \in [Job -> {0, 1}] /\ WrittenIsThere'
      /\ \A v \in Worker \ {w} : outbox'[v] = outbox[v]
      /\ \A j \in Job : heard'[j] = heard[j] \/ reached[j] # "nowhere"
  BY <1>2, <1>4, OutputRead
<1>6. inbox' \in [Worker -> Seq(InLine)] /\ InputIsOurs' /\ RunsDiffer'
  <2>1. CASE inbox' = inbox
    <3>1. \A v \in Worker : \A i \in 1..Len(inbox[v]) : inbox[v][i] \in InLine
      BY <1>1, ElementOfSeq
    <3>2. \A v \in Worker : \A i \in 1..Len(inbox[v]) : inbox[v][i].id \in Job
      BY <3>1 DEF InLine
    <3> QED
      BY <1>1, <1>2, <1>4, <2>1, <3>2, NoWorkerIsNone DEF IInv, RunOnce, InputIsOurs, RunsDiffer, OnIsKept
  <2>2. ASSUME NEW j \in jobs, on[j] = w, inbox' = [inbox EXCEPT ![w] = Append(inbox[w], Line(j, "cancel"))]
        PROVE  inbox' \in [Worker -> Seq(InLine)] /\ InputIsOurs' /\ RunsDiffer'
    <3>1. Line(j, "cancel") \in InLine /\ Line(j, "cancel").id = j /\ Line(j, "cancel").type = "cancel"
      BY <1>2 DEF Line, InLine
    <3>2. Sends(w, Line(j, "cancel"))
      BY <1>2, <2>2, <3>1 DEF Sends
    <3> QED
      BY <1>2, <1>4, <3>2, InputAppended
  <2> QED
    BY <2>1, <2>2 DEF Hangs
<1>7. /\ \A v \in Worker \ {w} : inbox'[v] = inbox[v] /\ client'[v] = client[v]
      /\ \A v \in Worker \ {w} : v \in closed' => v \in closed
      /\ \A v \in Worker \ {w} : v = current' => v = current
  <2>1. \A v \in Worker \ {w} : inbox'[v] = inbox[v]
    BY <1>1 DEF Hangs
  <2>2. /\ \A v \in Worker \ {w} : client'[v] = client[v]
        /\ current' \in {current, NoWorker} /\ closed' \subseteq closed \union {w}
    BY <1>1, <1>2 DEF Settle, Settled, InMapAfter, ClosedAfter, TypeOK
  <2> QED
    BY <2>1, <2>2, NoWorkerIsNone
<1>8. TypeOK' /\ PipeType'
  BY <1>1, <1>2, <1>3, <1>5, <1>6 DEF TypeOK, PoolType, PipeType
<1>9. UnbornIsBlank'
  <2> SUFFICES ASSUME NEW v \in Worker, process[v].state = "unborn"
               PROVE  /\ process'[v] = Unborn /\ client'[v] = NewClient /\ inbox'[v] = <<>>
                      /\ outbox'[v] = <<>> /\ v \notin closed' /\ v \notin signals'
                      /\ hit'[v] = "nothing" /\ v # current' /\ \A j \in Job : on'[j] # v
    BY <1>2 DEF UnbornIsBlank
  <2>1. v \in Worker \ {w}
    OBVIOUS
  <2>2. /\ process[v] = Unborn /\ client[v] = NewClient /\ inbox[v] = <<>> /\ outbox[v] = <<>>
        /\ v \notin closed /\ v \notin signals /\ hit[v] = "nothing" /\ v # current
        /\ \A j \in Job : on[j] # v
    BY <1>1 DEF UnbornIsBlank
  <2>3. process'[v] = Unborn /\ v \notin signals' /\ hit'[v] = "nothing" /\ \A j \in Job : on'[j] # v
    BY <1>2, <2>1, <2>2
  <2> QED
    BY <1>5, <1>7, <2>1, <2>2, <2>3
<1>10. NewIsNowhere'
  <2>1. ASSUME NEW j \in Job, on'[j] = NoWorker PROVE outcome'[j] \notin {"pending", "stopped"} /\ reached[j] = "nowhere"
    BY <1>1, <1>4, <2>1 DEF NewIsNowhere
  <2>2. \A j \in Job : outcome'[j] = "new" => on'[j] = NoWorker
    BY <1>1, <1>4 DEF NewIsNowhere
  <2>3. \A j \in Job : reached[j] = "nowhere" => heard'[j] = 0
    BY <1>1, <1>5 DEF NewIsNowhere
  <2> QED
    BY <1>2, <2>1, <2>2, <2>3 DEF NewIsNowhere
<1> QED
  BY <1>3, <1>4, <1>5, <1>6, <1>8, <1>9, <1>10 DEF IInv, WorkersAreSafe, RunOnce

(* The jobs in the record of a worker can be ended. *)
LEMMA TrackedSettle ==
  ASSUME IInv, NEW w \in Worker, NEW jobs \in SUBSET client[w].jobs, NEW how, Settle(w, jobs, how),
         UNCHANGED <<on, stopped, process, signals, restart, reached, hit>>,
         NEW j \in client[w].jobs
  PROVE  /\ Settles(w, jobs, how) /\ process[w].state # "unborn"
         /\ \A k \in jobs : k \in Job /\ on[k] = w
<1>1. /\ TypeOK /\ PendingIsTracked /\ UnbornIsBlank /\ client[w] \in Client
  BY DEF IInv, WorkersAreSafe, TypeOK
<1>2. jobs \in SUBSET Job
  BY <1>1 DEF Client
<1>3. \A k \in jobs : outcome[k] = "pending" /\ on[k] = w
  BY <1>1, <1>2 DEF PendingIsTracked
<1>4. Settles(w, jobs, how)
  BY <1>1, <1>2, <1>3 DEF Settles, TypeOK
<1>5. process[w].state # "unborn"
  <2>1. NewClient.jobs = {}
    BY DEF NewClient
  <2> QED
    BY <1>1, <2>1 DEF UnbornIsBlank
<1> QED
  BY <1>2, <1>3, <1>4, <1>5

(* cancelJob: the worker is told, or the line is dropped. *)
LEMMA CancelLineHangs ==
  ASSUME IInv, NEW w \in Worker, NEW j \in Job, on[j] = w,
         inbox' = [inbox EXCEPT ![w] = CancelLine(w, j)]
  PROVE  Hangs(w, {j})
<1>1. inbox \in [Worker -> Seq(InLine)]
  BY DEF IInv, PipeType
<1>2. CancelLine(w, j) \in {inbox[w], Append(inbox[w], Line(j, "cancel"))}
  BY DEF CancelLine, Written
<1>3. CASE CancelLine(w, j) = inbox[w]
  <2>1. inbox' = inbox
    BY <1>1, <1>3
  <2> QED
    BY <2>1 DEF Hangs
<1>4. CASE CancelLine(w, j) = Append(inbox[w], Line(j, "cancel"))
  BY <1>4 DEF Hangs
<1> QED
  BY <1>2, <1>3, <1>4

(* A call is cancelled, by its caller, the poll or the deadline.           *)
LEMMA CancelKeeps ==
  ASSUME IInv, NEW j \in Job, Cancel(j)
  PROVE  IInv'
<1> DEFINE w == on[j]
<1>1. /\ TypeOK /\ PendingIsTracked /\ NewIsNowhere /\ LeavingIsIdle
  BY DEF IInv, WorkersAreSafe
<1>2. /\ outcome[j] = "pending" /\ inbox' = [inbox EXCEPT ![w] = CancelLine(w, j)]
      /\ Settle(w, {j}, "cancelled")
      /\ UNCHANGED <<heard, on, stopped, outbox, process, signals, restart, reached, hit>>
  BY DEF Cancel, procVars
<1>3. w \in Worker /\ j \in client[w].jobs
  <2>1. w # NoWorker
    BY <1>1, <1>2 DEF NewIsNowhere
  <2> QED
    BY <1>1, <1>2, <2>1 DEF TypeOK, PendingIsTracked
<1> HIDE DEF w
<1>4. Settles(w, {j}, "cancelled") /\ process[w].state # "unborn"
  BY <1>2, <1>3, TrackedSettle
<1>5. Hangs(w, {j})
  BY <1>2, <1>3, CancelLineHangs DEF w
<1> QED
  BY <1>2, <1>3, <1>4, <1>5, EndsKeep

(* The jobs left when the output of an exited worker is drained are        *)
(* rejected.                                                               *)
LEMMA RejectLeftKeeps ==
  ASSUME IInv, NEW w \in Worker, RejectLeft(w)
  PROVE  IInv'
<1> DEFINE jobs == client[w].jobs
<1>1. /\ client[w].exitSeen /\ jobs # {} /\ outbox[w] = <<>> /\ Settle(w, jobs, "stopped")
      /\ UNCHANGED <<heard, on, stopped, inbox, outbox, process, signals, restart, reached, hit>>
  BY DEF RejectLeft, procVars
<1>2. Settles(w, jobs, "stopped") /\ process[w].state # "unborn"
  BY <1>1, TrackedSettle
<1>3. Hangs(w, jobs)
  BY <1>1 DEF Hangs
<1> HIDE DEF jobs
<1>4. jobs \subseteq client[w].jobs
  BY DEF jobs
<1> QED
  BY <1>1, <1>2, <1>3, <1>4, EndsKeep

(* A job that its worker's pipe refuses was in no record. *)
LEMMA SubmitThrowsKeeps ==
  ASSUME IInv, NEW j \in Job, SubmitThrows(j)
  PROVE  IInv'
<1> DEFINE w == current
<1>1. TypeOK
  BY DEF IInv, WorkersAreSafe
<1>2. /\ outcome[j] = "new" /\ process[w].state = "exited" /\ on' = [on EXCEPT ![j] = w]
      /\ Settle(w, {j}, "failed") /\ w \in Worker
      /\ UNCHANGED <<heard, stopped, inbox, outbox, process, signals, restart, reached, hit>>
  BY <1>1 DEF SubmitThrows, procVars, TypeOK
<1> HIDE DEF w
<1>3. Settles(w, {j}, "failed")
  BY <1>1, <1>2 DEF Settles, TypeOK
<1>4. Hangs(w, {j})
  BY <1>2 DEF Hangs
<1> QED
  BY <1>2, <1>3, <1>4, EndsKeep

(* A line that ends nothing: its job has ended, or it tells of progress. *)
LEMMA HearKeeps ==
  ASSUME IInv, NEW w \in Worker, TakesLine(w),
         UNCHANGED <<outcome, on, current, client, stopped, inbox, closed, process, signals,
                     restart, reached, hit>>
  PROVE  IInv'
<1>1. /\ TypeOK /\ PipeType /\ BornInOrder /\ UnbornIsBlank /\ NewIsNowhere /\ LeavingIsIdle
      /\ OneSignal /\ RunOnce /\ BegunIsPending /\ RejectedByExit
  BY DEF IInv, WorkersAreSafe
<1>2. OnIsKept
  BY DEF OnIsKept
<1>3. /\ outbox' \in [Worker -> Seq(OutLine)] /\ heard' \in [Job -> {0, 1}] /\ WrittenIsThere'
      /\ \A v \in Worker \ {w} : outbox'[v] = outbox[v]
      /\ \A j \in Job : heard'[j] = heard[j] \/ reached[j] # "nowhere"
  BY <1>2, OutputRead
<1>4. TypeOK' /\ PipeType'
  BY <1>1, <1>3 DEF TypeOK, PipeType
<1>5. UnbornIsBlank'
  BY <1>1, <1>3 DEF UnbornIsBlank, TakesLine
<1>6. NewIsNowhere'
  BY <1>1, <1>3 DEF NewIsNowhere
<1>7. /\ PendingIsTracked' /\ RecycleHarmsNobody' /\ CountIsExact' /\ AnswerBeatsExit'
      /\ BegunSurvivesSignal' /\ NoForgottenWorker'
  BY DEF IInv, WorkersAreSafe, PendingIsTracked, RecycleHarmsNobody, CountIsExact, Done,
     AnswerBeatsExit, BegunSurvivesSignal, NoForgottenWorker, IsUp
<1>8. BornInOrder' /\ LeavingIsIdle' /\ OneSignal'
  BY <1>1 DEF BornInOrder, LeavingIsIdle, OneSignal
<1>9. RunOnce' /\ BegunIsPending' /\ RejectedByExit'
  BY <1>1 DEF RunOnce, InputIsOurs, RunsDiffer, PendingIsRead, BegunIsPending, RejectedByExit
<1> QED
  BY <1>3, <1>4, <1>5, <1>6, <1>7, <1>8, <1>9 DEF IInv, WorkersAreSafe

(* What a line that is delivered does to the calls. *)
LEMMA DeliverFields ==
  ASSUME IInv, NEW w \in Worker, NEW goesOn \in BOOLEAN, Deliver(w, goesOn)
  PROVE  \E j \in Job, type \in {"progress", "resolved", "failed"} :
           /\ j = Head(outbox[w]).id /\ type = Head(outbox[w]).type /\ on[j] = w
           /\ \/ /\ outcome[j] # "pending"
                 /\ UNCHANGED <<outcome, heard, client, current, inbox, closed>>
              \/ /\ j \in client[w].jobs /\ outcome[j] = "pending" /\ type = "progress"
                 /\ heard' = [heard EXCEPT ![j] = heard[j] + 1]
                 /\ \/ goesOn /\ UNCHANGED <<outcome, client, current, inbox, closed>>
                    \/ /\ ~goesOn /\ inbox' = [inbox EXCEPT ![w] = CancelLine(w, j)]
                       /\ Settle(w, {j}, "cancelled")
              \/ /\ j \in client[w].jobs /\ outcome[j] = "pending" /\ type # "progress"
                 /\ Settle(w, {j}, type) /\ UNCHANGED <<heard, inbox>>
<1>1. /\ outbox \in [Worker -> Seq(OutLine)] /\ OutputIsOurs /\ PendingIsTracked /\ outbox[w] # <<>>
  BY DEF IInv, PipeType, WrittenIsThere, WorkersAreSafe, Deliver
<1> DEFINE line == Head(outbox[w])
           j == Head(outbox[w]).id
<1>2. line \in OutLine /\ line = outbox[w][1] /\ 1 \in 1..Len(outbox[w])
  BY <1>1, ReadLine
<1>3. j \in Job /\ line.type \in {"progress", "resolved", "failed"} /\ on[j] = w
  BY <1>1, <1>2 DEF OutLine, OutputIsOurs
<1>4. j \in client[w].jobs <=> outcome[j] = "pending"
  BY <1>1, <1>3 DEF PendingIsTracked
<1>5. CASE j \notin client[w].jobs
  BY <1>3, <1>4, <1>5 DEF Deliver, Expects
<1>6. CASE j \in client[w].jobs /\ line.type = "progress"
  <2>1. /\ heard' = [heard EXCEPT ![j] = heard[j] + 1]
        /\ \/ goesOn /\ UNCHANGED <<outcome, client, current, inbox, closed>>
           \/ /\ ~goesOn /\ inbox' = [inbox EXCEPT ![w] = CancelLine(w, j)]
              /\ Settle(w, {j}, "cancelled")
    BY <1>6 DEF Deliver, Expects
  <2> QED
    BY <1>3, <1>4, <1>6, <2>1
<1>7. CASE j \in client[w].jobs /\ line.type # "progress"
  <2>1. Settle(w, {j}, line.type) /\ UNCHANGED <<heard, inbox>>
    BY <1>7 DEF Deliver, Expects
  <2> QED
    BY <1>3, <1>4, <1>7, <2>1
<1> QED
  BY <1>5, <1>6, <1>7

(* The pool reads a line of a worker: progress, an answer, or one of a job *)
(* that is over.                                                           *)
LEMMA DeliverKeeps ==
  ASSUME IInv, NEW w \in Worker, NEW goesOn \in BOOLEAN, Deliver(w, goesOn)
  PROVE  IInv'
<1>1. PICK j \in Job, type \in {"progress", "resolved", "failed"} :
        /\ j = Head(outbox[w]).id /\ type = Head(outbox[w]).type /\ on[j] = w
        /\ \/ /\ outcome[j] # "pending"
              /\ UNCHANGED <<outcome, heard, client, current, inbox, closed>>
           \/ /\ j \in client[w].jobs /\ outcome[j] = "pending" /\ type = "progress"
              /\ heard' = [heard EXCEPT ![j] = heard[j] + 1]
              /\ \/ goesOn /\ UNCHANGED <<outcome, client, current, inbox, closed>>
                 \/ /\ ~goesOn /\ inbox' = [inbox EXCEPT ![w] = CancelLine(w, j)]
                    /\ Settle(w, {j}, "cancelled")
           \/ /\ j \in client[w].jobs /\ outcome[j] = "pending" /\ type # "progress"
              /\ Settle(w, {j}, type) /\ UNCHANGED <<heard, inbox>>
  BY DeliverFields
<1>2. /\ outbox[w] # <<>> /\ outbox' = [outbox EXCEPT ![w] = Tail(outbox[w])]
      /\ UNCHANGED <<on, stopped, process, signals, restart, reached, hit>>
  BY DEF Deliver, procVars
<1>3. CASE outcome[j] # "pending" /\ UNCHANGED <<outcome, heard, client, current, inbox, closed>>
  <2>1. TakesLine(w)
    BY <1>1, <1>2, <1>3 DEF TakesLine
  <2> QED
    BY <1>2, <1>3, <2>1, HearKeeps
<1>4. CASE /\ type = "progress" /\ heard' = [heard EXCEPT ![j] = heard[j] + 1]
           /\ UNCHANGED <<outcome, client, current, inbox, closed>>
  <2>1. TakesLine(w)
    BY <1>1, <1>2, <1>4 DEF TakesLine
  <2> QED
    BY <1>2, <1>4, <2>1, HearKeeps
<1>5. CASE /\ type = "progress" /\ heard' = [heard EXCEPT ![j] = heard[j] + 1] /\ j \in client[w].jobs
           /\ inbox' = [inbox EXCEPT ![w] = CancelLine(w, j)] /\ Settle(w, {j}, "cancelled")
  <2>1. TakesLine(w)
    BY <1>1, <1>2, <1>5 DEF TakesLine
  <2>2. Settles(w, {j}, "cancelled") /\ process[w].state # "unborn"
    <3>1. {j} \in SUBSET client[w].jobs /\ j \in client[w].jobs /\ Settle(w, {j}, "cancelled")
      BY <1>5
    <3> QED
      BY <1>2, <3>1, TrackedSettle
  <2>3. Hangs(w, {j})
    BY <1>1, <1>5, CancelLineHangs
  <2> QED
    BY <2>1, <2>2, <2>3, EndsKeep
<1>6. CASE /\ j \in client[w].jobs /\ type # "progress" /\ Settle(w, {j}, type)
           /\ UNCHANGED <<heard, inbox>>
  <2>1. type \in {"resolved", "failed"}
    BY <1>6
  <2>2. outcome'[j] = type
    BY <1>6 DEF Settle
  <2>3. TakesLine(w)
    BY <1>1, <1>2, <1>6, <2>1, <2>2 DEF TakesLine
  <2>4. Settles(w, {j}, type) /\ process[w].state # "unborn"
    BY <1>2, <1>6, TrackedSettle
  <2>5. Hangs(w, {j})
    BY <1>6 DEF Hangs
  <2> QED
    BY <2>1, <2>3, <2>4, <2>5, EndsKeep
<1> QED
  BY <1>1, <1>3, <1>4, <1>5, <1>6

-----------------------------------------------------------------------------
(* The specification. *)

(* With nothing submitted, the invariant holds.                            *)
LEMMA InitHolds == Init => IInv
<1> SUFFICES ASSUME Init PROVE IInv
  OBVIOUS
<1>1. /\ NewClient \in Client /\ NewClient.jobs = {} /\ NewClient.completedJobs = 0
      /\ NewClient.retiring = FALSE /\ NewClient.exitSeen = FALSE
  <2>1. Cardinality(Job) \in Nat
    BY PoolAssumption, FS_CardinalityType
  <2> QED
    BY <2>1 DEF NewClient, Client
<1>2. /\ Unborn \in Process /\ Unborn.state = "unborn" /\ Unborn.pending = {} /\ Unborn.told = {}
      /\ Unborn.stdinEnded = FALSE /\ Unborn.grace = FALSE
  BY DEF Unborn, NoProcess, Process
<1> HIDE DEF NewClient, Unborn
<1>3. /\ \A w \in Worker : /\ client[w] = NewClient /\ process[w] = Unborn /\ inbox[w] = <<>>
                           /\ outbox[w] = <<>> /\ hit[w] = "nothing"
      /\ \A j \in Job : outcome[j] = "new" /\ on[j] = NoWorker /\ reached[j] = "nowhere" /\ heard[j] = 0
      /\ closed = {} /\ signals = {} /\ current = NoWorker /\ stopped = FALSE
  BY DEF Init
<1>4. TypeOK /\ PipeType
  <2>1. <<>> \in Seq(InLine) /\ <<>> \in Seq(OutLine)
    OBVIOUS
  <2>2. TypeOK
    BY <1>1, <1>2 DEF Init, TypeOK
  <2>3. PipeType
    BY <2>1 DEF Init, PipeType
  <2> QED
    BY <2>2, <2>3
<1>5. PendingIsTracked /\ NoForgottenWorker /\ RecycleHarmsNobody /\ AnswerBeatsExit /\ BegunSurvivesSignal
  BY <1>1, <1>2, <1>3 DEF PendingIsTracked, NoForgottenWorker, IsUp, RecycleHarmsNobody, AnswerBeatsExit,
     BegunSurvivesSignal
<1>6. BornInOrder
  <2>1. 0 \in 0..MaxWorkers /\ \A w \in Worker : ~(w <= 0)
    BY PoolAssumption DEF Worker
  <2> QED
    BY <1>2, <1>3, <2>1 DEF BornInOrder
<1>7. UnbornIsBlank /\ NewIsNowhere
  BY <1>3, NoWorkerIsNone DEF UnbornIsBlank, NewIsNowhere
<1>8. CountIsExact
  <2>1. \A w \in Worker : Done(w) = {}
    BY <1>3 DEF Done
  <2> QED
    BY <1>1, <1>3, <2>1, FS_EmptySet DEF CountIsExact
<1>9. LeavingIsIdle /\ OneSignal /\ RejectedByExit
  BY <1>1, <1>2, <1>3, NoWorkerIsNone DEF LeavingIsIdle, OneSignal, RejectedByExit
<1>10. \A w \in Worker : Len(inbox[w]) = 0 /\ Len(outbox[w]) = 0
  BY <1>3
<1>11. RunOnce /\ BegunIsPending
  BY <1>2, <1>3, <1>10 DEF RunOnce, InputIsOurs, RunsDiffer, PendingIsRead, BegunIsPending
<1>12. WrittenIsThere
  BY <1>2, <1>3, <1>10 DEF WrittenIsThere, OutputIsOurs, ProgressIsNews, ProgressDiffers, AnswerIsThere,
     UntoldIsUnheard
<1> QED
  BY <1>4, <1>5, <1>6, <1>7, <1>8, <1>9, <1>11, <1>12 DEF IInv, WorkersAreSafe

(* Every step of the pool and its workers keeps it.                        *)
LEMMA NextKeeps ==
  ASSUME IInv, [Next]_vars
  PROVE  IInv'
<1>1. ASSUME NEW j \in Job, Submit(j) \/ SubmitSpawning(j) PROVE IInv'
  BY <1>1, SubmitKeeps
<1>2. ASSUME NEW j \in Job, SubmitThrows(j) PROVE IInv'
  BY <1>2, SubmitThrowsKeeps
<1>3. ASSUME NEW j \in Job, Cancel(j) PROVE IInv'
  BY <1>3, CancelKeeps
<1>4. ASSUME NEW j \in Job, NEW how \in {"failed", "cancelled"}, TurnAway(j, how) PROVE IInv'
  BY <1>4, TurnAwayKeeps
<1>5. ASSUME NEW w \in Worker, NEW goesOn \in BOOLEAN, Deliver(w, goesOn) PROVE IInv'
  BY <1>5, DeliverKeeps
<1>6. ASSUME NEW w \in Worker, ExitSeen(w) \/ RejectLeft(w) PROVE IInv'
  BY <1>6, ExitSeenKeeps, RejectLeftKeeps
<1>7. ASSUME NEW w \in Worker, Reads(w) \/ InputEnds(w) PROVE IInv'
  BY <1>7, ReadsKeeps, InputEndsKeeps
<1>8. ASSUME NEW w \in Worker, SignalArrives(w) \/ GraceEnds(w) \/ StopExits(w) \/ Crash(w) PROVE IInv'
  BY <1>8, SignalArrivesKeeps, CrashKeeps, StopExitsKeeps
<1>9. ASSUME NEW w \in Worker, NEW j \in Job, Progress(w, j) PROVE IInv'
  BY <1>9, ProgressKeeps
<1>10. ASSUME NEW w \in Worker, NEW j \in Job, NEW type \in {"resolved", "failed"}, Answer(w, j, type)
       PROVE  IInv'
  BY <1>10, AnswerKeeps
<1>11. CASE Start \/ StopPool \/ UnitSignalled
  BY <1>11, StartKeeps, StopPoolKeeps, UnitSignalledKeeps
<1>12. CASE UNCHANGED vars
  <2>1. UNCHANGED <<outcome, heard, on, current, client, stopped, inbox, closed, outbox, process,
                    signals, restart, reached, hit>>
    BY <1>12 DEF vars, poolVars, pipeVars, procVars
  <2>2. /\ TypeOK' /\ UnbornIsBlank' /\ LeavingIsIdle' /\ OneSignal' /\ RejectedByExit'
    BY <2>1 DEF IInv, WorkersAreSafe, TypeOK, UnbornIsBlank, LeavingIsIdle, OneSignal, RejectedByExit
  <2>3. /\ PendingIsTracked' /\ RecycleHarmsNobody' /\ CountIsExact' /\ BegunSurvivesSignal'
        /\ NoForgottenWorker'
    BY <2>1 DEF IInv, WorkersAreSafe, PendingIsTracked, RecycleHarmsNobody, CountIsExact, Done,
       BegunSurvivesSignal, NoForgottenWorker, IsUp
  <2> QED
    BY <2>1, <2>2, <2>3, WorkersUntouched DEF IInv, WorkersAreSafe
<1> QED
  BY <1>1, <1>2, <1>3, <1>4, <1>5, <1>6, <1>7, <1>8, <1>9, <1>10, <1>11, <1>12 DEF Next

(* The invariant of the pool, its pipes and its processes. *)
THEOREM PoolIsCoherent == Spec => []IInv
<1>1. Init => IInv
  BY InitHolds
<1>2. IInv /\ [Next]_vars => IInv'
  BY NextKeeps
<1> QED
  BY <1>1, <1>2, PTL DEF Spec

(* No worker that leaves, whatever makes it leave, takes a job with it that  *)
(* the runner did not stop, a crash or a grace did not take, or that no      *)
(* signal found unbegun; and none is left behind                             *)
(* (src/src/search-worker-client.ts, src/src/search-worker.ts).              *)
THEOREM WorkersSafe == Spec => []WorkersAreSafe
BY PoolIsCoherent, PTL DEF IInv

-----------------------------------------------------------------------------
(* The pool keeps what the router is promised. *)

(* The jobs that are settled were pending, and end in one way. *)
LEMMA SettleEnds ==
  ASSUME IInv, NEW w \in Worker, NEW jobs \in SUBSET client[w].jobs,
         NEW how \in {"resolved", "failed", "cancelled", "stopped"}, Settle(w, jobs, how), UNCHANGED heard
  PROVE  Call!CallNext
<1>1. jobs \in SUBSET Job /\ \A j \in jobs : outcome[j] = "pending"
  BY DEF IInv, WorkersAreSafe, TypeOK, Client, PendingIsTracked
<1>2. Call!EndCalls(jobs, how)
  BY <1>1 DEF Settle, Call!EndCalls
<1> QED
  BY <1>1, <1>2 DEF Call!CallNext, Call!Endings

(* Every step is a step of the abstract call, or changes nothing of it.    *)
LEMMA StepImplements ==
  ASSUME IInv, [Next]_vars
  PROVE  [Call!CallNext]_(Call!callVars)
<1>1. /\ TypeOK /\ PendingIsTracked /\ NewIsNowhere
  BY DEF IInv, WorkersAreSafe
<1>2. ASSUME NEW j \in Job, Submit(j) \/ SubmitSpawning(j) PROVE Call!CallNext
  <2>1. Call!Ask(j)
    BY <1>2 DEF Submit, SubmitSpawning, SubmitTo, Call!Ask
  <2> QED
    BY <2>1 DEF Call!CallNext
<1>3. ASSUME NEW j \in Job, SubmitThrows(j) PROVE Call!CallNext
  <2>1. outcome[j] = "new" /\ outcome' = [k \in Job |-> IF k \in {j} THEN "failed" ELSE outcome[k]] /\ heard' = heard
    BY <1>3 DEF SubmitThrows, Settle
  <2>2. outcome' = [outcome EXCEPT ![j] = "failed"]
    BY <1>1, <2>1 DEF TypeOK
  <2>3. Call!TurnAway(j, "failed")
    BY <2>1, <2>2 DEF Call!TurnAway
  <2> QED
    BY <2>3 DEF Call!CallNext
<1>4. ASSUME NEW j \in Job, NEW how \in {"failed", "cancelled"}, TurnAway(j, how) PROVE Call!CallNext
  <2>1. Call!TurnAway(j, how)
    BY <1>4 DEF TurnAway, Call!TurnAway
  <2> QED
    BY <2>1 DEF Call!CallNext
<1>5. ASSUME NEW j \in Job, Cancel(j) PROVE Call!CallNext
  <2>1. outcome[j] = "pending" /\ Settle(on[j], {j}, "cancelled") /\ heard' = heard
    BY <1>5 DEF Cancel
  <2>2. on[j] \in Worker /\ {j} \in SUBSET client[on[j]].jobs
    BY <1>1, <2>1 DEF NewIsNowhere, TypeOK, PendingIsTracked
  <2> QED
    BY <2>1, <2>2, SettleEnds
<1>6. ASSUME NEW w \in Worker, RejectLeft(w) PROVE Call!CallNext
  BY <1>6, SettleEnds DEF RejectLeft
<1>7. ASSUME NEW w \in Worker, NEW goesOn \in BOOLEAN, Deliver(w, goesOn)
      PROVE  Call!CallNext \/ UNCHANGED <<outcome, heard>>
  <2>1. PICK j \in Job, type \in {"progress", "resolved", "failed"} :
          /\ j = Head(outbox[w]).id /\ type = Head(outbox[w]).type /\ on[j] = w
          /\ \/ /\ outcome[j] # "pending"
                /\ UNCHANGED <<outcome, heard, client, current, inbox, closed>>
             \/ /\ j \in client[w].jobs /\ outcome[j] = "pending" /\ type = "progress"
                /\ heard' = [heard EXCEPT ![j] = heard[j] + 1]
                /\ \/ goesOn /\ UNCHANGED <<outcome, client, current, inbox, closed>>
                   \/ /\ ~goesOn /\ inbox' = [inbox EXCEPT ![w] = CancelLine(w, j)]
                      /\ Settle(w, {j}, "cancelled")
             \/ /\ j \in client[w].jobs /\ outcome[j] = "pending" /\ type # "progress"
                /\ Settle(w, {j}, type) /\ UNCHANGED <<heard, inbox>>
    BY <1>7, DeliverFields, ZenonT(60)
  <2>2. CASE /\ outcome[j] = "pending" /\ heard' = [heard EXCEPT ![j] = heard[j] + 1]
             /\ goesOn /\ UNCHANGED outcome
    <3>1. outcome' = [outcome EXCEPT ![j] = outcome[j]]
      BY <1>1, <2>2 DEF TypeOK
    <3>2. Call!Tell(j, TRUE)
      BY <2>2, <3>1 DEF Call!Tell
    <3> QED
      BY <3>2 DEF Call!CallNext
  <2>3. CASE /\ outcome[j] = "pending" /\ heard' = [heard EXCEPT ![j] = heard[j] + 1]
             /\ ~goesOn /\ Settle(w, {j}, "cancelled")
    <3>1. outcome' = [k \in Job |-> IF k \in {j} THEN "cancelled" ELSE outcome[k]]
      BY <2>3 DEF Settle
    <3>2. outcome' = [outcome EXCEPT ![j] = "cancelled"]
      BY <1>1, <3>1 DEF TypeOK
    <3>3. Call!Tell(j, FALSE)
      BY <2>3, <3>2 DEF Call!Tell
    <3> QED
      BY <3>3 DEF Call!CallNext
  <2>4. CASE j \in client[w].jobs /\ type # "progress" /\ Settle(w, {j}, type) /\ UNCHANGED heard
    <3>1. type \in {"resolved", "failed", "cancelled", "stopped"} /\ {j} \in SUBSET client[w].jobs
      BY <2>4
    <3> QED
      BY <2>4, <3>1, SettleEnds
  <2> QED
    BY <2>1, <2>2, <2>3, <2>4
<1>8. ASSUME NEW w \in Worker,
             \/ ExitSeen(w) \/ Reads(w) \/ InputEnds(w) \/ SignalArrives(w) \/ GraceEnds(w)
             \/ StopExits(w) \/ Crash(w)
      PROVE  UNCHANGED <<outcome, heard>>
  BY <1>8 DEF ExitSeen, Reads, InputEnds, SignalArrives, GraceEnds, StopExits, Crash
<1>9. ASSUME NEW w \in Worker, NEW j \in Job,
             Progress(w, j) \/ \E type \in {"resolved", "failed"} : Answer(w, j, type)
      PROVE  UNCHANGED <<outcome, heard>>
  BY <1>9 DEF Progress, Answer
<1>10. CASE Start \/ StopPool \/ UnitSignalled
  BY <1>10 DEF Start, StopPool, UnitSignalled, Call!callVars
<1>11. CASE UNCHANGED vars
  BY <1>11 DEF vars, Call!callVars
<1> QED
  BY <1>2, <1>3, <1>4, <1>5, <1>6, <1>7, <1>8, <1>9, <1>10, <1>11 DEF Next, Call!callVars

(* Whatever its workers do, a call tells its caller of progress only while it  *)
(* is open and ends once (SearchWorkerPool.run, src/src/search-worker-client.ts). *)
THEOREM CallsAreKept == Spec => ImplementsCall
<1>1. Init => Call!CallInit
  BY DEF Init, Call!CallInit
<1>2. IInv /\ [Next]_vars => [Call!CallNext]_(Call!callVars)
  BY StepImplements
<1> QED
  BY <1>1, <1>2, PoolIsCoherent, PTL DEF Spec, ImplementsCall, Call!CallSpec
=============================================================================
