------------------------------ MODULE WorkerPool ------------------------------
(***************************************************************************)
(* The pooled workers of one provider: the pool in the runner              *)
(* (src/src/search-worker-client.ts) and the worker processes              *)
(* (src/src/search-worker.ts), with the two pipes between them.            *)
(*                                                                         *)
(* A job is one call; a prewarm is a job that the worker does not count    *)
(* among those it runs.  A worker is one generation of the process.  Each  *)
(* callback of the runner and each one of a worker is an action; a pipe is *)
(* a sequence, read to its end also after its writer exited.               *)
(***************************************************************************)
EXTENDS Naturals, Sequences, FiniteSets

CONSTANTS
  Job,
  Prewarm,   \* the jobs that are prewarms
  MaxJobs,   \* searchWorkerMaxJobs()
  MaxWorkers \* bound: the processes a behaviour may spawn

ASSUME PoolAssumption ==
  /\ Prewarm \subseteq Job
  /\ MaxJobs \in Nat \ {0}
  /\ MaxWorkers \in Nat
  /\ IsFiniteSet(Job)

(* The processes, in the order in which they are spawned. *)
Worker == 1..MaxWorkers
NoWorker == 0

VARIABLES
  outcome,  \* a job's promise
  heard,    \* the progress its caller was told
  on,       \* the worker a job was written to
  current,  \* the worker in the pool's map
  client,   \* the pool's record of each worker
  stopped,  \* the pool was stopped
  inbox,    \* the lines in each worker's input
  closed,   \* the inputs that the pool has ended
  outbox,   \* the lines in each worker's output
  process,  \* each process
  signals,  \* the processes with a signal on its way
  restart,  \* the unit was signalled
  reached,  \* how far each job came in its worker
  hit       \* what ended a worker before its input did

poolVars == <<on, current, client, stopped>>
pipeVars == <<inbox, closed, outbox>>
procVars == <<process, signals, restart, reached, hit>>
vars == <<outcome, heard, poolVars, pipeVars, procVars>>

Client == [jobs : SUBSET Job, completedJobs : 0..Cardinality(Job), retiring : BOOLEAN,
           exitSeen : BOOLEAN]
(* told bounds the progress of a job. *)
Process == [state : {"unborn", "up", "stopping", "exited"}, pending : SUBSET Job,
            aborted : SUBSET Job, told : SUBSET Job, stdinEnded : BOOLEAN, grace : BOOLEAN]

Line(j, type) == [id |-> j, type |-> type]

NewClient == [jobs |-> {}, completedJobs |-> 0, retiring |-> FALSE, exitSeen |-> FALSE]

NoProcess(state) == [state |-> state, pending |-> {}, aborted |-> {}, told |-> {},
                     stdinEnded |-> FALSE, grace |-> FALSE]
Unborn == NoProcess("unborn")
Exited == NoProcess("exited")
(* stopNow: it sends nothing, and what it reads has no effect any more. *)
Stopping == NoProcess("stopping")

IsUp(w) == process[w].state = "up"

(* The process that is spawned next. *)
Spawned == 1 + Cardinality({w \in Worker : process[w].state # "unborn"})

-----------------------------------------------------------------------------
(* The pool. *)

(* Mutant: a worker retires with jobs on it. *)
RecyclesBusy(w, jobs) ==
  ~client[w].retiring /\ client[w].completedJobs + Cardinality(jobs) >= MaxJobs

(* maybeRecycle, once these jobs are settled. *)
Recycles(w, jobs) ==
  /\ ~client[w].retiring
  /\ client[w].jobs \ jobs = {}
  /\ client[w].completedJobs + Cardinality(jobs) >= MaxJobs

Settled(w, jobs) ==
  [client EXCEPT ![w].jobs = @ \ jobs,
                 ![w].completedJobs = @ + Cardinality(jobs),
                 ![w].retiring = @ \/ Recycles(w, jobs)]

(* Mutant: a worker that retires stays in the map. *)
StillInMap(w, jobs) == current

(* A worker that retires leaves the map, so no call finds it there. *)
InMapAfter(w, jobs) == IF Recycles(w, jobs) /\ current = w THEN NoWorker ELSE current

ClosedAfter(w, jobs) == IF Recycles(w, jobs) THEN closed \union {w} ELSE closed

(* settleJob, of jobs of one worker. *)
Settle(w, jobs, how) ==
  /\ outcome' = [j \in Job |-> IF j \in jobs THEN how ELSE outcome[j]]
  /\ client' = Settled(w, jobs)
  /\ current' = InMapAfter(w, jobs)
  /\ closed' = ClosedAfter(w, jobs)

(* What is in the input of a worker; one that reads no more drops the line. *)
Written(w, line) ==
  IF process[w].state \in {"stopping", "exited"} THEN inbox[w] ELSE Append(inbox[w], line)

(* cancelJob: the worker is told, unless it retires. *)
CancelLine(w, j) == IF client[w].retiring THEN inbox[w] ELSE Written(w, Line(j, "cancel"))

(* submit, on the worker that ensureWorker finds or spawns. *)
SubmitTo(j, w) ==
  /\ outcome[j] = "new"
  /\ outcome' = [outcome EXCEPT ![j] = "pending"]
  /\ on' = [on EXCEPT ![j] = w]
  /\ current' = w
  /\ client' = [client EXCEPT ![w].jobs = @ \union {j}]
  /\ inbox' = [inbox EXCEPT ![w] = Written(w, Line(j, "run"))]
  /\ UNCHANGED <<heard, stopped, closed, outbox, signals, restart, reached, hit>>

Submit(j) ==
  /\ ~stopped
  /\ current # NoWorker
  /\ SubmitTo(j, current)
  /\ UNCHANGED process

SubmitSpawning(j) ==
  /\ ~stopped
  /\ current = NoWorker
  /\ Spawned \in Worker
  /\ SubmitTo(j, Spawned)
  /\ process' = [process EXCEPT ![Spawned].state = "up"]

(* The pipe of a process that is gone refuses the line. *)
SubmitThrows(j) ==
  /\ ~stopped
  /\ outcome[j] = "new"
  /\ current # NoWorker
  /\ process[current].state = "exited"
  /\ on' = [on EXCEPT ![j] = current]
  /\ Settle(current, {j}, "failed")
  /\ UNCHANGED <<heard, stopped, inbox, outbox, procVars>>

(* A call whose signal is aborted already, or for which nothing can be spawned. *)
TurnAway(j, how) ==
  /\ outcome[j] = "new"
  /\ how = "failed" => current = NoWorker
  /\ outcome' = [outcome EXCEPT ![j] = how]
  /\ UNCHANGED <<heard, poolVars, pipeVars, procVars>>

(* startSearchWorkerPool. *)
Start ==
  /\ ~stopped
  /\ current = NoWorker
  /\ Spawned \in Worker
  /\ current' = Spawned
  /\ process' = [process EXCEPT ![Spawned].state = "up"]
  /\ UNCHANGED <<outcome, heard, on, client, stopped, pipeVars, signals, restart, reached, hit>>

(* The signal of a job, its caller, its poll or its deadline cancels it. *)
Cancel(j) ==
  /\ outcome[j] = "pending"
  /\ LET w == on[j] IN
       /\ inbox' = [inbox EXCEPT ![w] = CancelLine(w, j)]
       /\ Settle(w, {j}, "cancelled")
  /\ UNCHANGED <<heard, on, stopped, outbox, procVars>>

(* Mutant: a line is taken whoever it is for. *)
ExpectsAny(w, j) == TRUE

(* worker.jobs.get: a line for a job that has ended is dropped. *)
Expects(w, j) == j \in client[w].jobs

(* A line of the output.  A caller may answer progress by cancelling. *)
Deliver(w, goesOn) ==
  /\ outbox[w] # <<>>
  /\ LET line == Head(outbox[w])
         j == line.id
     IN IF ~Expects(w, j)
          THEN UNCHANGED <<outcome, heard, client, current, inbox, closed>>
          ELSE IF line.type = "progress"
            THEN /\ heard' = [heard EXCEPT ![j] = @ + 1]
                 /\ IF goesOn
                      THEN UNCHANGED <<outcome, client, current, inbox, closed>>
                      ELSE /\ inbox' = [inbox EXCEPT ![w] = CancelLine(w, j)]
                           /\ Settle(w, {j}, "cancelled")
            ELSE /\ Settle(w, {j}, line.type)
                 /\ UNCHANGED <<heard, inbox>>
  /\ outbox' = [outbox EXCEPT ![w] = Tail(@)]
  /\ UNCHANGED <<on, stopped, procVars>>

(* child.exited: the worker leaves the map at once. *)
ExitSeen(w) ==
  /\ process[w].state = "exited" /\ ~client[w].exitSeen
  /\ client' = [client EXCEPT ![w].exitSeen = TRUE]
  /\ current' = IF current = w THEN NoWorker ELSE current
  /\ UNCHANGED <<outcome, heard, on, stopped, pipeVars, procVars>>

(* Once its output is read to the end, the jobs left are rejected. *)
RejectLeft(w) ==
  /\ client[w].exitSeen /\ client[w].jobs # {}
  /\ outbox[w] = <<>>
  /\ Settle(w, client[w].jobs, "stopped")
  /\ UNCHANGED <<heard, on, stopped, inbox, outbox, procVars>>

(* stop: the worker in the map is retired, and both its input and a signal  *)
(* tell it to go.                                                           *)
StopPool ==
  /\ ~stopped
  /\ stopped' = TRUE
  /\ IF current = NoWorker
       THEN UNCHANGED <<client, closed, signals>>
       ELSE /\ client' = [client EXCEPT ![current].retiring = TRUE]
            /\ closed' = closed \union {current}
            /\ signals' = signals \union {current}
  /\ current' = NoWorker
  /\ UNCHANGED <<outcome, heard, on, inbox, outbox, process, restart, reached, hit>>

-----------------------------------------------------------------------------
(* A worker process.                                                        *)

Running(p) == p.pending \ Prewarm  \* runningJobs

(* The process turns into one that reads no more. *)
Gone(w, p) ==
  /\ process' = [process EXCEPT ![w] = p]
  /\ inbox' = [inbox EXCEPT ![w] = <<>>]
  /\ signals' = signals \ {w}

Reads(w) ==
  /\ IsUp(w) /\ inbox[w] # <<>>
  /\ LET line == Head(inbox[w]) IN
       /\ process' = [process EXCEPT
            ![w].pending = IF line.type = "run" THEN @ \union {line.id} ELSE @,
            ![w].aborted = IF line.type = "cancel" /\ line.id \in Running(process[w])
                             THEN @ \union {line.id} ELSE @]
       /\ reached' = IF line.type = "run" THEN [reached EXCEPT ![line.id] = "read"] ELSE reached
  /\ inbox' = [inbox EXCEPT ![w] = Tail(@)]
  /\ UNCHANGED <<outcome, heard, poolVars, closed, outbox, signals, restart, hit>>

Progress(w, j) ==
  /\ IsUp(w) /\ j \in Running(process[w]) \ process[w].told
  /\ outbox' = [outbox EXCEPT ![w] = Append(@, Line(j, "progress"))]
  /\ process' = [process EXCEPT ![w].told = @ \union {j}]
  /\ UNCHANGED <<outcome, heard, poolVars, inbox, closed, signals, restart, reached, hit>>

(* A job ends, well or not; a worker with no input left exits with its last. *)
Answer(w, j, type) ==
  /\ IsUp(w) /\ j \in process[w].pending
  /\ outbox' = [outbox EXCEPT ![w] = Append(@, Line(j, type))]
  /\ reached' = [reached EXCEPT ![j] = "answered"]
  /\ IF process[w].stdinEnded /\ process[w].pending = {j}
       THEN Gone(w, Exited)
       ELSE /\ process' = [process EXCEPT ![w].pending = @ \ {j}, ![w].aborted = @ \ {j},
                                          ![w].told = @ \ {j}]
            /\ UNCHANGED <<inbox, signals>>
  /\ UNCHANGED <<outcome, heard, poolVars, closed, restart, hit>>

(* The input ends: a signalled worker is being stopped by its runner. *)
InputEnds(w) ==
  /\ IsUp(w) /\ ~process[w].stdinEnded /\ w \in closed /\ inbox[w] = <<>>
  /\ IF process[w].grace THEN Gone(w, Stopping)
     ELSE IF process[w].pending = {} THEN Gone(w, Exited)
     ELSE process' = [process EXCEPT ![w].stdinEnded = TRUE] /\ UNCHANGED <<inbox, signals>>
  /\ UNCHANGED <<outcome, heard, poolVars, closed, outbox, restart, reached, hit>>

(* systemd signals every process of the unit. *)
UnitSignalled ==
  /\ ~restart
  /\ restart' = TRUE
  /\ signals' = signals \union {w \in Worker : IsUp(w)}
  /\ UNCHANGED <<outcome, heard, poolVars, pipeVars, process, reached, hit>>

(* Mutant: every signal stops the worker. *)
SignalStops(w) ==
  /\ IsUp(w) /\ w \in signals
  /\ Gone(w, Stopping)
  /\ hit' = [hit EXCEPT ![w] = "signal"]
  /\ UNCHANGED <<outcome, heard, poolVars, closed, outbox, restart, reached>>

(* stopOnSignal: the first signal leaves jobs running, for a while. *)
SignalArrives(w) ==
  /\ IsUp(w) /\ w \in signals
  /\ IF process[w].grace \/ process[w].stdinEnded \/ Running(process[w]) = {}
       THEN Gone(w, Stopping) /\ hit' = [hit EXCEPT ![w] = "signal"]
       ELSE /\ signals' = signals \ {w}
            /\ process' = [process EXCEPT ![w].grace = TRUE]
            /\ UNCHANGED <<inbox, hit>>
  /\ UNCHANGED <<outcome, heard, poolVars, closed, outbox, restart, reached>>

GraceEnds(w) ==
  /\ IsUp(w) /\ process[w].grace
  /\ Gone(w, Stopping)
  /\ hit' = [hit EXCEPT ![w] = "grace"]
  /\ UNCHANGED <<outcome, heard, poolVars, closed, outbox, restart, reached>>

(* stopNow: nothing more is sent, the tabs are closed, and the process exits. *)
StopExits(w) ==
  /\ process[w].state = "stopping"
  /\ process' = [process EXCEPT ![w] = Exited]
  /\ UNCHANGED <<outcome, heard, poolVars, pipeVars, signals, restart, reached, hit>>

Crash(w) ==
  /\ IsUp(w)
  /\ Gone(w, Exited)
  /\ hit' = [hit EXCEPT ![w] = "crash"]
  /\ UNCHANGED <<outcome, heard, poolVars, closed, outbox, restart, reached>>

-----------------------------------------------------------------------------
Init ==
  /\ outcome = [j \in Job |-> "new"]
  /\ heard = [j \in Job |-> 0]
  /\ on = [j \in Job |-> NoWorker]
  /\ current = NoWorker
  /\ client = [w \in Worker |-> NewClient]
  /\ stopped = FALSE
  /\ inbox = [w \in Worker |-> <<>>]
  /\ closed = {}
  /\ outbox = [w \in Worker |-> <<>>]
  /\ process = [w \in Worker |-> Unborn]
  /\ signals = {} /\ restart = FALSE
  /\ reached = [j \in Job |-> "nowhere"]
  /\ hit = [w \in Worker |-> "nothing"]

Next ==
  \/ \E j \in Job :
       \/ Submit(j) \/ SubmitSpawning(j) \/ SubmitThrows(j) \/ Cancel(j)
       \/ \E how \in {"failed", "cancelled"} : TurnAway(j, how)
  \/ \E w \in Worker :
       \/ \E goesOn \in BOOLEAN : Deliver(w, goesOn)
       \/ ExitSeen(w) \/ RejectLeft(w)
       \/ Reads(w) \/ InputEnds(w) \/ SignalArrives(w) \/ GraceEnds(w) \/ StopExits(w) \/ Crash(w)
       \/ \E j \in Job : Progress(w, j) \/ \E type \in {"resolved", "failed"} : Answer(w, j, type)
  \/ Start \/ StopPool \/ UnitSignalled

Spec == Init /\ [][Next]_vars

(* Lines are read, exits are seen, a worker that is told to stop does, and  *)
(* what was hung up on ends, as a prewarm does: no provider has to answer.  *)
Fairness ==
  \A w \in Worker :
    /\ WF_vars(\E goesOn \in BOOLEAN : Deliver(w, goesOn))
    /\ WF_vars(ExitSeen(w)) /\ WF_vars(RejectLeft(w))
    /\ WF_vars(Reads(w)) /\ WF_vars(InputEnds(w)) /\ WF_vars(SignalArrives(w)) /\ WF_vars(StopExits(w))
    /\ \A j \in Job : WF_vars((j \in process[w].aborted \/ j \in Prewarm) /\ Answer(w, j, "failed"))

FairSpec == Spec /\ Fairness

-----------------------------------------------------------------------------
TypeOK ==
  /\ outcome \in [Job -> {"new", "pending", "resolved", "failed", "cancelled", "stopped"}]
  /\ heard \in [Job -> {0, 1}]
  /\ on \in [Job -> Worker \union {NoWorker}]
  /\ current \in Worker \union {NoWorker}
  /\ client \in [Worker -> Client]
  /\ closed \subseteq Worker /\ signals \subseteq Worker
  /\ process \in [Worker -> Process]
  /\ {stopped, restart} \subseteq BOOLEAN
  /\ reached \in [Job -> {"nowhere", "read", "answered"}]
  /\ hit \in [Worker -> {"nothing", "crash", "signal", "grace"}]

(* Every job that waits for an answer is in the record of the one worker it  *)
(* was written to, so its answer, the exit or a cancel finds it; one that    *)
(* has ended is in none, so nothing ends it twice.                           *)
PendingIsTracked ==
  \A j \in Job, w \in Worker : j \in client[w].jobs <=> outcome[j] = "pending" /\ on[j] = w

(* Recycling takes no job down, nor hands one to a worker that leaves: only  *)
(* a crash, a signal or the stop of the pool rejects a job as "stopped       *)
(* before completing".                                                       *)
RecycleHarmsNobody ==
  \A j \in Job : outcome[j] = "stopped" => stopped \/ hit[on[j]] # "nothing"

(* An answer that was written is not lost to the exit that follows it: no    *)
(* job its worker had answered is rejected for the exit.                     *)
AnswerBeatsExit == \A j \in Job : outcome[j] = "stopped" => reached[j] # "answered"

(* The signal that reaches a worker with its unit rejects no search that the *)
(* worker had begun: a crash does, the end of the grace, or the runner.      *)
BegunSurvivesSignal ==
  \A j \in Job \ Prewarm :
    outcome[j] = "stopped" /\ reached[j] = "read" => stopped \/ hit[on[j]] \in {"crash", "grace"}

(* A process that the pool no longer gives work to has its input ended, also *)
(* once the pool was stopped: none is left running and idle.                 *)
NoForgottenWorker == \A w \in Worker : IsUp(w) => w = current \/ w \in closed

(* A worker that leaves takes nobody's job with it: no job goes to one that *)
(* is recycled (RecycleHarmsNobody), an answer that was written reaches its *)
(* job (AnswerBeatsExit), what was begun survives the signal                *)
(* (BegunSurvivesSignal), each job is in one record at most                 *)
(* (PendingIsTracked), and no worker is left behind (NoForgottenWorker).    *)
WorkersAreSafe ==
  /\ TypeOK /\ PendingIsTracked /\ RecycleHarmsNobody
  /\ AnswerBeatsExit /\ BegunSurvivesSignal /\ NoForgottenWorker

(* The pool keeps what the router is promised of a call. *)
Call == INSTANCE ProviderCall
ImplementsCall == Call!CallSpec

(* A worker that retires or dies is gone in the end, and its jobs with it,   *)
(* though no provider answers: what it still works on was hung up on, and    *)
(* what it leaves is rejected.                                               *)
LeavingEnds ==
  \A w \in Worker :
    client[w].retiring \/ process[w].state = "exited" ~>
      process[w].state = "exited" /\ client[w].jobs = {}

=============================================================================
