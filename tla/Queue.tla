------------------------------- MODULE Queue --------------------------------
(***************************************************************************)
(* The coordinator of queue.go: submissions, the scheduler goroutine, the  *)
(* request goroutine it starts for each free worker slot, the work         *)
(* wrappers, the two-phase close, and the management calls of              *)
(* management_lifecycle.go.                                                *)
(*                                                                         *)
(* The worker is the in-memory ring (InMemory; the queue of TaskFifo,      *)
(* which module Ring implements) or a broker backend, which is external:   *)
(* Worker.Queue and Worker.Request may fail, and Worker.Shutdown closes    *)
(* the transport.  A broker worker may carry an admission gate             *)
(* (HasLifecycle; the gate of module Gate, which module Lifecycle          *)
(* implements); NewQueue refuses a gate on the ring.                       *)
(*                                                                         *)
(* A step is one atomic operation, one critical section or one channel     *)
(* operation of the code, together with what its goroutine then does on    *)
(* its own.                                                                *)
(***************************************************************************)
EXTENDS Integers, Sequences, FiniteSets

CONSTANTS Tasks,        \* task messages; each is submitted at most once
          NoTask,       \* a nil core.TaskMessage
          InMemory,     \* the worker is a *Ring
          HasLifecycle, \* q.lifecycle # nil
          Capacity,     \* the ring's admission bound
          InitialCount, \* q.workerCount as configured
          Updates,      \* the values UpdateWorkerCount is called with
          Callers,      \* goroutines calling the methods in Ops
          Ops,          \* the methods of Queue that the callers call
          Managers,     \* goroutines applying desired states
          Wanted        \* the desired states they apply

ASSUME QueueAssumption ==
  /\ Tasks \cap {NoTask, "none", "nil", "closed", "S", "U"} = {}
  /\ Managers \cap (Tasks \cup {"S", "U"}) = {}
  /\ IsFiniteSet(Tasks)
  /\ InMemory \in BOOLEAN
  /\ HasLifecycle \in BOOLEAN
  /\ InMemory => ~HasLifecycle
  /\ HasLifecycle \/ Managers = {}
  /\ Capacity \in Nat
  /\ InitialCount \in Int /\ Updates \subseteq Int
  /\ Ops \subseteq {"Start", "Shutdown", "Release", "CloseAdmission",
                    "ReleaseContext"}
  /\ Wanted \subseteq {"active", "paused", "draining", "terminating"}

(* Who calls schedule(): the scheduler, UpdateWorkerCount, the wrapper of  *)
(* each task and each manager.                                             *)
Agents == Tasks \cup Managers \cup {"S", "U"}

VARIABLES
  stopFlag, drainFlag, started,
  quit, drain,     \* the channels of that name are closed
  ready,           \* the one-element channel holds a token
  admissions,      \* submissions between beginAdmission and endAdmission
  admissionsDone,  \* "nil", "open", "closed", or "panic" (closed twice)
  workerCount, activeWorkers,
  scheduling,      \* how far each agent is in a call of schedule()
  gateState, reserved, jobs,  \* the variables of Gate
  backlog, closed, drained,   \* the variables of TaskFifo
  sub, job,        \* how far the submission, the processing of a task is
  sched,           \* the goroutine of start()
  req, reqTask, reqErr,  \* the request goroutine and what Request returned
  tasks,           \* the tasks channel: "none", "nil", "closed" or a task
  closer, shut,    \* the bodies of drainOnce and stopOnce
  cpc, op, ret,    \* the callers
  mpc, want, acked \* the managers; acked: the state in force is confirmed

flagVars == <<stopFlag, drainFlag, started, quit, drain>>
admVars == <<admissions, admissionsDone>>
gateVars == <<gateState, reserved, jobs>>
slotVars == <<ready, workerCount, activeWorkers, scheduling, gateVars>>
workerVars == <<backlog, closed, drained>>
reqVars == <<req, reqTask, reqErr, tasks>>
apiVars == <<closer, shut, cpc, op, ret>>
mgrVars == <<mpc, want, acked>>
vars == <<flagVars, admVars, slotVars, workerVars, sub, job, sched,
          reqVars, apiVars, mgrVars>>

Mem == INSTANCE TaskFifo
G == INSTANCE Gate WITH state <- gateState, admissions <- reserved

SubStates == {"new", "begun", "stored", "accepted", "rejected"}
JobStates == {"none", "fetched", "running", "settled", "panicked", "end", "done"}
ReqStates == {"none", "call", "hold", "nothing", "wait", "begin"}
ReqErrs == {"nil", "ErrNoTaskInQueue", "ErrQueueHasBeenClosed", "error"}
CallStates == {"idle", "startCheck", "startOnce", "close", "admWait",
               "exitWait", "groupWait", "shut", "finalWait", "return"}

TypeOK ==
  /\ stopFlag \in BOOLEAN /\ drainFlag \in BOOLEAN /\ started \in BOOLEAN
  /\ quit \in BOOLEAN /\ drain \in BOOLEAN
  /\ ready \in BOOLEAN
  /\ admissions \in Nat
  /\ admissionsDone \in {"nil", "open", "closed", "panic"}
  /\ workerCount \in {InitialCount} \cup Updates
  /\ activeWorkers \in Nat
  /\ scheduling \in [Agents -> {"no", "check", "reserve"}]
  /\ G!GateTypeOK
  /\ Mem!FifoTypeOK
  /\ sub \in [Tasks -> SubStates]
  /\ job \in [Tasks -> JobStates]
  /\ sched \in {"off", "select", "taken", "fetch", "exited"}
  /\ req \in ReqStates
  /\ reqTask \in Tasks \cup {NoTask}
  /\ reqErr \in ReqErrs
  /\ tasks \in Tasks \cup {"none", "nil", "closed"}
  /\ closer \in {"none", "flagged", "stopping", "release", "done"}
  /\ shut \in {"none", "flagged", "stopping", "exitWait", "quit", "done"}
  /\ cpc \in [Callers -> CallStates]
  /\ op \in [Callers -> Ops \cup {"none"}]
  /\ ret \in [Callers -> {"none", "Release", "ReleaseContext", "expired"}]
  /\ mpc \in [Managers -> {"idle", "wait", "after", "shut"}]
  /\ want \in [Managers -> G!DesiredStates]
  /\ acked \in BOOLEAN

-----------------------------------------------------------------------------
(* NewQueue *)
Init ==
  /\ stopFlag = FALSE /\ drainFlag = FALSE /\ started = FALSE
  /\ quit = FALSE /\ drain = FALSE /\ ready = FALSE
  /\ admissions = 0 /\ admissionsDone = "nil"
  /\ workerCount = InitialCount /\ activeWorkers = 0
  /\ scheduling = [a \in Agents |-> "no"]
  /\ G!GateInit
  /\ Mem!FifoInit
  /\ sub = [t \in Tasks |-> "new"]
  /\ job = [t \in Tasks |-> "none"]
  /\ sched = "off"
  /\ req = "none" /\ reqTask = NoTask /\ reqErr = "nil" /\ tasks = "none"
  /\ closer = "none" /\ shut = "none"
  /\ cpc = [c \in Callers |-> "idle"]
  /\ op = [c \in Callers |-> "none"]
  /\ ret = [c \in Callers |-> "none"]
  /\ mpc = [m \in Managers |-> "idle"]
  /\ want = [m \in Managers |-> "active"]
  /\ acked = FALSE

-----------------------------------------------------------------------------
(* The scheduler ignores the errors of EndAdmission, PromoteAdmissionToJob *)
(* and EndJob; without a lifecycle it makes no call.                       *)

GiveBack ==
  IF HasLifecycle /\ reserved > 0 THEN G!EndAdmission ELSE UNCHANGED gateVars

Promote ==
  IF HasLifecycle /\ reserved > 0 THEN G!PromoteAdmissionToJob
  ELSE UNCHANGED gateVars

-----------------------------------------------------------------------------
(* schedule(), under q.Mutex.  The drain flag is not protected by that     *)
(* mutex, so a close can fall between the check and the reservation.       *)

Locked == \E a \in Agents : scheduling[a] = "reserve"

(* Mutant: one worker too many. *)
HasWorkerCapacityOff == activeWorkers <= workerCount

HasWorkerCapacity == activeWorkers < workerCount

MayRequest == (drainFlag => InMemory) /\ HasWorkerCapacity

CallSchedule(a) == scheduling' = [scheduling EXCEPT ![a] = "check"]

ScheduleCheck(a) ==
  /\ scheduling[a] = "check"
  /\ ~Locked
  /\ scheduling' = [scheduling EXCEPT ![a] = IF MayRequest THEN "reserve" ELSE "no"]
  /\ UNCHANGED <<flagVars, admVars, ready, workerCount, activeWorkers,
                 gateVars, workerVars, sub, job, sched, reqVars, apiVars, mgrVars>>

(* Mutant: the reservation is kept when the ready channel is full. *)
ReadyAcceptsAlways == TRUE

ReadyAccepts == ~ready

(* A reservation that the ready channel does not take is given back at once. *)
ScheduleReserve(a) ==
  /\ scheduling[a] = "reserve"
  /\ scheduling' = [scheduling EXCEPT ![a] = "no"]
  /\ IF HasLifecycle
     THEN IF gateState = "active" /\ ReadyAccepts
          THEN G!BeginAdmission /\ ready' = TRUE
          ELSE UNCHANGED <<gateVars, ready>>
     ELSE ready' = TRUE /\ UNCHANGED gateVars
  /\ UNCHANGED <<flagVars, admVars, workerCount, activeWorkers,
                 workerVars, sub, job, sched, reqVars, apiVars, mgrVars>>

(* UpdateWorkerCount *)
UpdateWorkerCount(n) ==
  /\ scheduling["U"] = "no" /\ ~Locked
  /\ workerCount' = n
  /\ CallSchedule("U")
  /\ UNCHANGED <<flagVars, admVars, ready, activeWorkers, gateVars,
                 workerVars, sub, job, sched, reqVars, apiVars, mgrVars>>

-----------------------------------------------------------------------------
(* Queue and QueueTask *)

(* Mutant: the drain flag is not read. *)
SubmissionOpenDraining == ~stopFlag

SubmissionOpen == ~stopFlag /\ ~drainFlag

BeginSubmit(t) ==
  /\ sub[t] = "new"
  /\ IF SubmissionOpen
     THEN /\ sub' = [sub EXCEPT ![t] = "begun"]
          /\ admissions' = admissions + 1
     ELSE /\ sub' = [sub EXCEPT ![t] = "rejected"]
          /\ UNCHANGED admissions
  /\ UNCHANGED <<flagVars, admissionsDone, slotVars, workerVars, job,
                 sched, reqVars, apiVars, mgrVars>>

Publish(t) ==
  /\ sub[t] = "begun"
  /\ Mem!Enqueue(t)
  /\ sub' = [sub EXCEPT ![t] = "stored"]
  /\ UNCHANGED <<flagVars, admVars, slotVars, job, sched, reqVars,
                 apiVars, mgrVars>>

(* endAdmission, after a notification or after Message.Validate or         *)
(* Worker.Queue has failed (the ring fails when closed or full, a broker   *)
(* for reasons of its own).                                                *)
EndSubmit(t) ==
  /\ sub[t] \in {"begun", "stored"}
  /\ sub' = [sub EXCEPT ![t] = IF @ = "stored" THEN "accepted" ELSE "rejected"]
  /\ admissions' = admissions - 1
  /\ admissionsDone' = IF admissions = 1 /\ admissionsDone # "nil"
                       THEN (IF admissionsDone = "open" THEN "closed" ELSE "panic")
                       ELSE admissionsDone
  /\ UNCHANGED <<flagVars, slotVars, workerVars, job, sched, reqVars, apiVars,
                 mgrVars>>

Submitter(t) == Publish(t) \/ EndSubmit(t)
-----------------------------------------------------------------------------
(* The scheduler goroutine: start().  Every turn of its loop begins with   *)
(* schedule(); select then takes any case that is ready.                   *)

Turn == sched' = "select" /\ CallSchedule("S")

schedUnchanged == <<flagVars, admVars, workerCount, workerVars, sub,
                    reqTask, reqErr, apiVars, mgrVars>>

SchedTakeReady ==
  /\ sched = "select" /\ scheduling["S"] = "no"
  /\ ready
  /\ ready' = FALSE
  /\ sched' = "taken"
  /\ UNCHANGED <<activeWorkers, scheduling, gateVars, job, req, tasks,
                 schedUnchanged>>

SchedStop ==
  /\ sched = "select" /\ scheduling["S"] = "no"
  /\ quit \/ drain
  /\ sched' = "exited"
  /\ UNCHANGED <<slotVars, job, req, tasks, schedUnchanged>>

(* The drain flag is read just before the capacity; a close and a change   *)
(* of the capacity commute, so one step stands for both reads.             *)
SchedCheckToken ==
  /\ sched = "taken" /\ ~Locked
  /\ IF MayRequest
     THEN sched' = "fetch" /\ req' = "call" /\ UNCHANGED <<scheduling, gateVars>>
     ELSE /\ GiveBack
          /\ IF drainFlag /\ ~InMemory
             THEN sched' = "exited" /\ UNCHANGED scheduling
             ELSE Turn
          /\ UNCHANGED req
  /\ UNCHANGED <<ready, activeWorkers, job, tasks, schedUnchanged>>

SchedReceive ==
  /\ sched = "fetch"
  /\ tasks # "none"
  /\ tasks' = "none"
  /\ IF tasks \in Tasks
     THEN /\ activeWorkers' = activeWorkers + 1
          /\ job' = [job EXCEPT ![tasks] = "running"]
          /\ Turn
     ELSE /\ IF tasks = "closed" \/ drainFlag
             THEN sched' = "exited" /\ UNCHANGED scheduling
             ELSE Turn
          /\ UNCHANGED <<activeWorkers, job>>
  /\ UNCHANGED <<ready, gateVars, req, schedUnchanged>>

Scheduler == SchedTakeReady \/ SchedStop \/ SchedCheckToken \/ SchedReceive

-----------------------------------------------------------------------------
(* The request goroutine.  It holds a reservation while req is "call".     *)

reqUnchanged == <<flagVars, admVars, ready, workerCount, activeWorkers,
                  scheduling, sub, sched, apiVars, mgrVars>>

Send(x) == tasks' = x /\ req' = "none" /\ reqTask' = NoTask /\ reqErr' = "nil"

Continue(stage) == req' = stage /\ UNCHANGED <<reqTask, reqErr, tasks>>

(* Worker.Request returns a task, and the reservation becomes a job.  A    *)
(* broker may return an error with it.                                     *)
ReqTakes ==
  /\ req = "call"
  /\ backlog # << >>
  /\ IF InMemory THEN Mem!Dequeue
     ELSE backlog' = Tail(backlog) /\ UNCHANGED <<closed, drained>>
  /\ reqTask' = Head(backlog)
  /\ reqErr' \in IF InMemory THEN {"nil"} ELSE {"nil", "error"}
  /\ req' = "hold"
  /\ job' = [job EXCEPT ![Head(backlog)] = "fetched"]
  /\ Promote
  /\ UNCHANGED <<tasks, reqUnchanged>>

(* Worker.Request returns nil.  The ring does so when it is empty, and     *)
(* then gives the drained signal if it is closed.  A closed broker may     *)
(* still time out.                                                         *)
ReqNothing ==
  /\ req = "call"
  /\ InMemory => backlog = << >>
  /\ drained' = (drained \/ (InMemory /\ closed))
  /\ reqErr' \in (IF closed THEN {"ErrQueueHasBeenClosed"} ELSE {})
                 \cup (IF closed /\ InMemory THEN {} ELSE {"ErrNoTaskInQueue"})
                 \cup (IF InMemory THEN {} ELSE {"error"})
  /\ reqTask' = NoTask
  /\ req' = "nothing"
  /\ GiveBack
  /\ UNCHANGED <<backlog, closed, job, tasks, reqUnchanged>>

(* The answer of a closed worker, unless it timed out *)
ReqClosed == ReqNothing /\ closed /\ reqErr' # "ErrNoTaskInQueue"

(* A task that came with an error is held until the ticker, a notification *)
(* or a close.  The ticker is always about to fire, so the notify channel  *)
(* decides nothing and is left out.                                        *)
ReqDeliver ==
  /\ req = "hold"
  /\ Send(reqTask)
  /\ UNCHANGED <<gateVars, workerVars, job, reqUnchanged>>

(* Nothing came: give up when a drain has begun, else wait as above. *)
ReqCheckDrain ==
  /\ req = "nothing"
  /\ IF drainFlag THEN Send("nil") ELSE Continue("wait")
  /\ UNCHANGED <<gateVars, workerVars, job, reqUnchanged>>

ReqWake ==
  /\ req = "wait"
  /\ IF drain THEN Send("nil") ELSE Continue("begin")
  /\ UNCHANGED <<gateVars, workerVars, job, reqUnchanged>>

(* Mutant: the test of the error is inverted. *)
AbandonsInverted == quit /\ reqErr = "ErrNoTaskInQueue"

Abandons == quit /\ reqErr # "ErrNoTaskInQueue"

(* A new reservation, then the quit check. *)
ReqAgain ==
  /\ req = "begin"
  /\ IF HasLifecycle /\ gateState # "active"
     THEN Send("nil") /\ UNCHANGED gateVars
     ELSE /\ IF HasLifecycle THEN G!BeginAdmission ELSE UNCHANGED gateVars
          /\ IF Abandons
             THEN Send("closed")
             ELSE Continue("call")
  /\ UNCHANGED <<workerVars, job, reqUnchanged>>

Requester ==
  \/ ReqTakes \/ ReqNothing \/ ReqDeliver
  \/ ReqCheckDrain \/ ReqWake \/ ReqAgain

-----------------------------------------------------------------------------
(* The work wrapper of task t: workManaged and work.  The delivery of a    *)
(* handler that returns is settled before its slot is freed, that of one   *)
(* that panics after.  A failed settlement changes only what is reported.  *)

workUnchanged == <<flagVars, admVars, ready, workerCount, workerVars,
                   sub, sched, reqVars, apiVars, mgrVars>>

HandlerSettles(t) ==
  /\ job[t] = "running"
  /\ job' = [job EXCEPT ![t] = "settled"]
  /\ UNCHANGED <<activeWorkers, scheduling, gateVars, workUnchanged>>

HandlerPanics(t) ==
  /\ job[t] = "running"
  /\ job' = [job EXCEPT ![t] = "panicked"]
  /\ activeWorkers' = activeWorkers - 1
  /\ UNCHANGED <<scheduling, gateVars, workUnchanged>>

(* Mutant: the slot of a handler that panicked is freed twice. *)
FreedTwice(t) == 1

(* Mutant: the slot of a handler that returned is not freed. *)
FreedNever(t) == 0

(* What is still to free: a panic has freed the slot before the settlement. *)
Freed(t) == IF job[t] = "settled" THEN 1 ELSE 0

(* The rest of the deferred function of work *)
Finish(t) ==
  /\ job[t] \in {"settled", "panicked"}
  /\ job' = [job EXCEPT ![t] = "end"]
  /\ activeWorkers' = activeWorkers - Freed(t)
  /\ CallSchedule(t)
  /\ UNCHANGED <<gateVars, workUnchanged>>

(* EndJob, and the wrapper leaves the routine group. *)
EndWork(t) ==
  /\ job[t] = "end" /\ scheduling[t] = "no"
  /\ IF HasLifecycle /\ jobs > 0 THEN G!EndJob ELSE UNCHANGED gateVars
  /\ job' = [job EXCEPT ![t] = "done"]
  /\ UNCHANGED <<activeWorkers, scheduling, workUnchanged>>

Work(t) == HandlerSettles(t) \/ HandlerPanics(t) \/ Finish(t) \/ EndWork(t)

-----------------------------------------------------------------------------
(* CloseAdmission: the body of drainOnce, run by the first caller; the     *)
(* others wait for it.                                                     *)

closeUnchanged == <<stopFlag, started, quit, workerCount, activeWorkers,
                    scheduling, sub, job, sched, reqVars, shut, cpc, op, ret,
                    mgrVars>>

(* Mutant: the submissions in flight are not waited for. *)
DoneAtCloseHasty == "closed"

DoneAtClose == IF admissions = 0 THEN "closed" ELSE "open"

CloseFlag ==
  /\ closer = "none"
  /\ \E c \in Callers : cpc[c] = "close"
  /\ drainFlag' = TRUE
  /\ admissionsDone' = DoneAtClose
  /\ closer' = "flagged"
  /\ UNCHANGED <<drain, ready, admissions, gateVars, workerVars,
                 closeUnchanged>>

(* The first step of the ring's stopIntake, or close(q.drain) *)
CloseWithdraw ==
  /\ closer = "flagged"
  /\ IF InMemory
     THEN /\ IF closed THEN UNCHANGED workerVars ELSE Mem!CloseIntake
          /\ closer' = IF closed THEN "done" ELSE "stopping"
          /\ UNCHANGED drain
     ELSE /\ drain' = TRUE
          /\ closer' = "release"
          /\ UNCHANGED workerVars
  /\ UNCHANGED <<drainFlag, ready, admVars, gateVars, closeUnchanged>>

(* The second step of stopIntake, if the first one took effect *)
CloseSignal ==
  /\ closer = "stopping"
  /\ IF backlog = << >> THEN Mem!SignalDrained ELSE UNCHANGED workerVars
  /\ closer' = "done"
  /\ UNCHANGED <<drainFlag, drain, ready, admVars, gateVars, closeUnchanged>>

(* releaseReadyAdmission *)
CloseRelease ==
  /\ closer = "release"
  /\ ready' = FALSE
  /\ IF ready THEN GiveBack ELSE UNCHANGED gateVars
  /\ closer' = "done"
  /\ UNCHANGED <<drainFlag, drain, admVars, workerVars, closeUnchanged>>

Close == CloseFlag \/ CloseWithdraw \/ CloseSignal \/ CloseRelease
-----------------------------------------------------------------------------
(* Shutdown: the body of stopOnce.  Worker.Shutdown is skipped for a ring  *)
(* whose admission has been closed.                                        *)

shutUnchanged == <<drainFlag, started, drain, admVars, slotVars, sub,
                   job, sched, reqVars, closer, cpc, op, ret, mgrVars>>

ShutFlag ==
  /\ shut = "none"
  /\ (\E c \in Callers : cpc[c] = "shut") \/ (\E m \in Managers : mpc[m] = "shut")
  /\ stopFlag' = TRUE
  /\ shut' = "flagged"
  /\ UNCHANGED <<quit, workerVars, shutUnchanged>>

(* A broker's Shutdown closes its transport.  The ring's is stopIntake,    *)
(* which fails at once when intake is closed, and a wait until drained.    *)
ShutWorker ==
  /\ shut = "flagged"
  /\ IF InMemory /\ (drainFlag \/ closed)
     THEN shut' = "quit" /\ UNCHANGED workerVars
     ELSE /\ shut' = IF InMemory THEN "stopping" ELSE "quit"
          /\ closed' = TRUE
          /\ UNCHANGED <<backlog, drained>>
  /\ UNCHANGED <<stopFlag, quit, shutUnchanged>>

ShutSignal ==
  /\ shut = "stopping"
  /\ IF backlog = << >> THEN Mem!SignalDrained ELSE UNCHANGED workerVars
  /\ shut' = "exitWait"
  /\ UNCHANGED <<stopFlag, quit, shutUnchanged>>

(* Mutant: the ring is not waited for. *)
WorkerStoppedHasty == shut \in {"quit", "exitWait"}

WorkerStopped == shut = "quit" \/ (shut = "exitWait" /\ drained)

ShutQuit ==
  /\ WorkerStopped
  /\ quit' = TRUE
  /\ shut' = "done"
  /\ UNCHANGED <<stopFlag, workerVars, shutUnchanged>>

Shut == ShutFlag \/ ShutWorker \/ ShutSignal \/ ShutQuit

-----------------------------------------------------------------------------
(* The callers of Start, Shutdown, Release, CloseAdmission and             *)
(* ReleaseContext *)

callUnchanged == <<stopFlag, drainFlag, quit, drain, admVars, ready,
                   workerCount, activeWorkers, gateVars, workerVars, sub, job,
                   reqVars, closer, shut, mgrVars>>

Goto(c, stage) ==
  /\ cpc' = [cpc EXCEPT ![c] = stage]
  /\ UNCHANGED <<op, ret, started, sched, scheduling, callUnchanged>>

Return(c, r) ==
  /\ cpc' = [cpc EXCEPT ![c] = "idle"]
  /\ op' = [op EXCEPT ![c] = "none"]
  /\ ret' = [ret EXCEPT ![c] = r]
  /\ UNCHANGED <<started, sched, scheduling, callUnchanged>>

AfterStart(o) == CASE o = "Start"          -> "return"
                   [] o = "ReleaseContext" -> "close"
                   [] OTHER                -> "shut"

(* Mutant: an unstarted ring is not started. *)
NeedsStartNever == FALSE

(* Both releases first start a ring that has not been started. *)
NeedsStart == InMemory /\ ~started

FirstStage(o) ==
  CASE o = "Start"          -> "startCheck"
    [] o = "Shutdown"       -> "shut"
    [] o = "CloseAdmission" -> "close"
    [] OTHER                -> IF NeedsStart THEN "startCheck"
                               ELSE AfterStart(o)

Call(c, o) ==
  /\ cpc[c] = "idle"
  /\ op' = [op EXCEPT ![c] = o]
  /\ cpc' = [cpc EXCEPT ![c] = FirstStage(o)]
  /\ ret' = [ret EXCEPT ![c] = "none"]
  /\ UNCHANGED <<started, sched, scheduling, callUnchanged>>

(* Start reads the stop flag and the worker count before startOnce. *)
StartCheck(c) ==
  /\ cpc[c] = "startCheck"
  /\ Goto(c, IF stopFlag \/ workerCount = 0 THEN AfterStart(op[c])
             ELSE "startOnce")

StartOnce(c) ==
  /\ cpc[c] = "startOnce"
  /\ started' = TRUE
  /\ IF started THEN UNCHANGED <<sched, scheduling>> ELSE Turn
  /\ cpc' = [cpc EXCEPT ![c] = AfterStart(op[c])]
  /\ UNCHANGED <<op, ret, callUnchanged>>

(* routineGroup: the scheduler, the request goroutine, the work wrappers.  *)
(* Start runs once, so the group has a single generation and its idle      *)
(* channel is closed exactly when nothing of it runs.                      *)
Wrapped(t) == job[t] \in {"running", "settled", "panicked", "end"}

GroupIdle ==
  /\ sched \in {"off", "exited"}
  /\ req = "none"
  /\ \A t \in Tasks : ~Wrapped(t)

CloseReturns(c) ==
  /\ cpc[c] = "close" /\ closer = "done"
  /\ Goto(c, IF op[c] = "CloseAdmission" THEN "return" ELSE "admWait")

(* Mutant: the ring's exit is not waited for. *)
AfterAdmissionsNoExit == "groupWait"

(* Mutant: nor is the routine group. *)
AfterAdmissionsNoGroup == "shut"

AfterAdmissions == IF InMemory THEN "exitWait" ELSE "groupWait"

(* drainContext *)
DrainWaits(c) ==
  \/ /\ cpc[c] = "admWait" /\ admissionsDone = "closed"
     /\ Goto(c, AfterAdmissions)
  \/ /\ cpc[c] = "exitWait" /\ drained
     /\ Goto(c, "groupWait")
  \/ /\ cpc[c] = "groupWait" /\ GroupIdle
     /\ Goto(c, "shut")

ShutReturns(c) ==
  /\ cpc[c] = "shut" /\ shut = "done"
  /\ Goto(c, IF op[c] = "Shutdown" THEN "return" ELSE "finalWait")

(* The methods without a final wait return; for ReleaseContext, ret means  *)
(* that the context did not expire, whatever Worker.Shutdown returned.     *)
Returns(c) ==
  \/ cpc[c] = "return" /\ Return(c, "none")
  \/ cpc[c] = "finalWait" /\ GroupIdle /\ Return(c, op[c])

(* The context of ReleaseContext expires at one of its waits. *)
Expire(c) ==
  /\ op[c] = "ReleaseContext"
  /\ cpc[c] \in {"admWait", "exitWait", "groupWait", "finalWait"}
  /\ Return(c, "expired")

Caller(c) ==
  \/ StartCheck(c) \/ StartOnce(c) \/ CloseReturns(c)
  \/ DrainWaits(c) \/ ShutReturns(c) \/ Returns(c)

-----------------------------------------------------------------------------
(* Execute and ApplyDesiredState: a transition of the gate, the wait for   *)
(* its safe boundary, then a schedule() or a Shutdown.                     *)

mgrUnchanged == <<flagVars, admVars, ready, workerCount, activeWorkers,
                  workerVars, sub, job, sched, reqVars, apiVars>>

(* Transitions are serialised by applyMu. *)
Applying == \E m \in Managers : mpc[m] = "wait"

(* A transition that is complete at once does not look at its deadline. *)
MgrApply(m, s) ==
  /\ mpc[m] = "idle" /\ scheduling[m] = "no"
  /\ ~Applying
  /\ G!SetState(s)
  /\ mpc' = [mpc EXCEPT ![m] = IF G!Complete(s) THEN "after" ELSE "wait"]
  /\ want' = [want EXCEPT ![m] = s]
  /\ acked' = G!Complete(s)
  /\ UNCHANGED <<scheduling, mgrUnchanged>>

MgrComplete(m) ==
  /\ mpc[m] = "wait"
  /\ G!Complete(want[m])
  /\ mpc' = [mpc EXCEPT ![m] = "after"]
  /\ acked' = TRUE
  /\ UNCHANGED <<scheduling, gateVars, want, mgrUnchanged>>

(* The deadline or the caller's context ends the wait. *)
MgrTimeout(m) ==
  /\ mpc[m] = "wait"
  /\ mpc' = [mpc EXCEPT ![m] = "idle"]
  /\ UNCHANGED <<scheduling, gateVars, want, acked, mgrUnchanged>>

(* Mutant: a resumed queue is not scheduled. *)
ResumesNever(s) == FALSE

Resumes(s) == s = "active"

(* What follows a transition to s: Execute goes by its command,            *)
(* ApplyDesiredState by a new snapshot of the gate.                        *)
Follow(m, s) ==
  /\ mpc' = [mpc EXCEPT ![m] = IF s = "terminating" /\ G!Complete(s)
                               THEN "shut" ELSE "idle"]
  /\ IF Resumes(s) THEN CallSchedule(m) ELSE UNCHANGED scheduling
  /\ UNCHANGED <<gateVars, want, acked, mgrUnchanged>>

MgrAfter(m) ==
  /\ mpc[m] = "after"
  /\ \E s \in {want[m], gateState} : Follow(m, s)

(* A revision that is already recorded makes no transition. *)
MgrRepeat(m) ==
  /\ mpc[m] = "idle" /\ scheduling[m] = "no"
  /\ ~Applying
  /\ Follow(m, gateState)

MgrShutReturns(m) ==
  /\ mpc[m] = "shut" /\ shut = "done"
  /\ mpc' = [mpc EXCEPT ![m] = "idle"]
  /\ UNCHANGED <<scheduling, gateVars, want, acked, mgrUnchanged>>

Manager(m) == MgrComplete(m) \/ MgrAfter(m) \/ MgrShutReturns(m)

-----------------------------------------------------------------------------
Environment ==
  \/ \E t \in Tasks : BeginSubmit(t)
  \/ \E n \in Updates : UpdateWorkerCount(n)
  \/ \E c \in Callers : Expire(c) \/ \E o \in Ops : Call(c, o)
  \/ \E m \in Managers : \/ MgrTimeout(m) \/ MgrRepeat(m)
                         \/ \E s \in Wanted : MgrApply(m, s)

Next ==
  \/ Environment
  \/ \E a \in Agents : ScheduleCheck(a) \/ ScheduleReserve(a)
  \/ \E t \in Tasks : Submitter(t) \/ Work(t)
  \/ Scheduler \/ Requester \/ Close \/ Shut
  \/ \E c \in Callers : Caller(c)
  \/ \E m \in Managers : Manager(m)

Spec == Init /\ [][Next]_vars

(* A goroutine that can run does; a handler returns or panics, a broker's  *)
(* Request returns.  Strong fairness where q.Mutex, which starves no one,  *)
(* is waited for, and for the choices of select, which are uniform: the    *)
(* scheduler's, and that of a closed broker's Request.  Nothing obliges    *)
(* the environment.                                                        *)
Fairness ==
  /\ \A a \in Agents : SF_vars(ScheduleCheck(a)) /\ WF_vars(ScheduleReserve(a))
  /\ \A t \in Tasks : WF_vars(Submitter(t)) /\ WF_vars(Work(t))
  /\ SF_vars(Scheduler) /\ SF_vars(SchedStop)
  /\ WF_vars(Requester) /\ SF_vars(ReqClosed) /\ WF_vars(Close) /\ WF_vars(Shut)
  /\ \A c \in Callers : WF_vars(Caller(c))
  /\ \A m \in Managers : WF_vars(Manager(m))

FairSpec == Spec /\ Fairness
-----------------------------------------------------------------------------
(* Properties *)

Fetched(t) == job[t] = "fetched" \/ Wrapped(t)

(* The delivery of t has been taken from the worker and not yet settled. *)
Unsettled(t) == job[t] \in {"fetched", "running", "panicked"}

(* endAdmission and CloseAdmission never close admissionsDone twice, which *)
(* would panic: no submission begins once the drain flag is up, so the     *)
(* count reaches zero once.                                                *)
AdmissionsDoneOnce == admissionsDone # "panic"

(* admissionsDone is closed only when no accepted submission is still      *)
(* publishing: the wait of ReleaseContext for publishes is sound.          *)
PublishesDone ==
  admissionsDone = "closed" => \A t \in Tasks : sub[t] \notin {"begun", "stored"}

(* No more handlers run than the highest worker count allows, although the *)
(* capacity was checked before the request and slots are freed meanwhile.  *)
HandlersBounded ==
  \E n \in {0, InitialCount} \cup Updates :
    Cardinality({t \in Tasks : job[t] = "running"}) <= n

(* A ReleaseContext that returns without expiring has drained a ring: every*)
(* accepted submission has been handled and its wrapper has ended.         *)
GracefulRelease ==
  InMemory =>
    \A c \in Callers : ret[c] = "ReleaseContext" =>
      \A t \in Tasks : sub[t] = "accepted" => job[t] = "done"

(* When every release is graceful or follows an acknowledged termination,  *)
(* the transport of a broker worker is closed only when every delivery     *)
(* taken from it has been settled and, unless terminating, no publish is   *)
(* in flight.                                                              *)
TransportOutlivesWork ==
  ~InMemory /\ Ops \cap {"Shutdown", "Release"} = {} /\ closed =>
    /\ \A t \in Tasks : ~Unsettled(t)
    /\ gateState # "terminating" => \A t \in Tasks : sub[t] # "begun"

(* The gate's counters are exact: every reservation belongs to the ready   *)
(* token, to the scheduler that took it or to an outstanding request, and  *)
(* every job to a fetched task, until a shutdown abandons the scheduler.   *)
Holders == (IF ready THEN 1 ELSE 0) + (IF sched = "taken" THEN 1 ELSE 0)
           + (IF req = "call" THEN 1 ELSE 0)

GateExact ==
  HasLifecycle => /\ reserved >= Holders
                  /\ ~quit => reserved = Holders
                  /\ jobs = Cardinality({t \in Tasks : Fetched(t)})

(* Once a pause, drain or termination has been acknowledged, no request to *)
(* the backend is outstanding or begins until the worker is resumed; after *)
(* a drain nothing taken from the backend is unsettled either.             *)
BoundaryHolds ==
  HasLifecycle /\ acked /\ gateState # "active" =>
    /\ req # "call" /\ ~ready
    /\ gateState # "paused" => \A t \in Tasks : ~Fetched(t)

(* A Shutdown or Release ends every goroutine of the queue. *)
QuitStops == quit ~> GroupIdle

(* Release and Shutdown return. *)
ReleaseEnds ==
  \A c \in Callers : op[c] = "Release" ~> ret[c] = "Release"

(* A started ring handles every accepted task, also when a release or a    *)
(* shutdown comes in between.                                              *)
AcceptedHandled ==
  \A t \in Tasks : sub[t] = "accepted" /\ started ~> job[t] = "done"

(* No wake-up is lost: while the queue is running, active and has a free   *)
(* slot, it keeps asking the backend.                                      *)
KeepsRequesting ==
  started ~> \/ req = "call" \/ quit \/ drainFlag
             \/ ~HasWorkerCapacity \/ gateState # "active"

(* Shutdown closes quit only when nothing is left in the ring's buffer. *)
ShutdownDrains == InMemory /\ quit => backlog = << >>

(* A graceful withdrawal leaves no reservation of the gate behind when the *)
(* scheduler has exited.                                                   *)
ReservationWithdrawn ==
  /\ HasLifecycle /\ closer = "done" /\ ~quit
  /\ sched = "exited" /\ \A a \in Agents : scheduling[a] = "no"
  => reserved = 0
=============================================================================
