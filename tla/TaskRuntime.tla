---------------------------- MODULE TaskRuntime ----------------------------
(***************************************************************************)
(* One AgentHost with its RuntimeTaskController and MaaFrameworkRuntime.   *)
(*                                                                         *)
(* Three parties run concurrently.  The command thread of the foreground   *)
(* service calls host.start, host.run and host.stop (all synchronized on   *)
(* the host, so one call at a time).  The controller's executor thread     *)
(* runs one accepted task after another.  MaaFramework's own threads       *)
(* complete the native jobs the other two post.  A step is the code        *)
(* between two points where another party can interfere; a                 *)
(* synchronized(stateLock) block holds nothing blocking and is one step,   *)
(* while taskLock is held across steps and is a variable.                  *)
(***************************************************************************)
EXTENDS Naturals, Sequences

CONSTANT MaxRuns   \* bound on the accepted tasks

ASSUME MaxRunsAssumption == MaxRuns \in Nat

VARIABLES
  cpc,        \* where the command thread is
  attached,   \* AgentHost.taskController is not null
  hostAnswer, \* what the last host.start did
  core,       \* the native core the next start loads
  handles,    \* native objects created and not yet destroyed
  ready, stopping, stopId, taskLock,         \* MaaFrameworkRuntime's fields
  running, future, queued, down, accepted,   \* RuntimeTaskController's fields
  tpc, cur, interrupted, outcome,            \* the executor thread
  job, stopJob, alive,                       \* MaaFramework and the agent process
  announced, answered                        \* runs whose Started, whose outcome, was emitted

cvars == <<cpc, attached, hostAnswer, core>>
runtimeVars == <<handles, ready, stopping, stopId, taskLock>>
controllerVars == <<running, future, queued, down, accepted>>
threadVars == <<tpc, cur, interrupted, outcome>>
nativeVars == <<job, stopJob, alive>>
eventVars == <<announced, answered>>

vars == <<cvars, runtimeVars, controllerVars, threadVars, nativeVars, eventVars>>

-----------------------------------------------------------------------------
(* The native objects, in the order start creates them and cleanup destroys *)
(* them.  "callbacks" is the JNA callback table the controller calls into.   *)

Handles == {"resource", "callbacks", "control", "client", "process", "tasker"}
BuildOrder == <<"resource", "callbacks", "control", "client", "process", "tasker">>
BugTeardownOrder == <<"tasker", "client", "process", "callbacks", "control", "resource">>

TeardownOrder == <<"tasker", "client", "process", "control", "callbacks", "resource">>

\* What an object refers to while it exists.
Needs == [h \in Handles |->
            CASE h = "tasker" -> {"resource", "control"}
              [] h = "client" -> {"resource"}
              [] h = "control" -> {"callbacks"}
              [] OTHER -> {}]

Runs == 1 .. MaxRuns
NoRun == 0

Answers == {"none", "true", "false", "failed", "refused"}
CommandPoints == {"idle", "build", "unwind", "cancel", "post", "lock", "clean", "shutdown", "stopped"}
\* host.stop has been called.
StopPoints == {"cancel", "post", "lock", "clean", "shutdown", "stopped"}
TaskPoints == {"idle", "announce", "check", "enter", "prepare", "post", "wait", "clear", "gate", "report"}
WorkPoints == {"announce", "check", "enter", "prepare", "post", "wait"}
Outcomes == {"none", "success", "failure", "error"}
JobStates == {"none", "pending", "running", "succeeded", "failed"}

-----------------------------------------------------------------------------

Init ==
  /\ cpc = "idle" /\ attached = FALSE /\ hostAnswer = "none" /\ core \in {"packaged", "staged"}
  /\ handles = {} /\ ready = FALSE /\ stopping = FALSE /\ stopId = FALSE /\ taskLock = "free"
  /\ running = FALSE /\ future = NoRun /\ queued = NoRun /\ down = FALSE /\ accepted = 0
  /\ tpc = "idle" /\ cur = NoRun /\ interrupted = FALSE /\ outcome = "none"
  /\ job = "none" /\ stopJob = "none" /\ alive = FALSE
  /\ announced = {} /\ answered = {}

-----------------------------------------------------------------------------
(* The command thread: AgentHost.start and MaaFrameworkRuntime.start.       *)

\* A second start of an attached host only reports the runtime's state.
StartAttached ==
  /\ cpc = "idle" /\ attached
  /\ hostAnswer' = IF ready /\ ~stopping THEN "true" ELSE "false"
  /\ UNCHANGED <<cpc, attached, core, runtimeVars, controllerVars, threadVars, nativeVars, eventVars>>

\* No resource version is active.
StartWithoutResources ==
  /\ cpc \in {"idle", "stopped"} /\ ~attached
  /\ hostAnswer' = "false"
  /\ UNCHANGED <<cpc, attached, core, runtimeVars, controllerVars, threadVars, nativeVars, eventVars>>

\* check(!ready && !stopping), under taskLock, outside the try block.
StartRefused ==
  /\ cpc \in {"idle", "stopped"} /\ ~attached
  /\ taskLock = "free"
  /\ ready \/ stopping
  /\ hostAnswer' = "refused"
  /\ UNCHANGED <<cpc, attached, core, runtimeVars, controllerVars, threadVars, nativeVars, eventVars>>

StartBegin ==
  /\ cpc \in {"idle", "stopped"} /\ ~attached
  /\ taskLock = "free"
  /\ ~ready /\ ~stopping
  /\ cpc' = "build"
  /\ taskLock' = "cmd"
  /\ UNCHANGED <<attached, hostAnswer, core, handles, ready, stopping, stopId,
                 controllerVars, threadVars, nativeVars, eventVars>>

\* Create the next object of BuildOrder.
StartStep ==
  /\ cpc = "build"
  /\ \E i \in 1 .. Len(BuildOrder) :
       /\ handles = {BuildOrder[j] : j \in 1 .. i - 1}
       /\ handles' = handles \cup {BuildOrder[i]}
       /\ alive' = (alive \/ BuildOrder[i] = "process")
  /\ UNCHANGED <<cvars, ready, stopping, stopId, taskLock, controllerVars, threadVars,
                 job, stopJob, eventVars>>

StartDone ==
  /\ cpc = "build" /\ handles = Handles
  /\ ready' = TRUE
  /\ taskLock' = "free"
  /\ cpc' = "idle" /\ attached' = TRUE /\ hostAnswer' = "true"
  /\ UNCHANGED <<core, handles, stopping, stopId, controllerVars, threadVars, nativeVars, eventVars>>

\* cleanup()'s entry: ready is cleared and, when no stop job was posted yet,
\* one is posted to an existing tasker.
EnterCleanup ==
  /\ ready' = FALSE
  /\ stopId' = ("tasker" \in handles)
  /\ stopJob' = IF "tasker" \in handles /\ ~stopId THEN "pending" ELSE stopJob

\* A failed check at any point of start: roll the core back and clean up.
StartFails ==
  /\ cpc = "build"
  /\ cpc' = "unwind"
  /\ core' = "packaged"
  /\ EnterCleanup
  /\ UNCHANGED <<attached, hostAnswer, handles, stopping, taskLock, controllerVars, threadVars,
                 job, alive, eventVars>>

BugDestroy(h) ==
  /\ handles' = handles \ {h}
  /\ stopId' = (stopId /\ h # "tasker")
  /\ stopJob' = stopJob
  /\ alive' = (alive /\ h # "process")

\* The next object to destroy.  The tasker is destroyed only once the stop
\* job has completed.
Destroy(h) ==
  /\ h = "tasker" => stopJob = "done"
  /\ handles' = handles \ {h}
  /\ stopId' = (stopId /\ h # "tasker")
  /\ stopJob' = IF h = "tasker" THEN "none" ELSE stopJob
  /\ alive' = (alive /\ h # "process")

CleanupStep ==
  /\ cpc \in {"unwind", "clean"}
  /\ \E i \in 1 .. Len(TeardownOrder) :
       /\ TeardownOrder[i] \in handles
       /\ \A j \in 1 .. i - 1 : TeardownOrder[j] \notin handles
       /\ Destroy(TeardownOrder[i])
  /\ UNCHANGED <<cvars, ready, stopping, taskLock, controllerVars, threadVars, job, eventVars>>

\* start rethrows: the host stays without a controller.
UnwindDone ==
  /\ cpc = "unwind" /\ handles = {}
  /\ cpc' = "idle" /\ hostAnswer' = "failed"
  /\ taskLock' = "free"
  /\ UNCHANGED <<attached, core, handles, ready, stopping, stopId, controllerVars, threadVars,
                 nativeVars, eventVars>>

-----------------------------------------------------------------------------
(* The command thread: AgentHost.run and RuntimeTaskController.start.       *)

BugAccepts == attached /\ ~down /\ ready /\ ~stopping

Accepts == attached /\ ~down /\ ~running /\ ready /\ ~stopping

\* submit hands the new future to the executor's queue.  A call that is not
\* accepted returns false and changes nothing.
RunAccepted ==
  /\ cpc = "idle" /\ Accepts /\ accepted < MaxRuns
  /\ accepted' = accepted + 1
  /\ running' = TRUE
  /\ future' = accepted + 1
  /\ queued' = accepted + 1
  /\ UNCHANGED <<cvars, runtimeVars, down, threadVars, nativeVars, eventVars>>

-----------------------------------------------------------------------------
(* The command thread: AgentHost.stop, RuntimeTaskController.stop and       *)
(* MaaFrameworkRuntime.stop.                                                *)

\* Without a task controller the host stops the runtime directly.
StopBegin ==
  /\ cpc = "idle"
  /\ cpc' = IF attached THEN "cancel" ELSE "post"
  /\ UNCHANGED <<attached, hostAnswer, core, runtimeVars, controllerVars, threadVars, nativeVars, eventVars>>

\* future?.cancel(true): a queued future never runs, a running one is interrupted.
StopCancel ==
  /\ cpc = "cancel"
  /\ cpc' = "post"
  /\ queued' = NoRun
  /\ interrupted' = (interrupted \/ (tpc # "idle" /\ cur = future))
  /\ UNCHANGED <<attached, hostAnswer, core, runtimeVars, running, future, down, accepted,
                 tpc, cur, outcome, nativeVars, eventVars>>

BugStopPost ==
  /\ cpc = "post"
  /\ cpc' = "lock"
  /\ stopping' = TRUE
  /\ UNCHANGED <<attached, hostAnswer, core, handles, ready, stopId, taskLock, controllerVars,
                 threadVars, nativeVars, eventVars>>

\* synchronized(stateLock): no task is posted between the flag and the stop job.
StopPost ==
  /\ cpc = "post"
  /\ cpc' = "lock"
  /\ stopping' = TRUE
  /\ stopId' = (stopId \/ ready)
  /\ stopJob' = IF ready THEN "pending" ELSE stopJob
  /\ UNCHANGED <<attached, hostAnswer, core, handles, ready, taskLock, controllerVars, threadVars,
                 job, alive, eventVars>>

StopLock ==
  /\ cpc = "lock" /\ taskLock = "free"
  /\ cpc' = "clean"
  /\ taskLock' = "cmd"
  /\ EnterCleanup
  /\ UNCHANGED <<attached, hostAnswer, core, handles, stopping, controllerVars, threadVars,
                 job, alive, eventVars>>

CleanDone ==
  /\ cpc = "clean" /\ handles = {}
  /\ cpc' = "shutdown"
  /\ taskLock' = "free"
  /\ UNCHANGED <<attached, hostAnswer, core, handles, ready, stopping, stopId, controllerVars,
                 threadVars, nativeVars, eventVars>>

\* finally: shutdownNow drops the queue and interrupts the worker.  There is
\* no executor to shut down when the host has no task controller.
StopDone ==
  /\ cpc = "shutdown"
  /\ cpc' = "stopped"
  /\ down' = (down \/ attached)
  /\ interrupted' = (interrupted \/ (attached /\ tpc # "idle"))
  /\ attached' = FALSE
  /\ queued' = NoRun /\ future' = NoRun
  /\ running' = FALSE
  /\ UNCHANGED <<hostAnswer, core, runtimeVars, accepted, tpc, cur, outcome, nativeVars, eventVars>>

-----------------------------------------------------------------------------
(* The executor thread: the task body submitted by RuntimeTaskController.   *)

BugFail == outcome' = "none"

Fail == outcome' = "error"

\* The worker clears a leftover interrupt before it runs the next future.
TaskPick ==
  /\ tpc = "idle" /\ queued # NoRun
  /\ tpc' = "announce"
  /\ cur' = queued /\ queued' = NoRun
  /\ interrupted' = FALSE /\ outcome' = "none"
  /\ UNCHANGED <<cvars, runtimeVars, running, future, down, accepted, nativeVars, eventVars>>

TaskAnnounce ==
  /\ tpc = "announce"
  /\ announced' = announced \cup {cur}
  /\ tpc' = "check"
  /\ UNCHANGED <<cvars, runtimeVars, controllerVars, cur, interrupted, outcome, nativeVars, answered>>

TaskCheck ==
  /\ tpc = "check"
  /\ tpc' = IF interrupted THEN "clear" ELSE "enter"
  /\ UNCHANGED <<cvars, runtimeVars, controllerVars, cur, interrupted, outcome, nativeVars, eventVars>>

\* runPipeline takes taskLock and checks the state and the agent process.
TaskEnter ==
  /\ tpc = "enter" /\ taskLock = "free"
  /\ \/ /\ ready /\ ~stopping /\ alive
        /\ taskLock' = "task" /\ tpc' = "prepare"
        /\ UNCHANGED outcome
     \/ /\ ~(ready /\ ~stopping /\ alive)
        /\ Fail /\ tpc' = "clear"
        /\ UNCHANGED taskLock
  /\ UNCHANGED <<cvars, handles, ready, stopping, stopId, controllerVars, cur, interrupted,
                 nativeVars, eventVars>>

\* Looking up the task and its options may throw.
TaskPrepare ==
  /\ tpc = "prepare"
  /\ \/ tpc' = "post" /\ UNCHANGED <<outcome, taskLock>>
     \/ Fail /\ tpc' = "clear" /\ taskLock' = "free"
  /\ UNCHANGED <<cvars, handles, ready, stopping, stopId, controllerVars, cur, interrupted,
                 nativeVars, eventVars>>

BugTaskPost ==
  /\ tpc = "post"
  /\ \/ /\ job' = "pending" /\ tpc' = "wait"
        /\ UNCHANGED <<outcome, taskLock>>
     \/ /\ Fail /\ tpc' = "clear" /\ taskLock' = "free"
        /\ UNCHANGED job
  /\ UNCHANGED <<cvars, handles, ready, stopping, stopId, controllerVars, cur, interrupted,
                 stopJob, alive, eventVars>>

\* synchronized(stateLock): check(!stopping), then MaaTaskerPostTask, which
\* returns 0 when it refuses the task.
TaskPost ==
  /\ tpc = "post"
  /\ \/ /\ ~stopping
        /\ job' = "pending" /\ tpc' = "wait"
        /\ UNCHANGED <<outcome, taskLock>>
     \/ /\ Fail /\ tpc' = "clear" /\ taskLock' = "free"
        /\ UNCHANGED job
  /\ UNCHANGED <<cvars, handles, ready, stopping, stopId, controllerVars, cur, interrupted,
                 stopJob, alive, eventVars>>

\* MaaTaskerWait returned; the result is read with stopping, and taskLock released.
TaskWait ==
  /\ tpc = "wait" /\ job \in {"succeeded", "failed"}
  /\ outcome' = IF job = "succeeded" /\ ~stopping THEN "success" ELSE "failure"
  /\ job' = "none"
  /\ taskLock' = "free"
  /\ tpc' = "clear"
  /\ UNCHANGED <<cvars, handles, ready, stopping, stopId, controllerVars, cur, interrupted,
                 stopJob, alive, eventVars>>

\* finally: the flag is cleared before the outcome is emitted.
TaskClear ==
  /\ tpc = "clear"
  /\ running' = FALSE
  /\ tpc' = "gate"
  /\ UNCHANGED <<cvars, runtimeVars, future, queued, down, accepted, cur, interrupted, outcome,
                 nativeVars, eventVars>>

TaskGate ==
  /\ tpc = "gate"
  /\ tpc' = IF ~interrupted /\ ~down /\ outcome # "none" THEN "report" ELSE "idle"
  /\ UNCHANGED <<cvars, runtimeVars, controllerVars, cur, interrupted, outcome, nativeVars, eventVars>>

TaskReport ==
  /\ tpc = "report"
  /\ answered' = answered \cup {cur}
  /\ tpc' = "idle"
  /\ UNCHANGED <<cvars, runtimeVars, controllerVars, cur, interrupted, outcome, nativeVars, announced>>

-----------------------------------------------------------------------------
(* MaaFramework's job runner and the Go agent process, both external.  A    *)
(* pending stop job aborts the task job before it and then completes.       *)

JobBegins ==
  /\ job = "pending" /\ stopJob # "pending"
  /\ job' = "running"
  /\ UNCHANGED <<cvars, runtimeVars, controllerVars, threadVars, stopJob, alive, eventVars>>

JobEnds ==
  /\ job = "running"
  /\ job' \in {"succeeded", "failed"}
  /\ UNCHANGED <<cvars, runtimeVars, controllerVars, threadVars, stopJob, alive, eventVars>>

JobAborts ==
  /\ job \in {"pending", "running"} /\ stopJob = "pending"
  /\ job' = "failed"
  /\ UNCHANGED <<cvars, runtimeVars, controllerVars, threadVars, stopJob, alive, eventVars>>

StopJobDone ==
  /\ stopJob = "pending" /\ job \notin {"pending", "running"}
  /\ stopJob' = "done"
  /\ UNCHANGED <<cvars, runtimeVars, controllerVars, threadVars, job, alive, eventVars>>

AgentDies ==
  /\ alive
  /\ alive' = FALSE
  /\ UNCHANGED <<cvars, runtimeVars, controllerVars, threadVars, job, stopJob, eventVars>>

-----------------------------------------------------------------------------

CommandStep ==
  \/ StartStep \/ StartDone \/ CleanupStep \/ UnwindDone
  \/ StopCancel \/ StopPost \/ StopLock \/ CleanDone \/ StopDone

Command ==
  \/ StartAttached \/ StartWithoutResources \/ StartRefused \/ StartBegin \/ StartFails
  \/ RunAccepted \/ StopBegin

TaskStep ==
  \/ TaskPick \/ TaskAnnounce \/ TaskCheck \/ TaskEnter \/ TaskPrepare \/ TaskPost
  \/ TaskWait \/ TaskClear \/ TaskGate \/ TaskReport

NativeStep == JobBegins \/ JobAborts \/ StopJobDone

\* The session is over: a stopped host, an idle worker, no job left.
Finished ==
  /\ cpc = "stopped" /\ tpc = "idle"
  /\ UNCHANGED vars

Next == Command \/ CommandStep \/ TaskStep \/ NativeStep \/ JobEnds \/ AgentDies \/ Finished

\* Both threads are scheduled, and MaaFramework completes what a stop asks
\* for.  Nothing says that a game task ends by itself (JobEnds is not fair),
\* that a start succeeds or that a caller calls anything.
Fairness ==
  /\ WF_vars(CommandStep)
  /\ WF_vars(TaskStep)
  /\ WF_vars(NativeStep)

Spec == Init /\ [][Next]_vars /\ Fairness

-----------------------------------------------------------------------------
(* Properties.                                                              *)

TypeOK ==
  /\ cpc \in CommandPoints /\ attached \in BOOLEAN /\ hostAnswer \in Answers
  /\ core \in {"packaged", "staged"}
  /\ handles \subseteq Handles
  /\ ready \in BOOLEAN /\ stopping \in BOOLEAN /\ stopId \in BOOLEAN
  /\ taskLock \in {"free", "cmd", "task"}
  /\ running \in BOOLEAN /\ down \in BOOLEAN
  /\ accepted \in 0 .. MaxRuns
  /\ future \in 0 .. MaxRuns /\ queued \in 0 .. MaxRuns /\ cur \in 0 .. MaxRuns
  /\ tpc \in TaskPoints /\ interrupted \in BOOLEAN /\ outcome \in Outcomes
  /\ job \in JobStates /\ stopJob \in {"none", "pending", "done"} /\ alive \in BOOLEAN
  /\ announced \subseteq Runs /\ answered \subseteq Runs

\* Native code never works on a destroyed tasker: not the task job, not the
\* stop job (the comment in cleanup: destroying before the stop job completed
\* frees the RuntimeCache it is using), and not the thread in MaaTaskerWait.
NativeUseIsLive ==
  /\ job # "none" \/ stopJob # "none" => "tasker" \in handles
  /\ tpc \in {"prepare", "post", "wait"} => handles = Handles
  /\ cpc \in {"post", "lock"} /\ ready => handles = Handles

\* No object outlives one it refers to, whichever step of start failed
\* (FrameworkController: callbacks stay referenced until MaaControllerDestroy).
DependenciesLive == \A h \in handles : Needs[h] \subseteq handles

\* While a task body is between its acceptance and its finally block the
\* controller refuses another one, and the outcome of a run is emitted only
\* when the controller can accept the next (the queue of saved tasks in
\* AppModel starts the next task from the Finished event).
BusyWhileWorking ==
  /\ tpc \in WorkPoints /\ ~down => running
  /\ running /\ cur \in answered => cur # accepted

\* Events of successive runs never interleave: a run is announced only after
\* every run announced before it was answered, unless the answer was
\* suppressed because the session is being stopped.
AnnouncedInTurn ==
  [][announced' # announced => announced \subseteq answered \/ cpc \in StopPoints]_vars

\* host.stop returns, whatever the task and MaaFramework were doing: the two
\* locks and the two kinds of native job never wait for each other in a circle.
StopTerminates == (cpc = "cancel") ~> (cpc = "stopped")

\* The runtime implements a session.
Session == INSTANCE TaskSession WITH
  phase <- IF cpc \in {"shutdown", "stopped"} THEN "closed"
           ELSE IF stopping THEN "closing"
           ELSE IF ready THEN "open" ELSE "new",
  executing <- job \in {"pending", "running"}

ImplementsSession == Session!SessionSpec
=============================================================================
