---------------------------- MODULE AgentService ----------------------------
(***************************************************************************)
(* The app around a session: the AppModel behind the screen, the alarms of *)
(* ScheduleReceiver, the foreground service with its single command        *)
(* thread, and the status events that travel back to the screen.           *)
(*                                                                         *)
(* The main thread runs the user's actions, the alarms and the handling of *)
(* one status event at a time.  Every service instance Android creates has *)
(* a command thread of its own that works off a FIFO of commands; the old  *)
(* instance may still be releasing its agent while a new one starts.  An   *)
(* agent (AgentHost, task controller and runtime) is reduced to what       *)
(* TaskRuntime establishes of it: a session opens once, works on one task  *)
(* at a time, and its stop returns when nothing executes any more, while   *)
(* its task thread may still have an event to emit.                        *)
(*                                                                         *)
(* Android numbers the commands it delivers.  A service instance and a     *)
(* session are named by the command that brought them about.               *)
(***************************************************************************)
EXTENDS Naturals, Sequences

CONSTANTS
  Configs,   \* controller mode, channel and background flag, as one value
  MaxRuns,   \* bound on the tasks the user asks for
  MaxAlarms, \* bound on the alarms
  MaxStops   \* bound on the stops the user asks for

None == 0

ASSUME ConstantsAssumption ==
  /\ None \notin Configs
  /\ MaxRuns \in Nat /\ MaxAlarms \in Nat /\ MaxStops \in Nat

VARIABLES
  running, status, queue, inbox,      \* AppModel: flag, status line, pendingTaskQueue, posted events
  cfg, asked, alarms, stops,          \* the stored preferences; what was asked for so far
  svc, issued,                        \* Android: the started instance, the last start id
  cmds, wpc, then, sel, label, agent, \* per instance: queue, command thread, fields
  phase, owner,                       \* per session: its state and its service
  busy, queued, tpc, cut, outcome,    \* per session: the task controller and its thread
  stopped, rejected                   \* instances that published Stopped, that refused a task as busy

uiVars == <<running, status, queue, inbox>>
userVars == <<cfg, asked, alarms, stops>>
systemVars == <<svc, issued>>
serviceVars == <<wpc, then, sel, label, agent>>
sessionVars == <<phase, owner>>
threadVars == <<busy, queued, tpc, cut, outcome>>
history == <<stopped, rejected>>

vars == <<uiVars, userVars, systemVars, cmds, serviceVars, sessionVars, threadVars, history>>

Ids == 1 .. MaxRuns + MaxAlarms + MaxStops

Events == {"Started", "Finished", "Failed", "Stopped"}
Statuses == {"idle", "connecting", "busy", "stopping"}
Commands == [op : {"run", "stop", "destroy"}, id : Ids \cup {None}]

-----------------------------------------------------------------------------

Init ==
  /\ running = FALSE /\ status = "idle" /\ queue = 0 /\ inbox = <<>>
  /\ cfg \in Configs /\ asked = 0 /\ alarms = 0 /\ stops = 0
  /\ svc = None /\ issued = 0
  /\ cmds = [i \in Ids |-> <<>>]
  /\ wpc = [i \in Ids |-> "idle"] /\ then = [i \in Ids |-> "none"]
  /\ sel = [i \in Ids |-> None] /\ label = [i \in Ids |-> None] /\ agent = [i \in Ids |-> None]
  /\ phase = [s \in Ids |-> "none"] /\ owner = [s \in Ids |-> None]
  /\ busy = [s \in Ids |-> FALSE] /\ queued = [s \in Ids |-> FALSE] /\ tpc = [s \in Ids |-> "idle"]
  /\ cut = [s \in Ids |-> FALSE] /\ outcome = [s \in Ids |-> "none"]
  /\ stopped = {} /\ rejected = {}

\* RuntimeStatusBus.publish: AppModel's listener posts the event to the main thread.
Publish(event) == inbox' = Append(inbox, event)

-----------------------------------------------------------------------------
(* Android: starting and stopping the service.                              *)

\* startForegroundService creates an instance when none is started, and
\* delivers the command to the started one.
Deliver(op) ==
  LET i == IF svc = None THEN issued + 1 ELSE svc IN
  /\ issued' = issued + 1
  /\ svc' = i
  /\ cmds' = [cmds EXCEPT ![i] = Append(@, [op |-> op, id |-> issued + 1])]

\* onDestroy queues a last command behind those already delivered and lets
\* the command thread work them off (shutdown, not shutdownNow).
Destroy(queues) ==
  /\ svc' = None
  /\ cmds' = [queues EXCEPT ![svc] = Append(@, [op |-> "destroy", id |-> None])]

-----------------------------------------------------------------------------
(* The main thread.                                                         *)

\* startSingleTaskByName with the tasks that follow: the service gets the
\* task, or no controller mode is selected or Android refuses to start a
\* foreground service and the queue is given up.
StartTask(rest) ==
  \/ /\ running' = TRUE /\ status' = "connecting" /\ queue' = rest
     /\ Deliver("run")
  \/ /\ running' = FALSE /\ status' \in {status, "connecting"} /\ queue' = 0
     /\ UNCHANGED <<systemVars, cmds>>

\* startTask (n = 0) and startSavedTask, which queues the n enabled tasks
\* after the first.  The buttons are disabled while a task runs.
PressStart(n) ==
  /\ ~running
  /\ asked + n + 1 <= MaxRuns
  /\ asked' = asked + n + 1
  /\ StartTask(n)
  /\ UNCHANGED <<inbox, cfg, alarms, stops, serviceVars, sessionVars, threadVars, history>>

\* stopTask; closeBackground calls it whether or not a task runs.
PressStop ==
  /\ stops < MaxStops
  /\ stops' = stops + 1
  /\ queue' = 0
  /\ \/ /\ svc # None
        /\ status' = "stopping"
        /\ Destroy(cmds)
        /\ UNCHANGED running
     \/ /\ svc = None
        /\ running' = FALSE /\ status' = "idle"
        /\ UNCHANGED <<svc, cmds>>
  /\ UNCHANGED <<inbox, cfg, asked, alarms, issued, serviceVars, sessionVars, threadVars, history>>

\* The stop button of the service's notification.
PressNotificationStop ==
  /\ svc # None /\ stops < MaxStops
  /\ stops' = stops + 1
  /\ Deliver("stop")
  /\ UNCHANGED <<uiVars, cfg, asked, alarms, serviceVars, sessionVars, threadVars, history>>

\* ScheduleReceiver.onReceive for an enabled task: the screen is not asked.
AlarmRings ==
  /\ alarms < MaxAlarms
  /\ alarms' = alarms + 1
  /\ Deliver("run")
  /\ UNCHANGED <<uiVars, cfg, asked, stops, serviceVars, sessionVars, threadVars, history>>

\* selectChannel and selectMode without a background game, and setBackground.
Select ==
  /\ ~running
  /\ cfg' \in Configs \ {cfg}
  /\ UNCHANGED <<uiVars, asked, alarms, stops, systemVars, cmds, serviceVars, sessionVars, threadVars, history>>

BugHandleEvent ==
  /\ inbox # <<>>
  /\ inbox' = Tail(inbox)
  /\ \/ /\ Head(inbox) = "Started"
        /\ running' = TRUE /\ status' = "busy"
        /\ UNCHANGED <<queue, systemVars, cmds>>
     \/ /\ Head(inbox) = "Finished"
        /\ StartTask(queue - 1)
     \/ /\ Head(inbox) = "Finished" /\ queue = 0
        /\ running' = FALSE /\ status' = "idle"
        /\ UNCHANGED <<queue, systemVars, cmds>>
     \/ /\ Head(inbox) \in {"Failed", "Stopped"}
        /\ running' = FALSE /\ status' = "idle" /\ queue' = 0
        /\ UNCHANGED <<systemVars, cmds>>
  /\ UNCHANGED <<userVars, serviceVars, sessionVars, threadVars, history>>

\* statusListener, on the main thread.
HandleEvent ==
  /\ inbox # <<>>
  /\ inbox' = Tail(inbox)
  /\ \/ /\ Head(inbox) = "Started"
        /\ running' = TRUE /\ status' = "busy"
        /\ UNCHANGED <<queue, systemVars, cmds>>
     \/ /\ Head(inbox) = "Finished" /\ queue > 0
        /\ StartTask(queue - 1)
     \/ /\ Head(inbox) = "Finished" /\ queue = 0
        /\ running' = FALSE /\ status' = "idle"
        /\ UNCHANGED <<queue, systemVars, cmds>>
     \/ /\ Head(inbox) \in {"Failed", "Stopped"}
        /\ running' = FALSE /\ status' = "idle" /\ queue' = 0
        /\ UNCHANGED <<systemVars, cmds>>
  /\ UNCHANGED <<userVars, serviceVars, sessionVars, threadVars, history>>

-----------------------------------------------------------------------------
(* The command thread of instance i.                                        *)

Op(i) == Head(cmds[i]).op
Pop(i) == cmds' = [cmds EXCEPT ![i] = Tail(@)]
Goto(i, point) == wpc' = [wpc EXCEPT ![i] = point]
Release(i, next) == Goto(i, "release") /\ then' = [then EXCEPT ![i] = next]

\* The selected configuration is read first; another one than the agent's
\* releases the agent.
TakeRun(i) ==
  /\ wpc[i] = "idle" /\ cmds[i] # <<>> /\ Op(i) = "run"
  /\ sel' = [sel EXCEPT ![i] = IF label[i] = cfg THEN None ELSE cfg]
  /\ \/ label[i] \notin {None, cfg} /\ Release(i, "create")
     \/ label[i] = None /\ Goto(i, "create") /\ UNCHANGED then
     \/ label[i] = cfg /\ Goto(i, "run") /\ UNCHANGED then
  /\ UNCHANGED <<uiVars, userVars, systemVars, cmds, label, agent, sessionVars, threadVars, history>>

\* createAgentService prepares the resources and connects the controller; any
\* of it may throw.
Create(i) ==
  /\ wpc[i] = "create"
  /\ \/ LET s == Head(cmds[i]).id IN
        /\ phase' = [phase EXCEPT ![s] = "new"]
        /\ owner' = [owner EXCEPT ![s] = i]
        /\ agent' = [agent EXCEPT ![i] = s]
        /\ Goto(i, "start")
        /\ UNCHANGED sel
     \/ /\ Goto(i, "fail")
        /\ sel' = [sel EXCEPT ![i] = None]
        /\ UNCHANGED <<sessionVars, agent>>
  /\ UNCHANGED <<uiVars, userVars, systemVars, cmds, then, label, threadVars, history>>

\* AgentHost.start throws, answers false, or opens the session.
Start(i) ==
  /\ wpc[i] = "start"
  /\ \/ /\ phase' = [phase EXCEPT ![agent[i]] = "open"]
        /\ label' = [label EXCEPT ![i] = sel[i]]
        /\ Goto(i, "run")
     \/ Goto(i, "fail") /\ UNCHANGED <<phase, label>>
  /\ sel' = [sel EXCEPT ![i] = None]
  /\ UNCHANGED <<uiVars, userVars, systemVars, cmds, then, agent, owner, threadVars, history>>

\* AgentHost.run: a busy task controller refuses, and the refusal is
\* published as a failure of the task asked for.
Run(i) ==
  /\ wpc[i] = "run"
  /\ IF busy[agent[i]]
     THEN /\ Publish("Failed")
          /\ rejected' = rejected \cup {i}
          /\ UNCHANGED <<busy, queued>>
     ELSE /\ busy' = [busy EXCEPT ![agent[i]] = TRUE]
          /\ queued' = [queued EXCEPT ![agent[i]] = TRUE]
          /\ UNCHANGED <<inbox, rejected>>
  /\ Goto(i, "idle") /\ Pop(i)
  /\ UNCHANGED <<running, status, queue, userVars, systemVars, then, sel, label, agent, sessionVars,
                 tpc, cut, outcome, stopped>>

\* An exception of any of the above.
CommandFails(i) ==
  /\ wpc[i] = "fail"
  /\ Publish("Failed")
  /\ Release(i, "selfStop")
  /\ UNCHANGED <<running, status, queue, userVars, systemVars, cmds, sel, label, agent, sessionVars,
                 threadVars, history>>

TakeStop(i) ==
  /\ wpc[i] = "idle" /\ cmds[i] # <<>> /\ Op(i) = "stop"
  /\ Release(i, "selfStop")
  /\ UNCHANGED <<uiVars, userVars, systemVars, cmds, sel, label, agent, sessionVars, threadVars, history>>

BugTakeDestroy(i) ==
  /\ wpc[i] = "idle" /\ cmds[i] # <<>> /\ Op(i) = "destroy"
  /\ Goto(i, "publish") /\ UNCHANGED then
  /\ UNCHANGED <<uiVars, userVars, systemVars, cmds, sel, label, agent, sessionVars, threadVars, history>>

TakeDestroy(i) ==
  /\ wpc[i] = "idle" /\ cmds[i] # <<>> /\ Op(i) = "destroy"
  /\ Release(i, "publish")
  /\ UNCHANGED <<uiVars, userVars, systemVars, cmds, sel, label, agent, sessionVars, threadVars, history>>

\* stopSelfResult destroys the service only if no later command was delivered.
SelfStop(i) ==
  /\ wpc[i] = "selfStop"
  /\ IF svc = i /\ issued = Head(cmds[i]).id
     THEN Destroy([cmds EXCEPT ![i] = Tail(@)])
     ELSE Pop(i) /\ UNCHANGED svc
  /\ Goto(i, "idle")
  /\ UNCHANGED <<uiVars, userVars, issued, then, sel, label, agent, sessionVars, threadVars, history>>

BugPublishStopped(i) ==
  /\ wpc[i] = "publish"
  /\ inbox' = inbox
  /\ stopped' = stopped \cup {i}
  /\ Goto(i, "idle") /\ Pop(i)
  /\ UNCHANGED <<running, status, queue, userVars, systemVars, then, sel, label, agent, sessionVars,
                 threadVars, rejected>>

\* The last thing an instance does.
PublishStopped(i) ==
  /\ wpc[i] = "publish"
  /\ Publish("Stopped")
  /\ stopped' = stopped \cup {i}
  /\ Goto(i, "idle") /\ Pop(i)
  /\ UNCHANGED <<running, status, queue, userVars, systemVars, then, sel, label, agent, sessionVars,
                 threadVars, rejected>>

-----------------------------------------------------------------------------
(* The agent of instance i: AgentHost.stop, as TaskRuntime details it.      *)

\* The stop is requested: the task waiting for the task thread is dropped or
\* the one on the thread is interrupted.  Without an agent there is nothing
\* to do.
ReleaseBegin(i) ==
  /\ wpc[i] = "release"
  /\ LET s == agent[i] IN
     IF s = None
     THEN Goto(i, then[i]) /\ then' = [then EXCEPT ![i] = "none"] /\ UNCHANGED <<phase, queued, cut>>
     ELSE /\ Goto(i, "closing") /\ UNCHANGED then
          /\ phase' = [phase EXCEPT ![s] = "closing"]
          /\ queued' = [queued EXCEPT ![s] = FALSE]
          /\ cut' = [cut EXCEPT ![s] = @ \/ (tpc[s] # "idle" /\ ~queued[s])]
  /\ UNCHANGED <<uiVars, userVars, systemVars, cmds, sel, label, agent, owner, busy, tpc, outcome, history>>

BugReleaseDone(i) ==
  /\ wpc[i] = "closing"
  /\ Goto(i, then[i]) /\ then' = [then EXCEPT ![i] = "none"]
  /\ phase' = [phase EXCEPT ![agent[i]] = "closed"]
  /\ cut' = [cut EXCEPT ![agent[i]] = tpc[agent[i]] # "idle"]
  /\ busy' = [busy EXCEPT ![agent[i]] = FALSE]
  /\ agent' = [agent EXCEPT ![i] = None]
  /\ label' = [label EXCEPT ![i] = None]
  /\ UNCHANGED <<uiVars, userVars, systemVars, cmds, sel, owner, queued, tpc, outcome, history>>

\* The stop returns once nothing executes; the task controller is shut down
\* and the service forgets the agent.
ReleaseDone(i) ==
  /\ wpc[i] = "closing"
  /\ tpc[agent[i]] # "working"
  /\ Goto(i, then[i]) /\ then' = [then EXCEPT ![i] = "none"]
  /\ phase' = [phase EXCEPT ![agent[i]] = "closed"]
  /\ cut' = [cut EXCEPT ![agent[i]] = tpc[agent[i]] # "idle"]
  /\ busy' = [busy EXCEPT ![agent[i]] = FALSE]
  /\ agent' = [agent EXCEPT ![i] = None]
  /\ label' = [label EXCEPT ![i] = None]
  /\ UNCHANGED <<uiVars, userVars, systemVars, cmds, sel, owner, queued, tpc, outcome, history>>

-----------------------------------------------------------------------------
(* The task thread of session s.                                            *)

TaskPick(s) ==
  /\ queued[s] /\ tpc[s] = "idle"
  /\ queued' = [queued EXCEPT ![s] = FALSE]
  /\ tpc' = [tpc EXCEPT ![s] = "announce"]
  /\ cut' = [cut EXCEPT ![s] = FALSE]
  /\ UNCHANGED <<uiVars, userVars, systemVars, cmds, serviceVars, sessionVars, busy, outcome, history>>

BugTaskAnnounce(s) ==
  /\ tpc[s] = "announce"
  /\ inbox' = inbox
  /\ tpc' = [tpc EXCEPT ![s] = "enter"]
  /\ UNCHANGED <<running, status, queue, userVars, systemVars, cmds, serviceVars, sessionVars,
                 busy, queued, cut, outcome, history>>

TaskAnnounce(s) ==
  /\ tpc[s] = "announce"
  /\ Publish("Started")
  /\ tpc' = [tpc EXCEPT ![s] = "enter"]
  /\ UNCHANGED <<running, status, queue, userVars, systemVars, cmds, serviceVars, sessionVars,
                 busy, queued, cut, outcome, history>>

\* The pipeline is posted, or refused: the session is closing, the agent
\* process died, the task is unknown.
TaskEnter(s) ==
  /\ tpc[s] = "enter"
  /\ \/ phase[s] = "open" /\ tpc' = [tpc EXCEPT ![s] = "working"] /\ UNCHANGED outcome
     \/ /\ tpc' = [tpc EXCEPT ![s] = "clear"]
        /\ outcome' = [outcome EXCEPT ![s] = "Failed"]
  /\ UNCHANGED <<uiVars, userVars, systemVars, cmds, serviceVars, sessionVars, busy, queued, cut, history>>

TaskEnds(s) ==
  /\ tpc[s] = "working"
  /\ tpc' = [tpc EXCEPT ![s] = "clear"]
  /\ outcome' = [outcome EXCEPT ![s] = "Finished"]
  /\ UNCHANGED <<uiVars, userVars, systemVars, cmds, serviceVars, sessionVars, busy, queued, cut, history>>

BugTaskClear(s) ==
  /\ tpc[s] = "clear"
  /\ busy' = busy
  /\ tpc' = [tpc EXCEPT ![s] = "gate"]
  /\ UNCHANGED <<uiVars, userVars, systemVars, cmds, serviceVars, sessionVars, queued, cut, outcome, history>>

TaskClear(s) ==
  /\ tpc[s] = "clear"
  /\ busy' = [busy EXCEPT ![s] = FALSE]
  /\ tpc' = [tpc EXCEPT ![s] = "gate"]
  /\ UNCHANGED <<uiVars, userVars, systemVars, cmds, serviceVars, sessionVars, queued, cut, outcome, history>>

TaskLeaves(s) ==
  /\ tpc' = [tpc EXCEPT ![s] = "idle"]
  /\ cut' = [cut EXCEPT ![s] = FALSE]
  /\ outcome' = [outcome EXCEPT ![s] = "none"]

TaskGate(s) ==
  /\ tpc[s] = "gate"
  /\ \/ ~cut[s] /\ tpc' = [tpc EXCEPT ![s] = "report"] /\ UNCHANGED <<cut, outcome>>
     \/ cut[s] /\ TaskLeaves(s)
  /\ UNCHANGED <<uiVars, userVars, systemVars, cmds, serviceVars, sessionVars, busy, queued, history>>

TaskReport(s) ==
  /\ tpc[s] = "report"
  /\ Publish(outcome[s])
  /\ TaskLeaves(s)
  /\ UNCHANGED <<running, status, queue, userVars, systemVars, cmds, serviceVars, sessionVars,
                 busy, queued, history>>

-----------------------------------------------------------------------------

UserStep == PressStop \/ PressNotificationStop \/ AlarmRings \/ Select \/ \E n \in 0 .. MaxRuns : PressStart(n)

ServiceStep(i) ==
  \/ TakeRun(i) \/ Create(i) \/ Start(i) \/ Run(i) \/ CommandFails(i) \/ TakeStop(i) \/ TakeDestroy(i)
  \/ ReleaseBegin(i) \/ ReleaseDone(i) \/ SelfStop(i) \/ PublishStopped(i)

ThreadStep(s) ==
  TaskPick(s) \/ TaskAnnounce(s) \/ TaskEnter(s) \/ TaskClear(s) \/ TaskGate(s) \/ TaskReport(s)

\* A native job is aborted once the stop of its session is requested.
AbortStep(s) == phase[s] = "closing" /\ TaskEnds(s)

Next ==
  \/ UserStep \/ HandleEvent
  \/ \E i \in Ids : ServiceStep(i)
  \/ \E s \in Ids : ThreadStep(s) \/ TaskEnds(s)

\* Threads are scheduled, and AgentHost.stop aborts the task (StopTerminates
\* of TaskRuntime).  A task nobody stops may run for ever, and the user and
\* the alarms may do nothing.
Fairness ==
  /\ WF_vars(HandleEvent)
  /\ \A i \in Ids : WF_vars(ServiceStep(i))
  /\ \A s \in Ids : WF_vars(ThreadStep(s)) /\ WF_vars(AbortStep(s))

Spec == Init /\ [][Next]_vars /\ Fairness

-----------------------------------------------------------------------------
(* Properties.                                                              *)

TypeOK ==
  /\ running \in BOOLEAN /\ status \in Statuses /\ queue \in 0 .. MaxRuns /\ inbox \in Seq(Events)
  /\ cfg \in Configs /\ asked \in 0 .. MaxRuns /\ alarms \in 0 .. MaxAlarms /\ stops \in 0 .. MaxStops
  /\ svc \in Ids \cup {None} /\ issued \in Ids \cup {0}
  /\ cmds \in [Ids -> Seq(Commands)]
  /\ wpc \in [Ids -> {"idle", "create", "start", "run", "fail", "release", "closing", "selfStop", "publish"}]
  /\ then \in [Ids -> {"none", "create", "selfStop", "publish"}]
  /\ sel \in [Ids -> Configs \cup {None}] /\ label \in [Ids -> Configs \cup {None}]
  /\ agent \in [Ids -> Ids \cup {None}]
  /\ phase \in [Ids -> {"none", "new", "open", "closing", "closed"}]
  /\ owner \in [Ids -> Ids \cup {None}]
  /\ busy \in [Ids -> BOOLEAN] /\ queued \in [Ids -> BOOLEAN] /\ cut \in [Ids -> BOOLEAN]
  /\ tpc \in [Ids -> {"idle", "announce", "enter", "working", "clear", "gate", "report"}]
  /\ outcome \in [Ids -> {"none", "Finished", "Failed"}]
  /\ stopped \subseteq Ids /\ rejected \subseteq Ids

Working == {s \in Ids : tpc[s] = "working"}

\* Once an instance has published Stopped, nothing it started executes, now or
\* later: its release waited for the task, and no command follows its last.
StoppedMeansReleased == \A s \in Working : owner[s] \notin stopped

\* One instance never has two tasks at work, though it may replace its agent
\* when the configuration changes.
OneTaskPerInstance == \A s, t \in Working : owner[s] = owner[t] => s = t

\* Each task of a queue starts from the Finished event of the one before it
\* and is accepted: as long as no alarm asks for a task, the first service
\* instance refuses none.
QueueIsAccepted == alarms = 0 => 1 \notin rejected

\* Asked to stop, the app gets there.
StopSettles == (status = "stopping") ~> ~running

\* Asked to start a task, the app hears of it.
StartSettles == (running /\ status = "connecting") ~> ~(running /\ status = "connecting")

\* The configuration is fixed while a task executes and every event that was
\* published has been handled.
ConfigFixedWhileWorking == [][cfg' # cfg /\ inbox = <<>> => Working = {}]_vars

\* What TaskRuntime implements is what every session here does.
Session(s) == INSTANCE TaskSession WITH
  phase <- IF phase[s] = "none" THEN "new" ELSE phase[s],
  executing <- tpc[s] = "working"

SessionsKeepPromise ==
  /\ \A s \in Ids : Session(s)!SessionInit
  /\ [][\A s \in Ids : [Session(s)!SessionNext]_(Session(s)!svars)]_vars
=============================================================================
