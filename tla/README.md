# TLA+ models of MAAYYS-droid

MAAYYS-droid runs MaaYYs automation tasks on Android. This directory holds TLA+
modules that model its session handling, its background display and screen capture, its stores of
resources and cores, the Go binding of MaaFramework and the Go agent with its game
scripts, TLC configurations that check them on small instances, and machine-checked
proofs about the session runtime, the service, the frame buffer, the background connection,
the stores, the binding and the agent's features. Paths below are relative to the repository.

## 1. The system

| Part | State | Operations | Talks to |
|---|---|---|---|
| **Screen model** `app/.../host/AppModel.kt` | `running`, status line, `pendingTaskQueue`, preferences | start one task, start the enabled tasks as a queue, stop, select channel / mode / background, handle a status event | starts and stops the service through Android; hears the status bus |
| **Alarms** `app/.../host/Schedule.kt` | stored entries, armed alarms | save, reschedule, ring | starts the service |
| **Foreground service** `src/main/.../app/MaaAgentForegroundService.kt` | one command executor per instance; `agent`, `initialized`, `configuration` | run, stop, destroy | makes an `AgentHost`, publishes on `RuntimeStatusBus` |
| **Session** `AgentHost`, `RuntimeTaskController`, `MaaFrameworkRuntime` | native handles, `ready`, `stopping`, `stopId`, two locks; `running`, `future`, an executor | start, run, stop | MaaFramework (native, asynchronous jobs), the Go agent process |
| **Controllers** `RootController`, `MeowController`, `FrameworkController` | last screenshot | click, swipe, screenshot | root shell or the background display |
| **Background display** `BackgroundConnection.kt`, `BackgroundDisplayService.kt`, `VirtualDisplayManager.kt` | remote binder, process, display | connect, close, setup, screenshot, touch | a privileged process of its own |
| **Frame buffer and capturer** `bridge_frame_buffer.cpp`, `bridge_capture.cpp` | three buffers, their states and reader counts, the read buffer | setup, release, write a frame, lock and copy a frame | the image reader's callback thread, binder threads |
| **Preview** `bridge_preview.cpp` | one-image queue, pending window, render thread | set surface, dispatch, drain | EGL |
| **Touch input** `TouchPointerSequence.kt`, `InputControlUtils.java` | pointers that are down | down, move, up, cancel | Android's input manager |
| **Stores** `ResourceProvider.kt`, `BundledProject.kt`, `CoreUpdateStore.kt` | version directories, pointer files | install, prepare, stage, roll back | the file system; read by the session's start |
| **Go binding** `upstream/maa-framework-go` | tables of callbacks per kind, store entries per native object, `inited` and the loaded libraries | create and destroy objects, add and remove sinks, register custom actions and recognitions, init and release, post tasks, query details | MaaFramework; its threads call the callbacks |
| **Go agent** `upstream/maayys/agent` | daily records and config values on disk; counters, targets, last task in memory; sockets between two agents | custom actions and recognitions | the binding; a client through MaaFramework's agent protocol; another agent over TCP |

The hard behaviour is between threads. A task is accepted on the service's
command thread, runs on the controller's executor, waits for a native job that
MaaFramework's threads complete, and reports through a bus to the main thread,
which may start the next task from the report; a stop may come at any point, and
the service instance it stops may still be releasing its agent while the next
instance already works. In the capturer one callback thread and several binder
threads share three buffers through atomics, while a control thread frees them. In the Go
binding the application's threads and the framework's meet in tables and stores, each
under a lock of its own, while addresses are reused. The agent process is killed by
every stop, in the middle of whatever it was writing, and several agents on one
machine share its files.

What makes each part correct:

- *Session*: native objects are used only while they exist, whatever failed and
  whenever a stop comes; one task at a time; events in turn; `stop` returns.
- *Service and screen*: "stopped" means released; one task per instance; a queue
  of tasks goes through to its end; the screen hears the end of every stop and
  the fate of every start; the configuration does not change under a task.
- *Frame buffer*: a locked frame is neither rewritten nor freed; a screenshot is
  the latest frame; frames are lost only to readers; releasing ends.
- *Stores*: after a kill at any point what the pointer files select is complete (the
  core's pointer breaks this when two updates meet in its temporary file);
  files in use stay; preparing fails only after trouble; no lock is waited for in a
  circle; an update takes effect, and one that fails is gone.
- *Go binding*: a number the framework holds is in its table, and nothing else stays
  there; an entry lives as long as its object; no one waits in a circle; `inited` says
  what is loaded; the details told of a task are the task's.
- *Go agent*: a daily task is left out only after a run of it ended that day; an answered write of
  a value is kept; counters answer for their own calls; the best reward, the wanted
  team and the partner are what a script ends on; scripts do what they were asked.
- *Background display*: one display at a time (which a late notice of a death breaks); no process survives the app; every
  connect and close returns.
- *Preview, touch* (planned): no image or window leaks or is used after release; the
  injector and the system agree on the pointers that are down.

`PROJECT.json` lists every component, with the reason for those left out, and the
hazards of the code at their lines.

## 2. Modules

| Module | What it is |
|---|---|
| `TaskSession` | What a session promises: opens once, executes one task at a time and only while open, ends with nothing executing. |
| `TaskRuntime` | `AgentHost` + `RuntimeTaskController` + `MaaFrameworkRuntime` with MaaFramework's jobs as environment. Implements `TaskSession`. |
| `TaskRuntimeProofs` | Proofs about `TaskRuntime`. |
| `AgentService` | `AppModel`'s session part, alarms, Android's delivery of commands, service instances and their sessions. Each of its sessions implements `TaskSession` too, which is how the two levels are tied together. |
| `AgentServiceProofs` | Proofs about `AgentService`. |
| `FrameRegister` | What the frame buffer promises: a register of the latest frame. |
| `FrameBuffer` | `bridge_frame_buffer.cpp` and the setup and release of `bridge_capture.cpp`. Implements `FrameRegister`. |
| `FrameBufferProofs` | Proofs about `FrameBuffer`. |
| `BackgroundConnection` | `BackgroundConnection`, the services it starts (`BackgroundServiceMain`, `BackgroundDisplayService`) and the token they attach with. |
| `BackgroundConnectionProofs` | Proofs about `BackgroundConnection`. |
| `ResourceStore` | `ResourceProvider.install`, `BundledProject.prepare` and the network update of `AppModel`, in steps between file operations. |
| `CoreStore` | `CoreUpdateStore` and the start of `MaaFrameworkRuntime` as its reader. |
| `UpdateStore` | Both stores under one process: a session prepares, then starts; a kill hits both. |
| `UpdateStoreProofs` | Proofs about `UpdateStore`. |
| `NativeHandles` | The binding's objects, store entries and callback tables, and the framework's side of them; callbacks that call the binding. |
| `NativeLibrary` | `Init` and `Release` of the binding, library by library. |
| `GoBinding` | Both together: objects are made while the libraries are loaded. |
| `GoBindingProofs` | Proofs about `GoBinding`. |
| `TaskDetails` | Jobs, and the queries for the details of tasks, nodes, recognitions and actions, while the framework runs the task. |
| `AgentFiles` | A file that two agents read and rewrite in place: whole, empty or torn. |
| `DailyTasks` | `task_list` and `daily_task_tracker` of several agents, over days and kills. |
| `ConfigValues` | `config_value_recognition`: reads, writes and comparisons of stored values. |
| `AgentCounters` | The counting recognitions and actions: OCR results, tasks, co-battle targets, `count_action`, `restartgame`. |
| `FosterSearch` | `auto_foster`: collect the rewards of two lists page by page, then find the best again. |
| `TeamScreens` | `auto_battle` and `switch_soul`: find a group and a team in scrolled lists. |
| `TeamPairing` | `team_builder`: two agents find each other over TCP. |
| `GameScripts` | `kun28`, `bounty_monster_recognition`, `time_check`, `random_task`, the touches, and the scripts that run a plan of tasks. |
| `AgentProcess` | `main` and `registerAll`, then one of the features above. |
| `AgentProcessProofs` | Proofs about the features, for the whole process. |
| `GameScriptsProofs` | Goes on from there: the scripts, the details of tasks, and the types of the whole process. |
| `MCTaskRuntime`, `MCAgentService`, `MCFrameBuffer`, `MCBackgroundConnection`, `MCUpdateStore`, `MCGoBinding`, `MCAgentProcess` | Instances for TLC. |

Operators named `Bug...` are not part of any specification: each is a definition
changed as a plausible mistake would change it, kept to show that a property
notices the mistake.

### TaskRuntime

- `cpc` is the place of the thread that calls the host (its methods are
  `@Synchronized`, so there is one such thread), `tpc` that of the executor.
- `handles` is the set of native objects that exist; `BuildOrder` and
  `TeardownOrder` are the orders of `start` and `cleanup`, `Needs` what refers to
  what. The callback table held by JNA is one of them, since the controller calls
  into it until it is destroyed.
- A `synchronized(stateLock)` block contains no blocking call and is one step.
  `taskLock` is held across `start`, across `runPipeline` (including the native
  wait) and across `cleanup`, and is a variable.
- `job` and `stopJob` are the two native jobs. MaaFramework works them off by
  itself; a pending stop job aborts the task job. `MaaTaskerDestroy` waits in
  `cleanup` for the stop job, so `Destroy("tasker")` needs `stopJob = "done"`.
- `interrupted` is the executor thread's interrupt flag. `MaaTaskerWait` is a
  native call that no interrupt ends. The worker clears a left-over flag before
  the next future, as `ThreadPoolExecutor` does.
- `StartFails` is any failed check of `start`; roll-back of the core is `core'`.

### AgentService

- `cmds[i]`, `wpc[i]` are the executor and its thread in service instance `i`;
  `sel` and `label` are the configuration a command has read and the one the
  agent was made with; instances and sessions are named by the start id that
  created them.
- `Deliver` and `Destroy` are what Android does on `startForegroundService`,
  `stopService` and `stopSelfResult` (which stops only when its start id is the
  last one issued).
- `ReleaseBegin` and `ReleaseDone` are `AgentHost.stop`: the request, and the
  return after nothing executes any more. What happens in between is
  `TaskRuntime`; the task thread's remaining steps are `TaskEnter` to `TaskReport`.
- `inbox` is the main thread's queue of published events; `HandleEvent` is the
  listener, including the start of the next task of the queue.
- `StartTask` may fail in every way the code lets it: no mode selected, or Android
  refuses the service.

### FrameBuffer

- One step per access to an atomic that another thread may write in between, in
  sequentially consistent order. Filling (`LockFrame`, `WriteEnds`) and copying
  (`CopyBegins`, `CopyEnds`) have two ends, so that a race shows as a `Torn` copy.
- `rivals` records the readers the writer met on its way through the buffers; it
  exists for `DroppedOnlyForReaders`.
- `Close` waits for the callback to be idle, because `AImageReader_delete` joins it.
- The wait of 500 spins for a writer in `LockCurrentFrame` is one step of `Check`:
  the reader gives up if the writer is still there.

### BackgroundConnection

- `lock` is the object's monitor, held through `connect` with its waits of 20 and 30
  seconds and through `close`; `pc[c]` is the place of a calling thread. `fresh[c]` is
  the service it is connecting, `closing[c]` the one it read in `close`.
- A service is the number of the attempt that started it, which stands for its token
  and its process too. `kind` is ROOT or SHIZUKU, `owners` who destroys it when the app
  dies: `setup`'s recipient, `BackgroundServiceMain`'s, or Shizuku (`daemon(false)`).
- `close()` of a service is a call that returns when the display is gone; `destroy()` is
  oneway, so its service is `ending` until `Exit`.
- `display` holds the service whose display number the field has, so that a field that
  was cleared in between shows.
- `Reached`: `process.destroy` signals `su`, which may or may not take the service with
  it; the app itself may not signal a process of root.
- `Notice` is a death recipient, or `onServiceDisconnected`: both clear the fields, and
  neither asks whose they are. `mode` and the binding stay. It may come at any moment
  after the death, also when the next service is connected: nothing in `connect` waits for it.
  `misled` remembers that a notice has cleared fields that named another service.
- `StartFails` leaves a Shizuku binding unset, also when `bindUserService` itself throws;
  the next `close` would unbind what was never bound.

### ResourceStore, CoreStore, UpdateStore

- `dirs`, `active`, `staged`, `selected`, `tmp` and `apk` are on disk; everything else
  is the process's and is lost by `Restart`, which may come between any two steps and
  may bring a newer APK.
- `pc[t]` in `fetch`, `point`, `undo` is the holder of the provider's write lock; a
  preparer with `pc` not `idle` holds the monitor of `BundledProject`. Both are
  released by exceptions in the code, hence by every return here.
- Extraction goes to a directory no one else looks at; it is part of `Fetch` and
  `StageFails`. What a killed extraction leaves behind is only waste.
- `core-current.json.tmp` is shared by all updates. `writeText` is `OpenPointer`, which
  empties the file, and `WritePointer`, which writes into whatever the opened file is by then:
  `fd[s]` follows it through renames and deletions (`Moved`), and what is written over a
  longer text leaves its end (`Torn`). `Readable` says that `currentVersion` does not
  throw; when it does, `start` fails at its next use of `nativeDir`, and the handler at
  `MaaFrameworkRuntime.kt:118` throws again, so that `RollBack` does nothing.
  `shared` remembers that two updates had the file at the same time.
- `Prepare` and `ReadPath` are the two reads of `active.json`; an update may be
  committed between them.
- `search` is the first directory on JNA's search path of each library (external:
  the path only grows while the process lives). `NativeDir` is read again at every
  use, as `nativeDir` is: for the two paths, for the agent's executable, for the
  agent's environment, and by the roll-back.
- `FindAgent` fails on a staged core: the archive does not hold `libmaayys_agent.so`,
  and `stage` gives no file the permission to execute. So a staged core is always
  rolled back by its first start.
- `told`, `due`, `spoiled` and `failed` are history for the properties.

### NativeHandles, NativeLibrary, GoBinding

- `live` and `held` are the framework's (which objects exist, which numbers it will
  call); `known`, `entries` the three stores; `registered` the four tables; `lost` what
  is in a table and no entry leads to, after a refusal. `lock` and `readers` are the
  stores' mutexes and the tables' read locks.
- `th[t].do` is the binding operation a thread is in, `th[t].from` the object whose
  callback it is running, if any: a callback first looks its number up under the
  table's read lock (`Deliver`, `EndLookup`), then runs the handler, which may call any
  operation but those that destroy, and returns (`HandlerReturns`), or answers zero when the
  number is gone (`AnswerZero`).
- A section under a lock that cannot block is one step. `Destroy`, `RemoveSink` and
  `ClearSinks` wait for a table's lock inside a store's, and are two.
- The framework may give a freed address to the next object. It waits in
  `NativeDestroy` for the object's deliveries.
- Rules of use the model takes from the callers in the repository and the binding's
  comments: one operation at a time on an object and none after its `Destroy`; handlers do not
  destroy objects; a name is registered once on the agent server; no objects are made
  after a library failed to open or close. A number is used again only when nothing
  refers to it, which is what a counter that never repeats amounts to. `RemoveSink` of an
  identifier that is not there changes nothing and is not a step.

### TaskDetails

- `tasks` is the framework's cache, `query` the one query that is followed, step by step:
  size, then data, then each node, its recognition (with the parts of combined ones)
  and its action. The task, a clearing of the cache and refusals come in between.
- `Documents` is the finite set of documents a recognition may be told with, parts nested in parts;
  the parsers are recursive functions on it.
- A detail is its algorithm and whether its JSON is missing, malformed or present:
  `ParsesRecognition` and `ParsesAction` say which are told and which fail, as the two
  parsers do. The values inside are not modelled.

### The agent's modules

- `AgentFiles.Remains` is what a kill leaves of a file in the middle of a rewrite.
- `DailyTasks`: a run begins (`StartTask`) and ends (`RunEnds`); `TakeDate`, `ReadRecords`,
  `TruncateRecords`, `WriteRecords` are `RecordExecution`, with midnight possible between any
  two. `dated` is the day a task's last run was given by `RecordExecution`, `spoilt` says that a write was cut short or two agents met in one.
- `ConfigValues`: `promised` is what all answered writes add up to.
- `AgentCounters`: `calls` is the history the answers are judged by; the counters
  themselves are as in the code (one counter for all nodes, reset by a change of node).
- `FosterSearch`, `TeamScreens`: a world is a choice of pages; looks, screenshots, tasks and
  clicks may fail, which `missed` and `misses` record. Swipes down always go one page;
  how far one goes up is the screen's choice. The final ready clicks of
  `auto_battle` and its path without a group name are left out.
- `TeamPairing`: a connection holds the messages on their way; a read may take two
  of them at once. A run of either side may time out at any time.
- `GameScripts`: a plan is the list of tasks a script runs, each of which is done, fails
  without an error or ends in one; what a task does to the game is external. Random numbers are
  chosen, not drawn. Waiting times and the numbers of clicks are left out.
- `AgentProcess`: the features share no state in the code (each runner has its own
  struct or file), so a behaviour uses one of them. Nothing calls `Stop` of any
  script, so their `running` flags are constant and left out.

## 3. Runs

| Run | Instance | Shows |
|---|---|---|
| `task_runtime` | 3 accepted tasks | `NativeUseIsLive`, `DependenciesLive`, `BusyWhileWorking`, `AnnouncedInTurn`, `StopTerminates`, `ImplementsSession` |
| `agent_service` | 3 requests among 2 user tasks, 1 alarm, 1 stop, 2 configurations | `StoppedMeansReleased`, `OneTaskPerInstance`, `QueueIsAccepted`, `SessionsKeepPromise`, `StopSettles`, `StartSettles` |
| `agent_config` | 1 user task, 1 alarm | **violated**: the channel changes under an executing task |
| `frame_buffer` | 3 buffers, 2 readers, 4 frames, 1 setup | `LockedFrameIsSafe`, `DroppedOnlyForReaders`, `ImplementsRegister`, `ReleaseTerminates` |
| `background` | 2 calling threads, 3 calls, 2 services | `OneDisplayUnlessMisled`, `ServicesEndWithApp`, `EveryCallReturns` |
| `background_late` | 2 calling threads, 4 calls, 3 services | **violated**: two displays, after a late notice of a death |
| `update_store` | 2 APKs, 1 newer network release, 2 cores (1 loads), 2 updates of the core at once, any number of kills | `ActiveIsComplete`, `LoadedFilesStay`, `PrepareFailsOnlyAfterTrouble`, `SelectedUnlessShared`, `FailedCoreIsNotRetried`, `SomeThreadGoesOn` |
| `core_pointer` | 1 APK, 2 cores, 2 updates at once | **violated**: core-current.json is left empty |
| `resource_update` | the same with 1 core, 1 update of it | **violated**: an installed update does not take effect after a restart |
| `core_rollback` | the same with 1 core, 1 update of it | **violated**: after a roll-back the libraries are still the failed core's |
| `go_binding` | one tasker, one resource, one controller, 2 threads, 2 callback numbers per kind | `EntryFollowsObject`, `EntryMatchesFramework`, `NoCallbackLeak`, `NoCircularWait`, `LibrariesFollowInited` |
| `go_agent` | 2 agents, 2 tasks, 2 keys, 2 nodes, 4 worlds of rewards, 2 builders, 1 task with up to 2 nodes | `DailyRecordsHonest`, `ConfigKeepsAcknowledged`, `MatchesAreEarned`, `BestRewardChosen`, `ChosenTeamFights`, `PairedWithPartner`, `DetailMatchesTask`, `ScriptsDoAsAsked` |

`agent_service` and `go_agent` check their modules' type invariants too. Those of
`TaskRuntime`, `AgentService`, `FrameBuffer`, `BackgroundConnection`, `UpdateStore`,
`GoBinding` and `AgentProcess` are proved.

Bounds and why they are enough:

- `MaxRuns` of `TaskRuntime` bounds accepted tasks. Three is a task that executes
  the tail of its body, one queued behind it, and one after that; the controller
  keeps nothing of earlier tasks. The proofs hold for every bound.
- `MaxRuns`, `MaxAlarms`, `MaxStops` of `AgentService` bound what is asked for,
  never how it is interleaved. Two user tasks make a queue; with an alarm and a
  stop there can be two instances at once, one of them stopping, and a
  configuration change between any two commands. `MaxRequests = 3` of `MCAgentService`
  takes any three of these four requests: each can meet each of the others, and the
  liveness of all of them can be checked on one instance. What is proved of
  `AgentService` holds for all values of the bounds, without `MaxRequests`.
- `MaxFrames = 4` exceeds the three buffers, so that the writer comes back to a
  buffer it has filled while readers of the older frame may still be there. Two readers are what
  it takes to pin both buffers that are not read: the first two frames are still being copied, the third is
  the read one, and the fourth finds no buffer.
- `MaxSetups = 1`: every caller in the repository that closes the display also
  ends its process (`BackgroundConnection.close` and the failure path of `connect`
  call `destroy`, which exits; the resolution never changes, so `restart` is not
  reached). With two setups in one process `LockedFrameIsSafe` fails:
  `ReleaseFrameBuffers` resets a count that a late reader has raised after the wait
  saw zero, its decrement then makes the count -1, and the next reader of that
  buffer counts to 0 and is invisible to the writer. No caller reaches this today, so it is
  not among the hazards; it becomes real the day the service process is reused.

- `MaxServices = 2` and `MaxCalls = 3` of `BackgroundConnection` let a second service be
  connected after the first one crashed, was closed, was of the other mode or answered
  too late, with a third call waiting for the monitor. Two services are
  enough for a notice to strike another service's fields; the second display needs a third
  service and a fourth call, which `background_late` has. The app's death ends a behaviour; its
  next start is a new one.
- The stores need no bound on kills, updates or sessions: their states are finite.
  Two APKs give an APK update over an existing installation, the network release is
  one the user can be offered by both; two cores and two stagers (two screen models,
  one of them already left) meet in the temporary file.
- `go_binding`: two threads are one that destroys or removes and one in a callback, which
  may itself be inside the binding. `MaxObjects = 2` leaves an address free to be reused, `MaxCallbacks = 2`
  lets a name be registered anew while its old number is still in the table. The sorts in use are
  one of each lock pattern: a sink, a named action, a controller's own callbacks; the other sorts are
  the same code on other maps. Threads and numbers are symmetric. `MaxOpens = 2` is enough to
  see a library opened twice. The proofs need none of these bounds.
- `go_agent`: two agents and two tasks or keys make a lost update; `MaxDay = 2` is a
  midnight. The lists have up to five pages against scan limits of 2 and 3 and a search of
  five attempts; the enemies' names contain each other; `MaxCalls = 4` is a count, its match and a
  count after the reset. Tickets are taken on both sides of the limit of 20. `NotDamaged`
  stops following `ConfigValues` once its file was cut short, when the property says nothing any more.

`CHECK_DEADLOCK FALSE` stands in the service and frame configurations and in
`go_agent` because there the user, the alarms, the frames and the client may end. `task_runtime` checks
deadlock: `Finished` is its only legal end. `update_store` checks it too, but there
it says little, since a kill is always possible: `SomeThreadGoesOn` asks for a step of
a thread that has work.

Fairness. Threads that can take a step eventually take one (weak fairness per
thread, per service instance and per session). MaaFramework starts, aborts and completes jobs
(weak fairness on `NativeStep`), which is all that `stop` waits for. There is no
fairness on a game task's own end, on the success of a start, on the death of the
agent, on the user, the alarms or arriving frames: a task nobody stops may run for
ever.

What the violations say:

- `agent_config`: an alarm starts a task; the user's start is rejected as busy; the
  rejection is published as `Failed`, which clears `running`; now the channel can
  be switched although the alarm's task executes. The screen says the channel can
  be changed only after the running task was closed. The property asks for an
  empty `inbox` so that it does not merely complain about an event on its way.

- `resource_update`: the update makes its version active; after the restart `prepare`
  finds a version that is not the bundled one, tries to install the bundled one, whose
  directory is still there, and `install` refuses to overwrite it. The screen has no
  catalogue, and sessions fail the same way, without a restart as well.
- `core_rollback`: a start on a staged core fails, `rollback` deletes the pointer, and
  the next session of the process loads the staged libraries all the same, since
  their directory is first on JNA's path, next to the packaged agent.

- `background_late`: a service is connected and dies; `connect` makes another; then the
  notice of the first one's death clears `remote` and `display`; the live service is
  forgotten, `close` calls nobody, and the next `connect` shows a second display, against
  "One process/display per app." The recipient at `BackgroundConnection.kt:81` would have to
  compare `remote` with its own service. `OneDisplayUnlessMisled` says that this is the
  only way. A notice between lines 79 and 80 makes a good connection fail, one between 80
  and 82 leaves a connection whose `display` is -1.
- `core_pointer`: an update has written its version to the temporary file, a second one
  opens the file and so empties it, the first renames it, and the second fails or is killed:
  `core-current.json` is empty for good, against "Stages a MaaFramework Android archive
  atomically". Every later start throws where it reads the version, and again where it
  would roll back. The two updates are those of two screen models, one of them left.
  `SelectedUnlessShared` says that one update at a time keeps the file whole.

Further disagreements were read in the sources while modelling them; no run of this
project shows them, and `PROJECT.json` lists each under `findings` with the lines it compares.

- `MaaFrameworkRuntime.stopping` is never reset, so `check(!ready && !stopping)` refuses to
  start a stopped host again (`StartRefused` in `TaskRuntime`). `AgentHostTest` asserts the
  opposite with a fake runtime. Today's service makes a new host each time.
- The schema of `OCRResultCounterRecognition` describes a count of successive reads of the best
  text, from 1 again when the text changes, that succeeds on reaching the target.
  `updateCounts` counts each of up to three texts, keeps all counts over a change of the best
  one, and wants more than the target. `MatchesAreEarned` says what the code does, not what
  the schema does.
- A once-a-day task that is begun before midnight and ends after it gets the new day's date,
  so `HasExecutedToday` leaves it out of the new day's list (`DailyTasks.TakeDate`).
- `auto_battle` takes the height of a box for its width when it clicks; a number of challenges
  is always read as "10", and both sides of a guess as 0; `SetDeviceName` is never called, so
  the daily record is not per device; `human_touch` has another default area than its schema;
  `bonus_toggle` succeeds whatever happened; `kun28` takes souls for equipped whose equipping
  failed; a failed screenshot keeps `bounty_monster_recognition` in a loop without end;
  `team_builder` pairs with itself when it is run again in the same process; and
  `GetTaskDetail` tells a task without nodes with an invalid status.

The models follow the code in all of them; the properties excuse them by name (`strayed`,
`disturbed`, `misread`, a first run that listened).

Also seen in the model, without a promise in the repository to hold against it: a
kill between the two renames of a first installation makes every later `prepare` fail;
an update followed by an older one from the other source is replaced by it, because
the version check looks at the loaded catalogue; a core staged during a start is
rolled back by that start's failure without having been tried.

## 4. Proofs

`TaskRuntimeProofs` proves, for every `MaxRuns \in Nat` and without further
assumptions:

- `TypeCorrect`, `NativeUseSafe`: by the inductive invariant `IInv`. `NativeUseIsLive`
  is not inductive: that the executor finds its tasker depends on who holds
  `taskLock` (`LockOwner`), on `ready` implying that everything is built
  (`ReadyBuilt`), on nobody clearing `ready` while the executor holds the lock
  (`TaskKeepsReady`), and on a job existing only while it is awaited (`JobAwaited`).
- `Refinement`: the initial states are a session's, and each step is a session's
  step or leaves `phase` and `executing` alone, given `IInv` before and after. It
  needs `StoppingPoints` (the places of `stop` at which `stopping` is set) and
  `ClosedEmpty` (nothing is left at its end).
- `DependenciesSafe`: only `StartStep` and `CleanupStep` change `handles`; a
  lemma for each walks through the order.
- `BusyCorrect`: with `BusyInv`, which ties the flag, the queue of the executor and
  the number of accepted tasks together.
- `AnnouncedInOrder`: with `TurnInv`, which says that until a stop only the task in
  the executor's body can be announced and unanswered, and that its outcome is not
  lost.

`FrameBufferProofs` proves, for all readers, buffers, frames and setups:

- `TypesCorrect`: with `RoomForFrame` (a frame is begun only while there is a number left
  for it, and a reset of the numbers in between makes more room), `WriterHasBuffer` and
  `ReaderHasBuffer`. The counts are integers there, not naturals: see `MaxSetups`.
- `LockedSafe`, `DropsForReaders` and `RegisterImplemented`, for a process that sets up at most
  once (`MaxSetups <= 1`, which is how the service is used) and finitely many readers: by `SafeInv`.
  `OneSetup` and `NoEarlyReader` say that the buffers are made before there is a reader and freed
  after the last; then a count is the number of its readers (`CountsExact`), the writer has
  no reader that passed its check on its buffer (`WriterAlone`), and what is locked and copied is a
  whole frame that was the latest when its reader checked (`LockedIsWhole`, `CopyIsFrame`,
  `ReadIsLatest`). The writer finds no buffer only when its `rivals`, no two of which hold the
  same buffer (`RivalsDiffer`), are as many as the buffers it may take.

`AgentServiceProofs` proves, from `ConstantsAssumption` (the bounds are numbers, and there is a
configuration):

- `TypesCorrect`, `StoppedReleased`, `OneTask`: by `IInv`. That a command makes a new session and
  not one over another needs that commands are numbered and none is delivered twice (`CommandsDiffer`,
  `CommandsFresh`, `QueueShape`, `HeadsFit`), and that every session which is not over is its
  instance's agent or being released by it (`AgentsOwned`, `SessionsFit`, `StoppedIsOver`).
- `PromiseKept`: each session implements `TaskSession`, step by step.
- `QueueAccepted`: by `QueueInv`. While no alarm rings, a task the screen asked for is in exactly
  one place: a command, a session, or the last event (`OneTaskOut`); so when the next task of the
  queue is started, nobody is busy any more.

`BackgroundConnectionProofs` proves `DisplaysAlone` for all threads, calls and services and
without an assumption on when deaths are noticed: by `IInv`, which accounts for every display
that is shown while no notice has struck another service. It is the
connection's (`ShownFits`, `RemoteCleared`), or that of the caller that holds
the monitor and is connecting or closing it (`Locked`, `DisplayFits`), and these are one service
(`OneShown`). That a notice can strike only a service that was linked, and so published or about to be,
is `FreshUnlinked`.

`UpdateStoreProofs` proves, from the assumptions that the names of versions, cores and
of what is none are different, for all releases, cores and numbers of stagers:

- `StoresTypeCorrect`, `ActiveSafe`, `LoadedSafe`: by `FilesInv` and `CoreInv`.
  `active.json` is safe because its installer is the only writer (`OneWriter`) and what is
  being installed is nobody's yet (`OwnVersion`), so that deleting it on failure takes
  nothing from anyone.
- `FailedCoreGone`: what waits to be selected has never been selected (`TmpIsNew`,
  `WriteIsNew`), although the temporary file is shared.
- `PrepareSafe`: as long as there was no trouble, the bundled version is the active one
  or one preparer is about to make it so (`Untroubled`, `OnePreparer`).
- `SelectedSafe`: from the same `CoreInv`. Whatever happens to the shared temporary file, a
  version in it is a complete core's (`OnlyStaged`); and while updates take turns with it, its
  text is that of the one update that has it (`InTurns`), so what is renamed can be read.

`GoBindingProofs` proves, from `AddressAssumption` (an address is neither the agent
server nor nothing) and `OpensAssumption` (`MaxOpens` is a number), for all numbers of
objects, threads, names and callbacks:

- `LibrariesFollow`: `LoadInv` says how far an `Init` or `Release` has come through the list of
  libraries, and that `inited` is what a call that is under way began with.
- `TypesCorrect`: `TypeInv` adds to the types what an operation works on (`OperationOK`): `Server`
  only in the server's steps, a slot of the operation's own sort, one callback where one was made.
- `EntriesFollow`: `EntryInv`. That `Destroy` never takes the entry of the next owner of an
  address needs that at most one thread works on an object (`Alone`), that it exists
  (`WorkedOnLives`), and that entries belong to objects of the stores.
- `NoLeak`: `LeakInv`. `Owned` is the property; it is kept because an operation that takes callbacks out
  of an entry has them in its hands (`TakesEntry`) until it has dropped them from the table.
- `NoDeadlock`: `LockInv`. A store's lock is held only at the two points where its holder drops
  callbacks, a thread at such a point waits for readers only, and a reader waits for no one, since the
  look-up ends before the handler starts. A thread that frees an object waits for handlers, but holds
  no lock, and no handler frees an object. So a set of threads that wait for each other has
  no readers, hence no one at a drop point, hence no one waiting for a store, hence only threads that free,
  whose handlers are none of these.

The steps are sorted first (`BeginCases`, `Neutral`, `HandsOver`, `Calm`): most leave what an
invariant speaks of alone, and each proof takes up the others one by one.

`EntriesMatch` comes last, from the same assumptions: by `MatchInv`, which says for
every point of every operation what the framework holds that the entry does not say yet (`Told`,
`Untold`) or says no longer (`Dropped`), so that at rest the two agree (`Matches`); and by
`CallbackInv`: a callback is in one place of one entry, or in the hands of one operation.

`AgentProcessProofs` proves about the process whatever feature it uses. The features share no
variables, so a step of the process is a step of one of them or leaves it alone (`DailySteps`,
`ConfigSteps` and so on).

- `RecordsHonest`, from `DailyAssumption`: by `DailyInv`. A date in the file or in an agent's
  hands is no later than the last that `RecordExecution` gave to a run of the task
  (`DaysHappened`), and as long as no write was spoilt nobody is about to write less than was
  written (`NothingForgotten`).
- `AcknowledgedKept`, from `ConfigAssumption`: by `ConfigInv`; `WritersKeep` says that what is about to be
  written differs from what is promised in the writer's own key alone.
- `PartnersPaired`, from `PairingAssumption`: by `PairInv`. A connection to oneself carries no message
  that a partner could take for an answer, and nobody has connected before anyone listened (`Silent`).
- `AnswersEarned`, from `CountersAssumption` (no node is called nothing, counts to reach are positive, and a
  screen shows one to three texts): by `LogInv`. Every counter is a function of the log of calls: what the
  text counter holds for each text is all its reads, in succession or not, since the last miss, match or
  other node (`OcrInv`), what a task's
  counter holds was asked since its last no (`TaskInv`), and a counting run has as many hits as it says
  since it began (`CountingInv`). That there is a last such call is a least-element argument
  (`LeastOf`), from the library's theorem that `<` on the naturals is well-founded.
- `BestChosen`, from `WorldsAssumption` (every tab has a page, and rewards have numbers): by
  `FosterInv`. At the end of a tab what was found is everything within reach (`ScanFits`,
  `TabScanned`), and while the script searches, the best reward is on the page it looks at or on one still to
  come (`StillAhead`).
- `TeamChosen`, from `ScreensAssumption` and for lists of up to 44 pages of groups: by `ScreensInv`.
  `auto_battle` begins somewhere in the list and goes up 15 pages with each of its retries, 14 of them
  new; `AheadFromTop` and `AheadByPages` say that the group is still ahead of it, `TeamAhead` the same
  of the team. The bound is the code's: with 45 pages, and a screen that goes up one page per swipe,
  TLC finds a group that is never seen.

`GameScriptsProofs` proves the rest about the same process:

- `AllAsAsked`, from `GameAssumption` (there is a page and a moment, tickets and weights are
  naturals, challenges are lists of digits): by `KunInv`, `BountyInv`, `BatchInv` and a word each on
  time windows, weighted choices and touches. A monster that is unexplored is neither on a page before
  the present one nor within the attempts since the last exploration (`BountyInv`). A script that runs a list of
  tasks is determined by what it is asked: the tasks done are always a beginning of that list
  (`Follows`), and while none failed the game is what this beginning makes of it (`GameIs`). How
  often a task is in a list is counted by bijections. The moments of a window are compared by
  remainders, and that a weighted choice meets its cumulative weight is a least-element argument.
- `DetailsTold`, from `DocumentsAssumption` (documents nest finitely; what is not present has no
  parts): by `DetailInv`. A task only grows, so what a query was told stays true of it
  (`GrowthFits`); what the query has in hand at each of its calls is a number of nodes, a list of
  them, or a node with what was told of it (`SizeFits`, `ReadsFits`, `ToldFits`). The parser of
  combined recognitions is recursive. That a solution of its equation exists is shown by a greatest
  fixed point, and that it tells what is there by the nesting: of the documents that it misreads, one
  would have none of them as a part (`ParsedIsReadable`).
- `AgentTyped`, from the assumptions of all features: by `AgentInv`, their invariants together, with
  what the registration of the runners adds (`PhasesFit`). The searches are typed without their
  history, so there is no bound on pages here.

Each of these invariants was checked by TLC, on the runs' instances or on smaller ones, before it was
proved. Two of the definitions could not be proved about because they were wrong: `Failed` of
`TeamScreens` and `RepeatChallengeNTimes` of `GameScripts` were `CASE`s whose guards
overlap. TLC takes the first that holds, but what such a `CASE` means is any of them. The
recursive operators of `TaskDetails`, `AgentCounters` and `GameScripts` (`Total`) became recursive
functions, so that the modules which use them can be proved about.

Only model-checked:

- all liveness (`StopTerminates`, `StopSettles`, `StartSettles`, `ReleaseTerminates`,
  `ServicesEndWithApp`, `EveryCallReturns`), for which there is no prover here;
- `SomeThreadGoesOn`, which speaks of `ENABLED`;
- `ChosenTeamFights` for lists of more than 44 pages of groups, of which it is false.

Every other invariant and action property that a run checks is a theorem.

The refinement theorems are about the safety part of the session, which is all it has, and about the
whole of the register.

## 5. Not modelled

- Inside the modelled parts: the content of tasks, options and frames; the texts of
  statuses and the notification; `RuntimeStatusBus.latest` and the re-creation of
  the screen model; the second read of the preferences in
  `MaaApplication.createAgentService`; destruction of the service by the system on
  its own account; the C++ memory model (the frame buffer is
  sequentially consistent here, while the code's increment is only an acquire).
- Inside the background display: launching and moving the game, screenshots and touches,
  the observers and the screen's `backgroundActive`; a service that hangs in a call;
  `close` failing in a live service, after which `destroy` is skipped; the
  launcher that tests pass to `connect`; a restart of the display for another
  resolution, which nothing asks for.
- Inside the agent: `random_wait`, `guess`, `question_matcher`, `restart` and `my_recognizer`,
  which keep no state and look once; pipeline overrides; waiting times; what the game does on
  its own account. The framework's behaviour after `ClearCache` is external: what it told
  before may be gone.
- Inside the binding: the builders of pipeline nodes, image and string buffers, debug
  controllers, the toolkit's device search, the agent client, and the examples.
- Parts planned next are marked below; network clients, JSON and zip parsing,
  Compose screens, JNA declarations and vendored code are left out for good: they
  keep no state that several actors share, or are not this project's.

## 6. Plan

Next, in this order:

1. The screen's `backgroundActive` against the fields of `BackgroundConnection`.
2. `TouchInput`: the planner and injector over failing injections against the
   pointers the system holds; and `PreviewQueue`: images and windows released once.
3. `Schedule`: armed alarms against the stored entries.
