------------------------- MODULE TaskRuntimeProofs -------------------------
(***************************************************************************)
(* Proofs about TaskRuntime, for any bound on the number of runs.          *)
(*                                                                         *)
(* The inductive invariant says who owns taskLock, what holding it means   *)
(* for the native objects, and at which points of stop the session is      *)
(* already marked as stopping.  NativeUseIsLive and the refinement of      *)
(* TaskSession follow from it.                                             *)
(***************************************************************************)
EXTENDS TaskRuntime, TLAPS

\* taskLock is held by the call that is between its acquisition and release.
LockOwner ==
  /\ taskLock = "cmd" <=> cpc \in {"build", "unwind", "clean"}
  /\ taskLock = "task" <=> tpc \in {"prepare", "post", "wait"}

\* ready is set once everything is built, and cleared before anything is destroyed.
ReadyBuilt == ready => handles = Handles /\ cpc \in {"idle", "cancel", "post", "lock"}

\* The executor thread keeps the runtime ready while it holds taskLock.
TaskKeepsReady == tpc \in {"prepare", "post", "wait"} => ready

\* A task job exists only while the executor thread waits for it.
JobAwaited == job # "none" => tpc = "wait"

\* A stop job belongs to an existing tasker.
StopJobOwned == stopJob # "none" => "tasker" \in handles

StoppingPoints == stopping <=> cpc \in {"lock", "clean", "shutdown", "stopped"}

\* The last points of stop come after the whole teardown.
ClosedEmpty == cpc \in {"shutdown", "stopped"} => handles = {}

\* A busy executor thread works on an accepted run.
BusyHasRun == tpc # "idle" => cur # NoRun

IInv ==
  /\ TypeOK
  /\ BusyHasRun
  /\ LockOwner
  /\ ReadyBuilt
  /\ TaskKeepsReady
  /\ JobAwaited
  /\ StopJobOwned
  /\ StoppingPoints
  /\ ClosedEmpty

\* The initial states satisfy the invariant.
LEMMA InitInv == Init => IInv
<1> SUFFICES ASSUME Init PROVE IInv
  OBVIOUS
<1>1. /\ attached \in BOOLEAN /\ ready \in BOOLEAN /\ stopping \in BOOLEAN
      /\ stopId \in BOOLEAN /\ running \in BOOLEAN /\ down \in BOOLEAN
      /\ interrupted \in BOOLEAN /\ alive \in BOOLEAN
  BY Zenon DEF Init
<1> QED
  BY <1>1, MaxRunsAssumption
  DEF MaxRunsAssumption, Init, IInv, TypeOK, BusyHasRun, LockOwner, ReadyBuilt, TaskKeepsReady,
      JobAwaited, StopJobOwned, StoppingPoints, ClosedEmpty, Handles, CommandPoints, TaskPoints,
      Answers, Outcomes, JobStates, NoRun, Runs

\* Every step keeps the invariant: one step of the proof per action.
LEMMA NextInv == IInv /\ [Next]_vars => IInv'
<1> SUFFICES ASSUME IInv, [Next]_vars PROVE IInv'
  OBVIOUS
<1> USE MaxRunsAssumption
    DEF MaxRunsAssumption, IInv, TypeOK, BusyHasRun, LockOwner, ReadyBuilt, TaskKeepsReady, JobAwaited, StopJobOwned,
        StoppingPoints, ClosedEmpty, Handles, CommandPoints, TaskPoints, Answers, Outcomes,
        JobStates, NoRun, Runs, vars, cvars, runtimeVars, controllerVars, threadVars,
        nativeVars, eventVars
<1>1. CASE StartAttached
  BY <1>1 DEF StartAttached
<1>2. CASE StartWithoutResources
  BY <1>2 DEF StartWithoutResources
<1>3. CASE StartRefused
  BY <1>3 DEF StartRefused
<1>4. CASE StartBegin
  BY <1>4 DEF StartBegin
<1>5. CASE StartFails
  <2>1. ready' \in BOOLEAN
    BY <1>5, Zenon DEF StartFails, EnterCleanup
  <2> QED
    BY <1>5, <2>1 DEF StartFails, EnterCleanup
<1>6. CASE RunAccepted
  BY <1>6 DEF RunAccepted, Accepts
<1>7. CASE StopBegin
  BY <1>7 DEF StopBegin
<1>8. CASE StartStep
  BY <1>8 DEF StartStep, BuildOrder
<1>9. CASE StartDone
  BY <1>9 DEF StartDone
<1>10. CASE CleanupStep
  <2>1. PICK h \in Handles : h \in handles /\ Destroy(h)
    BY <1>10 DEF CleanupStep, TeardownOrder
  <2>2. stopId' \in BOOLEAN /\ alive' \in BOOLEAN
    BY <2>1, Zenon DEF Destroy
  <2>3. StopJobOwned' /\ handles' \subseteq handles /\ stopJob' \in {"none", stopJob}
    BY <2>1 DEF Destroy
  <2> QED
    BY <1>10, <2>2, <2>3 DEF CleanupStep
<1>11. CASE UnwindDone
  BY <1>11 DEF UnwindDone
<1>12. CASE StopCancel
  BY <1>12 DEF StopCancel
<1>13. CASE StopPost
  BY <1>13 DEF StopPost
<1>14. CASE StopLock
  <2>1. ready' \in BOOLEAN
    BY <1>14, Zenon DEF StopLock, EnterCleanup
  <2> QED
    BY <1>14, <2>1 DEF StopLock, EnterCleanup
<1>15. CASE CleanDone
  BY <1>15 DEF CleanDone
<1>16. CASE StopDone
  <2>1. attached' \in BOOLEAN /\ running' \in BOOLEAN
    BY <1>16, Zenon DEF StopDone
  <2> QED
    BY <1>16, <2>1 DEF StopDone
<1>17. CASE TaskPick
  <2>1. interrupted' \in BOOLEAN
    BY <1>17, Zenon DEF TaskPick
  <2> QED
    BY <1>17, <2>1 DEF TaskPick
<1>18. CASE TaskAnnounce
  BY <1>18 DEF TaskAnnounce
<1>19. CASE TaskCheck
  BY <1>19 DEF TaskCheck
<1>20. CASE TaskEnter
  BY <1>20 DEF TaskEnter, Fail
<1>21. CASE TaskPrepare
  BY <1>21 DEF TaskPrepare, Fail
<1>22. CASE TaskPost
  BY <1>22 DEF TaskPost, Fail
<1>23. CASE TaskWait
  BY <1>23 DEF TaskWait
<1>24. CASE TaskClear
  <2>1. running' \in BOOLEAN
    BY <1>24, Zenon DEF TaskClear
  <2> QED
    BY <1>24, <2>1 DEF TaskClear
<1>25. CASE TaskGate
  BY <1>25 DEF TaskGate
<1>26. CASE TaskReport
  BY <1>26 DEF TaskReport
<1>27. CASE JobBegins
  BY <1>27 DEF JobBegins
<1>28. CASE JobAborts
  BY <1>28 DEF JobAborts
<1>29. CASE StopJobDone
  BY <1>29 DEF StopJobDone
<1>30. CASE JobEnds
  BY <1>30 DEF JobEnds
<1>31. CASE AgentDies
  <2>1. alive' \in BOOLEAN
    BY <1>31, Zenon DEF AgentDies
  <2> QED
    BY <1>31, <2>1 DEF AgentDies
<1>32. CASE Finished
  BY <1>32 DEF Finished
<1>33. CASE UNCHANGED vars
  BY <1>33
<1> QED
  BY <1>1, <1>2, <1>3, <1>4, <1>5, <1>6, <1>7, <1>8, <1>9, <1>10, <1>11, <1>12, <1>13, <1>14, <1>15, <1>16, <1>17, <1>18, <1>19, <1>20, <1>21, <1>22, <1>23, <1>24, <1>25, <1>26, <1>27, <1>28, <1>29, <1>30, <1>31, <1>32, <1>33
  DEF Next, Command, CommandStep, TaskStep, NativeStep

\* The invariant holds throughout.
THEOREM Invariance == Spec => []IInv
<1>1. Init => IInv
  BY InitInv
<1>2. IInv /\ [Next]_vars => IInv'
  BY NextInv
<1> QED
  BY <1>1, <1>2, PTL DEF Spec

\* Every variable keeps its type (TypeOK of MCTaskRuntime's run).
THEOREM TypeCorrect == Spec => []TypeOK
<1>1. IInv => TypeOK
  BY DEF IInv
<1> QED
  BY <1>1, Invariance, PTL

\* MaaFrameworkRuntime never lets native work run on a destroyed object: the
\* two locks and the wait for the stop job in cleanup are enough.
THEOREM NativeUseSafe == Spec => []NativeUseIsLive
<1>1. IInv => NativeUseIsLive
  BY DEF IInv, NativeUseIsLive, LockOwner, ReadyBuilt, TaskKeepsReady, JobAwaited, StopJobOwned, Handles
<1> QED
  BY <1>1, Invariance, PTL

-----------------------------------------------------------------------------
(* The refinement of TaskSession.                                           *)

\* A freshly constructed runtime is a new session.
LEMMA InitRefines == Init => Session!SessionInit
BY DEF Init, Session!SessionInit

\* Every step of the runtime is a step of the session, or none.
LEMMA NextRefines == IInv /\ IInv' /\ [Next]_vars => [Session!SessionNext]_(Session!svars)
<1> SUFFICES ASSUME IInv, IInv', [Next]_vars PROVE [Session!SessionNext]_(Session!svars)
  OBVIOUS
<1> USE DEF IInv, TypeOK, LockOwner, ReadyBuilt, TaskKeepsReady, JobAwaited, StoppingPoints,
            ClosedEmpty, Handles, vars, cvars, runtimeVars, controllerVars, threadVars,
            nativeVars, eventVars, Session!svars, Session!SessionNext, Session!Open,
            Session!Begin, Session!End, Session!RequestStop, Session!Close
<1>1. CASE StartAttached
  BY <1>1 DEF StartAttached
<1>2. CASE StartWithoutResources
  BY <1>2 DEF StartWithoutResources
<1>3. CASE StartRefused
  BY <1>3 DEF StartRefused
<1>4. CASE StartBegin
  BY <1>4 DEF StartBegin
<1>5. CASE StartFails
  BY <1>5 DEF StartFails, EnterCleanup
<1>6. CASE RunAccepted
  BY <1>6 DEF RunAccepted, Accepts
<1>7. CASE StopBegin
  BY <1>7 DEF StopBegin
<1>8. CASE StartStep
  BY <1>8 DEF StartStep
<1>9. CASE StartDone
  BY <1>9 DEF StartDone
<1>10. CASE CleanupStep
  BY <1>10 DEF CleanupStep, Destroy
<1>11. CASE UnwindDone
  BY <1>11 DEF UnwindDone
<1>12. CASE StopCancel
  BY <1>12 DEF StopCancel
<1>13. CASE StopPost
  BY <1>13 DEF StopPost
<1>14. CASE StopLock
  BY <1>14 DEF StopLock, EnterCleanup
<1>15. CASE CleanDone
  BY <1>15 DEF CleanDone
<1>16. CASE StopDone
  BY <1>16 DEF StopDone
<1>17. CASE TaskPick
  BY <1>17 DEF TaskPick
<1>18. CASE TaskAnnounce
  BY <1>18 DEF TaskAnnounce
<1>19. CASE TaskCheck
  BY <1>19 DEF TaskCheck
<1>20. CASE TaskEnter
  BY <1>20 DEF TaskEnter, Fail
<1>21. CASE TaskPrepare
  BY <1>21 DEF TaskPrepare, Fail
<1>22. CASE TaskPost
  BY <1>22 DEF TaskPost, Fail
<1>23. CASE TaskWait
  BY <1>23 DEF TaskWait
<1>24. CASE TaskClear
  BY <1>24 DEF TaskClear
<1>25. CASE TaskGate
  BY <1>25 DEF TaskGate
<1>26. CASE TaskReport
  BY <1>26 DEF TaskReport
<1>27. CASE JobBegins
  BY <1>27 DEF JobBegins
<1>28. CASE JobAborts
  BY <1>28 DEF JobAborts
<1>29. CASE StopJobDone
  BY <1>29 DEF StopJobDone
<1>30. CASE JobEnds
  BY <1>30 DEF JobEnds
<1>31. CASE AgentDies
  BY <1>31 DEF AgentDies
<1>32. CASE Finished
  BY <1>32 DEF Finished
<1>33. CASE UNCHANGED vars
  BY <1>33
<1> QED
  BY <1>1, <1>2, <1>3, <1>4, <1>5, <1>6, <1>7, <1>8, <1>9, <1>10, <1>11, <1>12, <1>13, <1>14, <1>15, <1>16, <1>17, <1>18, <1>19, <1>20, <1>21, <1>22, <1>23, <1>24, <1>25, <1>26, <1>27, <1>28, <1>29, <1>30, <1>31, <1>32, <1>33
  DEF Next, Command, CommandStep, TaskStep, NativeStep

\* The Kotlin runtime implements TaskSession: in particular no native task
\* begins once stop was requested, and a closed session executes nothing.
THEOREM Refinement == Spec => ImplementsSession
<1>1. Init => Session!SessionInit
  BY InitRefines
<1>2. IInv /\ IInv' /\ [Next]_vars => [Session!SessionNext]_(Session!svars)
  BY NextRefines
<1> QED
  BY <1>1, <1>2, Invariance, PTL DEF Spec, ImplementsSession, Session!SessionSpec

-----------------------------------------------------------------------------
(* The order of creation and destruction.                                   *)

\* Whichever object start creates next, what it needs exists already.
LEMMA BuildKeepsDependencies == DependenciesLive /\ StartStep => DependenciesLive'
<1> SUFFICES ASSUME DependenciesLive, StartStep PROVE DependenciesLive'
  OBVIOUS
<1>1. PICK i \in 1 .. 6 : /\ handles = {BuildOrder[j] : j \in 1 .. i - 1}
                          /\ handles' = handles \cup {BuildOrder[i]}
  BY DEF StartStep, BuildOrder
<1>2. Needs[BuildOrder[i]] \subseteq handles
  <2>1. CASE i = 1
    BY <2>1 DEF Needs, BuildOrder, Handles
  <2>2. CASE i = 2
    BY <2>2 DEF Needs, BuildOrder, Handles
  <2>3. CASE i = 3
    BY <1>1, <2>3 DEF Needs, BuildOrder, Handles
  <2>4. CASE i = 4
    BY <1>1, <2>4 DEF Needs, BuildOrder, Handles
  <2>5. CASE i = 5
    BY <2>5 DEF Needs, BuildOrder, Handles
  <2>6. CASE i = 6
    BY <1>1, <2>6 DEF Needs, BuildOrder, Handles
  <2> QED
    BY <2>1, <2>2, <2>3, <2>4, <2>5, <2>6
<1> QED
  BY <1>1, <1>2 DEF DependenciesLive

\* Whichever object cleanup destroys next, nothing that exists needs it.
LEMMA TeardownKeepsDependencies ==
  handles \subseteq Handles /\ DependenciesLive /\ CleanupStep => DependenciesLive'
<1> SUFFICES ASSUME handles \subseteq Handles, DependenciesLive, CleanupStep
             PROVE  DependenciesLive'
  OBVIOUS
<1>1. PICK i \in 1 .. 6 : /\ \A j \in 1 .. i - 1 : TeardownOrder[j] \notin handles
                          /\ handles' = handles \ {TeardownOrder[i]}
  BY DEF CleanupStep, Destroy, TeardownOrder
<1>2. \A h \in handles' : TeardownOrder[i] \notin Needs[h]
  <2>1. CASE i = 1
    BY <1>1, <2>1 DEF Needs, TeardownOrder, Handles
  <2>2. CASE i = 2
    BY <1>1, <2>2 DEF Needs, TeardownOrder, Handles
  <2>3. CASE i = 3
    BY <1>1, <2>3 DEF Needs, TeardownOrder, Handles
  <2>4. CASE i = 4
    BY <1>1, <2>4 DEF Needs, TeardownOrder, Handles
  <2>5. CASE i = 5
    <3>1. "control" \notin handles
      BY <1>1, <2>5 DEF TeardownOrder
    <3> QED
      BY <1>1, <2>5, <3>1 DEF Needs, TeardownOrder, Handles
  <2>6. CASE i = 6
    <3>1. "tasker" \notin handles /\ "client" \notin handles
      BY <1>1, <2>6 DEF TeardownOrder
    <3> QED
      BY <1>1, <2>6, <3>1 DEF Needs, TeardownOrder, Handles
  <2> QED
    BY <2>1, <2>2, <2>3, <2>4, <2>5, <2>6
<1> QED
  BY <1>1, <1>2 DEF DependenciesLive

\* No native object, and not the callback table, outlives one that refers to it.
THEOREM DependenciesSafe == Spec => []DependenciesLive
<1>1. Init => DependenciesLive
  BY DEF Init, DependenciesLive
<1>2. IInv /\ DependenciesLive /\ [Next]_vars => DependenciesLive'
  <2> SUFFICES ASSUME IInv, DependenciesLive, [Next]_vars PROVE DependenciesLive'
    OBVIOUS
  <2>1. CASE StartStep
    BY <2>1, BuildKeepsDependencies
  <2>2. CASE CleanupStep
    BY <2>2, TeardownKeepsDependencies DEF IInv, TypeOK
  <2>3. CASE handles' = handles
    BY <2>3 DEF DependenciesLive
  <2>4. StartStep \/ CleanupStep \/ handles' = handles
    BY DEF Next, Command, CommandStep, TaskStep, NativeStep, vars, cvars, runtimeVars,
           controllerVars, StartAttached, StartWithoutResources, StartRefused, StartBegin,
           StartDone, StartFails, UnwindDone, RunAccepted, StopBegin, StopCancel, StopPost,
           StopLock, CleanDone, StopDone, TaskPick, TaskAnnounce, TaskCheck, TaskEnter,
           TaskPrepare, TaskPost, TaskWait, TaskClear, TaskGate, TaskReport, JobBegins,
           JobEnds, JobAborts, StopJobDone, AgentDies, Finished
  <2> QED
    BY <2>1, <2>2, <2>3, <2>4
<1> QED
  BY <1>1, <1>2, Invariance, PTL DEF Spec

-----------------------------------------------------------------------------
(* The controller's flag and the order of the events.                       *)

\* At most one future is in the queue or in the body, and the flag says so.
BusyInv ==
  /\ tpc \in WorkPoints \cup {"clear"} /\ ~down => running /\ queued = NoRun /\ cur = accepted
  /\ queued # NoRun => queued = accepted /\ running
  /\ tpc \in {"gate", "report"} /\ running => cur < accepted
  /\ tpc \in {"gate", "report"} /\ ~running /\ ~down => cur = accepted
  /\ tpc # "idle" => cur <= accepted
  /\ \A r \in answered : r <= accepted /\ (running => r < accepted)
  /\ down => ~running /\ queued = NoRun
  /\ accepted > 0 => attached \/ down

\* BusyInv is kept by every step.
LEMMA NextBusy == IInv /\ BusyInv /\ [Next]_vars => BusyInv'
<1> SUFFICES ASSUME IInv, BusyInv, [Next]_vars PROVE BusyInv'
  OBVIOUS
<1> USE MaxRunsAssumption
    DEF MaxRunsAssumption, IInv, TypeOK, BusyHasRun, BusyInv, WorkPoints, TaskPoints, NoRun, Runs,
        vars, cvars, runtimeVars, controllerVars, threadVars,
        nativeVars, eventVars
<1>1. CASE StartAttached
  BY <1>1 DEF StartAttached
<1>2. CASE StartWithoutResources
  BY <1>2 DEF StartWithoutResources
<1>3. CASE StartRefused
  BY <1>3 DEF StartRefused
<1>4. CASE StartBegin
  BY <1>4 DEF StartBegin
<1>5. CASE StartFails
  BY <1>5 DEF StartFails, EnterCleanup
<1>6. CASE RunAccepted
  BY <1>6 DEF RunAccepted, Accepts
<1>7. CASE StopBegin
  BY <1>7 DEF StopBegin
<1>8. CASE StartStep
  BY <1>8 DEF StartStep
<1>9. CASE StartDone
  BY <1>9 DEF StartDone
<1>10. CASE CleanupStep
  BY <1>10 DEF CleanupStep, Destroy
<1>11. CASE UnwindDone
  BY <1>11 DEF UnwindDone
<1>12. CASE StopCancel
  BY <1>12 DEF StopCancel
<1>13. CASE StopPost
  BY <1>13 DEF StopPost
<1>14. CASE StopLock
  BY <1>14 DEF StopLock, EnterCleanup
<1>15. CASE CleanDone
  BY <1>15 DEF CleanDone
<1>16. CASE StopDone
  <2>1. running' \in BOOLEAN /\ ~running'
    BY <1>16, Zenon DEF StopDone
  <2>2. down' <=> down \/ attached
    BY <1>16 DEF StopDone
  <2>3. tpc # "idle" => down \/ attached
    OBVIOUS
  <2> QED
    BY <1>16, <2>1, <2>2, <2>3 DEF StopDone
<1>17. CASE TaskPick
  BY <1>17 DEF TaskPick
<1>18. CASE TaskAnnounce
  BY <1>18 DEF TaskAnnounce
<1>19. CASE TaskCheck
  BY <1>19 DEF TaskCheck
<1>20. CASE TaskEnter
  BY <1>20 DEF TaskEnter, Fail
<1>21. CASE TaskPrepare
  BY <1>21 DEF TaskPrepare, Fail
<1>22. CASE TaskPost
  BY <1>22 DEF TaskPost, Fail
<1>23. CASE TaskWait
  BY <1>23 DEF TaskWait
<1>24. CASE TaskClear
  BY <1>24 DEF TaskClear
<1>25. CASE TaskGate
  BY <1>25 DEF TaskGate
<1>26. CASE TaskReport
  BY <1>26 DEF TaskReport
<1>27. CASE JobBegins
  BY <1>27 DEF JobBegins
<1>28. CASE JobAborts
  BY <1>28 DEF JobAborts
<1>29. CASE StopJobDone
  BY <1>29 DEF StopJobDone
<1>30. CASE JobEnds
  BY <1>30 DEF JobEnds
<1>31. CASE AgentDies
  BY <1>31 DEF AgentDies
<1>32. CASE Finished
  BY <1>32 DEF Finished
<1>33. CASE UNCHANGED vars
  BY <1>33
<1> QED
  BY <1>1, <1>2, <1>3, <1>4, <1>5, <1>6, <1>7, <1>8, <1>9, <1>10, <1>11, <1>12, <1>13, <1>14, <1>15, <1>16, <1>17, <1>18, <1>19, <1>20, <1>21, <1>22, <1>23, <1>24, <1>25, <1>26, <1>27, <1>28, <1>29, <1>30, <1>31, <1>32, <1>33
  DEF Next, Command, CommandStep, TaskStep, NativeStep

\* A working task keeps the controller busy, and whoever hears the outcome of
\* a run finds the controller ready for the next one.
THEOREM BusyCorrect == Spec => []BusyWhileWorking
<1>1. Init => BusyInv
  BY MaxRunsAssumption
  DEF MaxRunsAssumption, Init, BusyInv, WorkPoints, NoRun
<1>2. IInv /\ BusyInv /\ [Next]_vars => BusyInv'
  BY NextBusy
<1>3. IInv /\ BusyInv => BusyWhileWorking
  BY DEF IInv, TypeOK, BusyInv, BusyWhileWorking, Runs
<1> QED
  BY <1>1, <1>2, <1>3, Invariance, PTL DEF Spec

\* Until a stop, only the run in the body may be announced and unanswered, and
\* a body past its pipeline call has an outcome to report.
TurnInv ==
  cpc \notin StopPoints =>
    /\ ~interrupted /\ ~down
    /\ tpc \in {"idle", "announce"} => announced \subseteq answered
    /\ announced \subseteq answered \cup {cur}
    /\ tpc \in {"clear", "gate", "report"} => outcome # "none"

\* TurnInv is kept by every step.
LEMMA NextTurn == IInv /\ TurnInv /\ [Next]_vars => TurnInv'
<1> SUFFICES ASSUME IInv, TurnInv, [Next]_vars PROVE TurnInv'
  OBVIOUS
<1> USE DEF IInv, TypeOK, StoppingPoints, TurnInv, StopPoints, TaskPoints, CommandPoints, Outcomes,
            JobStates,
            vars, cvars, runtimeVars, controllerVars, threadVars,
            nativeVars, eventVars
<1>1. CASE StartAttached
  BY <1>1 DEF StartAttached
<1>2. CASE StartWithoutResources
  BY <1>2 DEF StartWithoutResources
<1>3. CASE StartRefused
  BY <1>3 DEF StartRefused
<1>4. CASE StartBegin
  BY <1>4 DEF StartBegin
<1>5. CASE StartFails
  BY <1>5 DEF StartFails, EnterCleanup
<1>6. CASE RunAccepted
  BY <1>6 DEF RunAccepted, Accepts
<1>7. CASE StopBegin
  BY <1>7 DEF StopBegin
<1>8. CASE StartStep
  BY <1>8 DEF StartStep
<1>9. CASE StartDone
  BY <1>9 DEF StartDone
<1>10. CASE CleanupStep
  BY <1>10 DEF CleanupStep, Destroy
<1>11. CASE UnwindDone
  BY <1>11 DEF UnwindDone
<1>12. CASE StopCancel
  BY <1>12 DEF StopCancel
<1>13. CASE StopPost
  BY <1>13 DEF StopPost
<1>14. CASE StopLock
  BY <1>14 DEF StopLock, EnterCleanup
<1>15. CASE CleanDone
  BY <1>15 DEF CleanDone
<1>16. CASE StopDone
  BY <1>16 DEF StopDone
<1>17. CASE TaskPick
  BY <1>17 DEF TaskPick
<1>18. CASE TaskAnnounce
  BY <1>18 DEF TaskAnnounce
<1>19. CASE TaskCheck
  BY <1>19 DEF TaskCheck
<1>20. CASE TaskEnter
  BY <1>20 DEF TaskEnter, Fail
<1>21. CASE TaskPrepare
  BY <1>21 DEF TaskPrepare, Fail
<1>22. CASE TaskPost
  BY <1>22 DEF TaskPost, Fail
<1>23. CASE TaskWait
  BY <1>23 DEF TaskWait
<1>24. CASE TaskClear
  BY <1>24 DEF TaskClear
<1>25. CASE TaskGate
  BY <1>25 DEF TaskGate
<1>26. CASE TaskReport
  BY <1>26 DEF TaskReport
<1>27. CASE JobBegins
  BY <1>27 DEF JobBegins
<1>28. CASE JobAborts
  BY <1>28 DEF JobAborts
<1>29. CASE StopJobDone
  BY <1>29 DEF StopJobDone
<1>30. CASE JobEnds
  BY <1>30 DEF JobEnds
<1>31. CASE AgentDies
  BY <1>31 DEF AgentDies
<1>32. CASE Finished
  BY <1>32 DEF Finished
<1>33. CASE UNCHANGED vars
  BY <1>33
<1> QED
  BY <1>1, <1>2, <1>3, <1>4, <1>5, <1>6, <1>7, <1>8, <1>9, <1>10, <1>11, <1>12, <1>13, <1>14, <1>15, <1>16, <1>17, <1>18, <1>19, <1>20, <1>21, <1>22, <1>23, <1>24, <1>25, <1>26, <1>27, <1>28, <1>29, <1>30, <1>31, <1>32, <1>33
  DEF Next, Command, CommandStep, TaskStep, NativeStep

\* Started events never overtake the outcome of an earlier run.
THEOREM AnnouncedInOrder == Spec => AnnouncedInTurn
<1>1. Init => TurnInv
  BY DEF Init, TurnInv
<1>2. IInv /\ TurnInv /\ [Next]_vars => TurnInv'
  BY NextTurn
<1>3. TurnInv /\ [Next]_vars => [announced' # announced => announced \subseteq answered \/ cpc \in StopPoints]_vars
  <2> SUFFICES ASSUME TurnInv, Next, announced' # announced
               PROVE  announced \subseteq answered \/ cpc \in StopPoints
    OBVIOUS
  <2>1. tpc = "announce"
    BY DEF Next, Command, CommandStep, TaskStep, NativeStep, vars, eventVars,
           StartAttached, StartWithoutResources, StartRefused, StartBegin, StartStep, CleanupStep,
           StartDone, StartFails, UnwindDone, RunAccepted, StopBegin, StopCancel, StopPost,
           StopLock, CleanDone, StopDone, TaskPick, TaskAnnounce, TaskCheck, TaskEnter,
           TaskPrepare, TaskPost, TaskWait, TaskClear, TaskGate, TaskReport, JobBegins,
           JobEnds, JobAborts, StopJobDone, AgentDies, Finished
  <2> QED
    BY <2>1 DEF TurnInv
<1> QED
  BY <1>1, <1>2, <1>3, Invariance, PTL DEF Spec, AnnouncedInTurn
=============================================================================
