----------------------------- MODULE AgentProcess -----------------------------
(***************************************************************************)
(* The agent process: it loads the framework, registers its actions and    *)
(* recognitions with the agent server, serves the calls of the client and  *)
(* shuts down.  What the calls do is in the modules extended here; each    *)
(* behaviour uses one feature, since the features share no state.          *)
(***************************************************************************)
EXTENDS DailyTasks, ConfigValues, AgentCounters, FosterSearch, TeamScreens, TeamPairing,
        TaskDetails, GameScripts

VARIABLES
  phase,       \* how far main has come
  registered,  \* runners registered so far
  inited,      \* the framework is loaded
  feature      \* what the client uses the agent for

processVars == <<phase, registered, inited, feature>>
scriptVars == <<dailyVars, configVars, counterVars, fosterVars, screenVars, pairingVars, detailVars,
                gameVars>>
vars == <<processVars, scriptVars>>

CustomActions == 25
CustomRecognitions == 6
Phases == {"args", "init", "load", "option", "register", "start", "serving", "joined",
           "shutdown", "exited"}
Features == {"daily", "config", "ocr", "taskRecognition", "taskAction", "coBattle", "count",
             "foster", "screens", "pairing", "details", "kun28", "bounty", "time", "random",
             "touch", "batch"}
Unused == "none"

Init ==
  /\ phase = "args" /\ registered = 0 /\ inited = FALSE /\ feature = Unused
  /\ DailyInit /\ ConfigInit /\ CountersInit /\ FosterInit /\ ScreensInit /\ PairingInit
  /\ DetailInit /\ GameInit

Goes(from, to) == phase = from /\ phase' = to

\* log.Fatal: the process exits at once, and what is loaded is not released.
Fatal(from) == Goes(from, "exited") /\ UNCHANGED <<registered, inited, feature>>

\* agentIdentifier
Identified == Goes("args", "init") /\ UNCHANGED <<registered, inited, feature>>
NotIdentified == Fatal("args")

InitFramework == Goes("init", "load") /\ inited' = TRUE /\ UNCHANGED <<registered, feature>>
InitFrameworkFails == Fatal("init")

\* projectinterface.Load and ConfigInitOption: their errors are only logged.
LoadContext == Goes("load", "option") /\ UNCHANGED <<registered, inited, feature>>
InitOption == Goes("option", "register") /\ UNCHANGED <<registered, inited, feature>>

\* registerAll: the actions, then the recognitions, up to the first that is refused
RegisterNext ==
  /\ phase = "register" /\ registered < CustomActions + CustomRecognitions
  /\ registered' = registered + 1
  /\ UNCHANGED <<phase, inited, feature>>

RegisterFails == registered < CustomActions + CustomRecognitions /\ Fatal("register")

\* A bug: a refused registration is passed over.
BugAllRegistered == Goes("register", "start") /\ UNCHANGED <<registered, inited, feature>>

AllRegistered ==
  /\ registered = CustomActions + CustomRecognitions
  /\ Goes("register", "start")
  /\ UNCHANGED <<registered, inited, feature>>

StartServer == Goes("start", "serving") /\ UNCHANGED <<registered, inited, feature>>
StartServerFails == Fatal("start")

Choose(f) ==
  /\ phase = "serving" /\ feature = Unused
  /\ feature' = f
  /\ UNCHANGED <<phase, registered, inited>>

\* The client goes away; here, before it has used anything.
Join == feature = Unused /\ Goes("serving", "joined") /\ UNCHANGED <<registered, inited, feature>>
ShutDownServer == Goes("joined", "shutdown") /\ UNCHANGED <<registered, inited, feature>>

\* The deferred Release; when it fails, the framework stays loaded.
Release(ok) ==
  /\ Goes("shutdown", "exited")
  /\ inited' = ~ok
  /\ UNCHANGED <<registered, feature>>

ProcessNext ==
  /\ \/ Identified \/ NotIdentified \/ InitFramework \/ InitFrameworkFails \/ LoadContext
     \/ InitOption \/ RegisterNext \/ RegisterFails \/ AllRegistered \/ StartServer
     \/ StartServerFails \/ Join \/ ShutDownServer
     \/ \E f \in Features : Choose(f)
     \/ \E ok \in BOOLEAN : Release(ok)
  /\ UNCHANGED scriptVars

Uses(f) == phase = "serving" /\ feature = f /\ UNCHANGED processVars

Next ==
  \/ ProcessNext
  \/ /\ Uses("daily") /\ DailyNext
     /\ UNCHANGED <<configVars, counterVars, fosterVars, screenVars, pairingVars, detailVars, gameVars>>
  \/ /\ Uses("config") /\ ConfigNext
     /\ UNCHANGED <<dailyVars, counterVars, fosterVars, screenVars, pairingVars, detailVars, gameVars>>
  \/ /\ \/ Uses("ocr") /\ OcrNext
        \/ Uses("taskRecognition") /\ TaskRecognitionNext
        \/ Uses("taskAction") /\ TaskActionNext
        \/ Uses("coBattle") /\ CoBattleNext
        \/ Uses("count") /\ CountNext
     /\ UNCHANGED <<dailyVars, configVars, fosterVars, screenVars, pairingVars, detailVars, gameVars>>
  \/ /\ Uses("foster") /\ FosterNext
     /\ UNCHANGED <<dailyVars, configVars, counterVars, screenVars, pairingVars, detailVars, gameVars>>
  \/ /\ Uses("screens") /\ ScreensNext
     /\ UNCHANGED <<dailyVars, configVars, counterVars, fosterVars, pairingVars, detailVars, gameVars>>
  \/ /\ Uses("pairing") /\ PairingNext
     /\ UNCHANGED <<dailyVars, configVars, counterVars, fosterVars, screenVars, detailVars, gameVars>>
  \/ /\ Uses("details") /\ DetailNext
     /\ UNCHANGED <<dailyVars, configVars, counterVars, fosterVars, screenVars, pairingVars, gameVars>>
  \/ /\ \/ Uses("kun28") /\ KunNext
        \/ Uses("bounty") /\ BountyNext
        \/ Uses("time") /\ TimeNext
        \/ Uses("random") /\ RandomNext
        \/ Uses("touch") /\ TouchNext
        \/ Uses("batch") /\ BatchNext
     /\ UNCHANGED <<dailyVars, configVars, counterVars, fosterVars, screenVars, pairingVars, detailVars>>

Spec == Init /\ [][Next]_vars
-----------------------------------------------------------------------------
\* Every module's variables have their types, and a call is answered only by an agent
\* that has loaded the framework and registered every runner (main, registerAll).
TypeOK ==
  /\ phase \in Phases /\ registered \in 0..(CustomActions + CustomRecognitions)
  /\ inited \in BOOLEAN /\ feature \in Features \cup {Unused}
  /\ feature # Unused => inited /\ registered = CustomActions + CustomRecognitions
  /\ DailyTypeOK /\ ConfigTypeOK /\ CountersTypeOK /\ FosterTypeOK /\ ScreensTypeOK
  /\ PairingTypeOK /\ DetailTypeOK /\ GameTypeOK
=============================================================================
