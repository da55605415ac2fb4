----------------------------- MODULE UpdateStore -----------------------------
(***************************************************************************)
(* Both updates under one app.  A session prepares the resources, then     *)
(* starts its runtime on the selected core, and keeps its catalogue until  *)
(* it ends; an update of either kind may come at any time; and a kill of   *)
(* the process hits both stores between the same two steps.                *)
(***************************************************************************)
EXTENDS ResourceStore, CoreStore

vars == <<resourceVars, coreVars>>

Init == ResourceInit /\ CoreInit

\* MaaFrameworkRuntime.start follows createAgentService's prepare in a session.
StartSession ==
  /\ use["session"] \in Version /\ BeginStart
  /\ UNCHANGED resourceVars

\* AgentService.close, or a session that could not be created or started: it is
\* given up, and the next one prepares anew.
EndSession ==
  /\ use["session"] # None
  /\ use' = [use EXCEPT !["session"] = None]
  /\ EndRun
  /\ UNCHANGED <<diskVars, pc, ver, resourceHistory>>

Restart == RestartResources /\ RestartCore

StoreStep ==
  \/ ResourceNext /\ UNCHANGED coreVars
  \/ (\E s \in Stagers, v \in Cores : Stage(s, v)) /\ UNCHANGED resourceVars
  \/ (\E s \in Stagers : StageStep(s)) /\ UNCHANGED resourceVars

Next ==
  \/ StoreStep
  \/ StartSession
  \/ StartStep /\ UNCHANGED resourceVars
  \/ EndSession
  \/ Restart

Spec == Init /\ [][Next]_vars

TypeOK == ResourceTypeOK /\ CoreTypeOK
=============================================================================
