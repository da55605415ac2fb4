--------------------------- MODULE MCAgentService ---------------------------
(***************************************************************************)
(* AgentService for TLC: two configurations, and what the user, the alarms *)
(* and the stops ask for bounded together, so that liveness can be checked *)
(* on the instance that has them all.                                      *)
(***************************************************************************)
EXTENDS AgentService

CONSTANTS c1, c2, MaxRequests

MCConfigs == {c1, c2}

MCNext == Next /\ asked' + alarms' + stops' <= MaxRequests

MCSpec == Init /\ [][MCNext]_vars /\ Fairness
=============================================================================
