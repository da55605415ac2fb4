--------------------------- MODULE MCTaskRuntime ---------------------------
(***************************************************************************)
(* TaskRuntime for TLC: enough runs for a task to be queued behind the     *)
(* tail of the one before it, and for one more after that.                 *)
(***************************************************************************)
EXTENDS TaskRuntime
=============================================================================
