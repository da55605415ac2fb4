---------------------------- MODULE TaskSession ----------------------------
(***************************************************************************)
(* What one MaaFrameworkRuntime promises the layers above it, whatever its *)
(* threads do: a session opens at most once, executes at most one native   *)
(* task at a time and only while it is open, and once a stop has been      *)
(* requested no further task begins and the session ends with nothing      *)
(* executing.  TaskRuntime is the detailed account of the Kotlin code and  *)
(* implements this specification.                                          *)
(***************************************************************************)

VARIABLES
  phase,      \* "new", "open", "closing" or "closed"
  executing   \* whether the native tasker has an unfinished task job

svars == <<phase, executing>>

SessionInit == phase = "new" /\ executing = FALSE

\* runtime.start returned true.
Open == phase = "new" /\ phase' = "open" /\ UNCHANGED executing

\* A task job enters the native queue.
Begin == phase = "open" /\ ~executing /\ executing' = TRUE /\ UNCHANGED phase

\* The job succeeds, fails or is aborted.
End == executing /\ executing' = FALSE /\ UNCHANGED phase

\* runtime.stop is called: on an open session, or on one that never opened.
RequestStop == phase \in {"new", "open"} /\ phase' = "closing" /\ UNCHANGED executing

\* runtime.stop has destroyed everything the session owned.
Close == phase = "closing" /\ ~executing /\ phase' = "closed" /\ UNCHANGED executing

SessionNext == Open \/ Begin \/ End \/ RequestStop \/ Close

SessionSpec == SessionInit /\ [][SessionNext]_svars
=============================================================================
