---------------------------- MODULE NativeLibrary ----------------------------
(***************************************************************************)
(* Loading and unloading the framework's four libraries.  Init opens them  *)
(* in order and then sets the options, Release closes them in order; each  *)
(* step may fail, and what a failure leaves behind decides whether the     *)
(* next Init or Release can work.                                          *)
(***************************************************************************)
EXTENDS Naturals, Sequences

CONSTANT MaxOpens   \* bound of an instance: references the loader keeps to a library
ASSUME OpensAssumption == MaxOpens \in Nat

VARIABLES
  inited,   \* the variable of that name
  refs,     \* references of this process to each library
  task,     \* what the call in progress still has to do, in order
  failed    \* a library could not be opened or closed: the process is in trouble

libraryVars == <<inited, refs, task, failed>>

Libraries == <<"MaaFramework", "MaaToolkit", "MaaAgentServer", "MaaAgentClient">>
Library == {Libraries[i] : i \in 1..4}

\* A call in progress: opening, setting options, undoing a failed Init, releasing
Calls == {"none", "open", "options", "undo", "release"}
Free == [call |-> "none", next |-> 1]

LibraryInit ==
  /\ inited = FALSE /\ failed = FALSE
  /\ refs = [l \in Library |-> 0]
  /\ task = Free

\* Init, which refuses a second time
InitBegin ==
  /\ task = Free /\ ~inited
  /\ task' = [call |-> "open", next |-> 1]
  /\ UNCHANGED <<inited, refs, failed>>

\* One initXxx: dlopen, and binding every function of the library
Open(l) ==
  /\ task.call = "open" /\ Libraries[task.next] = l /\ refs[l] < MaxOpens
  /\ refs' = [refs EXCEPT ![l] = @ + 1]
  /\ task' = IF task.next = Len(Libraries) THEN [call |-> "options", next |-> 1]
             ELSE [task EXCEPT !.next = @ + 1]
  /\ UNCHANGED <<inited, failed>>

InitFramework == Open("MaaFramework")
InitToolkit == Open("MaaToolkit")
InitAgentServer == Open("MaaAgentServer")
InitAgentClient == Open("MaaAgentClient")

\* A library that cannot be opened ends native.Init: Init returns before it has
\* arranged for a release, and the libraries before it stay.
OpenFails ==
  /\ task.call = "open"
  /\ task' = Free /\ failed' = TRUE
  /\ UNCHANGED <<inited, refs>>

\* All options and plug-ins took effect.
InitDone ==
  /\ task.call = "options"
  /\ inited' = TRUE /\ task' = Free
  /\ UNCHANGED <<refs, failed>>

\* A bug: nothing undoes the loading.
BugOptionFails ==
  /\ task.call = "options"
  /\ task' = Free
  /\ UNCHANGED <<inited, refs, failed>>

\* One did not: the deferred native.Release undoes the loading.
OptionFails ==
  /\ task.call = "options"
  /\ task' = [call |-> "undo", next |-> 1]
  /\ UNCHANGED <<inited, refs, failed>>

ReleaseBegin ==
  /\ task = Free /\ inited
  /\ task' = [call |-> "release", next |-> 1]
  /\ UNCHANGED <<inited, refs, failed>>

\* One unregisterXxx, which is dlclose; the last one of Release ends the
\* initialised state.
Close ==
  LET l == Libraries[task.next] last == task.next = Len(Libraries) IN
  /\ task.call \in {"undo", "release"} /\ refs[l] > 0
  /\ refs' = [refs EXCEPT ![l] = @ - 1]
  /\ task' = IF last THEN Free ELSE [task EXCEPT !.next = @ + 1]
  /\ inited' = (inited /\ ~(last /\ task.call = "release"))
  /\ UNCHANGED failed

\* A library that cannot be closed ends the call where it is; so does one that an
\* earlier Release has closed already.
CloseFails ==
  /\ task.call \in {"undo", "release"}
  /\ task' = Free /\ failed' = TRUE
  /\ UNCHANGED <<inited, refs>>

LibraryNext ==
  \/ InitBegin \/ InitFramework \/ InitToolkit \/ InitAgentServer \/ InitAgentClient
  \/ OpenFails \/ InitDone \/ OptionFails
  \/ ReleaseBegin \/ Close \/ CloseFails
-----------------------------------------------------------------------------
LibraryTypeOK ==
  /\ inited \in BOOLEAN /\ failed \in BOOLEAN
  /\ refs \in [Library -> 0..MaxOpens]
  /\ task \in [call : Calls, next : 1..4]

\* Every library is loaded while the binding says it is initialised, and none is
\* left when it says it is not, whatever option or plug-in an Init failed on;
\* only a library that could not be opened or closed excuses the difference.
LibrariesFollowInited ==
  (task = Free /\ ~failed) => \A l \in Library : refs[l] = (IF inited THEN 1 ELSE 0)
=============================================================================
