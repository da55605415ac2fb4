------------------------------ MODULE CoreStore ------------------------------
(***************************************************************************)
(* Updates of the MaaFramework Core: CoreUpdateStore, which puts a core in *)
(* a directory of its own and selects it by core-current.json, and the     *)
(* start of a session in MaaFrameworkRuntime, which looks the selected     *)
(* directory up anew at every use of nativeDir and rolls back on failure.  *)
(*                                                                         *)
(* JNA is modelled by what it does for the code: the search path of a      *)
(* library keeps the directories in the order they were added for as long  *)
(* as the process lives, and a load takes the first, which every directory *)
(* here can serve.                                                         *)
(***************************************************************************)

CONSTANTS
  Cores,    \* versions of the core on offer
  Linking,  \* those whose libraries this device can load
  Packaged, \* the core that is part of the APK, in nativeLibraryDir
  Empty,    \* what a file holds that has been opened for writing
  Torn,     \* what a short text leaves of a longer one
  Stagers,  \* updates that can be under way at once, one per AppModel alive
  Unset     \* no directory, or no file, yet

ASSUME CoresAssumption ==
  /\ Linking \subseteq Cores
  /\ {Packaged, Empty, Torn, Unset} \cap Cores = {}
  /\ Packaged \notin {Empty, Torn, Unset} /\ Unset \notin {Empty, Torn}

VARIABLES
  staged,   \* core/: the versions that have a directory
  selected, \* core-current.json, Packaged when there is no file
  tmp,      \* core-current.json.tmp, Unset when there is no file
  spc,      \* where each update is
  sver,     \* the version it stages
  fd,       \* where the pointer file it has open is: renames and deletions move it
  search,   \* JNA: the first directory on each library's search path
  run,      \* the session's start
  env,      \* the directory the agent process was given
  failed,   \* history: cores that were selected when a start failed and was rolled back
  shared    \* history: an update opened the temporary file while another used it

fileVars == <<staged, selected, tmp>>
stagerVars == <<spc, sver, fd>>
startVars == <<search, run, env>>
coreHistory == <<failed, shared>>
coreVars == <<fileVars, stagerVars, startVars, coreHistory>>

Directory == Cores \cup {Packaged}
Libraries == {"MaaFramework", "MaaAgentClient"}

CoreTypeOK ==
  /\ staged \subseteq Cores /\ selected \in Directory \cup {Empty, Torn}
  /\ tmp \in Cores \cup {Empty, Torn, Unset}
  /\ spc \in [Stagers -> {"idle", "extract", "open", "write", "point"}]
  /\ sver \in [Stagers -> Cores \cup {Unset}]
  /\ fd \in [Stagers -> {"gone", "tmp", "current"}]
  /\ search \in [Libraries -> Directory \cup {Unset}]
  /\ run \in {"idle", "client", "load", "setup", "launch", "connect", "ready", "rollback"}
  /\ env \in Directory \cup {Unset}
  /\ failed \subseteq Directory /\ shared \in BOOLEAN

CoreInit ==
  /\ staged = {} /\ selected = Packaged /\ tmp = Unset
  /\ spc = [s \in Stagers |-> "idle"] /\ sver = [s \in Stagers |-> Unset]
  /\ fd = [s \in Stagers |-> "gone"]
  /\ search = [l \in Libraries |-> Unset] /\ run = "idle" /\ env = Unset
  /\ failed = {} /\ shared = FALSE

\* currentVersion throws on a file that holds no object with a version.
Readable == selected \notin {Empty, Torn}

\* nativeDir: the selected core when its directory exists, else the packaged one.
NativeDir == IF selected \in staged THEN selected ELSE Packaged

-----------------------------------------------------------------------------
(* CoreUpdateStore.stage, called by AppModel.checkCoreUpdate: not kept from *)
(* running while a session is.                                              *)

StagerAt(s, from, to) == spc[s] = from /\ spc' = [spc EXCEPT ![s] = to]

BugStage(s, v) ==
  /\ StagerAt(s, "idle", "open") /\ v \notin staged
  /\ sver' = [sver EXCEPT ![s] = v]
  /\ UNCHANGED <<fileVars, fd, startVars, coreHistory>>

\* The archive is downloaded; a version that has a directory is refused.
Stage(s, v) ==
  /\ StagerAt(s, "idle", "extract") /\ v \notin staged
  /\ sver' = [sver EXCEPT ![s] = v]
  /\ UNCHANGED <<fileVars, fd, startVars, coreHistory>>

\* The archive is bad, or a file operation fails: what was done so far stays.
StageFails(s) ==
  /\ spc[s] # "idle" /\ spc' = [spc EXCEPT ![s] = "idle"]
  /\ sver' = [sver EXCEPT ![s] = Unset] /\ fd' = [fd EXCEPT ![s] = "gone"]
  /\ UNCHANGED <<fileVars, startVars, coreHistory>>

\* stage.renameTo(target), which fails when another update was first.
RenameCore(s) ==
  /\ sver[s] \notin staged
  /\ StagerAt(s, "extract", "open")
  /\ staged' = staged \cup {sver[s]}
  /\ UNCHANGED <<selected, tmp, sver, fd, startVars, coreHistory>>

BugOpenPointer(s) ==
  /\ StagerAt(s, "open", "write")
  /\ selected' = Empty /\ fd' = [fd EXCEPT ![s] = "current"]
  /\ shared' = (shared \/ \E u \in Stagers : spc[u] \in {"write", "point"})
  /\ UNCHANGED <<staged, tmp, sver, startVars, failed>>

\* pointer.writeText opens the file, which empties it for every update,
OpenPointer(s) ==
  /\ StagerAt(s, "open", "write")
  /\ tmp' = Empty /\ fd' = [fd EXCEPT ![s] = "tmp"]
  /\ shared' = (shared \/ \E u \in Stagers : spc[u] \in {"write", "point"})
  /\ UNCHANGED <<staged, selected, sver, startVars, failed>>

\* then writes at its start, wherever the file is by now: over another update's
\* text, whose end is left when it is longer.
Written(old, v) == IF old = Empty THEN {v} ELSE {v, Torn}

WritePointer(s) ==
  /\ StagerAt(s, "write", "point")
  /\ IF fd[s] = "tmp" THEN tmp' \in Written(tmp, sver[s]) ELSE UNCHANGED tmp
  /\ IF fd[s] = "current" THEN selected' \in Written(selected, sver[s]) ELSE UNCHANGED selected
  /\ fd' = [fd EXCEPT ![s] = "gone"]
  /\ UNCHANGED <<staged, sver, startVars, coreHistory>>

\* A file is deleted, or replaced by another.
Moved(where) == [s \in Stagers |->
  IF fd[s] = "current" THEN "gone" ELSE IF fd[s] = "tmp" THEN where ELSE "gone"]

\* pointer.renameTo(core-current.json) takes whatever the file has by now, and
\* fails when another update has renamed it.
RenameCorePointer(s) ==
  /\ StagerAt(s, "point", "idle")
  /\ IF tmp = Unset THEN UNCHANGED <<selected, tmp, fd>>
     ELSE selected' = tmp /\ tmp' = Unset /\ fd' = Moved("current")
  /\ sver' = [sver EXCEPT ![s] = Unset]
  /\ UNCHANGED <<staged, startVars, coreHistory>>

-----------------------------------------------------------------------------
(* MaaFrameworkRuntime.start                                                *)

StartAt(from, to) == run = from /\ run' = to

\* NativeLibrary.addSearchPath
AddSearchPath(l) ==
  search' = [search EXCEPT ![l] = IF @ = Unset /\ Readable THEN NativeDir ELSE @]

\* A use of nativeDir that throws ends the start.
UsesNativeDir(from, to) == StartAt(from, IF Readable THEN to ELSE "rollback")

BeginStart ==
  /\ UsesNativeDir("idle", "client") /\ AddSearchPath("MaaFramework")
  /\ UNCHANGED <<fileVars, stagerVars, env, coreHistory>>

AddClientPath ==
  /\ UsesNativeDir("client", "load") /\ AddSearchPath("MaaAgentClient")
  /\ UNCHANGED <<fileVars, stagerVars, env, coreHistory>>

\* Native.load of both libraries
Loadable == \A l \in Libraries : search[l] \in Linking \cup {Packaged}

Load ==
  /\ Loadable /\ StartAt("load", "setup")
  /\ UNCHANGED <<fileVars, stagerVars, search, env, coreHistory>>

LoadFails ==
  /\ ~Loadable /\ StartAt("load", "rollback")
  /\ UNCHANGED <<fileVars, stagerVars, search, env, coreHistory>>

\* Options, resource, controller and bundles; fails for any reason of theirs.
SetUp ==
  /\ StartAt("setup", "launch") \/ StartAt("setup", "rollback")
  /\ UNCHANGED <<fileVars, stagerVars, search, env, coreHistory>>

\* The agent's executable is looked for in nativeDir.  A staged core has none
\* that can be executed: the archive of the core does not hold the agent, and
\* the files stage extracts get no permission to execute.
FindAgent ==
  /\ run = "launch"
  /\ run' = IF Readable /\ NativeDir = Packaged THEN "connect" ELSE "rollback"
  /\ UNCHANGED <<fileVars, stagerVars, search, env, coreHistory>>

\* The process gets nativeDir as its library path, read once more, and connects
\* or does not.
LaunchAgent ==
  /\ UsesNativeDir("connect", "ready") \/ StartAt("connect", "rollback")
  /\ env' = IF Readable THEN NativeDir ELSE env
  /\ UNCHANGED <<fileVars, stagerVars, search, coreHistory>>

BugRollBack ==
  /\ StartAt("rollback", "idle")
  /\ env' = Unset
  /\ failed' = failed \cup {NativeDir}
  /\ UNCHANGED <<fileVars, stagerVars, search, shared>>

\* catch: rollback deletes core-current.json if it selects a staged core by now;
\* cleanup follows.  When nativeDir throws here too, neither is reached.
RollBack ==
  /\ StartAt("rollback", "idle")
  /\ \/ /\ Readable
        /\ IF NativeDir = Packaged THEN UNCHANGED <<selected, fd>>
           ELSE selected' = Packaged /\ fd' = Moved("tmp")
        /\ env' = Unset
        /\ failed' = failed \cup {NativeDir}
     \/ /\ ~Readable
        /\ UNCHANGED <<selected, fd, env, failed>>
  /\ UNCHANGED <<staged, tmp, spc, sver, search, shared>>

\* stop(): the session is given up, and cleaned up.
EndRun ==
  /\ run \in {"idle", "ready"} /\ run' = "idle" /\ env' = Unset
  /\ UNCHANGED <<fileVars, stagerVars, search, coreHistory>>

\* The process is killed: the files stay.
RestartCore ==
  /\ spc' = [s \in Stagers |-> "idle"] /\ sver' = [s \in Stagers |-> Unset]
  /\ fd' = [s \in Stagers |-> "gone"]
  /\ search' = [l \in Libraries |-> Unset] /\ run' = "idle" /\ env' = Unset
  /\ UNCHANGED <<fileVars, coreHistory>>

StageStep(s) ==
  \/ StageFails(s) \/ RenameCore(s)
  \/ OpenPointer(s) \/ WritePointer(s) \/ RenameCorePointer(s)

StartStep ==
  \/ AddClientPath \/ Load \/ LoadFails \/ SetUp
  \/ FindAgent \/ LaunchAgent \/ RollBack

-----------------------------------------------------------------------------
(* Properties                                                               *)

\* "Stages a MaaFramework Android archive atomically" (CoreUpdateStore.kt:7): when no
\* update is under way, whether it ended, failed or was killed, core-current.json is
\* absent or selects a core whose directory is complete.
SelectedIsComplete ==
  (\A s \in Stagers : spc[s] = "idle") => selected \in staged \cup {Packaged}

\* What stage does keep of it: whichever updates run, fail and are killed on the way,
\* a core that is selected is complete, and the file holds a version unless two
\* updates have had the temporary file at the same time.
SelectedUnlessShared ==
  /\ selected \in Cores => selected \in staged
  /\ ~Readable => shared

\* A staged core that a start has failed with is not selected a second time: a
\* bad update costs one start, it does not come back by itself.
FailedCoreIsNotRetried == selected \notin failed \ {Packaged}

\* README: "if the new core fails to start, the app falls back to the original
\* version": a session that has started uses no library of a core that was rolled
\* back before.
RollbackRestoresOriginal ==
  run = "ready" => \A l \in Libraries : search[l] \notin failed \ {Packaged}
=============================================================================
