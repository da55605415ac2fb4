---------------------------- MODULE ResourceStore ----------------------------
(***************************************************************************)
(* The MaaYYs resources on the device: ResourceProvider, which installs a  *)
(* version directory and points active.json at it, BundledProject, which   *)
(* makes sure the version shipped with the APK is installed, and the       *)
(* update of AppModel, which installs a newer one from the network.        *)
(*                                                                         *)
(* One step per file operation that another thread or a crash can come     *)
(* between.  Extraction goes to a fresh directory that only a rename makes *)
(* visible, so it is part of the step before it.  The provider's write     *)
(* lock is held by the thread that is between "fetch" and its return, the  *)
(* monitor of BundledProject by the preparing thread: both are released by *)
(* every exit of the code, exceptions included.                            *)
(***************************************************************************)
EXTENDS Naturals

CONSTANTS
  ApkReleases, \* the releases of MaaYYs that APKs have shipped
  NetReleases, \* the releases the update sources offer
  None,        \* no version
  Failed       \* instead of a catalogue: prepare threw

ASSUME ReleasesAssumption ==
  ApkReleases \subseteq Nat /\ NetReleases \subseteq Nat /\ ApkReleases # {}

\* A release shipped in an APK has a directory name of its own
\* ("<release>-android-<commit>"), another than the same release from the network.
Version == [release : ApkReleases, from : {"apk"}] \cup [release : NetReleases, from : {"net"}]

ASSUME NoneAssumption == None \notin Version /\ Failed \notin Version /\ None # Failed

VARIABLES
  apk,    \* the release the installed APK ships
  dirs,   \* resource-versions/: each version's directory
  active, \* the version active.json names
  pc,     \* where each thread is
  ver,    \* the version it is installing
  use,    \* the catalogue the screen and the session have loaded
  told,   \* history: the version the user was last told is installed
  due,    \* history: what was told before the latest start of the app
  spoiled \* history: an installation failed, was interrupted or came from the network

diskVars == <<apk, dirs, active>>
resourceHistory == <<told, due, spoiled>>
resourceVars == <<diskVars, pc, ver, use, resourceHistory>>

Preparers == {"screen", "session"}
ResourceThreads == Preparers \cup {"update"}

Bundled == [release |-> apk, from |-> "apk"]

ResourceTypeOK ==
  /\ apk \in ApkReleases
  /\ dirs \in [Version -> {"absent", "partial", "complete"}]
  /\ active \in Version \cup {None}
  /\ pc \in [ResourceThreads -> {"idle", "path", "install", "fetch", "point", "undo"}]
  /\ ver \in [ResourceThreads -> Version \cup {None}]
  /\ use \in [Preparers -> Version \cup {None, Failed}]
  /\ told \in Version \cup {None} /\ due \in Version \cup {None}
  /\ spoiled \in BOOLEAN

ResourceInit ==
  /\ apk \in ApkReleases
  /\ dirs = [v \in Version |-> "absent"] /\ active = None
  /\ pc = [t \in ResourceThreads |-> "idle"]
  /\ ver = [t \in ResourceThreads |-> None]
  /\ use = [t \in Preparers |-> None]
  /\ told = None /\ due = None /\ spoiled = FALSE

-----------------------------------------------------------------------------
(* Locks                                                                    *)

\* ResourceProvider.lock is not held by a writer.
Unlocked == \A t \in ResourceThreads : pc[t] \notin {"fetch", "point", "undo"}

BugMonitorFree == \E t \in Preparers : pc[t] = "idle"

\* BundledProject's monitor is free.
MonitorFree == \A t \in Preparers : pc[t] = "idle"

GoTo(t, label) == pc' = [pc EXCEPT ![t] = label]

\* install of v is about to take the write lock
WantInstall(t, v) == GoTo(t, "install") /\ ver' = [ver EXCEPT ![t] = v]

Done(t) == GoTo(t, "idle") /\ ver' = [ver EXCEPT ![t] = None]

\* prepare returns the catalogue r, or Failed; the update has nothing to keep.
Return(t, r) ==
  /\ Done(t)
  /\ use' = IF t \in Preparers THEN [use EXCEPT ![t] = r] ELSE use

-----------------------------------------------------------------------------
(* BundledProject.prepare                                                   *)

\* The version comparison: its own read of active.json, under the read lock.
Prepare(t) ==
  /\ t \in Preparers /\ use[t] = None /\ MonitorFree /\ Unlocked
  /\ IF active = Bundled THEN GoTo(t, "path") /\ UNCHANGED ver ELSE WantInstall(t, Bundled)
  /\ UNCHANGED <<diskVars, use, resourceHistory>>

\* activePath reads active.json once more, and may find another version by now;
\* a catalogue cannot be read from a directory that is not complete.
ReadPath(t) ==
  /\ pc[t] = "path" /\ Unlocked
  /\ IF active # None /\ dirs[active] # "absent"
     THEN Return(t, IF dirs[active] = "complete" THEN active ELSE Failed)
     ELSE WantInstall(t, Bundled) /\ UNCHANGED use
  /\ UNCHANGED <<diskVars, resourceHistory>>

-----------------------------------------------------------------------------
(* AppModel.checkMirrorUpdate                                               *)

\* Some source offers v, newer than the catalogue the screen has loaded, and
\* the archive has been downloaded.
Update(v) ==
  /\ pc["update"] = "idle" /\ use["screen"] \in Version
  /\ v.from = "net" /\ v.release > use["screen"].release
  /\ WantInstall("update", v)
  /\ UNCHANGED <<diskVars, use, resourceHistory>>

-----------------------------------------------------------------------------
(* ResourceProvider.install                                                 *)

\* require(!target.exists()) throws under the write lock.
Refuse(t) ==
  /\ pc[t] = "install" /\ Unlocked /\ dirs[ver[t]] # "absent"
  /\ Return(t, Failed)
  /\ UNCHANGED <<diskVars, resourceHistory>>

BugFetch(t) ==
  /\ pc[t] = "install" /\ Unlocked /\ dirs[ver[t]] = "absent" /\ MonitorFree
  /\ GoTo(t, "fetch")
  /\ UNCHANGED <<diskVars, ver, use, resourceHistory>>

\* The write lock is taken; the archive is copied, verified and extracted.
Fetch(t) ==
  /\ pc[t] = "install" /\ Unlocked /\ dirs[ver[t]] = "absent"
  /\ GoTo(t, "fetch")
  /\ UNCHANGED <<diskVars, ver, use, resourceHistory>>

\* Size, hash, extraction, layout or the rename of the directory fails.
FetchFails(t) ==
  /\ pc[t] = "fetch"
  /\ Return(t, Failed) /\ spoiled' = TRUE
  /\ UNCHANGED <<diskVars, told, due>>

\* stage.renameTo(target)
RenameDir(t) ==
  /\ pc[t] = "fetch"
  /\ dirs' = [dirs EXCEPT ![ver[t]] = "complete"]
  /\ GoTo(t, "point")
  /\ UNCHANGED <<apk, active, ver, use, resourceHistory>>

BugNotCommitted(t) ==
  /\ pc[t] = "point"
  /\ active' = ver[t] /\ dirs' = [dirs EXCEPT ![ver[t]] = "partial"]
  /\ GoTo(t, "undo")
  /\ UNCHANGED <<apk, ver, use, resourceHistory>>

BugPrune(t) ==
  /\ pc[t] = "point"
  /\ active' = ver[t]
  /\ dirs' = [v \in Version |-> IF v = ver[t] THEN dirs[v] ELSE "absent"]
  /\ Return(t, ver[t])
  /\ told' = IF t = "update" THEN ver[t] ELSE told
  /\ spoiled' = (spoiled \/ t = "update")
  /\ UNCHANGED <<apk, due>>

\* activeTmp.renameTo(active), and install returns; AppModel reports its update.
RenamePointer(t) ==
  /\ pc[t] = "point"
  /\ active' = ver[t]
  /\ Return(t, ver[t])
  /\ told' = IF t = "update" THEN ver[t] ELSE told
  /\ spoiled' = (spoiled \/ t = "update")
  /\ UNCHANGED <<apk, dirs, due>>

\* The pointer is not written: install was not committed and begins to delete
\* its version directory.
PointerFails(t) ==
  /\ pc[t] = "point"
  /\ dirs' = [dirs EXCEPT ![ver[t]] = "partial"]
  /\ GoTo(t, "undo") /\ spoiled' = TRUE
  /\ UNCHANGED <<apk, active, ver, use, told, due>>

\* target.deleteRecursively() is through and the exception reaches the caller.
Undo(t) ==
  /\ pc[t] = "undo"
  /\ dirs' = [dirs EXCEPT ![ver[t]] = "absent"]
  /\ Return(t, Failed)
  /\ UNCHANGED <<apk, active, resourceHistory>>

-----------------------------------------------------------------------------

\* The activity is left and opened again: a new AppModel prepares again.
Reopen ==
  /\ use["screen"] # None
  /\ use' = [use EXCEPT !["screen"] = None]
  /\ UNCHANGED <<diskVars, pc, ver, resourceHistory>>

\* The process is killed, at any point, and started again; a new APK may have
\* been installed meanwhile, whose resources are then meant to be used.
RestartResources ==
  /\ \E r \in ApkReleases : apk' = r /\ r >= apk
  /\ pc' = [t \in ResourceThreads |-> "idle"]
  /\ ver' = [t \in ResourceThreads |-> None]
  /\ use' = [t \in Preparers |-> None]
  /\ told' = (IF apk' = apk THEN told ELSE None) /\ due' = told'
  /\ spoiled' = (spoiled \/ ~Unlocked)
  /\ UNCHANGED <<dirs, active>>

\* The steps a thread takes on its own once it has begun
ResourceStep(t) ==
  \/ ReadPath(t)
  \/ Refuse(t) \/ Fetch(t) \/ FetchFails(t)
  \/ RenameDir(t) \/ RenamePointer(t) \/ PointerFails(t) \/ Undo(t)

ResourceNext ==
  \/ \E t \in Preparers : Prepare(t)
  \/ \E t \in ResourceThreads : ResourceStep(t)
  \/ \E v \in Version : Update(v)
  \/ Reopen

-----------------------------------------------------------------------------
(* Properties                                                               *)

\* Whatever is killed between two file operations, active.json never names a
\* version whose directory is missing or half deleted.
ActiveIsComplete == active # None => dirs[active] = "complete"

\* The files under a catalogue that the screen or a session has loaded stay:
\* installing other versions does not take a directory away from its readers.
LoadedFilesStay == \A t \in Preparers : use[t] \in Version => dirs[use[t]] = "complete"

\* Preparing fails only after an installation failed, was cut short by a kill,
\* or replaced the bundled version: the screen and a session that prepare at the
\* same time on a fresh device both get their catalogue.
PrepareFailsOnlyAfterTrouble == spoiled \/ \A t \in Preparers : use[t] # Failed

\* The monitor of prepare, the provider's lock inside it and the check under that
\* lock do not wait for each other: while any thread has work, one of them can go on.
SomeThreadGoesOn ==
  (\E t \in ResourceThreads : pc[t] # "idle") => ENABLED (\E t \in ResourceThreads : ResourceStep(t))

\* AppModel reports "installed, takes effect after a restart of the app": after
\* the restart the screen has that version, or one newer.
UpdateTakesEffect ==
  due # None /\ use["screen"] # None =>
    use["screen"] \in Version /\ use["screen"].release >= due.release
=============================================================================
