-------------------------- MODULE UpdateStoreProofs --------------------------
(***************************************************************************)
(* Proofs about UpdateStore, for any releases, cores and number of updates *)
(* at once.                                                                *)
(*                                                                         *)
(* Each store has an inductive invariant of its own; a step of the other   *)
(* leaves it alone.                                                        *)
(***************************************************************************)
EXTENDS UpdateStore, TLAPS

-----------------------------------------------------------------------------
(* The invariant of the core store                                          *)

\* An update that has something to write has a core to write about.
StagerHasCore == \A s \in Stagers : spc[s] # "idle" => sver[s] \in Cores

\* Only complete cores are selected, about to be, or have ever failed.
OnlyStaged ==
  /\ selected \in Cores => selected \in staged
  /\ tmp \in Cores => tmp \in staged
  /\ \A s \in Stagers : spc[s] \in {"open", "write", "point"} => sver[s] \in staged
  /\ failed \subseteq staged \cup {Packaged}

\* What is going to be selected has not been before.
TmpIsNew == tmp \in Cores => tmp \notin failed /\ tmp # selected
WriteIsNew ==
  \A s \in Stagers : spc[s] \in {"open", "write"} =>
    /\ sver[s] \notin failed /\ sver[s] # tmp /\ sver[s] # selected
    /\ \A u \in Stagers : spc[u] \in {"open", "write"} /\ sver[u] = sver[s] => u = s

\* While updates take turns with the temporary file, it is the one that is open, and
\* holds what its update has written.
InTurns ==
  ~shared =>
    /\ Readable
    /\ \A s, u \in Stagers : spc[s] \in {"write", "point"} /\ spc[u] \in {"write", "point"} => s = u
    /\ \A s \in Stagers :
         /\ spc[s] = "write" => fd[s] = "tmp" /\ tmp = Empty
         /\ spc[s] = "point" => tmp = sver[s]

CoreInv ==
  /\ CoreTypeOK
  /\ StagerHasCore
  /\ OnlyStaged
  /\ TmpIsNew
  /\ WriteIsNew
  /\ InTurns
  /\ FailedCoreIsNotRetried

-----------------------------------------------------------------------------
(* The invariant of the resource store                                      *)

Writing == {"fetch", "point", "undo"}

\* The write lock has one holder, the monitor of prepare one preparer.
OneWriter == \A t, u \in ResourceThreads : pc[t] \in Writing /\ pc[u] \in Writing => t = u
OnePreparer == \A t, u \in Preparers : pc[t] # "idle" /\ pc[u] # "idle" => t = u

InstallsVersion == \A t \in ResourceThreads : pc[t] \in {"install"} \cup Writing => ver[t] \in Version

\* The version being installed is nobody's yet, and complete once it is renamed.
OwnVersion ==
  \A t \in ResourceThreads :
    /\ pc[t] = "fetch" => dirs[ver[t]] = "absent"
    /\ pc[t] = "point" => dirs[ver[t]] = "complete"
    /\ pc[t] \in {"point", "undo"} => active # ver[t] /\ \A p \in Preparers : use[p] # ver[t]

FilesInv ==
  /\ ResourceTypeOK
  /\ OneWriter
  /\ InstallsVersion
  /\ OwnVersion
  /\ ActiveIsComplete
  /\ LoadedFilesStay

\* Without trouble the bundled version is the active one or about to become it,
\* and APKs to come have nothing on the device.
Untroubled ==
  /\ \A t \in Preparers : use[t] # Failed
  /\ \A t \in ResourceThreads : pc[t] # "undo"
  /\ dirs[Bundled] # "absent" => active = Bundled \/ \E t \in Preparers : pc[t] = "point"
  /\ \A t \in Preparers : pc[t] \in {"install"} \cup Writing => ver[t] = Bundled /\ active # Bundled
  /\ \A t \in Preparers : pc[t] = "path" => active = Bundled
  /\ \A r \in ApkReleases : r > apk => dirs[[release |-> r, from |-> "apk"]] = "absent"

\* The update installs versions of the network only.
UpdateIsRemote ==
  /\ pc["update"] # "path"
  /\ pc["update"] # "idle" => ver["update"] \in Version /\ ver["update"].from = "net"

PrepareInv ==
  /\ OnePreparer
  /\ UpdateIsRemote
  /\ spoiled \/ Untroubled

-----------------------------------------------------------------------------

\* The version prepare wants is one the APKs have shipped.
LEMMA BundledIsVersion == ASSUME apk \in ApkReleases PROVE Bundled \in Version /\ Bundled.from = "apk" /\ Bundled.release = apk
  BY DEF Bundled, Version

\* The directories of APKs' versions are told apart by the release.
LEMMA ApkVersions ==
  /\ \A r \in ApkReleases : [release |-> r, from |-> "apk"] \in Version
  /\ \A r \in ApkReleases : [release |-> r, from |-> "apk"] = Bundled => ~(r > apk)
<1>1. \A r \in ApkReleases : [release |-> r, from |-> "apk"] \in Version
  BY DEF Version
<1>2. ASSUME NEW r \in ApkReleases, [release |-> r, from |-> "apk"] = Bundled
      PROVE  ~(r > apk)
  <2>1. r = apk
    BY <1>2 DEF Bundled
  <2> QED
    BY <2>1, ReleasesAssumption DEF ReleasesAssumption
<1> QED
  BY <1>1, <1>2

\* A device without any core of its own satisfies the core store's invariant.
LEMMA CoreInitInv == CoreInit => CoreInv
  BY CoresAssumption
  DEF CoresAssumption, CoreInit, CoreInv, CoreTypeOK, StagerHasCore, OnlyStaged, InTurns, Readable,
      TmpIsNew, WriteIsNew, FailedCoreIsNotRetried, Directory, Libraries

\* Steps that do not touch the core store keep its invariant.
LEMMA CoreStutterInv == CoreInv /\ UNCHANGED coreVars => CoreInv'
  BY DEF coreVars, fileVars, stagerVars, startVars, coreHistory, CoreInv, CoreTypeOK, StagerHasCore, OnlyStaged,
     InTurns, Readable, TmpIsNew, WriteIsNew, FailedCoreIsNotRetried, Directory, Libraries

\* A step of an update of the core keeps the invariant.
LEMMA StageInv ==
  ASSUME CoreInv, NEW s \in Stagers,
         (\E v \in Cores : Stage(s, v)) \/ StageStep(s)
  PROVE  CoreInv'
<1> USE CoresAssumption
    DEF CoresAssumption, CoreInv, CoreTypeOK, StagerHasCore, OnlyStaged, InTurns, Readable, TmpIsNew,
        WriteIsNew, FailedCoreIsNotRetried, Directory, fileVars, stagerVars, startVars, coreHistory, StagerAt
<1>1. CASE \E v \in Cores : Stage(s, v)
  BY <1>1 DEF Stage
<1>2. CASE StageFails(s)
  BY <1>2 DEF StageFails
<1>3. CASE RenameCore(s)
  BY <1>3 DEF RenameCore
<1>4. CASE OpenPointer(s)
  BY <1>4 DEF OpenPointer
<1>5. CASE WritePointer(s)
  BY <1>5 DEF WritePointer, Written
<1>6. CASE RenameCorePointer(s)
  BY <1>6 DEF RenameCorePointer, Moved
<1> QED
  BY <1>1, <1>2, <1>3, <1>4, <1>5, <1>6 DEF StageStep

\* A step of a start, and the end of a session, keep it too: only the roll-back
\* touches the files.
LEMMA StartInv ==
  ASSUME CoreInv, BeginStart \/ StartStep \/ EndRun \/ RestartCore
  PROVE  CoreInv'
<1> USE CoresAssumption
    DEF CoresAssumption, CoreInv, CoreTypeOK, StagerHasCore, OnlyStaged, InTurns, Readable, TmpIsNew,
        WriteIsNew, FailedCoreIsNotRetried, Directory, Libraries, fileVars, stagerVars, startVars, coreHistory, StartAt,
        UsesNativeDir
<1>1. NativeDir \in Directory
  BY DEF NativeDir
<1>2. CASE BeginStart
  BY <1>1, <1>2 DEF BeginStart, AddSearchPath
<1>3. CASE AddClientPath
  BY <1>1, <1>3 DEF AddClientPath, AddSearchPath
<1>4. CASE Load \/ LoadFails \/ SetUp
  BY <1>4 DEF Load, LoadFails, SetUp
<1>5. CASE FindAgent
  BY <1>5 DEF FindAgent
<1>6. CASE LaunchAgent
  BY <1>1, <1>6 DEF LaunchAgent
<1>7. CASE RollBack
  BY <1>1, <1>7 DEF RollBack, NativeDir, Moved
<1>8. CASE EndRun
  BY <1>8 DEF EndRun
<1>9. CASE RestartCore
  BY <1>9 DEF RestartCore
<1> QED
  BY <1>2, <1>3, <1>4, <1>5, <1>6, <1>7, <1>8, <1>9 DEF StartStep

\* Every step of the app keeps the core store's invariant.
LEMMA CoreNextInv == CoreInv /\ [Next]_vars => CoreInv'
<1> SUFFICES ASSUME CoreInv, [Next]_vars PROVE CoreInv'
  OBVIOUS
<1>1. CASE UNCHANGED coreVars
  BY <1>1, CoreStutterInv
<1>2. CASE \E s \in Stagers : (\E v \in Cores : Stage(s, v)) \/ StageStep(s)
  BY <1>2, StageInv
<1>3. CASE BeginStart \/ StartStep \/ EndRun \/ RestartCore
  BY <1>3, StartInv
<1> QED
  BY <1>1, <1>2, <1>3 DEF vars, Next, StoreStep, StartSession, EndSession, Restart

-----------------------------------------------------------------------------

\* A fresh device satisfies the invariant about resource files.
LEMMA FilesInitInv == ResourceInit => FilesInv
<1> SUFFICES ASSUME ResourceInit PROVE FilesInv
  OBVIOUS
<1> USE NoneAssumption DEF NoneAssumption, ResourceInit
<1>1. ResourceTypeOK
  BY DEF ResourceTypeOK, ResourceThreads, Preparers
<1>2. OneWriter /\ InstallsVersion /\ OwnVersion
  BY DEF OneWriter, InstallsVersion, OwnVersion, Writing
<1>3. ActiveIsComplete /\ LoadedFilesStay
  BY DEF ActiveIsComplete, LoadedFilesStay
<1> QED BY <1>1, <1>2, <1>3 DEF FilesInv

\* Steps that do not touch the resources keep it.
LEMMA FilesStutterInv == FilesInv /\ UNCHANGED resourceVars => FilesInv'
  BY DEF resourceVars, diskVars, resourceHistory, FilesInv, ResourceTypeOK, OneWriter, InstallsVersion,
     OwnVersion, ActiveIsComplete, LoadedFilesStay

\* A step of a thread keeps the invariant, one step of the proof per file operation.
LEMMA ResourceStepFiles ==
  ASSUME FilesInv, NEW t \in ResourceThreads,
         (t \in Preparers /\ Prepare(t)) \/ ResourceStep(t)
  PROVE  FilesInv'
<1> USE NoneAssumption
    DEF NoneAssumption, FilesInv, ResourceTypeOK, OneWriter, InstallsVersion, OwnVersion, ActiveIsComplete,
        LoadedFilesStay, Writing, ResourceThreads, Preparers, Unlocked, diskVars, resourceHistory,
        GoTo, WantInstall, Done, Return
<1>1. Bundled \in Version
  BY BundledIsVersion
<1>2. CASE t \in Preparers /\ Prepare(t)
  BY <1>1, <1>2 DEF Prepare
<1>3. CASE ReadPath(t)
  BY <1>1, <1>3 DEF ReadPath
<1>4. CASE Refuse(t)
  BY <1>4 DEF Refuse
<1>5. CASE Fetch(t)
  BY <1>5 DEF Fetch
<1>6. CASE FetchFails(t)
  BY <1>6 DEF FetchFails
<1>7. CASE RenameDir(t)
  BY <1>7 DEF RenameDir
<1>8. CASE RenamePointer(t)
  BY <1>8 DEF RenamePointer
<1>9. CASE PointerFails(t)
  BY <1>9 DEF PointerFails
<1>10. CASE Undo(t)
  BY <1>10 DEF Undo
<1> QED
  BY <1>2, <1>3, <1>4, <1>5, <1>6, <1>7, <1>8, <1>9, <1>10 DEF ResourceStep

\* What else happens to the resources: an update is asked for, the screen is
\* opened again, a session ends, the process is killed.
LEMMA OtherFiles ==
  ASSUME FilesInv, (\E v \in Version : Update(v)) \/ Reopen \/ EndSession \/ RestartResources
  PROVE  FilesInv'
<1> USE NoneAssumption
    DEF NoneAssumption, FilesInv, ResourceTypeOK, OneWriter, InstallsVersion, OwnVersion, ActiveIsComplete,
        LoadedFilesStay, Writing, ResourceThreads, Preparers, diskVars, resourceHistory, GoTo, WantInstall
<1>1. CASE \E v \in Version : Update(v)
  BY <1>1 DEF Update
<1>2. CASE Reopen \/ EndSession
  BY <1>2 DEF Reopen, EndSession
<1>3. CASE RestartResources
  <2>1. spoiled' \in BOOLEAN /\ told' \in Version \cup {None} /\ due' \in Version \cup {None}
    BY <1>3 DEF RestartResources
  <2> QED
    BY <1>3, <2>1 DEF RestartResources
<1> QED
  BY <1>1, <1>2, <1>3

\* Every step of the app keeps the invariant about resource files.
LEMMA FilesNextInv == FilesInv /\ [Next]_vars => FilesInv'
<1> SUFFICES ASSUME FilesInv, [Next]_vars PROVE FilesInv'
  OBVIOUS
<1>1. CASE UNCHANGED resourceVars
  BY <1>1, FilesStutterInv
<1>2. CASE \E t \in ResourceThreads : (t \in Preparers /\ Prepare(t)) \/ ResourceStep(t)
  BY <1>2, ResourceStepFiles
<1>3. CASE (\E v \in Version : Update(v)) \/ Reopen \/ EndSession \/ RestartResources
  BY <1>3, OtherFiles
<1> QED
  BY <1>1, <1>2, <1>3
  DEF vars, Next, StoreStep, StartSession, Restart, ResourceNext, ResourceThreads

-----------------------------------------------------------------------------

\* A fresh device has no trouble behind it.
LEMMA PrepareInitInv == ResourceInit => PrepareInv
  BY NoneAssumption, BundledIsVersion, ApkVersions
  DEF NoneAssumption, ResourceInit, PrepareInv, OnePreparer, UpdateIsRemote, Untroubled, Writing,
      ResourceThreads, Preparers

\* Steps that do not touch the resources keep the invariant of prepare.
LEMMA PrepareStutterInv == PrepareInv /\ UNCHANGED resourceVars => PrepareInv'
  BY DEF resourceVars, diskVars, resourceHistory, PrepareInv, OnePreparer, UpdateIsRemote, Untroubled, Bundled

\* A step of a thread keeps the invariant; only failures and the commit of an
\* update give up the part about a device without trouble.
LEMMA ResourceStepPrepare ==
  ASSUME FilesInv, PrepareInv, NEW t \in ResourceThreads,
         (t \in Preparers /\ Prepare(t)) \/ ResourceStep(t)
  PROVE  PrepareInv'
<1> USE NoneAssumption
    DEF NoneAssumption, FilesInv, ResourceTypeOK, OneWriter, InstallsVersion, OwnVersion, ActiveIsComplete,
        Writing, ResourceThreads, Preparers, Unlocked, MonitorFree, diskVars, resourceHistory,
        GoTo, WantInstall, Done, Return, PrepareInv, OnePreparer, UpdateIsRemote, Untroubled
<1>1. Bundled \in Version /\ Bundled.from = "apk" /\ (apk' = apk => Bundled' = Bundled)
  BY BundledIsVersion DEF Bundled
<1>a. \A r \in ApkReleases : r > apk =>
        [release |-> r, from |-> "apk"] \in Version /\ [release |-> r, from |-> "apk"] # Bundled
  BY ApkVersions
<1>2. CASE t \in Preparers /\ Prepare(t)
  BY <1>1, <1>2 DEF Prepare
<1>3. CASE ReadPath(t)
  BY <1>1, <1>3 DEF ReadPath
<1>4. CASE Refuse(t)
  BY <1>1, <1>4 DEF Refuse
<1>5. CASE Fetch(t)
  BY <1>1, <1>5 DEF Fetch
<1>6. CASE FetchFails(t)
  BY <1>1, <1>6 DEF FetchFails
<1>7. CASE RenameDir(t)
  BY <1>1, <1>a, <1>7 DEF RenameDir
<1>8. CASE RenamePointer(t)
  <2>1. OnePreparer' /\ UpdateIsRemote'
    BY <1>8 DEF RenamePointer
  <2>2. CASE t = "update"
    <3>1. spoiled'
      BY <1>8, <2>2 DEF RenamePointer
    <3> QED
      BY <2>1, <3>1
  <2>3. CASE t # "update"
    <3>1. t \in Preparers /\ \A u \in Preparers : u # t => pc[u] = "idle" /\ pc'[u] = "idle"
      BY <1>8, <2>3 DEF RenamePointer
    <3>2. ver[t] \in Version /\ pc'[t] = "idle" /\ active' = ver[t] /\ apk' = apk /\ dirs' = dirs
      BY <1>8 DEF RenamePointer
    <3>3. ~spoiled => \A u \in Preparers : use'[u] # Failed
      BY <1>8, <3>1, <3>2 DEF RenamePointer
    <3>4. ~spoiled => active' = Bundled'
      <4>1. pc[t] = "point"
        BY <1>8 DEF RenamePointer
      <4>2. ~spoiled => ver[t] = Bundled
        BY <3>1, <4>1
      <4> QED
        BY <1>1, <3>2, <4>2
    <3>5. ~spoiled => \A u \in ResourceThreads : pc'[u] # "undo"
      BY <1>8 DEF RenamePointer
    <3>6. spoiled' <=> spoiled
      BY <1>8, <2>3 DEF RenamePointer
    <3> QED
      BY <2>1, <3>1, <3>2, <3>3, <3>4, <3>5, <3>6
  <2> QED
    BY <2>2, <2>3
<1>9. CASE PointerFails(t)
  BY <1>1, <1>9 DEF PointerFails
<1>10. CASE Undo(t)
  BY <1>1, <1>10 DEF Undo
<1> QED
  BY <1>2, <1>3, <1>4, <1>5, <1>6, <1>7, <1>8, <1>9, <1>10 DEF ResourceStep

\* A kill keeps the invariant of prepare: with an APK of a later release, nothing of
\* that release is on the device; with the same APK, nothing was under way.
LEMMA OtherPrepare ==
  ASSUME FilesInv, PrepareInv, (\E v \in Version : Update(v)) \/ Reopen \/ EndSession \/ RestartResources
  PROVE  PrepareInv'
<1> USE NoneAssumption
    DEF NoneAssumption, FilesInv, ResourceTypeOK, Writing, ResourceThreads, Preparers, diskVars,
        resourceHistory, GoTo, WantInstall, PrepareInv, OnePreparer, UpdateIsRemote, Untroubled
<1>1. apk' = apk => Bundled' = Bundled
  BY DEF Bundled
<1>2. CASE \E v \in Version : Update(v)
  BY <1>1, <1>2 DEF Update
<1>3. CASE Reopen \/ EndSession
  BY <1>1, <1>3 DEF Reopen, EndSession
<1>4. CASE RestartResources
  <2>1. apk' \in ApkReleases /\ apk' >= apk /\ dirs' = dirs /\ active' = active
    BY <1>4 DEF RestartResources
  <2>2. /\ \A t \in ResourceThreads : pc'[t] = "idle"
        /\ \A t \in Preparers : use'[t] = None
    BY <1>4 DEF RestartResources
  <2>3. ~spoiled' => Unlocked /\ ~spoiled
    BY <1>4 DEF RestartResources
  <2>4. ~spoiled' /\ dirs'[Bundled'] # "absent" => active' = Bundled'
    <3>1. CASE apk' = apk
      BY <1>1, <2>1, <2>3, <3>1 DEF Unlocked
    <3>2. CASE apk' # apk
      <4>1. apk' > apk
        BY <2>1, <3>2, ReleasesAssumption DEF ReleasesAssumption
      <4>2. Bundled' = [release |-> apk', from |-> "apk"]
        BY DEF Bundled
      <4> QED
        BY <2>1, <2>3, <4>1, <4>2
    <3> QED
      BY <3>1, <3>2
  <2>5. \A r \in ApkReleases : r > apk' => r > apk
    BY <2>1, ReleasesAssumption DEF ReleasesAssumption
  <2> QED
    BY <2>1, <2>2, <2>3, <2>4, <2>5
<1> QED
  BY <1>2, <1>3, <1>4

\* Every step of the app keeps the invariant of prepare.
LEMMA PrepareNextInv == FilesInv /\ PrepareInv /\ [Next]_vars => PrepareInv'
<1> SUFFICES ASSUME FilesInv, PrepareInv, [Next]_vars PROVE PrepareInv'
  OBVIOUS
<1>1. CASE UNCHANGED resourceVars
  BY <1>1, PrepareStutterInv
<1>2. CASE \E t \in ResourceThreads : (t \in Preparers /\ Prepare(t)) \/ ResourceStep(t)
  BY <1>2, ResourceStepPrepare
<1>3. CASE (\E v \in Version : Update(v)) \/ Reopen \/ EndSession \/ RestartResources
  BY <1>3, OtherPrepare
<1> QED
  BY <1>1, <1>2, <1>3
  DEF vars, Next, StoreStep, StartSession, Restart, ResourceNext, ResourceThreads

-----------------------------------------------------------------------------

\* All three hold in every state of the app.
LEMMA Invariance == Spec => [](CoreInv /\ FilesInv /\ PrepareInv)
<1>1. Init => CoreInv /\ FilesInv /\ PrepareInv
  BY CoreInitInv, FilesInitInv, PrepareInitInv DEF Init
<1>2. CoreInv /\ FilesInv /\ PrepareInv /\ [Next]_vars => (CoreInv /\ FilesInv /\ PrepareInv)'
  BY CoreNextInv, FilesNextInv, PrepareNextInv
<1> QED
  BY <1>1, <1>2, PTL DEF Spec

\* The variables of both stores keep their types.
THEOREM StoresTypeCorrect == Spec => []TypeOK
<1>1. CoreInv /\ FilesInv => TypeOK
  BY DEF CoreInv, FilesInv, TypeOK
<1> QED
  BY <1>1, Invariance, PTL

\* However many updates of the core there are, and whichever of them fail or are
\* killed between any two file operations (CoreUpdateStore.kt:12-30), a core that is
\* selected is complete, and core-current.json holds a version unless two updates
\* have had its temporary file at the same time.
THEOREM SelectedSafe == Spec => []SelectedUnlessShared
<1>1. CoreInv => SelectedUnlessShared
  BY DEF CoreInv, OnlyStaged, InTurns, SelectedUnlessShared
<1> QED
  BY <1>1, Invariance, PTL

\* Whatever is killed and however installations fail, ResourceProvider's active.json
\* names a version whose directory is complete.
THEOREM ActiveSafe == Spec => []ActiveIsComplete
<1>1. FilesInv => ActiveIsComplete
  BY DEF FilesInv
<1> QED
  BY <1>1, Invariance, PTL

\* No installation takes away the files of a catalogue in use.
THEOREM LoadedSafe == Spec => []LoadedFilesStay
<1>1. FilesInv => LoadedFilesStay
  BY DEF FilesInv
<1> QED
  BY <1>1, Invariance, PTL

\* BundledProject.prepare throws only on a device with trouble behind it, however
\* the screen, sessions and APK updates interleave.
THEOREM PrepareSafe == Spec => []PrepareFailsOnlyAfterTrouble
<1>1. PrepareInv => PrepareFailsOnlyAfterTrouble
  BY DEF PrepareInv, Untroubled, PrepareFailsOnlyAfterTrouble
<1> QED
  BY <1>1, Invariance, PTL

\* A core that a start has failed with is never selected again.
THEOREM FailedCoreGone == Spec => []FailedCoreIsNotRetried
<1>1. CoreInv => FailedCoreIsNotRetried
  BY DEF CoreInv
<1> QED
  BY <1>1, Invariance, PTL
=============================================================================
