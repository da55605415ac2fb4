--------------------- MODULE BackgroundConnectionProofs ---------------------
(***************************************************************************)
(* Proofs about BackgroundConnection, for any callers, services and calls. *)
(*                                                                         *)
(* Of the services that may live at once (destroy() is a oneway call) one  *)
(* at most has a display: that of the connection, or the one the caller    *)
(* that holds the lock is closing or making.  A caller gets past close()   *)
(* only when the display it read from the field is gone.  What remains is  *)
(* the recipient that clears the fields: as the service being connected is *)
(* not watched yet, and the connected one is what the fields name, only    *)
(* the notice of another service's death can lose a display, which is what *)
(* misled remembers.                                                       *)
(***************************************************************************)
EXTENDS BackgroundConnection, FiniteSetTheorems, TLAPS

-----------------------------------------------------------------------------
(* The invariant                                                            *)

\* Every field, registry entry and service has its type.
Types ==
  /\ app \in {"up", "gone"}
  /\ lock \in Callers \cup {NoCaller} /\ pc \in [Callers -> Points]
  /\ op \in [Callers -> {"connect", "close", "undo"}] /\ want \in [Callers -> Modes] /\ calls \in 0 .. MaxCalls
  /\ fresh \in [Callers -> Services \cup {None}] /\ closing \in [Callers -> Services \cup {None}]
  /\ remote \in Services \cup {None} /\ display \in Services \cup {None} /\ mode \in Modes \cup {"none"}
  /\ proc \in Services \cup {None} /\ bound \in Services \cup {None} /\ linked \subseteq Services
  /\ token \in Services \cup {None} /\ answered \subseteq Services
  /\ started \in 0 .. MaxServices /\ kind \in [Services -> Modes]
  /\ life \in [Services -> Lives]
  /\ owners \in [Services -> SUBSET {"setup", "shizuku", "lifecycle"}] /\ shown \in [Services -> BOOLEAN]
  /\ misled \in BOOLEAN

\* A caller past enter holds the lock, and nobody does once the app is gone.
Locked ==
  \A c \in Callers :
    /\ pc[c] \notin {"idle", "enter"} <=> lock = c
    /\ app = "gone" => pc[c] = "idle"

\* The field is empty while a caller closes and connects.
RemoteCleared == \A c \in Callers : pc[c] \notin {"idle", "enter", "clear"} => remote = None

\* The service a caller connects has been started.
FreshStarted == \A c \in Callers : pc[c] \in {"await", "setup", "link", "publish"} => fresh[c] \in Services

\* A service lives once it has been started, and has a display or a recipient
\* only after it attached.
LivesFit ==
  \A s \in Services :
    /\ s > started => life[s] = "none"
    /\ s \in linked => life[s] \in {"attached", "ending", "dead"}
    /\ shown[s] => life[s] \in {"attached", "ending"}

\* A service is watched only once its caller is past link.
FreshUnlinked ==
  \A c \in Callers : pc[c] \in {"await", "setup", "link"} => fresh[c] \notin linked

\* Until a notice strikes another service, the field names the display just made,
DisplayFits == ~misled => \A c \in Callers : pc[c] = "link" => display = fresh[c]

\* a display belongs to the connection, or to the caller that closes or makes it,
ShownFits ==
  app = "up" /\ ~misled => \A s \in Services : shown[s] =>
    \/ s = remote
    \/ \E c \in Callers : pc[c] = "close" /\ s = closing[c]
    \/ \E c \in Callers : pc[c] \in {"link", "publish"} /\ s = fresh[c]

\* and two services never have a display at once.
OneShown == ~misled => \A s, t \in Services : shown[s] /\ shown[t] => s = t

\* The inductive invariant.
IInv ==
  /\ Types /\ Locked /\ RemoteCleared /\ FreshStarted /\ LivesFit
  /\ FreshUnlinked /\ DisplayFits /\ ShownFits /\ OneShown

-----------------------------------------------------------------------------
(* Facts about services                                                     *)


\* Services are numbers, none of them "no service".
LEMMA ServicesNumbers == None \notin Services /\ Services \subseteq Nat /\ IsFiniteSet(Services)
<1>1. None \notin Services /\ Services \subseteq Nat
  BY ConnectionAssumption DEF ConnectionAssumption, Services, None
<1>2. IsFiniteSet(Services)
  BY ConnectionAssumption, FS_Interval DEF ConnectionAssumption, Services
<1> QED
  BY <1>1, <1>2

\* Ending services S and killing K moves lives forward only, and leaves other displays.
LEMMA Ended ==
  ASSUME Types, NEW S, NEW K, End(S, K)
  PROVE  /\ life' \in [Services -> Lives] /\ shown' \in [Services -> BOOLEAN]
         /\ \A s \in Services :
              /\ shown'[s] <=> shown[s] /\ s \notin K
              /\ life'[s] = "none" <=> life[s] = "none"
              /\ life'[s] = "starting" => life[s] = "starting"
              /\ life'[s] = "attached" => life[s] = "attached" /\ s \notin S /\ s \notin K
              /\ s \notin K => (life[s] \in {"attached", "ending"} => life'[s] \in {"attached", "ending"})
<1> USE DEF Types, End, Lives
<1>1. life' \in [Services -> Lives]
  OBVIOUS
<1>2. shown' \in [Services -> BOOLEAN]
  BY Zenon
<1>3. ASSUME NEW s \in Services
      PROVE  /\ shown'[s] <=> shown[s] /\ s \notin K
             /\ life'[s] = "none" <=> life[s] = "none"
             /\ life'[s] = "starting" => life[s] = "starting"
             /\ life'[s] = "attached" => life[s] = "attached" /\ s \notin S /\ s \notin K
             /\ s \notin K => (life[s] \in {"attached", "ending"} => life'[s] \in {"attached", "ending"})
  OBVIOUS
<1> QED
  BY <1>1, <1>2, <1>3

\* Ending and killing services keeps lives, displays and recipients together.
LEMMA EndKeepsLives ==
  ASSUME Types, LivesFit, NEW S, NEW K, End(S, K), UNCHANGED <<started, linked>>
  PROVE  LivesFit'
<1> SUFFICES ASSUME NEW s \in Services
             PROVE  /\ s > started => life'[s] = "none"
                    /\ s \in linked => life'[s] \in {"attached", "ending", "dead"}
                    /\ shown'[s] => life'[s] \in {"attached", "ending"}
  BY DEF LivesFit
<1>1. life'[s] \in Lives
  BY Ended
<1> QED
  BY <1>1, Ended DEF LivesFit, Lives

\* The next number is that of a service nobody started.
LEMMA NextService ==
  ASSUME Types, LivesFit, started < MaxServices
  PROVE  /\ started + 1 \in Services /\ life[started + 1] = "none" /\ started + 1 \in 0 .. MaxServices
         /\ \A s \in Services : s > started + 1 => s > started
BY ConnectionAssumption DEF ConnectionAssumption, Types, LivesFit, Services

-----------------------------------------------------------------------------
(* What every step keeps                                                    *)

\* Every step keeps the types.
LEMMA TypesKept ==
  ASSUME IInv, Next
  PROVE  Types'
<1> USE ConnectionAssumption, ServicesNumbers
    DEF ConnectionAssumption, IInv, Goes, Returns, callerVars, fieldVars, registryVars, serviceVars
<1>1. ASSUME NEW c \in Callers, Ask(c) \/ CallStep(c) PROVE Types'
  <2>1. CASE Ask(c)
    BY <2>1 DEF Ask, Points, Types
  <2>2. CASE Enter(c)
    BY <2>2 DEF Enter, Usable, Alive, Points, Types
  <2>3. CASE Clear(c)
    BY <2>3 DEF Clear, Points, Types
  <2>4. CASE CloseService(c)
    <3>1. \/ shown' = shown
          \/ shown' = [shown EXCEPT ![closing[c]] = FALSE]
      BY <2>4 DEF CloseService
    <3>2. shown' \in [Services -> BOOLEAN]
      BY <3>1, Zenon DEF Types
    <3>3. owners' \in [Services -> SUBSET {"setup", "shizuku", "lifecycle"}]
      BY <2>4 DEF CloseService, Types
    <3>4. pc' \in [Callers -> Points]
      BY <2>4 DEF CloseService, Types, Points
    <3> QED
      BY <2>4, <3>2, <3>3, <3>4 DEF CloseService, Types
  <2>5. CASE Dispose(c)
    BY <2>5, Ended DEF Dispose, Points, Types
  <2>6. CASE StartRoot(c)
    <3>1. /\ started + 1 \in Services /\ started + 1 \in 0 .. MaxServices
      BY <2>6, NextService DEF StartRoot, Spawn
    <3>3. life' \in [Services -> Lives]
      BY <2>6 DEF StartRoot, Spawn, Types, Lives
    <3>4. kind' \in [Services -> Modes] /\ pc' \in [Callers -> Points]
      BY <2>6 DEF StartRoot, Spawn, Types, Points
    <3>5. fresh' \in [Callers -> Services \cup {None}]
      BY <2>6, <3>1 DEF StartRoot, Spawn, Types
    <3> QED
      BY <2>6, <3>1, <3>3, <3>4, <3>5 DEF StartRoot, Spawn, Types
  <2>7. CASE StartShizuku(c)
    <3>1. /\ started + 1 \in Services /\ started + 1 \in 0 .. MaxServices
      BY <2>7, NextService DEF StartShizuku, Spawn
    <3>2. owners' \in [Services -> SUBSET {"setup", "shizuku", "lifecycle"}]
      BY <2>7 DEF StartShizuku, Spawn, Types
    <3>3. life' \in [Services -> Lives]
      BY <2>7 DEF StartShizuku, Spawn, Types, Lives
    <3>4. kind' \in [Services -> Modes] /\ pc' \in [Callers -> Points]
      BY <2>7 DEF StartShizuku, Spawn, Types, Points
    <3>5. fresh' \in [Callers -> Services \cup {None}]
      BY <2>7, <3>1 DEF StartShizuku, Spawn, Types
    <3> QED
      BY <2>7, <3>1, <3>2, <3>3, <3>4, <3>5 DEF StartShizuku, Spawn, Types
  <2>8. CASE StartFails(c) \/ Answered(c)
    BY <2>8 DEF StartFails, Answered, Points, Types
  <2>9. CASE AwaitTimesOut(c)
    BY <2>9, Ended DEF AwaitTimesOut, Points, Types
  <2>10. CASE Setup(c)
    <3>1. /\ life' \in [Services -> Lives] /\ op' \in [Callers -> {"connect", "close", "undo"}]
         /\ pc' \in [Callers -> Points] /\ fresh[c] \in Services
      BY <2>10, Ended DEF Setup, Undo, FreshStarted, Types, Points
    <3>2. CASE shown' = [shown EXCEPT ![fresh[c]] = TRUE]
      <4>1. shown' \in [Services -> BOOLEAN]
        BY <3>2, Zenon DEF Types
      <4> QED
        BY <2>10, <3>1, <4>1 DEF Setup, Types
    <3>3. CASE Undo(c, fresh[c]) /\ UNCHANGED display
      <4>1. shown' \in [Services -> BOOLEAN]
        BY <3>3, Ended DEF Undo
      <4> QED
        BY <2>10, <3>1, <3>3, <4>1 DEF Setup, Types
    <3> QED
      BY <2>10, <3>2, <3>3 DEF Setup
  <2>11. CASE Link(c)
    <3>1. /\ op' \in [Callers -> {"connect", "close", "undo"}]
         /\ pc' \in [Callers -> Points] /\ linked' \subseteq Services
      BY <2>11 DEF Link, Undo, Alive, Types, Points
    <3>2. life' \in [Services -> Lives] /\ shown' \in [Services -> BOOLEAN]
      <4>1. CASE UNCHANGED <<op, life, shown>>
        BY <4>1 DEF Types
      <4>2. CASE Undo(c, fresh[c])
        BY <4>2, Ended DEF Undo
      <4> QED
        BY <2>11, <4>1, <4>2 DEF Link
    <3> QED
      BY <2>11, <3>1, <3>2 DEF Link, Types
  <2>12. CASE Publish(c)
    BY <2>12 DEF Publish, FreshStarted, Points, Types
  <2> QED
    BY <1>1, <2>1, <2>2, <2>3, <2>4, <2>5, <2>6, <2>7, <2>8, <2>9, <2>10, <2>11, <2>12 DEF
       CallStep
<1>2. ASSUME NEW s \in Services, ServiceStep(s) \/ Crash(s) PROVE Types'
  <2>1. CASE Attach(s)
    <3>1. life' \in [Services -> Lives]
      BY <2>1 DEF Attach, Types, Lives
    <3>2. answered' \subseteq Services /\ token' \in Services \cup {None}
      BY <2>1 DEF Attach, Types
    <3> QED
      BY <2>1, <3>1, <3>2 DEF Attach, Types
  <2>2. CASE LinkLifecycle(s)
    BY <2>2, Ended DEF LinkLifecycle, Points, Types
  <2>3. CASE Exit(s)
    BY <2>3, Ended DEF Exit, Points, Types
  <2>4. CASE OwnerDied(s)
    BY <2>4, Ended DEF OwnerDied, Points, Types
  <2>5. CASE Crash(s)
    BY <2>5, Ended DEF Crash, Points, Types
  <2>6. CASE Notice(s)
    BY <2>6 DEF Notice, Points, Types
  <2> QED
    BY <1>2, <2>1, <2>2, <2>3, <2>4, <2>5, <2>6 DEF ServiceStep
<1>3. CASE AppDies
  BY <1>3 DEF AppDies, Types, Points
<1> QED
  BY <1>1, <1>2, <1>3 DEF Next

\* Every step keeps callers past enter apart.
LEMMA LockedKept ==
  ASSUME IInv, Next
  PROVE  Locked'
<1> USE ConnectionAssumption, ServicesNumbers
    DEF ConnectionAssumption, IInv, Goes, Returns, callerVars, fieldVars, registryVars, serviceVars
<1>1. ASSUME NEW c \in Callers, Ask(c) \/ CallStep(c) PROVE Locked'
  <2>1. CASE Ask(c) \/ Enter(c) \/ Clear(c)
    BY <2>1 DEF Ask, Enter, Clear, Usable, Alive, Locked, Types
  <2>2. CASE CloseService(c)
    BY <2>2 DEF CloseService, Alive, Locked, Types
  <2>3. CASE Dispose(c)
    BY <2>3, Ended DEF Dispose, Locked, Types
  <2>4. CASE StartRoot(c)
    BY <2>4, NextService DEF StartRoot, Spawn, Locked, Types
  <2>5. CASE StartShizuku(c)
    BY <2>5, NextService DEF StartShizuku, Spawn, Locked, Types
  <2>6. CASE StartFails(c) \/ Answered(c)
    BY <2>6 DEF StartFails, Answered, Locked, Types
  <2>7. CASE AwaitTimesOut(c)
    BY <2>7, Ended DEF AwaitTimesOut, Locked, Types
  <2>8. CASE Setup(c)
    BY <2>8, Ended DEF Setup, Undo, Alive, Locked, Types
  <2>9. CASE Link(c)
    BY <2>9, Ended DEF Link, Undo, Alive, Locked, Types
  <2>10. CASE Publish(c)
    BY <2>10 DEF Publish, Locked, Types
  <2> QED
    BY <1>1, <2>1, <2>2, <2>3, <2>4, <2>5, <2>6, <2>7, <2>8, <2>9, <2>10 DEF CallStep
<1>2. ASSUME NEW s \in Services, ServiceStep(s) \/ Crash(s) PROVE Locked'
  <2>1. CASE Attach(s)
    BY <2>1 DEF Attach, Locked, Types
  <2>2. CASE LinkLifecycle(s)
    BY <2>2, Ended DEF LinkLifecycle, Locked, Types
  <2>3. CASE Exit(s) \/ OwnerDied(s) \/ Crash(s)
    BY <2>3, Ended DEF Exit, OwnerDied, Crash, Locked, Types
  <2>4. CASE Notice(s)
    BY <2>4 DEF Notice, Locked, Types
  <2> QED
    BY <1>2, <2>1, <2>2, <2>3, <2>4 DEF ServiceStep
<1>3. CASE AppDies
  BY <1>3 DEF AppDies, Locked, Types
<1> QED
  BY <1>1, <1>2, <1>3 DEF Next

\* Every step leaves the field empty for a caller past clear.
LEMMA RemoteClearedKept ==
  ASSUME IInv, Next
  PROVE  RemoteCleared'
<1> USE ConnectionAssumption, ServicesNumbers
    DEF ConnectionAssumption, IInv, Goes, Returns, callerVars, fieldVars, registryVars, serviceVars
<1>1. ASSUME NEW c \in Callers, Ask(c) \/ CallStep(c) PROVE RemoteCleared'
  <2>1. CASE Ask(c) \/ Enter(c) \/ Clear(c)
    BY <2>1 DEF Ask, Enter, Clear, Usable, Alive, RemoteCleared, Locked, Types
  <2>2. CASE CloseService(c)
    BY <2>2 DEF CloseService, Alive, RemoteCleared, Locked, Types
  <2>3. CASE Dispose(c)
    BY <2>3, Ended DEF Dispose, RemoteCleared, Locked, Types
  <2>4. CASE StartRoot(c)
    BY <2>4, NextService DEF StartRoot, Spawn, RemoteCleared, Locked, Types
  <2>5. CASE StartShizuku(c)
    BY <2>5, NextService DEF StartShizuku, Spawn, RemoteCleared, Locked, Types
  <2>6. CASE StartFails(c) \/ Answered(c)
    BY <2>6 DEF StartFails, Answered, RemoteCleared, Locked, Types
  <2>7. CASE AwaitTimesOut(c)
    BY <2>7, Ended DEF AwaitTimesOut, RemoteCleared, Locked, Types
  <2>8. CASE Setup(c)
    BY <2>8, Ended DEF Setup, Undo, Alive, RemoteCleared, Locked, Types
  <2>9. CASE Link(c)
    BY <2>9, Ended DEF Link, Undo, Alive, RemoteCleared, Locked, Types
  <2>10. CASE Publish(c)
    BY <2>10 DEF Publish, RemoteCleared, Locked, Types
  <2> QED
    BY <1>1, <2>1, <2>2, <2>3, <2>4, <2>5, <2>6, <2>7, <2>8, <2>9, <2>10 DEF CallStep
<1>2. ASSUME NEW s \in Services, ServiceStep(s) \/ Crash(s) PROVE RemoteCleared'
  <2>1. CASE Attach(s)
    BY <2>1 DEF Attach, RemoteCleared, Locked, Types
  <2>2. CASE LinkLifecycle(s)
    BY <2>2, Ended DEF LinkLifecycle, RemoteCleared, Locked, Types
  <2>3. CASE Exit(s) \/ OwnerDied(s) \/ Crash(s)
    BY <2>3, Ended DEF Exit, OwnerDied, Crash, RemoteCleared, Locked, Types
  <2>4. CASE Notice(s)
    BY <2>4 DEF Notice, RemoteCleared, Locked, Types
  <2> QED
    BY <1>2, <2>1, <2>2, <2>3, <2>4 DEF ServiceStep
<1>3. CASE AppDies
  BY <1>3 DEF AppDies, RemoteCleared, Locked, Types
<1> QED
  BY <1>1, <1>2, <1>3 DEF Next

\* Every step keeps the service of a caller one that was started.
LEMMA FreshStartedKept ==
  ASSUME IInv, Next
  PROVE  FreshStarted'
<1> USE ConnectionAssumption, ServicesNumbers
    DEF ConnectionAssumption, IInv, Goes, Returns, callerVars, fieldVars, registryVars, serviceVars
<1>1. ASSUME NEW c \in Callers, Ask(c) \/ CallStep(c) PROVE FreshStarted'
  <2>1. CASE Ask(c) \/ Enter(c) \/ Clear(c)
    BY <2>1 DEF Ask, Enter, Clear, Usable, Alive, FreshStarted, Types
  <2>2. CASE CloseService(c)
    BY <2>2 DEF CloseService, Alive, FreshStarted, Types
  <2>3. CASE Dispose(c)
    BY <2>3, Ended DEF Dispose, FreshStarted, Types
  <2>4. CASE StartRoot(c)
    BY <2>4, NextService DEF StartRoot, Spawn, FreshStarted, Types
  <2>5. CASE StartShizuku(c)
    BY <2>5, NextService DEF StartShizuku, Spawn, FreshStarted, Types
  <2>6. CASE StartFails(c) \/ Answered(c)
    BY <2>6 DEF StartFails, Answered, FreshStarted, Types
  <2>7. CASE AwaitTimesOut(c)
    BY <2>7, Ended DEF AwaitTimesOut, FreshStarted, Types
  <2>8. CASE Setup(c)
    BY <2>8, Ended DEF Setup, Undo, Alive, FreshStarted, Types
  <2>9. CASE Link(c)
    BY <2>9, Ended DEF Link, Undo, Alive, FreshStarted, Types
  <2>10. CASE Publish(c)
    BY <2>10 DEF Publish, FreshStarted, Types
  <2> QED
    BY <1>1, <2>1, <2>2, <2>3, <2>4, <2>5, <2>6, <2>7, <2>8, <2>9, <2>10 DEF CallStep
<1>2. ASSUME NEW s \in Services, ServiceStep(s) \/ Crash(s) PROVE FreshStarted'
  <2>1. CASE Attach(s)
    BY <2>1 DEF Attach, FreshStarted, Types
  <2>2. CASE LinkLifecycle(s)
    BY <2>2, Ended DEF LinkLifecycle, FreshStarted, Types
  <2>3. CASE Exit(s) \/ OwnerDied(s) \/ Crash(s)
    BY <2>3, Ended DEF Exit, OwnerDied, Crash, FreshStarted, Types
  <2>4. CASE Notice(s)
    BY <2>4 DEF Notice, FreshStarted, Types
  <2> QED
    BY <1>2, <2>1, <2>2, <2>3, <2>4 DEF ServiceStep
<1>3. CASE AppDies
  BY <1>3 DEF AppDies, FreshStarted, Types
<1> QED
  BY <1>1, <1>2, <1>3 DEF Next

\* Every step keeps lives and displays together.
LEMMA LivesFitKept ==
  ASSUME IInv, Next
  PROVE  LivesFit'
<1> USE ConnectionAssumption, ServicesNumbers
    DEF ConnectionAssumption, IInv, Goes, Returns, callerVars, fieldVars, registryVars, serviceVars
<1>1. ASSUME NEW c \in Callers, Ask(c) \/ CallStep(c) PROVE LivesFit'
  <2>1. CASE Ask(c) \/ Enter(c) \/ Clear(c)
    BY <2>1, EndKeepsLives DEF Ask, Enter, Clear, Usable, Alive, LivesFit, Types
  <2>2. CASE CloseService(c)
    BY <2>2, EndKeepsLives DEF CloseService, Alive, LivesFit, Types
  <2>3. CASE Dispose(c)
    BY <2>3, Ended, EndKeepsLives DEF Dispose, LivesFit, Types
  <2>4. CASE StartRoot(c)
    BY <2>4, NextService, EndKeepsLives DEF StartRoot, Spawn, LivesFit, Types
  <2>5. CASE StartShizuku(c)
    BY <2>5, NextService, EndKeepsLives DEF StartShizuku, Spawn, LivesFit, Types
  <2>6. CASE StartFails(c) \/ Answered(c)
    BY <2>6, EndKeepsLives DEF StartFails, Answered, LivesFit, Types
  <2>7. CASE AwaitTimesOut(c)
    BY <2>7, Ended, EndKeepsLives DEF AwaitTimesOut, LivesFit, Types
  <2>8. CASE Setup(c)
    BY <2>8, Ended, EndKeepsLives DEF Setup, Undo, Alive, FreshStarted, LivesFit, Types
  <2>9. CASE Link(c)
    BY <2>9, Ended, EndKeepsLives DEF Link, Undo, Alive, FreshStarted, LivesFit, Types
  <2>10. CASE Publish(c)
    BY <2>10, EndKeepsLives DEF Publish, LivesFit, Types
  <2> QED
    BY <1>1, <2>1, <2>2, <2>3, <2>4, <2>5, <2>6, <2>7, <2>8, <2>9, <2>10 DEF CallStep
<1>2. ASSUME NEW s \in Services, ServiceStep(s) \/ Crash(s) PROVE LivesFit'
  <2>1. CASE Attach(s)
    BY <2>1, EndKeepsLives DEF Attach, LivesFit, Types
  <2>2. CASE LinkLifecycle(s)
    BY <2>2, Ended, EndKeepsLives DEF LinkLifecycle, LivesFit, Types
  <2>3. CASE Exit(s) \/ OwnerDied(s) \/ Crash(s)
    BY <2>3, Ended, EndKeepsLives DEF Exit, OwnerDied, Crash, LivesFit, Types
  <2>4. CASE Notice(s)
    BY <2>4, EndKeepsLives DEF Notice, LivesFit, Types
  <2> QED
    BY <1>2, <2>1, <2>2, <2>3, <2>4 DEF ServiceStep
<1>3. CASE AppDies
  BY <1>3 DEF AppDies, LivesFit, Types
<1> QED
  BY <1>1, <1>2, <1>3 DEF Next

\* Every step keeps a service unwatched until its caller is past link.
LEMMA FreshUnlinkedKept ==
  ASSUME IInv, Next
  PROVE  FreshUnlinked'
<1> USE ConnectionAssumption, ServicesNumbers
    DEF ConnectionAssumption, IInv, Goes, Returns, callerVars, fieldVars, registryVars, serviceVars
<1>1. ASSUME NEW c \in Callers, Ask(c) \/ CallStep(c) PROVE FreshUnlinked'
  <2>1. CASE Ask(c)
    BY <2>1 DEF Ask, FreshUnlinked, LivesFit, Locked, Types
  <2>2. CASE Enter(c)
    BY <2>2 DEF Enter, Usable, Alive, FreshUnlinked, LivesFit, Locked, Types
  <2>3. CASE Clear(c)
    BY <2>3 DEF Clear, FreshUnlinked, LivesFit, Locked, Types
  <2>4. CASE CloseService(c)
    BY <2>4 DEF CloseService, Alive, FreshUnlinked, LivesFit, Locked, Types
  <2>5. CASE Dispose(c)
    BY <2>5, Ended DEF Dispose, FreshUnlinked, LivesFit, Locked, Types
  <2>6. CASE StartRoot(c)
    BY <2>6, NextService DEF StartRoot, Spawn, FreshUnlinked, LivesFit, Locked, Types
  <2>7. CASE StartShizuku(c)
    BY <2>7, NextService DEF StartShizuku, Spawn, FreshUnlinked, LivesFit, Locked, Types
  <2>8. CASE StartFails(c)
    BY <2>8 DEF StartFails, FreshUnlinked, LivesFit, Locked, Types
  <2>9. CASE Answered(c)
    BY <2>9 DEF Answered, FreshUnlinked, LivesFit, Locked, Types
  <2>10. CASE AwaitTimesOut(c)
    BY <2>10, Ended DEF AwaitTimesOut, FreshUnlinked, LivesFit, Locked, Types
  <2>11. CASE Setup(c)
    BY <2>11, Ended DEF Setup, Undo, Alive, FreshStarted, FreshUnlinked, LivesFit, Locked, Types
  <2>12. CASE Link(c)
    BY <2>12, Ended DEF Link, Undo, Alive, FreshStarted, FreshUnlinked, LivesFit, Locked, Types
  <2>13. CASE Publish(c)
    BY <2>13 DEF Publish, FreshStarted, FreshUnlinked, LivesFit, Locked, Types
  <2> QED
    BY <1>1, <2>1, <2>2, <2>3, <2>4, <2>5, <2>6, <2>7, <2>8, <2>9,
       <2>10, <2>11, <2>12, <2>13 DEF CallStep
<1>2. ASSUME NEW s \in Services, ServiceStep(s) \/ Crash(s) PROVE FreshUnlinked'
  <2>1. CASE Attach(s)
    BY <2>1 DEF Attach, FreshUnlinked, LivesFit, Locked, Types
  <2>2. CASE LinkLifecycle(s)
    BY <2>2, Ended DEF LinkLifecycle, FreshUnlinked, LivesFit, Locked, Types
  <2>3. CASE Exit(s)
    BY <2>3, Ended DEF Exit, FreshUnlinked, LivesFit, Locked, Types
  <2>4. CASE OwnerDied(s)
    BY <2>4, Ended DEF OwnerDied, FreshUnlinked, LivesFit, Locked, Types
  <2>5. CASE Crash(s)
    BY <2>5, Ended DEF Crash, FreshUnlinked, LivesFit, Locked, Types
  <2>6. CASE Notice(s)
    BY <2>6 DEF Notice, FreshUnlinked, LivesFit, Locked, Types
  <2> QED
    BY <1>2, <2>1, <2>2, <2>3, <2>4, <2>5, <2>6 DEF ServiceStep
<1>3. CASE AppDies
  BY <1>3 DEF AppDies, FreshUnlinked, LivesFit, Locked, Types
<1> QED
  BY <1>1, <1>2, <1>3 DEF Next

\* Every step keeps the field naming the display just made.
LEMMA DisplayFitsKept ==
  ASSUME IInv, Next
  PROVE  DisplayFits'
<1> USE ConnectionAssumption, ServicesNumbers
    DEF ConnectionAssumption, IInv, Goes, Returns, callerVars, fieldVars, registryVars, serviceVars
<1>1. ASSUME NEW c \in Callers, Ask(c) \/ CallStep(c) PROVE DisplayFits'
  <2>1. CASE Ask(c)
    BY <2>1 DEF Ask, DisplayFits, Locked, Types
  <2>2. CASE Enter(c)
    BY <2>2 DEF Enter, Usable, Alive, DisplayFits, Locked, Types
  <2>3. CASE Clear(c)
    BY <2>3 DEF Clear, DisplayFits, Locked, Types
  <2>4. CASE CloseService(c)
    BY <2>4 DEF CloseService, Alive, DisplayFits, Locked, Types
  <2>5. CASE Dispose(c)
    BY <2>5, Ended DEF Dispose, DisplayFits, Locked, Types
  <2>6. CASE StartRoot(c)
    BY <2>6, NextService DEF StartRoot, Spawn, DisplayFits, Locked, Types
  <2>7. CASE StartShizuku(c)
    BY <2>7, NextService DEF StartShizuku, Spawn, DisplayFits, Locked, Types
  <2>8. CASE StartFails(c)
    BY <2>8 DEF StartFails, DisplayFits, Locked, Types
  <2>9. CASE Answered(c)
    BY <2>9 DEF Answered, DisplayFits, Locked, Types
  <2>10. CASE AwaitTimesOut(c)
    BY <2>10, Ended DEF AwaitTimesOut, DisplayFits, Locked, Types
  <2>11. CASE Setup(c)
    BY <2>11, Ended DEF Setup, Undo, Alive, FreshStarted, DisplayFits, Locked, Types
  <2>12. CASE Link(c)
    BY <2>12, Ended DEF Link, Undo, Alive, FreshStarted, DisplayFits, Locked, Types
  <2>13. CASE Publish(c)
    BY <2>13 DEF Publish, FreshStarted, DisplayFits, Locked, Types
  <2> QED
    BY <1>1, <2>1, <2>2, <2>3, <2>4, <2>5, <2>6, <2>7, <2>8, <2>9,
       <2>10, <2>11, <2>12, <2>13 DEF CallStep
<1>2. ASSUME NEW s \in Services, ServiceStep(s) \/ Crash(s) PROVE DisplayFits'
  <2>1. CASE Attach(s)
    BY <2>1 DEF Attach, DisplayFits, Locked, Types
  <2>2. CASE LinkLifecycle(s)
    BY <2>2, Ended DEF LinkLifecycle, DisplayFits, Locked, Types
  <2>3. CASE Exit(s)
    BY <2>3, Ended DEF Exit, DisplayFits, Locked, Types
  <2>4. CASE OwnerDied(s)
    BY <2>4, Ended DEF OwnerDied, DisplayFits, Locked, Types
  <2>5. CASE Crash(s)
    BY <2>5, Ended DEF Crash, DisplayFits, Locked, Types
  <2>6. CASE Notice(s)
    <3> SUFFICES ASSUME ~misled', NEW c \in Callers, pc'[c] = "link"
                 PROVE  display' = fresh'[c]
      BY DEF DisplayFits
    <3>1. ~misled /\ display \in {s, None} /\ s \in linked /\ pc[c] = "link"
      BY <2>6 DEF Notice, Types
    <3>2. display = fresh[c] /\ fresh[c] \in Services /\ fresh[c] \notin linked
      BY <3>1 DEF DisplayFits, FreshStarted, FreshUnlinked
    <3> QED
      BY <3>1, <3>2
  <2> QED
    BY <1>2, <2>1, <2>2, <2>3, <2>4, <2>5, <2>6 DEF ServiceStep
<1>3. CASE AppDies
  BY <1>3 DEF AppDies, DisplayFits, Locked, Types
<1> QED
  BY <1>1, <1>2, <1>3 DEF Next

\* Every step keeps a display with the connection or its caller.
LEMMA ShownFitsKept ==
  ASSUME IInv, Next
  PROVE  ShownFits'
<1> USE ConnectionAssumption, ServicesNumbers
    DEF ConnectionAssumption, IInv, Goes, Returns, callerVars, fieldVars, registryVars, serviceVars
<1>1. ASSUME NEW c \in Callers, Ask(c) \/ CallStep(c) PROVE ShownFits'
  <2>1. CASE Ask(c) \/ Enter(c) \/ Clear(c)
    BY <2>1 DEF Ask, Enter, Clear, Usable, Alive, ShownFits, LivesFit, Locked,
       RemoteCleared, Types
  <2>2. CASE CloseService(c)
    BY <2>2 DEF CloseService, Alive, ShownFits, LivesFit, Locked, RemoteCleared, Types
  <2>3. CASE Dispose(c)
    BY <2>3, Ended DEF Dispose, ShownFits, LivesFit, Locked, RemoteCleared, Types
  <2>4. CASE StartRoot(c)
    BY <2>4, NextService DEF StartRoot, Spawn, ShownFits, LivesFit, Locked, RemoteCleared, Types
  <2>5. CASE StartShizuku(c)
    BY <2>5, NextService DEF StartShizuku, Spawn, ShownFits, LivesFit, Locked,
       RemoteCleared, Types
  <2>6. CASE StartFails(c) \/ Answered(c)
    BY <2>6 DEF StartFails, Answered, ShownFits, LivesFit, Locked, RemoteCleared, Types
  <2>7. CASE AwaitTimesOut(c)
    BY <2>7, Ended DEF AwaitTimesOut, ShownFits, LivesFit, Locked, RemoteCleared, Types
  <2>8. CASE Setup(c)
    BY <2>8, Ended DEF Setup, Undo, Alive, FreshStarted, ShownFits, LivesFit,
       Locked, RemoteCleared, Types
  <2>9. CASE Link(c)
    BY <2>9, Ended DEF Link, Undo, Alive, DisplayFits, FreshStarted, ShownFits, LivesFit,
       Locked, RemoteCleared, Types
  <2>10. CASE Publish(c)
    BY <2>10 DEF Publish, FreshStarted, ShownFits, LivesFit, Locked, RemoteCleared, Types
  <2> QED
    BY <1>1, <2>1, <2>2, <2>3, <2>4, <2>5, <2>6, <2>7, <2>8, <2>9, <2>10 DEF CallStep
<1>2. ASSUME NEW s \in Services, ServiceStep(s) \/ Crash(s) PROVE ShownFits'
  <2>1. CASE Attach(s)
    BY <2>1 DEF Attach, ShownFits, LivesFit, Locked, RemoteCleared, Types
  <2>2. CASE LinkLifecycle(s)
    BY <2>2, Ended DEF LinkLifecycle, ShownFits, LivesFit, Locked, RemoteCleared, Types
  <2>3. CASE Exit(s) \/ OwnerDied(s) \/ Crash(s)
    BY <2>3, Ended DEF Exit, OwnerDied, Crash, ShownFits, LivesFit, Locked, RemoteCleared, Types
  <2>4. CASE Notice(s)
    BY <2>4 DEF Notice, ShownFits, LivesFit, Locked, RemoteCleared, Types
  <2> QED
    BY <1>2, <2>1, <2>2, <2>3, <2>4 DEF ServiceStep
<1>3. CASE AppDies
  BY <1>3 DEF AppDies, ShownFits, LivesFit, Locked, RemoteCleared, Types
<1> QED
  BY <1>1, <1>2, <1>3 DEF Next

\* Every step keeps the display alone.
LEMMA OneShownKept ==
  ASSUME IInv, Next
  PROVE  OneShown'
<1> USE ConnectionAssumption, ServicesNumbers
    DEF ConnectionAssumption, IInv, Goes, Returns, callerVars, fieldVars, registryVars, serviceVars
<1>1. ASSUME NEW c \in Callers, Ask(c) \/ CallStep(c) PROVE OneShown'
  <2>1. CASE Ask(c) \/ Enter(c) \/ Clear(c)
    BY <2>1 DEF Ask, Enter, Clear, Usable, Alive, OneShown, Types
  <2>2. CASE CloseService(c)
    BY <2>2 DEF CloseService, Alive, OneShown, Types
  <2>3. CASE Dispose(c)
    BY <2>3, Ended DEF Dispose, OneShown, Types
  <2>4. CASE StartRoot(c)
    BY <2>4, NextService DEF StartRoot, Spawn, OneShown, Types
  <2>5. CASE StartShizuku(c)
    BY <2>5, NextService DEF StartShizuku, Spawn, OneShown, Types
  <2>6. CASE StartFails(c) \/ Answered(c)
    BY <2>6 DEF StartFails, Answered, OneShown, Types
  <2>7. CASE AwaitTimesOut(c)
    BY <2>7, Ended DEF AwaitTimesOut, OneShown, Types
  <2>8. CASE Setup(c)
    BY <2>8, Ended DEF Setup, Undo, Alive, ShownFits, Locked, RemoteCleared,
       FreshStarted, OneShown, Types
  <2>9. CASE Link(c)
    BY <2>9, Ended DEF Link, Undo, Alive, OneShown, Types
  <2>10. CASE Publish(c)
    BY <2>10 DEF Publish, OneShown, Types
  <2> QED
    BY <1>1, <2>1, <2>2, <2>3, <2>4, <2>5, <2>6, <2>7, <2>8, <2>9, <2>10 DEF CallStep
<1>2. ASSUME NEW s \in Services, ServiceStep(s) \/ Crash(s) PROVE OneShown'
  <2>1. CASE Attach(s)
    BY <2>1 DEF Attach, OneShown, Types
  <2>2. CASE LinkLifecycle(s)
    BY <2>2, Ended DEF LinkLifecycle, OneShown, Types
  <2>3. CASE Exit(s) \/ OwnerDied(s) \/ Crash(s)
    BY <2>3, Ended DEF Exit, OwnerDied, Crash, OneShown, Types
  <2>4. CASE Notice(s)
    BY <2>4 DEF Notice, OneShown, Types
  <2> QED
    BY <1>2, <2>1, <2>2, <2>3, <2>4 DEF ServiceStep
<1>3. CASE AppDies
  BY <1>3 DEF AppDies, OneShown, Types
<1> QED
  BY <1>1, <1>2, <1>3 DEF Next

-----------------------------------------------------------------------------
(* The theorems                                                             *)

\* It holds when the app starts,
LEMMA InitInv == Init => IInv
<1> SUFFICES ASSUME Init PROVE IInv
  OBVIOUS
<1> USE ConnectionAssumption, ServicesNumbers DEF ConnectionAssumption, Init
<1>1. Types
  <2>1. shown \in [Services -> BOOLEAN]
    BY Zenon
  <2>2. started \in 0 .. MaxServices /\ calls \in 0 .. MaxCalls
    OBVIOUS
  <2> QED
    BY <2>1, <2>2 DEF Types, Points, Lives, Modes
<1>2. Locked /\ RemoteCleared /\ FreshStarted /\ ShownFits
  BY DEF Locked, RemoteCleared, FreshStarted, ShownFits
<1>3. LivesFit /\ FreshUnlinked /\ DisplayFits /\ OneShown
  BY DEF LivesFit, FreshUnlinked, DisplayFits, OneShown
<1> QED
  BY <1>1, <1>2, <1>3 DEF IInv

\* and every step keeps it.
LEMMA StepInv ==
  ASSUME IInv, [Next]_vars
  PROVE  IInv'
<1>1. CASE Next
  BY <1>1, TypesKept, LockedKept, RemoteClearedKept, FreshStartedKept, LivesFitKept,
     FreshUnlinkedKept, DisplayFitsKept, ShownFitsKept, OneShownKept DEF IInv
<1>2. CASE UNCHANGED vars
  <2> USE <1>2 DEF IInv, vars, callerVars, fieldVars, registryVars, serviceVars
  <2>1. Types'
    BY DEF Types
  <2>2. Locked' /\ RemoteCleared' /\ FreshStarted' /\ LivesFit'
    BY DEF Locked, RemoteCleared, FreshStarted, LivesFit
  <2>3. FreshUnlinked' /\ DisplayFits' /\ ShownFits' /\ OneShown'
    BY DEF FreshUnlinked, DisplayFits, ShownFits, OneShown
  <2> QED
    BY <2>1, <2>2, <2>3
<1> QED
  BY <1>1, <1>2

\* Callers, fields, processes, displays and recipients fit together at every step of
\* connect, close and the notices of deaths (BackgroundConnection.kt), for any number
\* of callers and services.
THEOREM InvHolds == Spec => []IInv
<1>1. Init => IInv
  BY InitInv
<1>2. IInv /\ [Next]_vars => IInv'
  BY StepInv
<1> QED
  BY <1>1, <1>2, PTL DEF Spec

\* What connect and close keep of "One process/display per app"
\* (BackgroundConnection.kt:19): whatever time-outs, crashes and exceptions do, and
\* whenever deaths are noticed, a second display is made only after the first is gone
\* as long as no notice has cleared the fields of another service than the one that
\* died (:81, the one way to lose a display).
THEOREM DisplaysAlone == Spec => []OneDisplayUnlessMisled
<1>1. ASSUME IInv PROVE OneDisplayUnlessMisled
  <2> DEFINE D == {s \in Services : shown[s]}
  <2> SUFFICES ASSUME ~misled PROVE OneDisplayPerApp
    BY DEF OneDisplayUnlessMisled
  <2>1. CASE D = {}
    BY <2>1, FS_EmptySet DEF OneDisplayPerApp
  <2>2. CASE D # {}
    <3>1. PICK s \in Services : shown[s]
      BY <2>2
    <3>2. D = {s}
      BY <1>1, <3>1 DEF IInv, OneShown
    <3>3. Cardinality(D) = 1
      BY <3>2, FS_Singleton
    <3> QED
      BY <3>3 DEF OneDisplayPerApp
  <2> QED
    BY <2>1, <2>2
<1> QED
  BY <1>1, InvHolds, PTL

=============================================================================
