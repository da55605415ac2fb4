------------------------ MODULE BackgroundConnection ------------------------
(***************************************************************************)
(* The app's connection to the background display                          *)
(* (BackgroundConnection.kt), with the privileged processes it starts      *)
(* (BackgroundServiceMain.kt, BackgroundDisplayService.kt) and the token   *)
(* they attach with (RootServiceBootstrapRegistry.kt).                     *)
(*                                                                         *)
(* connect and close are @Synchronized and are called by the session's     *)
(* command thread, by the screen and by the notification.  What tells the  *)
(* app that a service died is not synchronized with them: it comes from a  *)
(* binder thread or from Shizuku, at any later moment.                     *)
(*                                                                         *)
(* A service is named by the number of the attempt that started it, which  *)
(* is also its token.  destroy() is a oneway call: the service exits some  *)
(* time after it.                                                          *)
(***************************************************************************)
EXTENDS Naturals, FiniteSets

CONSTANTS
  Callers,       \* threads that call connect and close
  MaxServices,   \* bound on the services started
  MaxCalls       \* bound on the calls

NoCaller == "nobody"

ASSUME ConnectionAssumption ==
  /\ NoCaller \notin Callers
  /\ MaxServices \in Nat /\ MaxCalls \in Nat

Services == 1 .. MaxServices
None == 0
Modes == {"ROOT", "SHIZUKU"}

VARIABLES
  app,                          \* the app's process lives
  lock, pc, op, want, fresh, closing, calls,   \* the callers: fresh is the service being connected
  remote, display, mode, proc, bound, linked,  \* BackgroundConnection; linked has the recipients set
  token, answered,              \* pendingBinders, and the deferred binders completed
  started, kind, life, owners, shown,          \* the services
  misled                        \* history: a death has cleared the fields of another service

callerVars == <<lock, pc, op, want, fresh, closing, calls>>
fieldVars == <<remote, display, mode, proc, bound, linked>>
registryVars == <<token, answered>>
serviceVars == <<started, kind, life, owners, shown>>

vars == <<app, callerVars, fieldVars, registryVars, serviceVars, misled>>

Points == {"idle", "enter", "clear", "close", "dispose", "start", "await", "setup", "link", "publish"}
Lives == {"none", "starting", "attached", "ending", "dead"}

Init ==
  /\ app = "up"
  /\ lock = NoCaller /\ pc = [c \in Callers |-> "idle"] /\ op = [c \in Callers |-> "close"]
  /\ want = [c \in Callers |-> "ROOT"] /\ calls = 0
  /\ fresh = [c \in Callers |-> None] /\ closing = [c \in Callers |-> None]
  /\ remote = None /\ display = None /\ mode = "none" /\ proc = None /\ bound = None /\ linked = {}
  /\ token = None /\ answered = {}
  /\ started = 0 /\ kind = [s \in Services |-> "ROOT"]
  /\ life = [s \in Services |-> "none"]
  /\ owners = [s \in Services |-> {}] /\ shown = [s \in Services |-> FALSE]
  /\ misled = FALSE

Goes(c, point) == pc' = [pc EXCEPT ![c] = point]
Returns(c) == Goes(c, "idle") /\ lock' = NoCaller

\* The binder can be called.
Alive(s) == s # None /\ life[s] \in {"attached", "ending"}

\* The services of S begin to exit, those of K are killed.
End(S, K) ==
  /\ life' = [s \in Services |->
                IF s \in K /\ life[s] # "none" THEN "dead"
                ELSE IF s \in S /\ life[s] \in {"starting", "attached"} THEN "ending" ELSE life[s]]
  /\ shown' = [s \in Services |-> shown[s] /\ s \notin K]

\* Killing su may leave what it started running.
Reached(s) == {{}, {s} \ {None}}

-----------------------------------------------------------------------------
(* close()                                                                  *)

Ask(c) ==
  /\ app = "up" /\ pc[c] = "idle" /\ calls < MaxCalls
  /\ calls' = calls + 1
  /\ \E o \in {"connect", "close"}, m \in Modes :
       op' = [op EXCEPT ![c] = o] /\ want' = [want EXCEPT ![c] = m]
  /\ Goes(c, "enter")
  /\ UNCHANGED <<app, lock, fresh, closing, fieldVars, registryVars, serviceVars, misled>>

\* A connection of the wanted mode is returned as it is.
Usable(c) == op[c] = "connect" /\ Alive(remote) /\ mode = want[c]

Enter(c) ==
  /\ pc[c] = "enter" /\ lock = NoCaller
  /\ \/ /\ Usable(c)
        /\ Goes(c, "idle") /\ UNCHANGED lock
     \/ /\ ~Usable(c)
        /\ Goes(c, "clear") /\ lock' = c
  /\ UNCHANGED <<app, op, want, fresh, closing, calls, fieldVars, registryVars, serviceVars, misled>>

BugClear(c) ==
  /\ pc[c] = "clear"
  /\ remote' = None /\ display' = None /\ mode' = "none"
  /\ closing' = [closing EXCEPT ![c] = remote']
  /\ Goes(c, "close")
  /\ UNCHANGED <<app, lock, op, want, fresh, calls, proc, bound, linked, registryVars, serviceVars, misled>>

\* The fields are cleared first: nobody uses what is being closed.
Clear(c) ==
  /\ pc[c] = "clear"
  /\ closing' = [closing EXCEPT ![c] = remote]
  /\ remote' = None /\ display' = None /\ mode' = "none"
  /\ Goes(c, "close")
  /\ UNCHANGED <<app, lock, op, want, fresh, calls, proc, bound, linked, registryVars, serviceVars, misled>>

\* service.close(): the display is gone when the call returns.
CloseService(c) ==
  /\ pc[c] = "close"
  /\ IF Alive(closing[c])
       THEN /\ shown' = [shown EXCEPT ![closing[c]] = FALSE]
            /\ owners' = [owners EXCEPT ![closing[c]] = @ \ {"setup"}]
       ELSE UNCHANGED <<shown, owners>>
  /\ Goes(c, "dispose")
  /\ UNCHANGED <<app, lock, op, want, fresh, closing, calls, fieldVars, registryVars,
                 started, kind, life, misled>>

\* service.destroy(), unbindUserService and process.destroy().
Dispose(c) ==
  /\ pc[c] = "dispose"
  /\ \E K \in Reached(proc) : End({closing[c], bound}, K)
  /\ bound' = None /\ proc' = None
  /\ closing' = [closing EXCEPT ![c] = None]
  /\ IF op[c] = "connect" THEN Goes(c, "start") /\ UNCHANGED lock ELSE Returns(c)
  /\ UNCHANGED <<app, op, want, fresh, calls, remote, display, mode, linked, registryVars,
                 started, kind, owners, misled>>

-----------------------------------------------------------------------------
(* connect()                                                                *)

\* A service is started, or the user denies it: then su ends by itself.
Spawn(c) ==
  /\ started < MaxServices
  /\ started' = started + 1
  /\ fresh' = [fresh EXCEPT ![c] = started + 1]
  /\ kind' = [kind EXCEPT ![started + 1] = want[c]]
  /\ \E l \in {"starting", "dead"} : life' = [life EXCEPT ![started + 1] = l]
  /\ Goes(c, "await")

StartRoot(c) ==
  /\ pc[c] = "start" /\ want[c] = "ROOT"
  /\ Spawn(c)
  /\ token' = started + 1 /\ proc' = started + 1
  /\ UNCHANGED <<app, lock, op, want, closing, calls, remote, display, mode, bound, linked,
                 answered, owners, shown, misled>>

\* Shizuku ends its services with the app (daemon(false)).
StartShizuku(c) ==
  /\ pc[c] = "start" /\ want[c] = "SHIZUKU"
  /\ Spawn(c)
  /\ bound' = started + 1
  /\ owners' = [owners EXCEPT ![started + 1] = {"shizuku"}]
  /\ UNCHANGED <<app, lock, op, want, closing, calls, remote, display, mode, proc, linked,
                 registryVars, shown, misled>>

\* su cannot be run, or Shizuku is not ready.
StartFails(c) ==
  /\ pc[c] = "start"
  /\ Returns(c)
  /\ UNCHANGED <<app, op, want, fresh, closing, calls, fieldVars, registryVars, serviceVars, misled>>

Answered(c) ==
  /\ pc[c] = "await" /\ fresh[c] \in answered
  /\ token' = None
  /\ Goes(c, "setup")
  /\ UNCHANGED <<app, lock, op, want, fresh, closing, calls, fieldVars, answered, serviceVars, misled>>

BugAwaitTimesOut(c) ==
  /\ pc[c] = "await" /\ want[c] = "SHIZUKU"
  /\ \E K \in Reached(proc) : End({bound}, K)
  /\ proc' = None /\ token' = None
  /\ Returns(c)
  /\ UNCHANGED <<app, op, want, fresh, closing, calls, remote, display, mode, bound, linked,
                 answered, started, kind, owners, misled>>

\* 30 seconds for su, 20 for Shizuku; an answer may just have come.
AwaitTimesOut(c) ==
  /\ pc[c] = "await"
  /\ \E K \in Reached(proc) : End({bound}, K)
  /\ proc' = None /\ token' = None
  /\ Returns(c)
  /\ UNCHANGED <<app, op, want, fresh, closing, calls, remote, display, mode, bound, linked,
                 answered, started, kind, owners, misled>>

\* The exception handler: service.destroy(), then close().
Undo(c, s) ==
  /\ End({s}, {})
  /\ op' = [op EXCEPT ![c] = "undo"]
  /\ Goes(c, "clear")

\* service.setup(): the owner is watched and the display created.
Setup(c) ==
  LET s == fresh[c] IN
  /\ pc[c] = "setup"
  /\ owners' = IF Alive(s) THEN [owners EXCEPT ![s] = @ \cup {"setup"}] ELSE owners
  /\ \/ /\ Alive(s)
        /\ shown' = [shown EXCEPT ![s] = TRUE] /\ display' = s
        /\ Goes(c, "link")
        /\ UNCHANGED <<op, life>>
     \/ Undo(c, s) /\ UNCHANGED display
  /\ UNCHANGED <<app, lock, want, fresh, closing, calls, remote, mode, proc, bound, linked,
                 registryVars, started, kind, misled>>

\* check(display > 0) reads the field again; linkToDeath fails on a dead service.
Link(c) ==
  LET s == fresh[c] IN
  /\ pc[c] = "link"
  /\ \/ /\ display # None /\ Alive(s)
        /\ linked' = linked \cup {s}
        /\ Goes(c, "publish")
        /\ UNCHANGED <<op, life, shown>>
     \/ /\ display = None \/ ~Alive(s)
        /\ Undo(c, s) /\ UNCHANGED linked
  /\ UNCHANGED <<app, lock, want, fresh, closing, calls, remote, display, mode, proc, bound,
                 registryVars, started, kind, owners, misled>>

Publish(c) ==
  /\ pc[c] = "publish"
  /\ remote' = fresh[c] /\ mode' = want[c]
  /\ Returns(c)
  /\ UNCHANGED <<app, op, want, fresh, closing, calls, display, proc, bound, linked,
                 registryVars, serviceVars, misled>>

\* The death recipient and onServiceDisconnected clear the fields, whatever
\* service is in them by then: nothing makes connect wait for a notice.
Notice(s) ==
  /\ s \in linked /\ life[s] = "dead"
  /\ linked' = linked \ {s}
  /\ remote' = None /\ display' = None
  /\ misled' = (misled \/ ~({remote, display} \subseteq {s, None}))
  /\ UNCHANGED <<app, callerVars, mode, proc, bound, registryVars, serviceVars>>

-----------------------------------------------------------------------------
(* The services.                                                            *)

\* A token that is not awaited any more ends the service it belongs to.
Attach(s) ==
  /\ life[s] = "starting"
  /\ LET awaited == app = "up" /\ (IF kind[s] = "ROOT" THEN token = s ELSE bound = s) IN
     /\ life' = [life EXCEPT ![s] = IF awaited THEN "attached" ELSE "dead"]
     /\ answered' = IF awaited THEN answered \cup {s} ELSE answered
     /\ token' = IF token = s THEN None ELSE token
  /\ UNCHANGED <<app, callerVars, fieldVars, started, kind, owners, shown, misled>>

BugLinkLifecycle(s) ==
  /\ kind[s] = "ROOT" /\ life[s] = "attached" /\ "lifecycle" \notin owners[s]
  /\ UNCHANGED vars

\* BackgroundServiceMain watches the app from the attachment on.
LinkLifecycle(s) ==
  /\ kind[s] = "ROOT" /\ life[s] = "attached" /\ "lifecycle" \notin owners[s]
  /\ IF app = "up"
       THEN owners' = [owners EXCEPT ![s] = @ \cup {"lifecycle"}] /\ UNCHANGED <<life, shown>>
       ELSE End({}, {s}) /\ UNCHANGED owners
  /\ UNCHANGED <<app, callerVars, fieldVars, registryVars, started, kind, misled>>

\* main.post { exitProcess }, and with the process its display.
Exit(s) ==
  /\ life[s] = "ending"
  /\ End({}, {s})
  /\ UNCHANGED <<app, callerVars, fieldVars, registryVars, started, kind, owners, misled>>

Crash(s) ==
  /\ app = "up" /\ life[s] \in {"starting", "attached"}
  /\ End({}, {s})
  /\ UNCHANGED <<app, callerVars, fieldVars, registryVars, started, kind, owners, misled>>

\* Whoever watches the app destroys the service.
OwnerDied(s) ==
  /\ app = "gone" /\ owners[s] # {} /\ life[s] \in {"starting", "attached"}
  /\ End({s}, {})
  /\ UNCHANGED <<app, callerVars, fieldVars, registryVars, started, kind, owners, misled>>

\* The app is killed, in the middle of whatever its threads do.
AppDies ==
  /\ app = "up"
  /\ app' = "gone"
  /\ lock' = NoCaller /\ pc' = [c \in Callers |-> "idle"]
  /\ remote' = None /\ display' = None /\ mode' = "none"
  /\ proc' = None /\ bound' = None /\ linked' = {}
  /\ token' = None /\ answered' = {}
  /\ UNCHANGED <<op, want, fresh, closing, calls, serviceVars, misled>>

-----------------------------------------------------------------------------

CallStep(c) ==
  \/ Enter(c) \/ Clear(c) \/ CloseService(c) \/ Dispose(c)
  \/ StartRoot(c) \/ StartShizuku(c) \/ StartFails(c) \/ Answered(c) \/ AwaitTimesOut(c)
  \/ Setup(c) \/ Link(c) \/ Publish(c)

ServiceStep(s) == Attach(s) \/ LinkLifecycle(s) \/ Exit(s) \/ OwnerDied(s) \/ Notice(s)

Next ==
  \/ \E c \in Callers : Ask(c) \/ CallStep(c)
  \/ \E s \in Services : ServiceStep(s) \/ Crash(s)
  \/ AppDies

\* Threads and processes are scheduled and notices delivered; nothing calls,
\* crashes or is killed unless it happens to.
Fairness ==
  /\ \A c \in Callers : WF_vars(CallStep(c))
  /\ \A s \in Services : WF_vars(ServiceStep(s))

Spec == Init /\ [][Next]_vars /\ Fairness

-----------------------------------------------------------------------------
(* Properties.                                                              *)

\* "One process/display per app" (BackgroundConnection.kt:19): there are never two
\* displays at a time.
OneDisplayPerApp == Cardinality({s \in Services : shown[s]}) <= 1

\* What connect and close do keep of it: however services crash, answer too late or
\* refuse, a second display comes only after the notice of one service's death has
\* cleared the fields that name another.
OneDisplayUnlessMisled == misled \/ OneDisplayPerApp

\* Once the app is gone every process it started ends, wherever the app was
\* in connect or close.
ServicesEndWithApp == (app = "gone") ~> (\A s \in Services : life[s] \in {"none", "dead"})

\* Every connect and close returns, though su or Shizuku may never answer.
EveryCallReturns == \A c \in Callers : (pc[c] = "enter") ~> (pc[c] = "idle")
=============================================================================
