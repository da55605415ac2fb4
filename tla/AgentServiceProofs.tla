------------------------- MODULE AgentServiceProofs -------------------------
(***************************************************************************)
(* Proofs about AgentService, for any configurations and any number of     *)
(* tasks, alarms and stops asked for.  IInv ties the queues of commands,   *)
(* the command threads, their agents and the sessions together.  From it   *)
(* follow the types, that an instance that published Stopped is released,  *)
(* that an instance has one task at work, and that each session keeps the  *)
(* promise of TaskSession.  The last part follows one task through the     *)
(* queue, the session and the events as long as no alarm rings.            *)
(***************************************************************************)
EXTENDS AgentService, TLAPS

\* TypeOK, by whose variables they are.
ScreenTypes ==
  /\ running \in BOOLEAN /\ status \in Statuses /\ queue \in 0 .. MaxRuns /\ inbox \in Seq(Events)

UserTypes ==
  /\ cfg \in Configs /\ asked \in 0 .. MaxRuns /\ alarms \in 0 .. MaxAlarms /\ stops \in 0 .. MaxStops

SystemTypes ==
  /\ svc \in Ids \cup {None} /\ issued \in Ids \cup {0}
  /\ cmds \in [Ids -> Seq(Commands)]

ServiceTypes ==
  /\ wpc \in [Ids -> {"idle", "create", "start", "run", "fail", "release", "closing", "selfStop", "publish"}]
  /\ then \in [Ids -> {"none", "create", "selfStop", "publish"}]
  /\ sel \in [Ids -> Configs \cup {None}] /\ label \in [Ids -> Configs \cup {None}]
  /\ agent \in [Ids -> Ids \cup {None}]

SessionTypes ==
  /\ phase \in [Ids -> {"none", "new", "open", "closing", "closed"}]
  /\ owner \in [Ids -> Ids \cup {None}]

ThreadTypes ==
  /\ busy \in [Ids -> BOOLEAN] /\ queued \in [Ids -> BOOLEAN] /\ cut \in [Ids -> BOOLEAN]
  /\ tpc \in [Ids -> {"idle", "announce", "enter", "working", "clear", "gate", "report"}]
  /\ outcome \in [Ids -> {"none", "Finished", "Failed"}]

HistoryTypes == stopped \subseteq Ids /\ rejected \subseteq Ids

\* Every start id answers something that was asked for.
IdsSuffice == issued + queue <= asked + alarms + stops /\ svc <= issued

\* What the next ids will name does not exist yet.
NotYetIssued ==
  \A i \in Ids : i > issued =>
    cmds[i] = <<>> /\ wpc[i] = "idle" /\ agent[i] = None /\ phase[i] = "none" /\ i \notin stopped

\* A queue holds numbered commands, and onDestroy's may be its last.
Shaped(queues, last, started) ==
  \A i \in Ids : \A k \in 1 .. Len(queues[i]) :
    /\ queues[i][k].op # "destroy" => queues[i][k].id \in Ids /\ queues[i][k].id <= last
    /\ queues[i][k].op = "destroy" => k = Len(queues[i]) /\ started # i

QueueShape == Shaped(cmds, issued, svc)

\* No command is delivered twice.
Different(queues) ==
  \A i, j \in Ids : \A k \in 1 .. Len(queues[i]), l \in 1 .. Len(queues[j]) :
    /\ queues[i][k].op # "destroy" /\ queues[j][l].op # "destroy"
    /\ queues[i][k].id = queues[j][l].id
    => i = j /\ k = l

CommandsDiffer == Different(cmds)

\* The command thread works on the head of its queue.
HeadFits(i) ==
  /\ wpc[i] # "idle" => cmds[i] # <<>>
  /\ wpc[i] \in {"create", "start", "run", "fail"} => Op(i) = "run"
  /\ wpc[i] \in {"release", "closing"} =>
       /\ then[i] # "none"
       /\ then[i] = "create" => Op(i) = "run"
       /\ then[i] = "selfStop" => Op(i) # "destroy"
       /\ then[i] = "publish" => Op(i) = "destroy"
  /\ wpc[i] = "selfStop" => Op(i) # "destroy"
  /\ wpc[i] = "publish" => Op(i) = "destroy"

HeadsFit == \A i \in Ids : HeadFits(i)

\* The agent a service has at each point of its command thread.
AgentFits(i) ==
  /\ agent[i] = None => label[i] = None
  /\ wpc[i] \in {"create", "selfStop", "publish"} => agent[i] = None
  /\ wpc[i] \in {"idle", "run"} /\ agent[i] # None => phase[agent[i]] = "open" /\ label[i] # None
  /\ wpc[i] \in {"start", "run", "closing"} => agent[i] # None
  /\ wpc[i] = "start" => phase[agent[i]] = "new"
  /\ wpc[i] = "closing" => phase[agent[i]] = "closing"
  /\ wpc[i] \in {"fail", "release"} /\ agent[i] # None => phase[agent[i]] \in {"new", "open"}
  /\ wpc[i] \in {"create", "start"} => sel[i] # None
  /\ wpc[i] \in {"release", "closing"} /\ then[i] = "create" => sel[i] # None

AgentsFit == \A i \in Ids : AgentFits(i)

\* A session that is not closed is its owner's agent, and only such a one
\* works.
SessionFits(s) ==
  /\ owner[s] = None <=> phase[s] = "none"
  /\ phase[s] \in {"new", "open", "closing"} => agent[owner[s]] = s
  /\ tpc[s] = "working" => phase[s] \in {"open", "closing"}
  /\ phase[s] \in {"none", "new"} => tpc[s] = "idle" /\ ~queued[s] /\ ~busy[s]
  /\ queued[s] => phase[s] = "open"
  /\ tpc[s] \in {"clear", "gate", "report"} => outcome[s] # "none"

SessionsFit == \A s \in Ids : SessionFits(s)

\* A service owns the agent it has, and has not closed it.
AgentsOwned ==
  \A i \in Ids : agent[i] # None => owner[agent[i]] = i /\ phase[agent[i]] \in {"new", "open", "closing"}

\* The command thread may have made a session for the head of the queue.
Begun(i) ==
  \/ wpc[i] \in {"start", "run", "fail", "selfStop"}
  \/ wpc[i] \in {"release", "closing"} /\ then[i] = "selfStop"

\* A command that waits has no session yet.
CommandsFresh ==
  \A i \in Ids : \A k \in 1 .. Len(cmds[i]) :
    cmds[i][k].op = "run" /\ (k = 1 => ~Begun(i)) => phase[cmds[i][k].id] = "none"

\* An instance that published Stopped has nothing left to do and gets no more.
StoppedIsOver ==
  \A i \in stopped : svc # i /\ cmds[i] = <<>> /\ wpc[i] = "idle" /\ agent[i] = None

IInv ==
  /\ ScreenTypes /\ UserTypes /\ SystemTypes /\ ServiceTypes /\ SessionTypes /\ ThreadTypes
  /\ HistoryTypes /\ IdsSuffice /\ NotYetIssued /\ QueueShape /\ CommandsDiffer
  /\ HeadsFit /\ AgentsFit /\ SessionsFit /\ AgentsOwned /\ CommandsFresh /\ StoppedIsOver

-----------------------------------------------------------------------------
(* The queues: what delivering, popping and destroying do.                  *)

\* Ids are numbers, and none of them is None.
LEMMA IdsNumbers == Ids \subseteq Nat /\ None \notin Ids
BY ConstantsAssumption DEF ConstantsAssumption, Ids, None

\* What Deliver does to the queues.
LEMMA Delivered ==
  ASSUME SystemTypes, NotYetIssued, issued + 1 \in Ids, NEW op \in {"run", "stop"}, Deliver(op)
  PROVE  /\ SystemTypes'
         /\ issued' = issued + 1 /\ svc' \in Ids /\ (svc # None => svc' = svc)
         /\ svc = None => svc' = issued + 1 /\ cmds[svc'] = <<>>
         /\ \A j \in Ids : j # svc' => cmds'[j] = cmds[j]
         /\ Len(cmds[svc']) \in Nat
         /\ Len(cmds'[svc']) = Len(cmds[svc']) + 1
         /\ \A k \in 1 .. Len(cmds[svc']) : cmds'[svc'][k] = cmds[svc'][k]
         /\ cmds'[svc'][Len(cmds'[svc'])] = [op |-> op, id |-> issued + 1]
<1> USE ConstantsAssumption DEF ConstantsAssumption, SystemTypes, None
<1> DEFINE c == [op |-> op, id |-> issued + 1]
           i == IF svc = None THEN issued + 1 ELSE svc
<1>1. i \in Ids /\ c \in Commands /\ issued \in Nat
  BY DEF Commands, Ids
<1>2. svc' = i /\ issued' = issued + 1 /\ cmds' = [cmds EXCEPT ![i] = Append(@, c)]
  BY DEF Deliver
<1>3. cmds[i] \in Seq(Commands)
  BY <1>1
<1>4. svc = None => cmds[i] = <<>>
  BY <1>1 DEF NotYetIssued
<1>5. Append(cmds[i], c) \in Seq(Commands)
  BY <1>1, <1>3
<1> HIDE DEF c, i
<1>6. cmds'[i] = Append(cmds[i], c) /\ \A j \in Ids : j # i => cmds'[j] = cmds[j]
  BY <1>1, <1>2
<1>7. SystemTypes'
  BY <1>1, <1>2, <1>5
<1>8. /\ Len(cmds[i]) \in Nat /\ Len(Append(cmds[i], c)) = Len(cmds[i]) + 1
      /\ \A k \in 1 .. Len(cmds[i]) : Append(cmds[i], c)[k] = cmds[i][k]
      /\ Append(cmds[i], c)[Len(cmds[i]) + 1] = c
  BY <1>1, <1>3
<1> QED
  BY <1>1, <1>2, <1>4, <1>6, <1>7, <1>8 DEF c, i

\* A queue without its head.
Popping(queues, i) == [queues EXCEPT ![i] = Tail(@)]

\* What taking the head off a queue does.
LEMMA Popped ==
  ASSUME NEW queues \in [Ids -> Seq(Commands)], NEW i \in Ids, queues[i] # <<>>,
         NEW popped, popped = Popping(queues, i)
  PROVE  /\ popped \in [Ids -> Seq(Commands)]
         /\ \A j \in Ids : j # i => popped[j] = queues[j]
         /\ Len(queues[i]) \in Nat \ {0} /\ Len(popped[i]) = Len(queues[i]) - 1
         /\ \A k \in 1 .. Len(popped[i]) : k + 1 \in 1 .. Len(queues[i]) /\ popped[i][k] = queues[i][k + 1]
<1>1. queues[i] \in Seq(Commands) /\ popped[i] = Tail(queues[i]) /\ \A j \in Ids : j # i => popped[j] = queues[j]
  BY DEF Popping
<1>2. Tail(queues[i]) \in Seq(Commands) /\ Len(queues[i]) \in Nat \ {0} /\ Len(Tail(queues[i])) = Len(queues[i]) - 1
  BY <1>1
<1>3. \A k \in 1 .. Len(Tail(queues[i])) : k + 1 \in 1 .. Len(queues[i]) /\ Tail(queues[i])[k] = queues[i][k + 1]
  BY <1>1, <1>2
<1>4. popped \in [Ids -> Seq(Commands)]
  BY <1>2 DEF Popping
<1> QED
  BY <1>1, <1>2, <1>3, <1>4

\* What onDestroy does to the queues.
LEMMA Destroyed ==
  ASSUME svc \in Ids, NEW queues \in [Ids -> Seq(Commands)], Destroy(queues)
  PROVE  /\ svc' = None /\ cmds' \in [Ids -> Seq(Commands)]
         /\ \A j \in Ids : j # svc => cmds'[j] = queues[j]
         /\ Len(queues[svc]) \in Nat
         /\ Len(cmds'[svc]) = Len(queues[svc]) + 1
         /\ \A k \in 1 .. Len(queues[svc]) : cmds'[svc][k] = queues[svc][k]
         /\ cmds'[svc][Len(cmds'[svc])] = [op |-> "destroy", id |-> None]
<1> DEFINE c == [op |-> "destroy", id |-> None]
<1>1. c \in Commands /\ queues[svc] \in Seq(Commands)
  BY DEF Commands
<1>2. svc' = None /\ cmds' = [queues EXCEPT ![svc] = Append(@, c)]
  BY DEF Destroy
<1> HIDE DEF c
<1>3. Append(queues[svc], c) \in Seq(Commands)
  BY <1>1
<1>4. cmds'[svc] = Append(queues[svc], c) /\ \A j \in Ids : j # svc => cmds'[j] = queues[j]
  BY <1>1, <1>2
<1>5. cmds' \in [Ids -> Seq(Commands)]
  BY <1>1, <1>2, <1>3
<1>6. /\ Len(queues[svc]) \in Nat /\ Len(Append(queues[svc], c)) = Len(queues[svc]) + 1
      /\ \A k \in 1 .. Len(queues[svc]) : Append(queues[svc], c)[k] = queues[svc][k]
      /\ Append(queues[svc], c)[Len(queues[svc]) + 1] = c
  BY <1>1
<1> QED
  BY <1>2, <1>4, <1>5, <1>6 DEF c

\* The head of a queue is a command.
LEMMA HeadOfQueue ==
  ASSUME SystemTypes, NEW i \in Ids, cmds[i] # <<>>
  PROVE  Head(cmds[i]) = cmds[i][1] /\ 1 \in 1 .. Len(cmds[i]) /\ Head(cmds[i]) \in Commands
<1>1. cmds[i] \in Seq(Commands)
  BY DEF SystemTypes
<1> QED
  BY <1>1

-----------------------------------------------------------------------------
(* What each actor leaves alone.                                            *)

\* What the main thread does to the services: nothing, a delivery or a destruction.
LEMMA MainKeeps ==
  ASSUME IInv, UserStep \/ HandleEvent
  PROVE  /\ UNCHANGED <<serviceVars, sessionVars, threadVars, history>>
         /\ \/ UNCHANGED <<systemVars, cmds>>
            \/ issued + 1 \in Ids /\ \E op \in {"run", "stop"} : Deliver(op)
            \/ svc \in Ids /\ Destroy(cmds) /\ UNCHANGED issued
<1> USE DEF systemVars
<1>0. /\ issued \in Nat /\ queue \in Nat /\ asked \in Nat /\ alarms \in Nat /\ stops \in Nat
      /\ svc \in Ids \cup {None} /\ asked <= MaxRuns /\ alarms <= MaxAlarms /\ stops <= MaxStops
      /\ issued + queue <= asked + alarms + stops
  BY ConstantsAssumption
     DEF IInv, ScreenTypes, UserTypes, SystemTypes, IdsSuffice, ConstantsAssumption, Ids
<1>i. ASSUME issued < MaxRuns + MaxAlarms + MaxStops PROVE issued + 1 \in Ids
  BY <1>0, <1>i, ConstantsAssumption DEF ConstantsAssumption, Ids
<1>1. CASE PressStop
  BY <1>0, <1>1 DEF PressStop
<1>2. CASE PressNotificationStop
  <2>1. issued < MaxRuns + MaxAlarms + MaxStops
    BY <1>0, <1>2, ConstantsAssumption DEF PressNotificationStop, ConstantsAssumption
  <2> QED
    BY <1>2, <1>i, <2>1 DEF PressNotificationStop
<1>3. CASE AlarmRings
  <2>1. issued < MaxRuns + MaxAlarms + MaxStops
    BY <1>0, <1>3, ConstantsAssumption DEF AlarmRings, ConstantsAssumption
  <2> QED
    BY <1>3, <1>i, <2>1 DEF AlarmRings
<1>4. CASE Select
  BY <1>4 DEF Select
<1>5. ASSUME NEW n \in 0 .. MaxRuns, PressStart(n)
      PROVE  /\ UNCHANGED <<serviceVars, sessionVars, threadVars, history>>
             /\ \/ UNCHANGED <<systemVars, cmds>>
                \/ issued + 1 \in Ids /\ \E op \in {"run", "stop"} : Deliver(op)
  <2>1. issued < MaxRuns + MaxAlarms + MaxStops
    BY <1>0, <1>5, ConstantsAssumption DEF PressStart, ConstantsAssumption
  <2> QED
    BY <1>5, <1>i, <2>1 DEF PressStart, StartTask
<1>6. CASE HandleEvent
  <2>1. queue > 0 => issued < MaxRuns + MaxAlarms + MaxStops
    BY <1>0, ConstantsAssumption DEF ConstantsAssumption
  <2>2. CASE queue > 0 /\ StartTask(queue - 1)
    BY <1>6, <1>i, <2>1, <2>2 DEF HandleEvent, StartTask
  <2>3. CASE ~(queue > 0 /\ StartTask(queue - 1))
    BY <1>6, <2>3 DEF HandleEvent
  <2> QED
    BY <2>2, <2>3
<1> QED
  BY <1>1, <1>2, <1>3, <1>4, <1>5, <1>6 DEF UserStep

\* A task thread leaves all but the inbox and its controller alone.
LEMMA ThreadKeeps ==
  ASSUME NEW s \in Ids, ThreadStep(s) \/ TaskEnds(s)
  PROVE  UNCHANGED <<running, status, queue, userVars, systemVars, cmds, serviceVars, sessionVars, history>>
BY DEF ThreadStep, TaskPick, TaskAnnounce, TaskEnter, TaskEnds, TaskClear, TaskGate, TaskReport, uiVars

\* And the controllers of the others.
LEMMA OtherThreadsKeep ==
  ASSUME ThreadTypes, NEW s \in Ids, ThreadStep(s) \/ TaskEnds(s), NEW t \in Ids, t # s
  PROVE  /\ busy'[t] = busy[t] /\ queued'[t] = queued[t] /\ tpc'[t] = tpc[t]
         /\ cut'[t] = cut[t] /\ outcome'[t] = outcome[t]
<1> USE DEF ThreadTypes
<1>1. CASE TaskPick(s)
  BY <1>1 DEF TaskPick
<1>2. CASE TaskAnnounce(s)
  BY <1>2 DEF TaskAnnounce
<1>3. CASE TaskEnter(s)
  BY <1>3 DEF TaskEnter
<1>4. CASE TaskEnds(s)
  BY <1>4 DEF TaskEnds
<1>5. CASE TaskClear(s)
  BY <1>5 DEF TaskClear
<1>6. CASE TaskGate(s)
  BY <1>6 DEF TaskGate, TaskLeaves
<1>7. CASE TaskReport(s)
  BY <1>7 DEF TaskReport, TaskLeaves
<1> QED
  BY <1>1, <1>2, <1>3, <1>4, <1>5, <1>6, <1>7 DEF ThreadStep

\* A command thread leaves the user, the flags of the screen and the numbering alone.
LEMMA ServiceKeeps ==
  ASSUME NEW i \in Ids, ServiceStep(i)
  PROVE  /\ UNCHANGED <<running, status, queue, userVars, issued, tpc, outcome>>
         /\ svc' = svc \/ (svc = i /\ svc' = None)
<1> USE DEF uiVars, systemVars, threadVars
<1>1. CASE TakeRun(i) \/ Create(i) \/ Start(i) \/ Run(i)
  BY <1>1 DEF TakeRun, Create, Start, Run
<1>2. CASE CommandFails(i) \/ TakeStop(i) \/ TakeDestroy(i) \/ PublishStopped(i)
  BY <1>2 DEF CommandFails, TakeStop, TakeDestroy, PublishStopped
<1>3. CASE ReleaseBegin(i) \/ ReleaseDone(i) \/ SelfStop(i)
  BY <1>3 DEF ReleaseBegin, ReleaseDone, SelfStop, Destroy
<1> QED
  BY <1>1, <1>2, <1>3 DEF ServiceStep

\* What it does to the queues.
LEMMA ServiceQueues ==
  ASSUME IInv, NEW i \in Ids, ServiceStep(i)
  PROVE  \/ wpc[i] \notin {"run", "selfStop", "publish"} /\ UNCHANGED <<svc, cmds>>
         \/ wpc[i] \in {"run", "selfStop", "publish"} /\ cmds[i] # <<>> /\ wpc'[i] = "idle"
            /\ cmds' = Popping(cmds, i) /\ UNCHANGED svc
         \/ wpc[i] = "selfStop" /\ cmds[i] # <<>> /\ wpc'[i] = "idle"
            /\ svc = i /\ Destroy(Popping(cmds, i))
<1> USE DEF IInv, HeadsFit, HeadFits, ServiceTypes
<1>1. CASE TakeRun(i) \/ Create(i) \/ Start(i) \/ CommandFails(i)
  BY <1>1 DEF TakeRun, Create, Start, CommandFails, systemVars
<1>2. CASE TakeStop(i) \/ TakeDestroy(i) \/ ReleaseBegin(i) \/ ReleaseDone(i)
  BY <1>2 DEF TakeStop, TakeDestroy, ReleaseBegin, ReleaseDone, systemVars
<1>3. CASE Run(i) \/ PublishStopped(i) \/ SelfStop(i)
  BY <1>3 DEF Run, PublishStopped, SelfStop, Goto, Pop, Popping, systemVars
<1> QED
  BY <1>1, <1>2, <1>3 DEF ServiceStep

\* The other instances keep what they are at.
LEMMA OtherServicesKeep ==
  ASSUME IInv, NEW i \in Ids, ServiceStep(i), NEW j \in Ids, j # i
  PROVE  /\ cmds'[j] = cmds[j] /\ wpc'[j] = wpc[j] /\ then'[j] = then[j]
         /\ sel'[j] = sel[j] /\ label'[j] = label[j] /\ agent'[j] = agent[j]
<1> USE DEF IInv, SystemTypes, ServiceTypes, Goto, Release, serviceVars
<1>1. CASE TakeRun(i) \/ TakeStop(i) \/ TakeDestroy(i) \/ CommandFails(i)
  BY <1>1 DEF TakeRun, TakeStop, TakeDestroy, CommandFails
<1>2. CASE Create(i) \/ Start(i)
  BY <1>2 DEF Create, Start
<1>3. CASE Run(i) \/ PublishStopped(i)
  BY <1>3 DEF Run, PublishStopped, Pop
<1>4. CASE ReleaseBegin(i) \/ ReleaseDone(i)
  BY <1>4 DEF ReleaseBegin, ReleaseDone
<1>5. CASE SelfStop(i)
  BY <1>5 DEF SelfStop, Pop, Destroy
<1> QED
  BY <1>1, <1>2, <1>3, <1>4, <1>5 DEF ServiceStep

\* And sessions that are not the instance's keep what they are.
LEMMA OtherSessionsKeep ==
  ASSUME IInv, NEW i \in Ids, ServiceStep(i), NEW s \in Ids, s # agent[i],
         wpc[i] = "create" => s # Head(cmds[i]).id
  PROVE  /\ phase'[s] = phase[s] /\ owner'[s] = owner[s] /\ busy'[s] = busy[s]
         /\ queued'[s] = queued[s] /\ cut'[s] = cut[s]
<1> USE DEF IInv, SessionTypes, ThreadTypes, ServiceTypes, sessionVars, threadVars
<1>1. CASE TakeRun(i) \/ TakeStop(i) \/ TakeDestroy(i) \/ CommandFails(i) \/ PublishStopped(i) \/ SelfStop(i)
  BY <1>1 DEF TakeRun, TakeStop, TakeDestroy, CommandFails, PublishStopped, SelfStop
<1>2. CASE Create(i) \/ Start(i)
  BY <1>2 DEF Create, Start
<1>3. CASE Run(i)
  BY <1>3 DEF Run
<1>4. CASE ReleaseBegin(i) \/ ReleaseDone(i)
  BY <1>4 DEF ReleaseBegin, ReleaseDone
<1> QED
  BY <1>1, <1>2, <1>3, <1>4 DEF ServiceStep

\* Two instances have different agents.
LEMMA AgentsDiffer ==
  ASSUME IInv, NEW i \in Ids, NEW j \in Ids, j # i, agent[j] # None
  PROVE  agent[j] \in Ids /\ agent[j] # agent[i]
BY DEF IInv, AgentsOwned, ServiceTypes, SessionTypes

\* The command a service is about to make a session for has none yet.
LEMMA CreatesFresh ==
  ASSUME IInv, NEW i \in Ids, wpc[i] = "create"
  PROVE  /\ Head(cmds[i]).id \in Ids /\ Head(cmds[i]).id # None /\ Head(cmds[i]).id <= issued
         /\ phase[Head(cmds[i]).id] = "none" /\ agent[i] = None
         /\ \A j \in Ids : agent[j] # Head(cmds[i]).id
<1> USE DEF IInv
<1>1. cmds[i] # <<>> /\ Op(i) = "run"
  BY DEF HeadsFit, HeadFits
<1>2. Head(cmds[i]) = cmds[i][1] /\ 1 \in 1 .. Len(cmds[i])
  BY <1>1, HeadOfQueue
<1>3. cmds[i][1].op = "run"
  BY <1>1, <1>2 DEF Op
<1>4. cmds[i][1].id \in Ids /\ cmds[i][1].id <= issued
  BY <1>2, <1>3 DEF QueueShape, Shaped
<1>5. phase[cmds[i][1].id] = "none"
  BY <1>2, <1>3 DEF CommandsFresh, Begun
<1>6. agent[i] = None
  BY DEF AgentsFit, AgentFits
<1>7. \A j \in Ids : agent[j] # cmds[i][1].id
  BY <1>4, <1>5, IdsNumbers DEF AgentsOwned
<1> QED
  BY <1>2, <1>4, <1>5, <1>6, <1>7, IdsNumbers

-----------------------------------------------------------------------------
(* Every step keeps the types.                                              *)

\* The events a task thread and a command thread publish are events.
LEMMA Published ==
  ASSUME inbox \in Seq(Events), NEW event \in Events, Publish(event)
  PROVE  inbox' \in Seq(Events)
BY DEF Publish

\* Every step keeps the types of the screen's variables.
LEMMA ScreenTypesKept ==
  ASSUME IInv, Next
  PROVE  ScreenTypes'
<1> USE DEF ScreenTypes, IInv
<1>0. MaxRuns \in Nat /\ queue \in 0 .. MaxRuns /\ inbox \in Seq(Events)
  BY ConstantsAssumption DEF ConstantsAssumption
<1>1. CASE PressStop \/ PressNotificationStop \/ AlarmRings \/ Select
  <2>1. running' \in BOOLEAN
    BY <1>1, Zenon DEF PressStop, PressNotificationStop, AlarmRings, Select, uiVars
  <2>2. status' \in Statuses /\ queue' \in 0 .. MaxRuns /\ inbox' \in Seq(Events)
    BY <1>0, <1>1 DEF PressStop, PressNotificationStop, AlarmRings, Select, uiVars, Statuses
  <2> QED
    BY <2>1, <2>2
<1>2. ASSUME NEW n \in 0 .. MaxRuns, PressStart(n) PROVE ScreenTypes'
  <2>1. running' \in BOOLEAN
    BY <1>2, Zenon DEF PressStart, StartTask
  <2>2. status' \in Statuses /\ queue' \in 0 .. MaxRuns /\ inbox' \in Seq(Events)
    BY <1>0, <1>2 DEF PressStart, StartTask, Statuses
  <2> QED
    BY <2>1, <2>2
<1>3. CASE HandleEvent
  <2>1. inbox' \in Seq(Events)
    BY <1>3 DEF HandleEvent
  <2>2. running' \in BOOLEAN
    BY <1>3, Zenon DEF HandleEvent, StartTask
  <2>3. status' \in Statuses /\ queue' \in 0 .. MaxRuns
    BY <1>0, <1>3 DEF HandleEvent, StartTask, Statuses
  <2> QED
    BY <2>1, <2>2, <2>3
<1>4. ASSUME NEW i \in Ids, ServiceStep(i) PROVE ScreenTypes'
  <2>1. inbox' = inbox \/ Publish("Failed") \/ Publish("Stopped")
    BY <1>4 DEF ServiceStep, TakeRun, Create, Start, Run, CommandFails, TakeStop, TakeDestroy,
                ReleaseBegin, ReleaseDone, SelfStop, PublishStopped, uiVars
  <2>2. inbox' \in Seq(Events)
    BY <2>1, Published DEF Events
  <2> QED
    BY <1>4, <2>2, ServiceKeeps
<1>5. ASSUME NEW s \in Ids, ThreadStep(s) \/ TaskEnds(s) PROVE ScreenTypes'
  <2>1. inbox' = inbox \/ Publish("Started") \/ (tpc[s] = "report" /\ Publish(outcome[s]))
    BY <1>5 DEF ThreadStep, TaskPick, TaskAnnounce, TaskEnter, TaskEnds, TaskClear, TaskGate, TaskReport, uiVars
  <2>2. tpc[s] = "report" => outcome[s] \in {"Finished", "Failed"}
    BY DEF SessionsFit, SessionFits, ThreadTypes
  <2>3. inbox' \in Seq(Events)
    BY <2>1, <2>2, Published DEF Events
  <2> QED
    BY <1>5, <2>3, ThreadKeeps
<1> QED
  BY <1>1, <1>2, <1>3, <1>4, <1>5 DEF Next, UserStep

\* Every step keeps the bounds of what was asked for, and ids for all of it.
LEMMA UserTypesKept ==
  ASSUME IInv, Next
  PROVE  UserTypes' /\ IdsSuffice'
<1> USE ConstantsAssumption DEF ConstantsAssumption, IInv, UserTypes, IdsSuffice, userVars
<1>0. issued \in Nat /\ svc \in Nat /\ queue \in 0 .. MaxRuns
  BY IdsNumbers DEF SystemTypes, ScreenTypes, None
<1>1. CASE PressStop \/ PressNotificationStop
  BY <1>0, <1>1 DEF PressStop, PressNotificationStop, Deliver, Destroy, uiVars, systemVars, None
<1>2. CASE AlarmRings \/ Select
  BY <1>0, <1>2 DEF AlarmRings, Select, Deliver, uiVars, systemVars, None
<1>3. ASSUME NEW n \in 0 .. MaxRuns, PressStart(n) PROVE UserTypes' /\ IdsSuffice'
  BY <1>0, <1>3 DEF PressStart, StartTask, Deliver, systemVars, None
<1>4. CASE HandleEvent
  BY <1>0, <1>4 DEF HandleEvent, StartTask, Deliver, systemVars, None
<1>5. ASSUME NEW i \in Ids, ServiceStep(i) PROVE UserTypes' /\ IdsSuffice'
  BY <1>0, <1>5, ServiceKeeps DEF None
<1>6. ASSUME NEW s \in Ids, ThreadStep(s) \/ TaskEnds(s) PROVE UserTypes' /\ IdsSuffice'
  BY <1>6, ThreadKeeps DEF systemVars
<1> QED
  BY <1>1, <1>2, <1>3, <1>4, <1>5, <1>6 DEF Next, UserStep

\* Every step keeps the types of what Android knows and of the queues.
LEMMA SystemTypesKept ==
  ASSUME IInv, Next
  PROVE  SystemTypes'
<1> USE DEF IInv, SystemTypes, systemVars
<1>1. CASE UserStep \/ HandleEvent
  <2>1. CASE UNCHANGED <<systemVars, cmds>>
    BY <2>1
  <2>2. CASE issued + 1 \in Ids /\ \E op \in {"run", "stop"} : Deliver(op)
    BY <2>2, Delivered
  <2>3. CASE svc \in Ids /\ Destroy(cmds) /\ UNCHANGED issued
    BY <2>3, Destroyed
  <2> QED
    BY <1>1, <2>1, <2>2, <2>3, MainKeeps
<1>2. ASSUME NEW i \in Ids, ServiceStep(i) PROVE SystemTypes'
  <2>1. UNCHANGED issued
    BY <1>2, ServiceKeeps
  <2>2. CASE cmds[i] # <<>> /\ cmds' = Popping(cmds, i) /\ UNCHANGED svc
    BY <2>1, <2>2, Popped
  <2>3. CASE cmds[i] # <<>> /\ svc = i /\ Destroy(Popping(cmds, i))
    <3>1. Popping(cmds, i) \in [Ids -> Seq(Commands)]
      BY <2>3, Popped
    <3> QED
      BY <2>1, <2>3, <3>1, Destroyed
  <2> QED
    BY <1>2, <2>1, <2>2, <2>3, ServiceQueues
<1>3. ASSUME NEW s \in Ids, ThreadStep(s) \/ TaskEnds(s) PROVE SystemTypes'
  BY <1>3, ThreadKeeps
<1> QED
  BY <1>1, <1>2, <1>3 DEF Next

\* Every step keeps the types of services and sessions.
LEMMA ServiceTypesKept ==
  ASSUME IInv, Next
  PROVE  ServiceTypes' /\ SessionTypes'
<1> USE DEF IInv, ServiceTypes, SessionTypes, serviceVars, sessionVars, threadVars
<1>1. CASE UserStep \/ HandleEvent
  BY <1>1, MainKeeps
<1>2. ASSUME NEW i \in Ids, ServiceStep(i) PROVE ServiceTypes' /\ SessionTypes'
  <2> USE DEF Goto, Release
  <2>1. CASE TakeRun(i)
    BY <2>1 DEF TakeRun, UserTypes
  <2>2. CASE Create(i)
    BY <2>2, CreatesFresh DEF Create
  <2>3. CASE Start(i)
    BY <2>3 DEF Start
  <2>4. CASE Run(i) \/ CommandFails(i) \/ TakeStop(i)
    BY <2>4 DEF Run, CommandFails, TakeStop
  <2>5. CASE TakeDestroy(i) \/ SelfStop(i) \/ PublishStopped(i)
    BY <2>5 DEF TakeDestroy, SelfStop, PublishStopped
  <2>6. CASE ReleaseBegin(i)
    <3>1. then[i] \in {"create", "selfStop", "publish"}
      BY <2>6 DEF ReleaseBegin, HeadsFit, HeadFits
    <3> QED
      BY <2>6, <3>1 DEF ReleaseBegin
  <2>7. CASE ReleaseDone(i)
    <3>1. then[i] \in {"create", "selfStop", "publish"}
      BY <2>7 DEF ReleaseDone, HeadsFit, HeadFits
    <3> QED
      BY <2>7, <3>1 DEF ReleaseDone
  <2> QED
    BY <1>2, <2>1, <2>2, <2>3, <2>4, <2>5, <2>6, <2>7 DEF ServiceStep
<1>3. ASSUME NEW s \in Ids, ThreadStep(s) \/ TaskEnds(s) PROVE ServiceTypes' /\ SessionTypes'
  BY <1>3, ThreadKeeps
<1> QED
  BY <1>1, <1>2, <1>3 DEF Next

\* Every step keeps the types of the task controllers.
LEMMA ThreadTypesKept ==
  ASSUME IInv, Next
  PROVE  ThreadTypes'
<1> USE DEF IInv, ThreadTypes, threadVars
<1>1. CASE UserStep \/ HandleEvent
  BY <1>1, MainKeeps
<1>2. ASSUME NEW i \in Ids, ServiceStep(i) PROVE ThreadTypes'
  <2>1. CASE TakeRun(i) \/ Create(i) \/ Start(i) \/ CommandFails(i) \/ TakeStop(i)
    BY <2>1 DEF TakeRun, Create, Start, CommandFails, TakeStop
  <2>2. CASE TakeDestroy(i) \/ SelfStop(i) \/ PublishStopped(i)
    BY <2>2 DEF TakeDestroy, SelfStop, PublishStopped
  <2>3. CASE Run(i)
    BY <2>3 DEF Run
  <2>4. CASE ReleaseBegin(i)
    BY <2>4 DEF ReleaseBegin
  <2>5. CASE ReleaseDone(i)
    BY <2>5 DEF ReleaseDone
  <2> QED
    BY <1>2, <2>1, <2>2, <2>3, <2>4, <2>5 DEF ServiceStep
<1>3. ASSUME NEW s \in Ids, ThreadStep(s) \/ TaskEnds(s) PROVE ThreadTypes'
  <2>1. CASE TaskPick(s)
    BY <2>1 DEF TaskPick
  <2>2. CASE TaskAnnounce(s)
    BY <2>2 DEF TaskAnnounce
  <2>3. CASE TaskEnter(s)
    BY <2>3 DEF TaskEnter
  <2>4. CASE TaskEnds(s)
    BY <2>4 DEF TaskEnds
  <2>5. CASE TaskClear(s)
    BY <2>5 DEF TaskClear
  <2>6. CASE TaskGate(s)
    BY <2>6 DEF TaskGate, TaskLeaves
  <2>7. CASE TaskReport(s)
    BY <2>7 DEF TaskReport, TaskLeaves
  <2> QED
    BY <1>3, <2>1, <2>2, <2>3, <2>4, <2>5, <2>6, <2>7 DEF ThreadStep
<1> QED
  BY <1>1, <1>2, <1>3 DEF Next

\* Every step keeps the types of the history.
LEMMA HistoryTypesKept ==
  ASSUME IInv, Next
  PROVE  HistoryTypes'
<1> USE DEF IInv, HistoryTypes, history
<1>1. CASE UserStep \/ HandleEvent
  BY <1>1, MainKeeps
<1>2. ASSUME NEW i \in Ids, ServiceStep(i) PROVE HistoryTypes'
  <2>1. CASE Run(i) \/ PublishStopped(i)
    BY <2>1 DEF Run, PublishStopped
  <2>2. CASE TakeRun(i) \/ Create(i) \/ Start(i) \/ CommandFails(i) \/ TakeStop(i)
    BY <2>2 DEF TakeRun, Create, Start, CommandFails, TakeStop
  <2>3. CASE TakeDestroy(i) \/ ReleaseBegin(i) \/ ReleaseDone(i) \/ SelfStop(i)
    BY <2>3 DEF TakeDestroy, ReleaseBegin, ReleaseDone, SelfStop
  <2> QED
    BY <1>2, <2>1, <2>2, <2>3 DEF ServiceStep
<1>3. ASSUME NEW s \in Ids, ThreadStep(s) \/ TaskEnds(s) PROVE HistoryTypes'
  BY <1>3, ThreadKeeps
<1> QED
  BY <1>1, <1>2, <1>3 DEF Next

-----------------------------------------------------------------------------
(* Every step keeps the queues of commands apart.                           *)

\* A command thread that takes a step has a command.
LEMMA ServiceHasCommand ==
  ASSUME IInv, NEW i \in Ids, ServiceStep(i)
  PROVE  cmds[i] # <<>> /\ i <= issued
<1>1. cmds[i] # <<>>
  BY DEF IInv, HeadsFit, HeadFits, ServiceTypes, ServiceStep, TakeRun, Create, Start, Run, CommandFails,
         TakeStop, TakeDestroy, ReleaseBegin, ReleaseDone, SelfStop, PublishStopped
<1>2. i \in Nat /\ issued \in Nat
  BY IdsNumbers DEF IInv, SystemTypes
<1> QED
  BY <1>1, <1>2 DEF IInv, NotYetIssued

\* Every step leaves what is to come unborn.
LEMMA NotYetIssuedKept ==
  ASSUME IInv, Next
  PROVE  NotYetIssued'
<1> SUFFICES ASSUME NEW j \in Ids, j > issued'
             PROVE  /\ cmds'[j] = <<>> /\ wpc'[j] = "idle" /\ agent'[j] = None
                    /\ phase'[j] = "none" /\ j \notin stopped'
  BY DEF NotYetIssued
<1>0. j \in Nat /\ issued \in Nat /\ svc \in Nat /\ svc <= issued
  BY IdsNumbers DEF IInv, SystemTypes, None, IdsSuffice
<1>1. CASE UserStep \/ HandleEvent
  <2>1. UNCHANGED <<wpc, agent, phase, stopped>>
    BY <1>1, MainKeeps DEF serviceVars, sessionVars, history
  <2>2. CASE UNCHANGED <<systemVars, cmds>>
    BY <2>1, <2>2 DEF IInv, NotYetIssued, systemVars
  <2>3. CASE issued + 1 \in Ids /\ \E op \in {"run", "stop"} : Deliver(op)
    <3>1. issued' = issued + 1 /\ svc' \in {svc, issued + 1} /\ (svc' # j => cmds'[j] = cmds[j])
      BY <2>3, Delivered DEF IInv
    <3> QED
      BY <1>0, <2>1, <3>1 DEF IInv, NotYetIssued
  <2>4. CASE svc \in Ids /\ Destroy(cmds) /\ UNCHANGED issued
    <3>1. cmds'[j] = cmds[j]
      BY <1>0, <2>4, Destroyed DEF IInv, SystemTypes
    <3> QED
      BY <2>1, <2>4, <3>1 DEF IInv, NotYetIssued
  <2> QED
    BY <1>1, <2>2, <2>3, <2>4, MainKeeps
<1>2. ASSUME NEW i \in Ids, ServiceStep(i)
      PROVE  /\ cmds'[j] = <<>> /\ wpc'[j] = "idle" /\ agent'[j] = None
             /\ phase'[j] = "none" /\ j \notin stopped'
  <2>1. issued' = issued /\ j > issued
    BY <1>2, ServiceKeeps
  <2>2. j # i
    BY <1>0, <1>2, <2>1, IdsNumbers, ServiceHasCommand
  <2>3. /\ cmds[j] = <<>> /\ wpc[j] = "idle" /\ agent[j] = None
        /\ phase[j] = "none" /\ j \notin stopped
    BY <2>1 DEF IInv, NotYetIssued
  <2>4. j # agent[i] /\ (wpc[i] = "create" => j # Head(cmds[i]).id)
    BY <1>0, <2>1, <2>3, IdsNumbers, CreatesFresh DEF IInv, AgentsOwned
  <2>5. stopped' \subseteq stopped \cup {i}
    BY <1>2 DEF ServiceStep, TakeRun, Create, Start, Run, CommandFails, TakeStop, TakeDestroy,
                ReleaseBegin, ReleaseDone, SelfStop, PublishStopped, history
  <2> QED
    BY <1>2, <2>2, <2>3, <2>4, <2>5, OtherServicesKeep, OtherSessionsKeep
<1>3. ASSUME NEW s \in Ids, ThreadStep(s) \/ TaskEnds(s)
      PROVE  /\ cmds'[j] = <<>> /\ wpc'[j] = "idle" /\ agent'[j] = None
             /\ phase'[j] = "none" /\ j \notin stopped'
  BY <1>3, ThreadKeeps DEF IInv, NotYetIssued, systemVars, serviceVars, sessionVars, history
<1> QED
  BY <1>1, <1>2, <1>3 DEF Next

\* A delivery puts a new command behind the others.
LEMMA DeliverKeepsQueues ==
  ASSUME IInv, issued + 1 \in Ids, NEW op \in {"run", "stop"}, Deliver(op)
  PROVE  QueueShape' /\ CommandsDiffer'
<1> DEFINE n == Len(cmds[svc']) + 1
<1>0. /\ issued' = issued + 1 /\ svc' \in Ids /\ issued \in Nat /\ n \in Nat \ {0}
      /\ svc \in Ids \cup {None} /\ None \notin Ids
      /\ Len(cmds'[svc']) = n /\ cmds'[svc'][n] = [op |-> op, id |-> issued + 1]
      /\ \A k \in 1 .. n - 1 : cmds'[svc'][k] = cmds[svc'][k]
      /\ \A j \in Ids : j # svc' => cmds'[j] = cmds[j]
      /\ \A j \in Ids : Len(cmds[j]) \in Nat
  BY Delivered, IdsNumbers DEF IInv, SystemTypes
<1>1. svc' = svc \/ (svc = None /\ cmds[svc'] = <<>> /\ n = 1)
  <2>1. svc = None => cmds[svc'] = <<>>
    BY Delivered DEF IInv
  <2>2. cmds[svc'] = <<>> => n = 1
    OBVIOUS
  <2>3. svc # None => svc' = svc
    BY Delivered DEF IInv
  <2> QED
    BY <2>1, <2>2, <2>3
<1> HIDE DEF n
\* Which command stands at a place now.
<1>2. \A j \in Ids : \A k \in 1 .. Len(cmds'[j]) :
        \/ k \in 1 .. Len(cmds[j]) /\ cmds'[j][k] = cmds[j][k] /\ (j = svc' => k < n)
        \/ j = svc' /\ k = n /\ cmds'[j][k] = [op |-> op, id |-> issued + 1]
  <2> TAKE j \in Ids
  <2> TAKE k \in 1 .. Len(cmds'[j])
  <2>1. CASE j # svc'
    <3>1. cmds'[j] = cmds[j]
      BY <1>0, <2>1
    <3> QED
      BY <2>1, <3>1
  <2>2. CASE j = svc'
    <3>1. k = n \/ (k \in 1 .. Len(cmds[j]) /\ k < n)
      BY <1>0, <2>2 DEF n
    <3> QED
      BY <1>0, <2>2, <3>1 DEF n
  <2> QED
    BY <2>1, <2>2
<1>3. QueueShape'
  <2> SUFFICES ASSUME NEW j \in Ids, NEW k \in 1 .. Len(cmds'[j])
               PROVE  /\ cmds'[j][k].op # "destroy" => cmds'[j][k].id \in Ids /\ cmds'[j][k].id <= issued'
                      /\ cmds'[j][k].op = "destroy" => k = Len(cmds'[j]) /\ svc' # j
    BY DEF QueueShape, Shaped
  <2>1. CASE k \in 1 .. Len(cmds[j]) /\ cmds'[j][k] = cmds[j][k] /\ (j = svc' => k < n)
    <3>1. /\ cmds[j][k].op # "destroy" => cmds[j][k].id \in Ids /\ cmds[j][k].id <= issued
          /\ cmds[j][k].op = "destroy" => k = Len(cmds[j]) /\ svc # j
      BY <2>1 DEF IInv, QueueShape, Shaped
    <3>2. CASE cmds[j][k].op # "destroy"
      <4>1. cmds[j][k].id \in Nat
        BY <3>1, <3>2, IdsNumbers
      <4> QED
        BY <1>0, <2>1, <3>1, <3>2, <4>1
    <3>3. CASE cmds[j][k].op = "destroy"
      <4>1. svc # j /\ k = Len(cmds[j])
        BY <3>1, <3>3
      <4>2. j # svc'
        BY <1>0, <1>1, <2>1, <4>1 DEF n
      <4> QED
        BY <1>0, <2>1, <3>3, <4>1, <4>2
    <3> QED
      BY <3>2, <3>3
  <2>2. CASE j = svc' /\ k = n /\ cmds'[j][k] = [op |-> op, id |-> issued + 1]
    BY <1>0, <2>2
  <2> QED
    BY <1>2, <2>1, <2>2
<1>4. CommandsDiffer'
  <2> SUFFICES ASSUME NEW i \in Ids, NEW j \in Ids, NEW k \in 1 .. Len(cmds'[i]), NEW l \in 1 .. Len(cmds'[j]),
                      cmds'[i][k].op # "destroy", cmds'[j][l].op # "destroy", cmds'[i][k].id = cmds'[j][l].id
               PROVE  i = j /\ k = l
    BY DEF CommandsDiffer, Different
  <2>1. \A x \in Ids : \A y \in 1 .. Len(cmds[x]) : cmds[x][y].op # "destroy" => cmds[x][y].id # issued + 1
    <3> SUFFICES ASSUME NEW x \in Ids, NEW y \in 1 .. Len(cmds[x]), cmds[x][y].op # "destroy"
                 PROVE  cmds[x][y].id # issued + 1
      OBVIOUS
    <3>1. cmds[x][y].id \in Ids /\ cmds[x][y].id <= issued
      BY DEF IInv, QueueShape, Shaped
    <3>2. cmds[x][y].id \in Nat
      BY <3>1, IdsNumbers
    <3> QED
      BY <1>0, <3>1, <3>2
  <2>2. CASE /\ k \in 1 .. Len(cmds[i]) /\ cmds'[i][k] = cmds[i][k]
             /\ l \in 1 .. Len(cmds[j]) /\ cmds'[j][l] = cmds[j][l]
    BY <2>2 DEF IInv, CommandsDiffer, Different
  <2>3. CASE i = svc' /\ k = n /\ j = svc' /\ l = n
    BY <2>3
  <2>4. CASE /\ k \in 1 .. Len(cmds[i]) /\ cmds'[i][k] = cmds[i][k]
             /\ cmds'[j][l] = [op |-> op, id |-> issued + 1]
    BY <2>1, <2>4
  <2>5. CASE /\ cmds'[i][k] = [op |-> op, id |-> issued + 1]
             /\ l \in 1 .. Len(cmds[j]) /\ cmds'[j][l] = cmds[j][l]
    BY <2>1, <2>5
  <2> QED
    BY <1>2, <2>2, <2>3, <2>4, <2>5
<1> QED
  BY <1>3, <1>4

\* Taking the head off a queue moves the others up.
LEMMA PopKeepsQueues ==
  ASSUME NEW queues \in [Ids -> Seq(Commands)], NEW i \in Ids, queues[i] # <<>>,
         NEW popped, popped = Popping(queues, i),
         Shaped(queues, issued, svc), Different(queues)
  PROVE  Shaped(popped, issued, svc) /\ Different(popped)
<1> DEFINE o(j, k) == IF j = i THEN k + 1 ELSE k
<1>1. /\ Len(popped[i]) = Len(queues[i]) - 1 /\ Len(queues[i]) \in Nat
      /\ \A j \in Ids : \A k \in 1 .. Len(popped[j]) : o(j, k) \in 1 .. Len(queues[j]) /\ popped[j][k] = queues[j][o(j, k)]
      /\ \A j \in Ids : j # i => popped[j] = queues[j]
  BY Popped
<1>2. Shaped(popped, issued, svc)
  <2> SUFFICES ASSUME NEW j \in Ids, NEW k \in 1 .. Len(popped[j])
               PROVE  /\ popped[j][k].op # "destroy" => popped[j][k].id \in Ids /\ popped[j][k].id <= issued
                      /\ popped[j][k].op = "destroy" => k = Len(popped[j]) /\ svc # j
    BY DEF Shaped
  <2>1. o(j, k) \in 1 .. Len(queues[j]) /\ popped[j][k] = queues[j][o(j, k)]
    BY <1>1
  <2>2. /\ queues[j][o(j, k)].op # "destroy" => queues[j][o(j, k)].id \in Ids /\ queues[j][o(j, k)].id <= issued
        /\ queues[j][o(j, k)].op = "destroy" => o(j, k) = Len(queues[j]) /\ svc # j
    BY <2>1 DEF Shaped
  <2>3. o(j, k) = Len(queues[j]) => k = Len(popped[j])
    BY <1>1
  <2> QED
    BY <2>1, <2>2, <2>3
<1>3. Different(popped)
  <2> SUFFICES ASSUME NEW x \in Ids, NEW y \in Ids, NEW k \in 1 .. Len(popped[x]), NEW l \in 1 .. Len(popped[y]),
                      popped[x][k].op # "destroy", popped[y][l].op # "destroy", popped[x][k].id = popped[y][l].id
               PROVE  x = y /\ k = l
    BY DEF Different
  <2>1. /\ o(x, k) \in 1 .. Len(queues[x]) /\ popped[x][k] = queues[x][o(x, k)]
        /\ o(y, l) \in 1 .. Len(queues[y]) /\ popped[y][l] = queues[y][o(y, l)]
    BY <1>1
  <2>2. x = y /\ o(x, k) = o(y, l)
    <3> HIDE DEF o
    <3> QED
      BY <2>1 DEF Different
  <2> QED
    BY <2>2
<1> QED
  BY <1>2, <1>3

\* A destruction puts the last command behind the others.
LEMMA DestroyKeepsQueues ==
  ASSUME NEW queues \in [Ids -> Seq(Commands)], svc \in Ids, issued \in Nat,
         Shaped(queues, issued, svc), Different(queues), Destroy(queues), UNCHANGED issued
  PROVE  QueueShape' /\ CommandsDiffer'
<1> DEFINE n == Len(queues[svc]) + 1
<1>1. /\ svc' = None /\ n \in Nat /\ Len(cmds'[svc]) = n /\ cmds'[svc][n].op = "destroy"
      /\ \A j \in Ids : Len(queues[j]) \in Nat
      /\ \A j \in Ids : j # svc => cmds'[j] = queues[j]
      /\ \A k \in 1 .. n - 1 : cmds'[svc][k] = queues[svc][k]
  BY Destroyed
<1> HIDE DEF n
<1>2. \A j \in Ids : \A k \in 1 .. Len(cmds'[j]) :
        \/ k \in 1 .. Len(queues[j]) /\ cmds'[j][k] = queues[j][k]
        \/ j = svc /\ k = n /\ cmds'[j][k].op = "destroy"
  BY <1>1 DEF n
<1>3. \A k \in 1 .. Len(queues[svc]) : queues[svc][k].op # "destroy"
  BY DEF Shaped
<1>4. QueueShape'
  <2> SUFFICES ASSUME NEW j \in Ids, NEW k \in 1 .. Len(cmds'[j])
               PROVE  /\ cmds'[j][k].op # "destroy" => cmds'[j][k].id \in Ids /\ cmds'[j][k].id <= issued'
                      /\ cmds'[j][k].op = "destroy" => k = Len(cmds'[j]) /\ svc' # j
    BY DEF QueueShape, Shaped
  <2>1. CASE k \in 1 .. Len(queues[j]) /\ cmds'[j][k] = queues[j][k]
    <3>1. /\ queues[j][k].op # "destroy" => queues[j][k].id \in Ids /\ queues[j][k].id <= issued
          /\ queues[j][k].op = "destroy" => k = Len(queues[j]) /\ svc # j
      BY <2>1 DEF Shaped
    <3>2. queues[j][k].op = "destroy" => cmds'[j] = queues[j]
      BY <1>1, <3>1
    <3> QED
      BY <1>1, <2>1, <3>1, <3>2, IdsNumbers
  <2>2. CASE j = svc /\ k = n /\ cmds'[j][k].op = "destroy"
    BY <1>1, <2>2, IdsNumbers
  <2> QED
    BY <1>2, <2>1, <2>2
<1>5. CommandsDiffer'
  <2> SUFFICES ASSUME NEW i \in Ids, NEW j \in Ids, NEW k \in 1 .. Len(cmds'[i]), NEW l \in 1 .. Len(cmds'[j]),
                      cmds'[i][k].op # "destroy", cmds'[j][l].op # "destroy", cmds'[i][k].id = cmds'[j][l].id
               PROVE  i = j /\ k = l
    BY DEF CommandsDiffer, Different
  <2>1. /\ k \in 1 .. Len(queues[i]) /\ cmds'[i][k] = queues[i][k]
        /\ l \in 1 .. Len(queues[j]) /\ cmds'[j][l] = queues[j][l]
    BY <1>2
  <2> QED
    BY <2>1 DEF Different
<1> QED
  BY <1>4, <1>5

\* Every step keeps the queues in shape and their commands different.
LEMMA QueuesKept ==
  ASSUME IInv, Next
  PROVE  QueueShape' /\ CommandsDiffer'
<1>0. cmds \in [Ids -> Seq(Commands)] /\ issued \in Nat /\ Shaped(cmds, issued, svc) /\ Different(cmds)
  BY IdsNumbers DEF IInv, SystemTypes, QueueShape, CommandsDiffer
<1>1. CASE UNCHANGED <<systemVars, cmds>>
  BY <1>0, <1>1 DEF systemVars, QueueShape, CommandsDiffer
<1>2. CASE UserStep \/ HandleEvent
  <2>1. CASE issued + 1 \in Ids /\ \E op \in {"run", "stop"} : Deliver(op)
    BY <2>1, DeliverKeepsQueues
  <2>2. CASE svc \in Ids /\ Destroy(cmds) /\ UNCHANGED issued
    BY <1>0, <2>2, DestroyKeepsQueues
  <2> QED
    BY <1>1, <1>2, <2>1, <2>2, MainKeeps
<1>3. ASSUME NEW i \in Ids, ServiceStep(i) PROVE QueueShape' /\ CommandsDiffer'
  <2>1. UNCHANGED issued
    BY <1>3, ServiceKeeps
  <2>2. CASE UNCHANGED <<svc, cmds>>
    BY <1>1, <2>1, <2>2 DEF systemVars
  <2>3. CASE cmds[i] # <<>> /\ cmds' = Popping(cmds, i) /\ UNCHANGED svc
    <3>1. Shaped(Popping(cmds, i), issued, svc) /\ Different(Popping(cmds, i))
      BY <1>0, <2>3, PopKeepsQueues
    <3> QED
      BY <2>1, <2>3, <3>1 DEF QueueShape, CommandsDiffer, Shaped, Different
  <2>4. CASE cmds[i] # <<>> /\ svc = i /\ Destroy(Popping(cmds, i))
    <3>1. Shaped(Popping(cmds, i), issued, svc) /\ Different(Popping(cmds, i))
      BY <1>0, <2>4, PopKeepsQueues
    <3>2. Popping(cmds, i) \in [Ids -> Seq(Commands)]
      BY <1>0, <2>4, Popped
    <3> QED
      BY <1>0, <2>1, <2>4, <3>1, <3>2, DestroyKeepsQueues
  <2> QED
    BY <1>3, <2>2, <2>3, <2>4, ServiceQueues
<1>4. ASSUME NEW s \in Ids, ThreadStep(s) \/ TaskEnds(s) PROVE QueueShape' /\ CommandsDiffer'
  BY <1>1, <1>4, ThreadKeeps
<1> QED
  BY <1>2, <1>3, <1>4 DEF Next

-----------------------------------------------------------------------------
(* Every step keeps command threads, agents and sessions together.          *)

\* The main thread leaves the head of a queue where it is.
LEMMA HeadStays ==
  ASSUME IInv, UserStep \/ HandleEvent, NEW j \in Ids, cmds[j] # <<>>
  PROVE  cmds'[j] # <<>> /\ Head(cmds'[j]) = Head(cmds[j])
<1>0. SystemTypes /\ SystemTypes'
  BY SystemTypesKept DEF IInv, Next
<1>1. cmds[j] \in Seq(Commands) /\ cmds'[j] \in Seq(Commands) /\ Len(cmds[j]) \in Nat \ {0} /\ Len(cmds'[j]) \in Nat
  BY <1>0 DEF SystemTypes
<1>2. CASE UNCHANGED <<systemVars, cmds>>
  BY <1>2
<1>3. CASE issued + 1 \in Ids /\ \E op \in {"run", "stop"} : Deliver(op)
  <2>1. cmds'[j] = cmds[j] \/ (Len(cmds'[j]) = Len(cmds[j]) + 1 /\ \A k \in 1 .. Len(cmds[j]) : cmds'[j][k] = cmds[j][k])
    BY <1>3, Delivered DEF IInv
  <2> QED
    BY <1>1, <2>1
<1>4. CASE svc \in Ids /\ Destroy(cmds) /\ UNCHANGED issued
  <2>1. cmds'[j] = cmds[j] \/ (Len(cmds'[j]) = Len(cmds[j]) + 1 /\ \A k \in 1 .. Len(cmds[j]) : cmds'[j][k] = cmds[j][k])
    BY <1>0, <1>4, Destroyed DEF SystemTypes
  <2> QED
    BY <1>1, <2>1
<1> QED
  BY <1>2, <1>3, <1>4, MainKeeps

\* Every step leaves a command thread at the head of its queue.
LEMMA HeadsFitKept ==
  ASSUME IInv, Next
  PROVE  HeadsFit'
<1> SUFFICES ASSUME NEW j \in Ids PROVE HeadFits(j)'
  BY DEF HeadsFit
<1>0. HeadFits(j)
  BY DEF IInv, HeadsFit
<1>1. CASE UserStep \/ HandleEvent
  <2>1. wpc'[j] = wpc[j] /\ then'[j] = then[j]
    BY <1>1, MainKeeps DEF serviceVars
  <2>2. CASE cmds[j] = <<>>
    BY <1>0, <2>1, <2>2 DEF HeadFits
  <2>3. CASE cmds[j] # <<>>
    BY <1>0, <1>1, <2>1, <2>3, HeadStays DEF HeadFits, Op
  <2> QED
    BY <2>2, <2>3
<1>2. ASSUME NEW i \in Ids, ServiceStep(i) PROVE HeadFits(j)'
  <2>1. CASE j # i
    BY <1>0, <1>2, <2>1, OtherServicesKeep DEF HeadFits, Op
  <2>2. CASE wpc'[i] = "idle" /\ j = i
    BY <2>2 DEF HeadFits
  <2>3. CASE UNCHANGED cmds /\ j = i
    <3> USE <1>0, <2>3 DEF IInv, ServiceTypes, HeadFits, Op, Goto, Release
    <3>1. CASE TakeRun(i)
      BY <3>1 DEF TakeRun
    <3>2. CASE Create(i) \/ Start(i) \/ CommandFails(i)
      BY <3>2 DEF Create, Start, CommandFails
    <3>3. CASE Run(i) \/ SelfStop(i) \/ PublishStopped(i)
      BY <3>3 DEF Run, SelfStop, PublishStopped
    <3>4. CASE TakeStop(i) \/ TakeDestroy(i)
      BY <3>4 DEF TakeStop, TakeDestroy
    <3>5. CASE ReleaseBegin(i)
      BY <3>5 DEF ReleaseBegin
    <3>6. CASE ReleaseDone(i)
      BY <3>6 DEF ReleaseDone
    <3> QED
      BY <1>2, <3>1, <3>2, <3>3, <3>4, <3>5, <3>6 DEF ServiceStep
  <2> QED
    BY <1>2, <2>1, <2>2, <2>3, ServiceQueues
<1>3. ASSUME NEW s \in Ids, ThreadStep(s) \/ TaskEnds(s) PROVE HeadFits(j)'
  BY <1>0, <1>3, ThreadKeeps DEF HeadFits, Op, serviceVars
<1> QED
  BY <1>1, <1>2, <1>3 DEF Next

\* Every step keeps an agent in the state its command thread counts on.
LEMMA AgentsFitKept ==
  ASSUME IInv, Next
  PROVE  AgentsFit'
<1> SUFFICES ASSUME NEW j \in Ids PROVE AgentFits(j)'
  BY DEF AgentsFit
<1>0. AgentFits(j)
  BY DEF IInv, AgentsFit
<1>1. CASE UNCHANGED <<serviceVars, sessionVars>>
  BY <1>0, <1>1 DEF AgentFits, serviceVars, sessionVars
<1>2. ASSUME NEW i \in Ids, ServiceStep(i) PROVE AgentFits(j)'
  <2>1. CASE j # i
    <3>1. agent[j] # None => phase'[agent[j]] = phase[agent[j]]
      BY <1>2, <2>1, AgentsDiffer, CreatesFresh, OtherSessionsKeep
    <3> QED
      BY <1>0, <1>2, <2>1, <3>1, OtherServicesKeep DEF AgentFits
  <2>2. CASE j = i
    <3> USE <1>0, <2>2 DEF IInv, ServiceTypes, SessionTypes, AgentFits, Goto, Release, sessionVars, serviceVars
    <3>1. CASE TakeRun(i)
      BY <3>1, ConstantsAssumption DEF TakeRun, UserTypes, ConstantsAssumption
    <3>2. CASE Create(i)
      <4>1. Head(cmds[i]).id \in Ids \ {None}
        BY <3>2, CreatesFresh DEF Create
      <4> QED
        BY <3>2, <4>1 DEF Create
    <3>3. CASE Start(i)
      BY <3>3 DEF Start
    <3>4. CASE Run(i) \/ CommandFails(i)
      BY <3>4 DEF Run, CommandFails
    <3>5. CASE TakeStop(i) \/ TakeDestroy(i)
      BY <3>5 DEF TakeStop, TakeDestroy
    <3>6. CASE SelfStop(i) \/ PublishStopped(i)
      BY <3>6 DEF SelfStop, PublishStopped
    <3>7. CASE ReleaseBegin(i)
      <4>1. then[i] \in {"create", "selfStop", "publish"}
        BY <3>7 DEF ReleaseBegin, HeadsFit, HeadFits
      <4> QED
        BY <3>7, <4>1 DEF ReleaseBegin
    <3>8. CASE ReleaseDone(i)
      <4>1. then[i] \in {"create", "selfStop", "publish"}
        BY <3>8 DEF ReleaseDone, HeadsFit, HeadFits
      <4> QED
        BY <3>8, <4>1 DEF ReleaseDone
    <3> QED
      BY <1>2, <3>1, <3>2, <3>3, <3>4, <3>5, <3>6, <3>7, <3>8 DEF ServiceStep
  <2> QED
    BY <2>1, <2>2
<1> QED
  BY <1>1, <1>2, MainKeeps, ThreadKeeps DEF Next

\* Every step keeps the sessions that are not closed agents of their owners.
LEMMA SessionsFitKept ==
  ASSUME IInv, Next
  PROVE  SessionsFit'
<1> SUFFICES ASSUME NEW s \in Ids PROVE SessionFits(s)'
  BY DEF SessionsFit
<1>0. SessionFits(s)
  BY DEF IInv, SessionsFit
<1>1. CASE UserStep \/ HandleEvent
  BY <1>0, <1>1, MainKeeps DEF SessionFits, serviceVars, sessionVars, threadVars
<1>2. ASSUME NEW i \in Ids, ServiceStep(i) PROVE SessionFits(s)'
  <2>0. tpc'[s] = tpc[s] /\ outcome'[s] = outcome[s]
    BY <1>2, ServiceKeeps
  <2>1. CASE s # agent[i] /\ (wpc[i] = "create" => s # Head(cmds[i]).id)
    <3>1. phase'[s] = phase[s] /\ owner'[s] = owner[s] /\ busy'[s] = busy[s] /\ queued'[s] = queued[s]
      BY <1>2, <2>1, OtherSessionsKeep
    <3>2. owner[s] \in Ids /\ agent[owner[s]] = s => agent'[owner[s]] = s
      BY <1>2, <2>1, OtherServicesKeep
    <3>3. owner[s] # None => owner[s] \in Ids
      BY DEF IInv, SessionTypes
    <3> QED
      BY <1>0, <2>0, <3>1, <3>2, <3>3 DEF SessionFits
  <2>2. CASE wpc[i] = "create" /\ s = Head(cmds[i]).id
    <3>1. phase[s] = "none" /\ Create(i)
      BY <1>2, <2>2, CreatesFresh DEF ServiceStep, TakeRun, Create, Start, Run, CommandFails, TakeStop,
                TakeDestroy, ReleaseBegin, ReleaseDone, SelfStop, PublishStopped
    <3> QED
      BY <1>0, <2>0, <2>2, <3>1, IdsNumbers DEF Create, SessionFits, IInv, ServiceTypes, SessionTypes, threadVars, sessionVars
  <2>3. CASE s = agent[i]
    <3>0. i # None /\ owner[s] = i /\ phase[s] \in {"new", "open", "closing"} /\ s # None /\ wpc[i] # "create"
      BY <2>3, IdsNumbers DEF IInv, AgentsOwned, AgentsFit, AgentFits
    <3> USE <1>0, <2>0, <2>3, <3>0 DEF SessionFits, IInv, ServiceTypes, SessionTypes, ThreadTypes
    <3>1. CASE TakeRun(i) \/ CommandFails(i) \/ TakeStop(i) \/ TakeDestroy(i)
      BY <3>1 DEF TakeRun, CommandFails, TakeStop, TakeDestroy, sessionVars, threadVars
    <3>2. CASE SelfStop(i) \/ PublishStopped(i)
      BY <3>2 DEF SelfStop, PublishStopped, serviceVars, sessionVars, threadVars
    <3>3. CASE Create(i)
      BY <3>3 DEF Create
    <3>4. CASE Start(i)
      BY <3>4 DEF Start, threadVars
    <3>5. CASE Run(i)
      <4>1. phase[s] = "open"
        BY <3>5 DEF Run, AgentsFit, AgentFits
      <4> QED
        BY <3>5, <4>1 DEF Run, sessionVars
    <3>6. CASE ReleaseBegin(i)
      BY <3>6 DEF ReleaseBegin
    <3>7. CASE ReleaseDone(i)
      BY <3>7 DEF ReleaseDone, AgentsFit, AgentFits
    <3> QED
      BY <1>2, <3>1, <3>2, <3>3, <3>4, <3>5, <3>6, <3>7 DEF ServiceStep
  <2> QED
    BY <2>1, <2>2, <2>3
<1>3. ASSUME NEW t \in Ids, ThreadStep(t) \/ TaskEnds(t) PROVE SessionFits(s)'
  <2>0. phase' = phase /\ owner' = owner /\ agent' = agent
    BY <1>3, ThreadKeeps DEF serviceVars, sessionVars
  <2>1. CASE s # t
    BY <1>0, <1>3, <2>0, <2>1, OtherThreadsKeep DEF SessionFits, IInv
  <2>2. CASE s = t
    <3> USE <1>0, <2>0, <2>2 DEF SessionFits, IInv, ThreadTypes
    <3>1. CASE TaskPick(s)
      BY <3>1 DEF TaskPick
    <3>2. CASE TaskAnnounce(s)
      BY <3>2 DEF TaskAnnounce
    <3>3. CASE TaskEnter(s)
      BY <3>3 DEF TaskEnter
    <3>4. CASE TaskEnds(s)
      BY <3>4 DEF TaskEnds
    <3>5. CASE TaskClear(s)
      BY <3>5 DEF TaskClear
    <3>6. CASE TaskGate(s)
      BY <3>6 DEF TaskGate, TaskLeaves
    <3>7. CASE TaskReport(s)
      BY <3>7 DEF TaskReport, TaskLeaves
    <3> QED
      BY <1>3, <3>1, <3>2, <3>3, <3>4, <3>5, <3>6, <3>7 DEF ThreadStep
  <2> QED
    BY <2>1, <2>2
<1> QED
  BY <1>1, <1>2, <1>3 DEF Next

\* Every step keeps agents in the hands of those who own them.
LEMMA AgentsOwnedKept ==
  ASSUME IInv, Next
  PROVE  AgentsOwned'
<1> SUFFICES ASSUME NEW j \in Ids, agent'[j] # None
             PROVE  owner'[agent'[j]] = j /\ phase'[agent'[j]] \in {"new", "open", "closing"}
  BY DEF AgentsOwned
<1>0. agent[j] # None => owner[agent[j]] = j /\ phase[agent[j]] \in {"new", "open", "closing"}
  BY DEF IInv, AgentsOwned
<1>1. CASE UNCHANGED <<serviceVars, sessionVars>>
  BY <1>0, <1>1 DEF serviceVars, sessionVars
<1>2. ASSUME NEW i \in Ids, ServiceStep(i)
      PROVE  owner'[agent'[j]] = j /\ phase'[agent'[j]] \in {"new", "open", "closing"}
  <2>1. CASE j # i
    BY <1>0, <1>2, <2>1, AgentsDiffer, CreatesFresh, OtherSessionsKeep, OtherServicesKeep
  <2>2. CASE j = i
    <3> USE <1>0, <2>2 DEF IInv, ServiceTypes, SessionTypes
    <3>1. CASE TakeRun(i) \/ CommandFails(i) \/ TakeStop(i) \/ TakeDestroy(i)
      BY <3>1 DEF TakeRun, CommandFails, TakeStop, TakeDestroy, sessionVars
    <3>2. CASE Run(i) \/ SelfStop(i) \/ PublishStopped(i)
      BY <3>2 DEF Run, SelfStop, PublishStopped, serviceVars, sessionVars
    <3>3. CASE Create(i)
      BY <3>3, CreatesFresh DEF Create, sessionVars
    <3>4. CASE Start(i)
      BY <3>4 DEF Start
    <3>5. CASE ReleaseBegin(i)
      BY <3>5 DEF ReleaseBegin
    <3>6. CASE ReleaseDone(i)
      BY <3>6 DEF ReleaseDone
    <3> QED
      BY <1>2, <3>1, <3>2, <3>3, <3>4, <3>5, <3>6 DEF ServiceStep
  <2> QED
    BY <2>1, <2>2
<1> QED
  BY <1>1, <1>2, MainKeeps, ThreadKeeps DEF Next

\* Every step leaves a waiting command without a session.
LEMMA CommandsFreshKept ==
  ASSUME IInv, Next
  PROVE  CommandsFresh'
<1> SUFFICES ASSUME NEW j \in Ids, NEW k \in 1 .. Len(cmds'[j]), cmds'[j][k].op = "run", k = 1 => ~Begun(j)'
             PROVE  phase'[cmds'[j][k].id] = "none"
  BY DEF CommandsFresh
<1>0. \A l \in 1 .. Len(cmds[j]) : cmds[j][l].op = "run" =>
        /\ cmds[j][l].id \in Ids
        /\ (l = 1 => ~Begun(j)) => phase[cmds[j][l].id] = "none"
  BY DEF IInv, CommandsFresh, QueueShape, Shaped
<1>1. CASE UserStep \/ HandleEvent
  <2>1. Begun(j)' = Begun(j) /\ phase' = phase
    BY <1>1, MainKeeps DEF Begun, serviceVars, sessionVars
  <2>2. CASE k \in 1 .. Len(cmds[j]) /\ cmds'[j][k] = cmds[j][k]
    BY <1>0, <2>1, <2>2
  <2>3. CASE issued + 1 \in Ids /\ \E op \in {"run", "stop"} : Deliver(op)
    <3>1. (k \in 1 .. Len(cmds[j]) /\ cmds'[j][k] = cmds[j][k]) \/ cmds'[j][k].id = issued + 1
      BY <2>3, Delivered DEF IInv
    <3>2. issued + 1 \in Ids /\ issued + 1 > issued
      BY <2>3, IdsNumbers DEF IInv, SystemTypes
    <3>3. phase[issued + 1] = "none"
      BY <3>2 DEF IInv, NotYetIssued
    <3> QED
      BY <2>1, <2>2, <3>1, <3>3
  <2>4. CASE svc \in Ids /\ Destroy(cmds) /\ UNCHANGED issued
    <3>1. /\ Len(cmds[svc]) \in Nat /\ Len(cmds'[svc]) = Len(cmds[svc]) + 1
          /\ \A l \in 1 .. Len(cmds[svc]) : cmds'[svc][l] = cmds[svc][l]
          /\ cmds'[svc][Len(cmds'[svc])].op = "destroy"
          /\ j # svc => cmds'[j] = cmds[j]
      BY <2>4, Destroyed DEF IInv, SystemTypes
    <3>2. (k \in 1 .. Len(cmds[j]) /\ cmds'[j][k] = cmds[j][k]) \/ cmds'[j][k].op = "destroy"
      BY <3>1
    <3> QED
      BY <2>2, <3>2
  <2>5. CASE UNCHANGED <<systemVars, cmds>>
    BY <2>2, <2>5
  <2> QED
    BY <1>1, <2>3, <2>4, <2>5, MainKeeps
<1>2. ASSUME NEW i \in Ids, ServiceStep(i) PROVE phase'[cmds'[j][k].id] = "none"
\* A session that is not there, and not about to be, is not there afterwards.
  <2>1. ASSUME NEW l \in 1 .. Len(cmds[j]), cmds[j][l].op = "run", l = 1 => ~Begun(j),
               wpc[i] = "create" => j # i \/ l # 1
        PROVE  phase'[cmds[j][l].id] = "none"
    <3>1. cmds[j][l].id \in Ids /\ phase[cmds[j][l].id] = "none"
      BY <1>0, <2>1
    <3>2. cmds[j][l].id # agent[i]
      BY <3>1, IdsNumbers DEF IInv, AgentsOwned
    <3>3. wpc[i] = "create" => cmds[j][l].id # Head(cmds[i]).id
      <4> SUFFICES ASSUME wpc[i] = "create" PROVE cmds[j][l].id # Head(cmds[i]).id
        OBVIOUS
      <4>1. cmds[i] # <<>> /\ Op(i) = "run"
        BY DEF IInv, HeadsFit, HeadFits
      <4>2. Head(cmds[i]) = cmds[i][1] /\ 1 \in 1 .. Len(cmds[i])
        BY <4>1, HeadOfQueue DEF IInv
      <4> QED
        BY <2>1, <4>1, <4>2 DEF IInv, CommandsDiffer, Different, Op
    <3> QED
      BY <1>2, <3>1, <3>2, <3>3, OtherSessionsKeep
  <2>2. CASE j # i
    <3>1. cmds'[j] = cmds[j] /\ Begun(j)' = Begun(j)
      BY <1>2, <2>2, OtherServicesKeep DEF Begun
    <3> QED
      BY <2>1, <2>2, <3>1
  <2>3. CASE j = i /\ wpc[i] \notin {"run", "selfStop", "publish"} /\ UNCHANGED cmds
    <3>1. Begun(i) \/ wpc[i] = "create" => Begun(i)'
      <4> USE <2>3 DEF Begun, Goto, Release, IInv, ServiceTypes
      <4>1. CASE TakeRun(i) \/ TakeStop(i) \/ TakeDestroy(i)
        BY <4>1 DEF TakeRun, TakeStop, TakeDestroy
      <4>2. CASE Create(i) \/ Start(i) \/ CommandFails(i)
        BY <4>2 DEF Create, Start, CommandFails
      <4>3. CASE ReleaseBegin(i)
        BY <4>3 DEF ReleaseBegin
      <4>4. CASE ReleaseDone(i)
        BY <4>4 DEF ReleaseDone
      <4>5. CASE Run(i) \/ SelfStop(i) \/ PublishStopped(i)
        BY <4>5 DEF Run, SelfStop, PublishStopped
      <4> QED
        BY <1>2, <4>1, <4>2, <4>3, <4>4, <4>5 DEF ServiceStep
    <3> QED
      BY <2>1, <2>3, <3>1
  <2>4. CASE j = i /\ wpc[i] # "create" /\ k + 1 \in 1 .. Len(cmds[i]) /\ cmds'[i][k] = cmds[i][k + 1]
    <3>1. k + 1 # 1
      OBVIOUS
    <3> QED
      BY <2>1, <2>4, <3>1
  <2>5. CASE j = i /\ wpc[i] \in {"run", "selfStop", "publish"} /\ cmds[i] # <<>> /\ cmds' = Popping(cmds, i)
    <3>1. cmds \in [Ids -> Seq(Commands)]
      BY DEF IInv, SystemTypes
    <3>2. \A l \in 1 .. Len(cmds'[i]) : l + 1 \in 1 .. Len(cmds[i]) /\ cmds'[i][l] = cmds[i][l + 1]
      BY <2>5, <3>1, Popped
    <3> QED
      BY <2>4, <2>5, <3>2
  <2>6. CASE j = i /\ wpc[i] = "selfStop" /\ cmds[i] # <<>> /\ svc = i /\ Destroy(Popping(cmds, i))
    <3> DEFINE popped == Popping(cmds, i)
    <3>0. cmds \in [Ids -> Seq(Commands)]
      BY DEF IInv, SystemTypes
    <3>1. /\ popped \in [Ids -> Seq(Commands)]
          /\ \A l \in 1 .. Len(popped[i]) : l + 1 \in 1 .. Len(cmds[i]) /\ popped[i][l] = cmds[i][l + 1]
      BY <2>6, <3>0, Popped
    <3> HIDE DEF popped
    <3>2. Destroy(popped)
      BY <2>6 DEF popped
    <3>3. (k \in 1 .. Len(popped[i]) /\ cmds'[i][k] = popped[i][k]) \/ cmds'[i][k].op = "destroy"
      BY <2>6, <3>1, <3>2, Destroyed
    <3> QED
      BY <2>4, <2>6, <3>1, <3>3
  <2> QED
    BY <1>2, <2>2, <2>3, <2>5, <2>6, ServiceQueues
<1>3. ASSUME NEW s \in Ids, ThreadStep(s) \/ TaskEnds(s) PROVE phase'[cmds'[j][k].id] = "none"
  <2>1. Begun(j)' = Begun(j) /\ phase' = phase /\ cmds' = cmds
    BY <1>3, ThreadKeeps DEF Begun, serviceVars, sessionVars
  <2> QED
    BY <1>0, <2>1
<1> QED
  BY <1>1, <1>2, <1>3 DEF Next

\* Nothing happens to an instance that published Stopped.
LEMMA StoppedIsOverKept ==
  ASSUME IInv, Next
  PROVE  StoppedIsOver'
<1> SUFFICES ASSUME NEW j \in stopped'
             PROVE  svc' # j /\ cmds'[j] = <<>> /\ wpc'[j] = "idle" /\ agent'[j] = None
  BY DEF StoppedIsOver
<1>0. j \in stopped => j \in Ids /\ j <= issued /\ svc # j /\ cmds[j] = <<>> /\ wpc[j] = "idle" /\ agent[j] = None
  <2>1. j \in stopped => j \in Ids /\ j \in Nat /\ issued \in Nat
    BY IdsNumbers DEF IInv, HistoryTypes, SystemTypes
  <2> QED
    BY <2>1 DEF IInv, StoppedIsOver, NotYetIssued
<1>1. CASE UserStep \/ HandleEvent
  <2>0. UNCHANGED <<wpc, agent, stopped>>
    BY <1>1, MainKeeps DEF serviceVars, history
  <2>1. CASE UNCHANGED <<systemVars, cmds>>
    BY <1>0, <2>0, <2>1 DEF systemVars
  <2>2. CASE issued + 1 \in Ids /\ \E op \in {"run", "stop"} : Deliver(op)
    <3>1. svc' \in {svc, issued + 1}
      BY <2>2, Delivered DEF IInv
    <3>2. svc' # j
      BY <1>0, <2>0, <3>1, IdsNumbers DEF IInv, SystemTypes
    <3>3. cmds'[j] = cmds[j]
      BY <1>0, <2>0, <2>2, <3>2, Delivered DEF IInv
    <3> QED
      BY <1>0, <2>0, <3>2, <3>3
  <2>3. CASE svc \in Ids /\ Destroy(cmds) /\ UNCHANGED issued
    <3>1. svc' = None /\ cmds'[j] = cmds[j]
      BY <1>0, <2>0, <2>3, Destroyed DEF IInv, SystemTypes
    <3> QED
      BY <1>0, <2>0, <3>1, IdsNumbers
  <2> QED
    BY <1>1, <2>1, <2>2, <2>3, MainKeeps
<1>2. ASSUME NEW i \in Ids, ServiceStep(i)
      PROVE  svc' # j /\ cmds'[j] = <<>> /\ wpc'[j] = "idle" /\ agent'[j] = None
  <2>1. CASE j \in stopped
    <3>1. j # i
      BY <1>0, <1>2, <2>1, ServiceHasCommand
    <3> QED
      BY <1>0, <1>2, <2>1, <3>1, IdsNumbers, OtherServicesKeep, ServiceKeeps
  <2>2. CASE j \notin stopped
    <3>1. j = i /\ PublishStopped(i)
      BY <1>2, <2>2 DEF ServiceStep, TakeRun, Create, Start, Run, CommandFails, TakeStop, TakeDestroy,
                ReleaseBegin, ReleaseDone, SelfStop, PublishStopped, history
    <3>2. wpc[i] = "publish" /\ cmds' = Popping(cmds, i) /\ UNCHANGED <<svc, agent>> /\ wpc'[i] = "idle"
      BY <3>1 DEF PublishStopped, Pop, Popping, Goto, systemVars, IInv, ServiceTypes
    <3>3. cmds[i] # <<>> /\ Op(i) = "destroy" /\ agent[i] = None
      BY <3>2 DEF IInv, HeadsFit, HeadFits, AgentsFit, AgentFits
    <3>4. Len(cmds[i]) = 1 /\ svc # i
      BY <3>3, HeadOfQueue DEF IInv, QueueShape, Shaped, Op
    <3>5. Len(cmds'[i]) = 0 /\ cmds'[i] \in Seq(Commands)
      <4>1. cmds \in [Ids -> Seq(Commands)] /\ i \in Ids
        BY <1>2 DEF IInv, SystemTypes
      <4>2. /\ Len(Popping(cmds, i)[i]) = Len(cmds[i]) - 1
            /\ Popping(cmds, i) \in [Ids -> Seq(Commands)]
        BY <3>3, <4>1, Popped
      <4> QED
        BY <3>2, <3>4, <4>1, <4>2
    <3>6. cmds'[i] = <<>>
      BY <3>5
    <3> QED
      BY <3>1, <3>2, <3>3, <3>4, <3>6
  <2> QED
    BY <2>1, <2>2
<1>3. ASSUME NEW s \in Ids, ThreadStep(s) \/ TaskEnds(s)
      PROVE  svc' # j /\ cmds'[j] = <<>> /\ wpc'[j] = "idle" /\ agent'[j] = None
  BY <1>0, <1>3, ThreadKeeps DEF serviceVars, systemVars, history
<1> QED
  BY <1>1, <1>2, <1>3 DEF Next

-----------------------------------------------------------------------------
(* The invariant and what follows from it.                                  *)

\* The initial states satisfy the invariant.
LEMMA InitInv == Init => IInv
<1> SUFFICES ASSUME Init PROVE IInv
  OBVIOUS
<1> USE IdsNumbers, ConstantsAssumption DEF Init, ConstantsAssumption, None
<1>1. ScreenTypes
  <2>1. running \in BOOLEAN
    BY Zenon
  <2>2. status \in Statuses /\ queue \in 0 .. MaxRuns /\ inbox \in Seq(Events)
    BY DEF Statuses
  <2> QED
    BY <2>1, <2>2 DEF ScreenTypes
<1>2. UserTypes /\ IdsSuffice
  BY DEF UserTypes, IdsSuffice
<1>3. SystemTypes /\ HistoryTypes
  BY DEF SystemTypes, HistoryTypes
<1>4. ServiceTypes /\ SessionTypes /\ ThreadTypes
  BY DEF ServiceTypes, SessionTypes, ThreadTypes
<1>5. NotYetIssued /\ StoppedIsOver /\ AgentsOwned /\ CommandsFresh
  BY DEF NotYetIssued, StoppedIsOver, AgentsOwned, CommandsFresh
<1>6. QueueShape /\ CommandsDiffer
  BY DEF QueueShape, CommandsDiffer, Shaped, Different
<1>7. HeadsFit /\ AgentsFit /\ SessionsFit
  BY DEF HeadsFit, HeadFits, AgentsFit, AgentFits, SessionsFit, SessionFits
<1> QED
  BY <1>1, <1>2, <1>3, <1>4, <1>5, <1>6, <1>7 DEF IInv

\* Every step keeps it.
LEMMA StepInv == IInv /\ [Next]_vars => IInv'
<1> SUFFICES ASSUME IInv, [Next]_vars PROVE IInv'
  OBVIOUS
<1>1. CASE Next
  BY <1>1, ScreenTypesKept, UserTypesKept, SystemTypesKept, ServiceTypesKept, ThreadTypesKept, HistoryTypesKept,
     NotYetIssuedKept, QueuesKept, HeadsFitKept, AgentsFitKept, SessionsFitKept, AgentsOwnedKept,
     CommandsFreshKept, StoppedIsOverKept DEF IInv
<1>2. CASE UNCHANGED vars
  <2> USE <1>2 DEF vars, uiVars, userVars, systemVars, serviceVars, sessionVars, threadVars, history
  <2>1. (ScreenTypes /\ UserTypes /\ SystemTypes /\ ServiceTypes /\ SessionTypes /\ ThreadTypes /\ HistoryTypes)'
    BY DEF IInv, ScreenTypes, UserTypes, SystemTypes, ServiceTypes, SessionTypes, ThreadTypes, HistoryTypes
  <2>2. (IdsSuffice /\ NotYetIssued /\ QueueShape /\ CommandsDiffer)'
    BY DEF IInv, IdsSuffice, NotYetIssued, QueueShape, CommandsDiffer
  <2>3. (HeadsFit /\ AgentsFit /\ SessionsFit)'
    BY DEF IInv, HeadsFit, HeadFits, Op, AgentsFit, AgentFits, SessionsFit, SessionFits
  <2>4. (AgentsOwned /\ CommandsFresh /\ StoppedIsOver)'
    BY DEF IInv, AgentsOwned, CommandsFresh, Begun, StoppedIsOver
  <2> QED
    BY <2>1, <2>2, <2>3, <2>4 DEF IInv
<1> QED
  BY <1>1, <1>2

\* The invariant holds in every reachable state.
THEOREM InvHolds == Spec => []IInv
BY InitInv, StepInv, PTL DEF Spec

\* Every variable of the app, its services and their sessions keeps its type.
THEOREM TypesCorrect == Spec => []TypeOK
<1>1. IInv => TypeOK
  BY DEF IInv, TypeOK, ScreenTypes, UserTypes, SystemTypes, ServiceTypes, SessionTypes, ThreadTypes, HistoryTypes
<1> QED
  BY <1>1, InvHolds, PTL

\* A session that works is the agent of its service.
LEMMA WorkingIsAgent ==
  ASSUME IInv, NEW s \in Working
  PROVE  s \in Ids /\ owner[s] \in Ids /\ agent[owner[s]] = s
BY DEF IInv, Working, SessionsFit, SessionFits, SessionTypes

\* Nothing an instance started executes once it published Stopped.
THEOREM StoppedReleased == Spec => []StoppedMeansReleased
<1>1. IInv => StoppedMeansReleased
  BY WorkingIsAgent, IdsNumbers DEF IInv, StoppedMeansReleased, StoppedIsOver
<1> QED
  BY <1>1, InvHolds, PTL

\* One instance never has two tasks at work.
THEOREM OneTask == Spec => []OneTaskPerInstance
<1>1. IInv => OneTaskPerInstance
  BY WorkingIsAgent DEF OneTaskPerInstance
<1> QED
  BY <1>1, InvHolds, PTL

\* A step of the app is a step of each session, or leaves it as it is.
LEMMA SessionSteps ==
  ASSUME IInv, [Next]_vars, NEW s \in Ids
  PROVE  [Session(s)!SessionNext]_(Session(s)!svars)
<1> USE DEF Session!svars, Session!SessionNext, Session!Open, Session!Begin, Session!End, Session!RequestStop, Session!Close
<1>1. CASE phase'[s] = phase[s] /\ tpc'[s] = tpc[s]
  BY <1>1
<1>2. CASE UserStep \/ HandleEvent
  BY <1>1, <1>2, MainKeeps DEF sessionVars, threadVars
<1>3. ASSUME NEW i \in Ids, ServiceStep(i) PROVE [Session(s)!SessionNext]_(Session(s)!svars)
  <2>0. tpc' = tpc
    BY <1>3, ServiceKeeps
  <2>1. CASE s # agent[i] /\ (wpc[i] = "create" => s # Head(cmds[i]).id)
    BY <1>1, <1>3, <2>0, <2>1, OtherSessionsKeep
  <2>2. CASE wpc[i] = "create" /\ s = Head(cmds[i]).id
    <3>1. phase[s] = "none" /\ phase'[s] \in {"none", "new"}
      BY <1>3, <2>2, CreatesFresh DEF ServiceStep, TakeRun, Create, Start, Run, CommandFails, TakeStop,
                TakeDestroy, ReleaseBegin, ReleaseDone, SelfStop, PublishStopped, IInv, SessionTypes, sessionVars
    <3> QED
      BY <2>0, <3>1
  <2>3. CASE s = agent[i]
    <3>0. phase[s] \in {"new", "open", "closing"} /\ s # None /\ wpc[i] # "create"
      BY <2>3, IdsNumbers DEF IInv, AgentsOwned, AgentsFit, AgentFits
    <3>1. CASE phase'[s] = phase[s]
      BY <1>1, <2>0, <3>1
    <3>2. CASE Start(i)
      <4>1. phase[s] = "new" /\ phase'[s] \in {"new", "open"}
        BY <2>3, <3>2 DEF Start, IInv, AgentsFit, AgentFits, SessionTypes
      <4> QED
        BY <2>0, <4>1
    <3>3. CASE ReleaseBegin(i)
      <4>1. phase[s] \in {"new", "open"} /\ phase'[s] = "closing"
        BY <2>3, <3>0, <3>3 DEF ReleaseBegin, IInv, AgentsFit, AgentFits, SessionTypes
      <4> QED
        BY <2>0, <4>1
    <3>4. CASE ReleaseDone(i)
      <4>1. phase[s] = "closing" /\ phase'[s] = "closed" /\ tpc[s] # "working"
        BY <2>3, <3>4 DEF ReleaseDone, IInv, AgentsFit, AgentFits, SessionTypes
      <4> QED
        BY <2>0, <4>1
    <3>5. CASE ~(Start(i) \/ ReleaseBegin(i) \/ ReleaseDone(i))
      BY <1>3, <3>0, <3>1, <3>5 DEF ServiceStep, TakeRun, Create, Run, CommandFails, TakeStop, TakeDestroy,
                SelfStop, PublishStopped, sessionVars
    <3> QED
      BY <3>2, <3>3, <3>4, <3>5
  <2> QED
    BY <2>1, <2>2, <2>3
<1>4. ASSUME NEW t \in Ids, ThreadStep(t) \/ TaskEnds(t) PROVE [Session(s)!SessionNext]_(Session(s)!svars)
  <2>0. phase' = phase
    BY <1>4, ThreadKeeps DEF sessionVars
  <2>1. CASE s # t
    BY <1>1, <1>4, <2>0, <2>1, OtherThreadsKeep DEF IInv
  <2>2. CASE s = t /\ TaskEnter(s)
    BY <2>0, <2>2 DEF TaskEnter, IInv, ThreadTypes
  <2>3. CASE s = t /\ TaskEnds(s)
    BY <2>0, <2>3 DEF TaskEnds, IInv, ThreadTypes
  <2>4. CASE s = t /\ ~TaskEnter(s) /\ ~TaskEnds(s)
    <3>1. tpc[s] # "working" /\ tpc'[s] # "working"
      BY <1>4, <2>4 DEF ThreadStep, TaskPick, TaskAnnounce, TaskClear, TaskGate, TaskReport, TaskLeaves, IInv, ThreadTypes
    <3> QED
      BY <2>0, <3>1
  <2> QED
    BY <2>1, <2>2, <2>3, <2>4
<1>5. CASE UNCHANGED vars
  BY <1>1, <1>5 DEF vars, sessionVars, threadVars
<1> QED
  BY <1>2, <1>3, <1>4, <1>5 DEF Next

\* Whatever the app, its services and their threads do, each session keeps the
\* promise of TaskSession.
THEOREM PromiseKept == Spec => SessionsKeepPromise
<1>1. Init => \A s \in Ids : Session(s)!SessionInit
  BY DEF Init, Session!SessionInit
<1>2. IInv /\ [Next]_vars => [\A s \in Ids : [Session(s)!SessionNext]_(Session(s)!svars)]_vars
  BY SessionSteps
<1> QED
  BY <1>1, <1>2, InvHolds, PTL DEF Spec, SessionsKeepPromise

-----------------------------------------------------------------------------
(* The queue of tasks, as long as no alarm rings.                           *)

\* The head of the first instance's queue has had its answer.
Answered == wpc[1] = "selfStop" \/ (wpc[1] \in {"release", "closing"} /\ then[1] = "selfStop")

\* The places where a task asked of the first instance may be: in its queue,
\* with one of its sessions, or in its last event.
Waits(k) == k \in 1 .. Len(cmds[1]) /\ cmds[1][k].op = "run" /\ (k = 1 => ~Answered)
Holds(s) == owner[s] = 1 /\ (queued[s] \/ tpc[s] # "idle")
Answers(k) == svc = 1 /\ k \in 1 .. Len(inbox) /\ inbox[k] \in {"Finished", "Failed"}

NoneWaits == \A k \in Nat : ~Waits(k)
NoneHeld == \A s \in Ids : ~Holds(s)
NoneAnswers == \A k \in Nat : ~Answers(k)

\* It is in one of them only, and the screen waits for it.
OneTaskOut ==
  /\ \A k, l \in Nat : Waits(k) /\ Waits(l) => k = l
  /\ \A s, t \in Ids : Holds(s) /\ Holds(t) => s = t
  /\ \A k, l \in Nat : Answers(k) /\ Answers(l) => k = l
  /\ \A s \in Ids : owner[s] = 1 /\ queued[s] => tpc[s] = "idle"
  /\ \A k \in Nat : Waits(k) => NoneHeld /\ NoneAnswers
  /\ \A s \in Ids : Holds(s) => NoneAnswers
  /\ svc = 1 /\ ~running => NoneWaits /\ NoneHeld /\ NoneAnswers

\* While the first instance is started there is no other, and it has not
\* published Stopped.
FirstAlone ==
  /\ svc = 1 =>
       /\ \A i \in Ids : i # 1 => cmds[i] = <<>>
       /\ \A s \in Ids : owner[s] \in {None, 1}
       /\ \A k \in 1 .. Len(inbox) : inbox[k] # "Stopped"
  /\ issued = 0 => inbox = <<>>

\* A session that is open and busy has its task.
BusyHasTask ==
  \A s \in Ids : phase[s] = "open" /\ busy[s] => queued[s] \/ tpc[s] \in {"announce", "enter", "working", "clear"}

QueueInv == BusyHasTask /\ FirstAlone /\ (alarms = 0 /\ 1 \in Ids => OneTaskOut /\ 1 \notin rejected)

\* Every step keeps a busy session with its task.
LEMMA BusyHasTaskKept ==
  ASSUME IInv, BusyHasTask, Next
  PROVE  BusyHasTask'
<1> SUFFICES ASSUME NEW s \in Ids, phase'[s] = "open", busy'[s]
             PROVE  queued'[s] \/ tpc'[s] \in {"announce", "enter", "working", "clear"}
  BY DEF BusyHasTask
<1>0. phase[s] = "open" /\ busy[s] => queued[s] \/ tpc[s] \in {"announce", "enter", "working", "clear"}
  BY DEF BusyHasTask
<1>1. CASE UserStep \/ HandleEvent
  BY <1>0, <1>1, MainKeeps DEF sessionVars, threadVars
<1>2. ASSUME NEW i \in Ids, ServiceStep(i)
      PROVE  queued'[s] \/ tpc'[s] \in {"announce", "enter", "working", "clear"}
  <2>0. tpc'[s] = tpc[s]
    BY <1>2, ServiceKeeps
  <2>1. CASE s # agent[i] /\ (wpc[i] = "create" => s # Head(cmds[i]).id)
    BY <1>0, <1>2, <2>0, <2>1, OtherSessionsKeep
  <2>2. CASE wpc[i] = "create" /\ s = Head(cmds[i]).id
    <3>1. phase[s] = "none" /\ phase'[s] \in {"none", "new"}
      BY <1>2, <2>2, CreatesFresh DEF ServiceStep, TakeRun, Create, Start, Run, CommandFails, TakeStop,
                TakeDestroy, ReleaseBegin, ReleaseDone, SelfStop, PublishStopped, IInv, SessionTypes, sessionVars
    <3> QED
      BY <3>1
  <2>3. CASE s = agent[i]
    <3>1. CASE Start(i)
      <4>1. phase[s] = "new" /\ busy'[s] = busy[s]
        BY <2>3, <3>1 DEF Start, IInv, AgentsFit, AgentFits, threadVars
      <4> QED
        BY <4>1 DEF IInv, SessionsFit, SessionFits
    <3>2. CASE Run(i)
      <4>1. phase[s] = "open" /\ queued'[s] = IF busy[s] THEN queued[s] ELSE TRUE
        BY <2>3, <3>2 DEF Run, IInv, AgentsFit, AgentFits, ThreadTypes
      <4> QED
        BY <1>0, <2>0, <4>1
    <3>3. CASE ReleaseBegin(i) \/ ReleaseDone(i)
      <4>1. wpc[i] = "release" /\ agent[i] # None => phase'[s] = "closing" \/ ReleaseDone(i)
        BY <2>3, <3>3 DEF ReleaseBegin, IInv, SessionTypes
      <4>2. ReleaseDone(i) => phase'[s] = "closed"
        BY <2>3 DEF ReleaseDone, IInv, SessionTypes
      <4> QED
        BY <2>3, <3>3, <4>1, <4>2, IdsNumbers DEF ReleaseBegin
    <3>4. CASE ~(Start(i) \/ Run(i) \/ ReleaseBegin(i) \/ ReleaseDone(i))
      <4>1. s # None /\ wpc[i] # "create"
        BY <2>3, IdsNumbers DEF IInv, AgentsFit, AgentFits
      <4>2. phase'[s] = phase[s] /\ busy'[s] = busy[s] /\ queued'[s] = queued[s]
        BY <1>2, <3>4, <4>1 DEF ServiceStep, TakeRun, Create, CommandFails, TakeStop, TakeDestroy,
                SelfStop, PublishStopped, sessionVars, threadVars
      <4> QED
        BY <1>0, <2>0, <4>2
    <3> QED
      BY <3>1, <3>2, <3>3, <3>4
  <2> QED
    BY <2>1, <2>2, <2>3
<1>3. ASSUME NEW t \in Ids, ThreadStep(t) \/ TaskEnds(t)
      PROVE  queued'[s] \/ tpc'[s] \in {"announce", "enter", "working", "clear"}
  <2>0. phase' = phase
    BY <1>3, ThreadKeeps DEF sessionVars
  <2>1. CASE s # t
    BY <1>0, <1>3, <2>0, <2>1, OtherThreadsKeep DEF IInv
  <2>2. CASE s = t
    BY <1>0, <1>3, <2>0, <2>2 DEF ThreadStep, TaskPick, TaskAnnounce, TaskEnter, TaskEnds, TaskClear, TaskGate,
                TaskReport, TaskLeaves, IInv, ThreadTypes
  <2> QED
    BY <2>1, <2>2
<1> QED
  BY <1>1, <1>2, <1>3 DEF Next

\* The main thread only takes events out of the inbox.
LEMMA MainInbox ==
  ASSUME UserStep \/ HandleEvent
  PROVE  inbox' = inbox \/ (HandleEvent /\ inbox # <<>> /\ inbox' = Tail(inbox))
<1>1. CASE UserStep
  BY <1>1 DEF UserStep, PressStop, PressNotificationStop, AlarmRings, Select, PressStart, uiVars
<1>2. CASE HandleEvent
  BY <1>2 DEF HandleEvent
<1> QED
  BY <1>1, <1>2

\* What a command thread publishes.
LEMMA ServicePublishes ==
  ASSUME NEW i \in Ids, ServiceStep(i)
  PROVE  inbox' = inbox \/ Publish("Failed") \/ (PublishStopped(i) /\ Publish("Stopped"))
BY DEF ServiceStep, TakeRun, Create, Start, Run, CommandFails, TakeStop, TakeDestroy,
       ReleaseBegin, ReleaseDone, SelfStop, PublishStopped, uiVars

\* What the task thread of a session publishes, which is there.
LEMMA ThreadPublishes ==
  ASSUME IInv, NEW s \in Ids, ThreadStep(s) \/ TaskEnds(s)
  PROVE  /\ phase[s] # "none" /\ owner[s] \in Ids
         /\ \/ inbox' = inbox
            \/ Publish("Started")
            \/ TaskReport(s) /\ outcome[s] \in {"Finished", "Failed"} /\ Publish(outcome[s])
<1>1. queued[s] \/ tpc[s] # "idle"
  BY DEF ThreadStep, TaskPick, TaskAnnounce, TaskEnter, TaskEnds, TaskClear, TaskGate, TaskReport
<1>2. phase[s] # "none" /\ owner[s] \in Ids
  BY <1>1 DEF IInv, SessionsFit, SessionFits, SessionTypes
<1>3. tpc[s] = "report" => outcome[s] \in {"Finished", "Failed"}
  BY DEF IInv, SessionsFit, SessionFits, ThreadTypes
<1>4. inbox' = inbox \/ Publish("Started") \/ (TaskReport(s) /\ tpc[s] = "report" /\ Publish(outcome[s]))
  BY DEF ThreadStep, TaskPick, TaskAnnounce, TaskEnter, TaskEnds, TaskClear, TaskGate, TaskReport, uiVars
<1> QED
  BY <1>2, <1>3, <1>4

\* Where an event goes.
LEMMA PublishedLast ==
  ASSUME inbox \in Seq(Events), NEW event \in Events, Publish(event)
  PROVE  /\ Len(inbox) \in Nat /\ Len(inbox') = Len(inbox) + 1 /\ inbox'[Len(inbox')] = event
         /\ \A k \in 1 .. Len(inbox) : inbox'[k] = inbox[k]
BY DEF Publish

\* And where the next comes from.
LEMMA HandledFirst ==
  ASSUME inbox \in Seq(Events), inbox # <<>>, inbox' = Tail(inbox)
  PROVE  /\ Len(inbox) \in Nat \ {0} /\ Len(inbox') = Len(inbox) - 1
         /\ Head(inbox) = inbox[1] /\ 1 \in 1 .. Len(inbox)
         /\ \A k \in 1 .. Len(inbox') : k + 1 \in 1 .. Len(inbox) /\ inbox'[k] = inbox[k + 1]
OBVIOUS

\* Every step keeps the first instance alone while it is started.
LEMMA FirstAloneKept ==
  ASSUME IInv, FirstAlone, Next
  PROVE  FirstAlone'
<1>0. /\ inbox \in Seq(Events) /\ issued \in Nat /\ svc \in Nat /\ 1 # None
      /\ cmds \in [Ids -> Seq(Commands)]
  BY IdsNumbers DEF IInv, ScreenTypes, SystemTypes, None
<1> SUFFICES /\ svc' = 1 =>
                  /\ \A i \in Ids : i # 1 => cmds'[i] = <<>>
                  /\ \A s \in Ids : owner'[s] \in {None, 1}
                  /\ \A k \in 1 .. Len(inbox') : inbox'[k] # "Stopped"
             /\ issued' = 0 => inbox' = <<>>
  BY DEF FirstAlone
<1>1. CASE UserStep \/ HandleEvent
  <2>0. owner' = owner
    BY <1>1, MainKeeps DEF sessionVars
  <2>1. inbox' = inbox \/ (inbox # <<>> /\ inbox' = Tail(inbox))
    BY <1>1, MainInbox
  <2>2. issued = 0 => inbox' = <<>>
    BY <1>0, <2>1 DEF FirstAlone
  <2>3. (\A k \in 1 .. Len(inbox) : inbox[k] # "Stopped") => \A k \in 1 .. Len(inbox') : inbox'[k] # "Stopped"
    BY <1>0, <2>1, HandledFirst
  <2>4. CASE UNCHANGED <<systemVars, cmds>>
    BY <2>0, <2>2, <2>3, <2>4 DEF FirstAlone, systemVars
  <2>5. CASE issued + 1 \in Ids /\ \E op \in {"run", "stop"} : Deliver(op)
    <3>1. /\ issued' = issued + 1 /\ (svc # None => svc' = svc) /\ (svc = None => svc' = issued + 1)
          /\ \A j \in Ids : j # svc' => cmds'[j] = cmds[j]
      BY <2>5, Delivered DEF IInv
    <3>2. CASE svc' = 1 /\ svc = None
      <4>1. issued = 0
        BY <1>0, <3>1, <3>2
      <4>2. \A i \in Ids : cmds[i] = <<>> /\ phase[i] = "none"
        BY <4>1, IdsNumbers DEF IInv, NotYetIssued, Ids
      <4>3. \A s \in Ids : owner[s] = None
        BY <4>2 DEF IInv, SessionsFit, SessionFits
      <4> QED
        BY <1>0, <2>0, <2>2, <3>1, <3>2, <4>1, <4>2, <4>3
    <3>3. CASE svc' = 1 /\ svc # None
      BY <1>0, <2>0, <2>3, <3>1, <3>3 DEF FirstAlone
    <3> QED
      BY <1>0, <3>1, <3>2, <3>3
  <2>6. CASE svc \in Ids /\ Destroy(cmds) /\ UNCHANGED issued
    BY <1>0, <2>2, <2>6, Destroyed
  <2> QED
    BY <1>1, <2>4, <2>5, <2>6, MainKeeps
<1>2. ASSUME NEW i \in Ids, ServiceStep(i)
      PROVE  /\ svc' = 1 =>
                  /\ \A j \in Ids : j # 1 => cmds'[j] = <<>>
                  /\ \A s \in Ids : owner'[s] \in {None, 1}
                  /\ \A k \in 1 .. Len(inbox') : inbox'[k] # "Stopped"
             /\ issued' = 0 => inbox' = <<>>
  <2>1. cmds[i] # <<>> /\ issued' # 0
    <3>1. i <= issued /\ i \in Nat \ {0} /\ issued' = issued
      BY <1>2, ServiceHasCommand, ServiceKeeps, IdsNumbers DEF None
    <3> QED
      BY <1>0, <1>2, <3>1, ServiceHasCommand
  <2>2. CASE svc' = 1
    <3>1. svc = 1 /\ i = 1
      BY <1>0, <1>2, <2>1, <2>2, ServiceKeeps DEF FirstAlone
    <3>2. \A j \in Ids : j # 1 => cmds'[j] = <<>>
      BY <1>2, <3>1, OtherServicesKeep DEF FirstAlone
    <3>3. \A s \in Ids : owner'[s] \in {None, 1}
      BY <1>2, <3>1, CreatesFresh DEF FirstAlone, ServiceStep, TakeRun, Create, Start, Run, CommandFails, TakeStop,
                TakeDestroy, ReleaseBegin, ReleaseDone, SelfStop, PublishStopped, IInv, SessionTypes, sessionVars
    <3>4. ~PublishStopped(i)
      <4>1. wpc[i] = "publish" => Head(cmds[i]) = cmds[i][1] /\ 1 \in 1 .. Len(cmds[i]) /\ cmds[i][1].op = "destroy"
        BY <2>1, HeadOfQueue DEF IInv, HeadsFit, HeadFits, Op
      <4> QED
        BY <3>1, <4>1 DEF IInv, QueueShape, Shaped, PublishStopped
    <3>5. \A k \in 1 .. Len(inbox') : inbox'[k] # "Stopped"
      <4>1. inbox' = inbox \/ Publish("Failed")
        BY <1>2, <3>4, ServicePublishes
      <4>2. \A k \in 1 .. Len(inbox) : inbox[k] # "Stopped"
        BY <3>1 DEF FirstAlone
      <4>3. "Failed" \in Events
        BY DEF Events
      <4>4. CASE Publish("Failed")
        BY <1>0, <4>2, <4>3, <4>4, PublishedLast
      <4> QED
        BY <4>1, <4>2, <4>4
    <3> QED
      BY <2>1, <3>2, <3>3, <3>5
  <2> QED
    BY <2>1, <2>2
<1>3. ASSUME NEW s \in Ids, ThreadStep(s) \/ TaskEnds(s)
      PROVE  /\ svc' = 1 =>
                  /\ \A j \in Ids : j # 1 => cmds'[j] = <<>>
                  /\ \A t \in Ids : owner'[t] \in {None, 1}
                  /\ \A k \in 1 .. Len(inbox') : inbox'[k] # "Stopped"
             /\ issued' = 0 => inbox' = <<>>
  <2>0. svc' = svc /\ issued' = issued /\ cmds' = cmds /\ owner' = owner
    BY <1>3, ThreadKeeps DEF systemVars, sessionVars
  <2>1. issued # 0
    <3>1. s \in Nat \ {0} /\ phase[s] # "none"
      BY <1>3, ThreadPublishes, IdsNumbers DEF None
    <3> QED
      BY <1>0, <3>1 DEF IInv, NotYetIssued
  <2>2. CASE inbox' = inbox
    BY <2>0, <2>1, <2>2 DEF FirstAlone
  <2>3. ASSUME NEW event \in {"Started", "Finished", "Failed"}, Publish(event)
        PROVE  (\A k \in 1 .. Len(inbox) : inbox[k] # "Stopped") => \A k \in 1 .. Len(inbox') : inbox'[k] # "Stopped"
    <3>1. event \in Events /\ event # "Stopped"
      BY DEF Events
    <3> QED
      BY <1>0, <2>3, <3>1, PublishedLast
  <2> QED
    BY <1>3, <2>0, <2>1, <2>2, <2>3, ThreadPublishes DEF FirstAlone
<1> QED
  BY <1>1, <1>2, <1>3 DEF Next

\* A step that only leaves, moves up or takes away keeps one task out.
LEMMA NothingNew ==
  ASSUME OneTaskOut, svc' = 1 => svc = 1 /\ (running => running'),
         NEW d \in {0, 1}, NEW e \in {0, 1},
         \A k \in Nat : Waits(k)' => Waits(k + d),
         \A s \in Ids : Holds(s)' => Holds(s),
         \A s \in Ids : owner'[s] = 1 /\ queued'[s] => tpc'[s] = "idle",
         \A k \in Nat : Answers(k)' => Answers(k + e)
  PROVE  OneTaskOut'
<1>1. (\A k, l \in Nat : Waits(k) /\ Waits(l) => k = l)'
  BY DEF OneTaskOut
<1>2. (\A s, t \in Ids : Holds(s) /\ Holds(t) => s = t)'
  BY DEF OneTaskOut
<1>3. (\A k, l \in Nat : Answers(k) /\ Answers(l) => k = l)'
  BY DEF OneTaskOut
<1>4. (\A k \in Nat : Waits(k) => NoneHeld /\ NoneAnswers)'
  BY DEF OneTaskOut, NoneHeld, NoneAnswers
<1>5. (\A s \in Ids : Holds(s) => NoneAnswers)'
  BY DEF OneTaskOut, NoneAnswers
<1>6. (svc = 1 /\ ~running => NoneWaits /\ NoneHeld /\ NoneAnswers)'
  BY DEF OneTaskOut, NoneWaits, NoneHeld, NoneAnswers
<1> QED
  BY <1>1, <1>2, <1>3, <1>4, <1>5, <1>6 DEF OneTaskOut

\* One task waits in the queue.
LEMMA OneWaits ==
  ASSUME NEW m, \A k \in Nat : Waits(k)' => k = m, NoneHeld', NoneAnswers', svc' = 1 => running'
  PROVE  OneTaskOut'
BY DEF OneTaskOut, NoneHeld, NoneAnswers, Holds

\* One task is with a session.
LEMMA OneHeld ==
  ASSUME NEW m, \A s \in Ids : Holds(s)' => s = m, NoneWaits', NoneAnswers', svc' = 1 => running',
         \A s \in Ids : owner'[s] = 1 /\ queued'[s] => tpc'[s] = "idle"
  PROVE  OneTaskOut'
BY DEF OneTaskOut, NoneWaits, NoneAnswers

\* One task has been answered.
LEMMA OneAnswers ==
  ASSUME NEW m, \A k \in Nat : Answers(k)' => k = m, NoneWaits', NoneHeld', svc' = 1 => running'
  PROVE  OneTaskOut'
BY DEF OneTaskOut, NoneWaits, NoneHeld, Holds

\* None is asked for.
LEMMA NoneOut ==
  ASSUME NoneWaits', NoneHeld', NoneAnswers'
  PROVE  OneTaskOut'
BY DEF OneTaskOut, NoneWaits, NoneHeld, NoneAnswers, Holds

\* Which of the waiting tasks is where once the queues have changed.
LEMMA SameQueue ==
  ASSUME cmds'[1] = cmds[1], Answered => Answered', NEW k \in Nat, Waits(k)'
  PROVE  Waits(k)
BY DEF Waits

\* A delivery to the first instance adds one that waits, if it is a task.
LEMMA DeliveredWaits ==
  ASSUME IInv, issued + 1 \in Ids, 1 \in Ids, NEW op \in {"run", "stop"}, Deliver(op), Answered' = Answered,
         NEW k \in Nat, Waits(k)'
  PROVE  Waits(k) \/ (svc' = 1 /\ op = "run" /\ k = Len(cmds[1]) + 1)
<1>1. CASE svc' # 1
  <2>1. cmds'[1] = cmds[1]
    BY <1>1, Delivered DEF IInv
  <2> QED
    BY <2>1, SameQueue
<1>2. CASE svc' = 1
  <2>1. /\ Len(cmds[1]) \in Nat /\ Len(cmds'[1]) = Len(cmds[1]) + 1
        /\ \A l \in 1 .. Len(cmds[1]) : cmds'[1][l] = cmds[1][l]
        /\ cmds'[1][Len(cmds'[1])].op = op
    BY <1>2, Delivered DEF IInv
  <2> QED
    BY <1>2, <2>1 DEF Waits
<1> QED
  BY <1>1, <1>2

\* A destruction adds none.
LEMMA DestroyedWaits ==
  ASSUME svc \in Ids, NEW queues \in [Ids -> Seq(Commands)], Destroy(queues), NEW k \in 1 .. Len(cmds'[1]),
         cmds'[1][k].op = "run", 1 \in Ids
  PROVE  k \in 1 .. Len(queues[1]) /\ cmds'[1][k] = queues[1][k]
<1>1. CASE svc # 1
  BY <1>1, Destroyed
<1>2. CASE svc = 1
  <2>1. /\ Len(queues[1]) \in Nat /\ Len(cmds'[1]) = Len(queues[1]) + 1
        /\ \A l \in 1 .. Len(queues[1]) : cmds'[1][l] = queues[1][l]
        /\ cmds'[1][Len(cmds'[1])].op = "destroy"
    BY <1>2, Destroyed
  <2> QED
    BY <2>1
<1> QED
  BY <1>1, <1>2

\* The main thread moves the one task along or drops it.
LEMMA OutKeptByMain ==
  ASSUME IInv, FirstAlone, OneTaskOut, alarms' = 0, 1 \in Ids, UserStep \/ HandleEvent
  PROVE  OneTaskOut'
<1>0. /\ inbox \in Seq(Events) /\ issued \in Nat /\ svc \in Nat /\ 1 # None
      /\ cmds \in [Ids -> Seq(Commands)] /\ alarms \in Nat /\ queue \in Nat
  BY IdsNumbers, ConstantsAssumption DEF IInv, ScreenTypes, SystemTypes, UserTypes, None, ConstantsAssumption
<1>1. UNCHANGED <<wpc, then, owner, queued, tpc>>
  BY MainKeeps DEF serviceVars, sessionVars, threadVars
<1>2. /\ Answered' = Answered /\ \A s \in Ids : Holds(s)' = Holds(s)
      /\ \A s \in Ids : owner'[s] = 1 /\ queued'[s] => tpc'[s] = "idle"
  BY <1>1 DEF Answered, Holds, OneTaskOut
<1>3. NoneHeld => NoneHeld'
  BY <1>2 DEF NoneHeld
<1>4. ASSUME inbox' = inbox, svc' = 1 => svc = 1, NEW k \in Nat, Answers(k)' PROVE Answers(k + 0)
  BY <1>4 DEF Answers
<1>5. ASSUME inbox # <<>>, inbox' = Tail(inbox), svc' = 1 => svc = 1, NEW k \in Nat, Answers(k)'
      PROVE  Answers(k + 1) /\ k + 1 \in Nat \ {1}
  BY <1>0, <1>5, HandledFirst DEF Answers
\* A task delivered when none was out.
<1>6. ASSUME NoneWaits, NoneHeld, NoneAnswers', issued + 1 \in Ids, running', Deliver("run")
      PROVE  OneTaskOut'
  <2>1. \A k \in Nat : Waits(k)' => k = Len(cmds[1]) + 1
    BY <1>2, <1>6, DeliveredWaits DEF NoneWaits
  <2> QED
    BY <1>3, <1>6, <2>1, OneWaits
\* None was out and none is asked for.
<1>7. ASSUME NoneWaits, NoneHeld, NoneAnswers', UNCHANGED cmds PROVE OneTaskOut'
  <2>1. NoneWaits'
    BY <1>2, <1>7, SameQueue DEF NoneWaits
  <2> QED
    BY <1>3, <1>7, <2>1, NoneOut
<1>8. CASE PressStop
  <2>1. svc' = None /\ inbox' = inbox
    BY <1>8 DEF PressStop, Destroy
  <2>2. \A k \in Nat : Waits(k)' => Waits(k + 0)
    <3>1. CASE svc \in Ids /\ Destroy(cmds)
      BY <1>0, <1>2, <3>1, DestroyedWaits DEF Waits
    <3>2. CASE UNCHANGED cmds
      BY <1>2, <3>2, SameQueue
    <3> QED
      BY <1>8, <3>1, <3>2 DEF PressStop, IInv, SystemTypes
  <2>3. \A k \in Nat : ~Answers(k)'
    BY <1>0, <2>1 DEF Answers
  <2> QED
    BY <1>0, <1>2, <2>1, <2>2, <2>3, NothingNew
<1>9. CASE PressNotificationStop
  <2>1. svc # None /\ Deliver("stop") /\ UNCHANGED <<running, inbox>>
    BY <1>9 DEF PressNotificationStop, uiVars
  <2>2. issued + 1 \in Ids
    BY <2>1, <1>0, MainKeeps DEF Deliver, systemVars, Destroy
  <2>3. svc' = svc
    BY <2>1, <2>2, Delivered DEF IInv
  <2>4. \A k \in Nat : Waits(k)' => Waits(k + 0)
    BY <1>2, <2>1, <2>2, DeliveredWaits
  <2> QED
    BY <1>2, <1>4, <2>1, <2>3, <2>4, NothingNew
<1>10. CASE AlarmRings
  BY <1>0, <1>10 DEF AlarmRings
<1>11. CASE Select
  <2>1. UNCHANGED <<running, inbox, svc, cmds>>
    BY <1>11 DEF Select, uiVars, systemVars
  <2>2. \A k \in Nat : Waits(k)' => Waits(k + 0)
    BY <1>2, <2>1, SameQueue
  <2> QED
    BY <1>2, <1>4, <2>1, <2>2, NothingNew
<1>12. ASSUME NEW n \in 0 .. MaxRuns, PressStart(n) PROVE OneTaskOut'
  <2>0. ~running /\ inbox' = inbox /\ StartTask(n)
    BY <1>12 DEF PressStart
  <2>1. CASE running' /\ Deliver("run")
    <3>1. issued + 1 \in Ids
      BY <2>1, <1>0, MainKeeps DEF Deliver, systemVars, Destroy
    <3>2. /\ issued' = issued + 1 /\ (svc # None => svc' = svc) /\ (svc = None => svc' = issued + 1)
      BY <2>1, <3>1, Delivered DEF IInv
    <3>3. CASE svc' # 1
      <4>1. \A k \in Nat : Waits(k)' => Waits(k + 0)
        BY <1>2, <2>1, <3>1, <3>3, DeliveredWaits
      <4>2. \A k \in Nat : ~Answers(k)'
        BY <3>3 DEF Answers
      <4> QED
        BY <1>2, <3>3, <4>1, <4>2, NothingNew
    <3>4. CASE svc = 1
      <4>1. NoneWaits /\ NoneHeld /\ NoneAnswers
        BY <2>0, <3>4 DEF OneTaskOut
      <4>2. NoneAnswers'
        BY <1>4, <2>0, <3>4, <4>1 DEF NoneAnswers
      <4> QED
        BY <1>6, <2>1, <3>1, <4>1, <4>2
    <3>5. CASE svc = None /\ issued = 0
      <4>1. \A i \in Ids : cmds[i] = <<>> /\ phase[i] = "none"
        BY <3>5, IdsNumbers DEF IInv, NotYetIssued, Ids
      <4>2. NoneHeld
        BY <1>0, <4>1 DEF IInv, SessionsFit, SessionFits, NoneHeld, Holds
      <4>3. NoneWaits
        BY <4>1 DEF NoneWaits, Waits
      <4>4. NoneAnswers'
        BY <1>0, <2>0, <3>5 DEF FirstAlone, NoneAnswers, Answers
      <4> QED
        BY <1>6, <2>1, <3>1, <4>2, <4>3, <4>4
    <3> QED
      BY <1>0, <3>2, <3>3, <3>4, <3>5
  <2>2. CASE UNCHANGED <<systemVars, cmds>>
    <3>1. CASE svc = 1
      <4>1. NoneWaits /\ NoneHeld /\ NoneAnswers
        BY <2>0, <3>1 DEF OneTaskOut
      <4>2. NoneAnswers'
        BY <1>4, <2>0, <3>1, <4>1 DEF NoneAnswers
      <4> QED
        BY <1>7, <2>2, <4>1, <4>2
    <3>2. CASE svc # 1
      <4>1. \A k \in Nat : Waits(k)' => Waits(k + 0)
        BY <1>2, <2>2, SameQueue
      <4>2. svc' # 1 /\ \A k \in Nat : ~Answers(k)'
        BY <2>2, <3>2 DEF Answers, systemVars
      <4> QED
        BY <1>2, <4>1, <4>2, NothingNew
    <3> QED
      BY <3>1, <3>2
  <2> QED
    BY <2>0, <2>1, <2>2 DEF StartTask
<1>13. CASE HandleEvent
  <2>0. inbox # <<>> /\ inbox' = Tail(inbox) /\ issued # 0
    BY <1>13 DEF HandleEvent, FirstAlone
  <2>1. svc' = 1 => svc = 1
    <3>1. CASE issued + 1 \in Ids /\ \E op \in {"run", "stop"} : Deliver(op)
      BY <1>0, <2>0, <3>1, Delivered DEF IInv
    <3>2. CASE svc \in Ids /\ Destroy(cmds) /\ UNCHANGED issued
      BY <1>0, <3>2, Destroyed
    <3> QED
      BY <3>1, <3>2, MainKeeps DEF systemVars
  <2>2. CASE svc' # 1
    <3>1. \A k \in Nat : Waits(k)' => Waits(k + 0)
      <4>1. CASE UNCHANGED cmds
        BY <1>2, <4>1, SameQueue
      <4>2. CASE issued + 1 \in Ids /\ \E op \in {"run", "stop"} : Deliver(op)
        BY <1>2, <2>2, <4>2, DeliveredWaits
      <4>3. CASE svc \in Ids /\ Destroy(cmds)
        BY <1>0, <1>2, <4>3, DestroyedWaits DEF Waits
      <4> QED
        BY <4>1, <4>2, <4>3, MainKeeps
    <3>2. \A k \in Nat : ~Answers(k)'
      BY <2>2 DEF Answers
    <3> QED
      BY <1>2, <2>2, <3>1, <3>2, NothingNew
  <2>3. CASE svc' = 1 /\ Head(inbox) = "Started"
    <3>1. running' /\ UNCHANGED cmds
      BY <1>13, <2>3 DEF HandleEvent
    <3>2. \A k \in Nat : Waits(k)' => Waits(k + 0)
      BY <1>2, <3>1, SameQueue
    <3> QED
      BY <1>2, <1>5, <2>0, <2>1, <2>3, <3>1, <3>2, NothingNew
  <2>4. CASE svc' = 1 /\ Head(inbox) \in {"Finished", "Failed"}
    <3>1. Answers(1)
      BY <1>0, <2>0, <2>1, <2>4, HandledFirst DEF Answers
    <3>2. NoneWaits /\ NoneHeld
      BY <3>1 DEF OneTaskOut, NoneWaits, NoneHeld, NoneAnswers
    <3>3. NoneAnswers'
      <4>1. \A k \in Nat : Answers(k) => k = 1
        BY <3>1 DEF OneTaskOut
      <4> QED
        BY <1>5, <2>0, <2>1, <4>1 DEF NoneAnswers
    <3>4. UNCHANGED cmds \/ (running' /\ Deliver("run"))
      BY <1>13, <2>4 DEF HandleEvent, StartTask
    <3>5. Deliver("run") => issued + 1 \in Ids
      BY <1>0, MainKeeps DEF Deliver, systemVars, Destroy
    <3> QED
      BY <1>6, <1>7, <3>2, <3>3, <3>4, <3>5
  <2>5. CASE svc' = 1 /\ Head(inbox) = "Stopped"
    BY <1>0, <2>0, <2>1, <2>5, HandledFirst DEF FirstAlone
  <2> QED
    BY <1>13, <2>2, <2>3, <2>4, <2>5 DEF HandleEvent
<1> QED
  BY <1>8, <1>9, <1>10, <1>11, <1>12, <1>13 DEF UserStep

\* A service other than the first leaves the task asked of the first alone.
LEMMA OutKeptByOthers ==
  ASSUME IInv, FirstAlone, OneTaskOut, 1 \in Ids, NEW i \in Ids, i # 1, ServiceStep(i)
  PROVE  OneTaskOut'
<1>1. svc # 1 /\ svc' # 1
  BY ServiceHasCommand, ServiceKeeps, IdsNumbers DEF FirstAlone
<1>2. cmds'[1] = cmds[1] /\ Answered' = Answered
  BY OtherServicesKeep DEF Answered
<1>3. \A s \in Ids : owner'[s] = 1 => owner[s] = 1 /\ queued'[s] = queued[s] /\ tpc'[s] = tpc[s]
  <2> TAKE s \in Ids
  <2>1. CASE s # agent[i] /\ (wpc[i] = "create" => s # Head(cmds[i]).id)
    BY <2>1, OtherSessionsKeep, ServiceKeeps
  <2>2. CASE wpc[i] = "create" /\ s = Head(cmds[i]).id
    <3>1. owner[s] = None /\ owner'[s] \in {None, i}
      BY <2>2, CreatesFresh DEF ServiceStep, TakeRun, Create, Start, Run, CommandFails, TakeStop,
                TakeDestroy, ReleaseBegin, ReleaseDone, SelfStop, PublishStopped, IInv, SessionTypes, sessionVars,
                SessionsFit, SessionFits
    <3> QED
      BY <3>1 DEF None
  <2>3. CASE s = agent[i]
    <3>1. owner[s] = i /\ wpc[i] # "create"
      BY <2>3, IdsNumbers DEF IInv, AgentsOwned, AgentsFit, AgentFits
    <3>2. owner' = owner
      BY <3>1 DEF ServiceStep, TakeRun, Create, Start, Run, CommandFails, TakeStop,
                TakeDestroy, ReleaseBegin, ReleaseDone, SelfStop, PublishStopped, sessionVars
    <3> QED
      BY <3>1, <3>2
  <2> QED
    BY <2>1, <2>2, <2>3
<1>4. \A k \in Nat : Waits(k)' => Waits(k + 0)
  BY <1>2, SameQueue
<1>5. \A s \in Ids : Holds(s)' => Holds(s)
  BY <1>3 DEF Holds
<1>6. \A s \in Ids : owner'[s] = 1 /\ queued'[s] => tpc'[s] = "idle"
  BY <1>3 DEF OneTaskOut
<1>7. \A k \in Nat : ~Answers(k)'
  BY <1>1 DEF Answers
<1> QED
  BY <1>1, <1>4, <1>5, <1>6, <1>7, NothingNew

\* Where the head of the first instance's queue waits.
LEMMA HeadWaits ==
  ASSUME IInv, OneTaskOut, 1 \in Ids, wpc[1] \in {"run", "fail"}
  PROVE  /\ Waits(1) /\ NoneHeld /\ NoneAnswers /\ (svc = 1 => running)
         /\ \A k \in Nat : Waits(k) => k = 1
         /\ cmds[1] \in Seq(Commands)
<1>1. cmds[1] # <<>> /\ Op(1) = "run" /\ cmds[1] \in Seq(Commands)
  BY DEF IInv, HeadsFit, HeadFits, SystemTypes
<1>2. Head(cmds[1]) = cmds[1][1] /\ 1 \in 1 .. Len(cmds[1])
  BY <1>1, HeadOfQueue DEF IInv
<1>3. Waits(1)
  BY <1>1, <1>2 DEF Waits, Answered, Op
<1> QED
  BY <1>1, <1>3 DEF OneTaskOut, NoneWaits

\* The first instance moves it along, and is never busy when it gets to it.
LEMMA OutKeptByFirst ==
  ASSUME IInv, FirstAlone, BusyHasTask, OneTaskOut, 1 \in Ids, ServiceStep(1)
  PROVE  OneTaskOut' /\ ~(Run(1) /\ busy[agent[1]])
<1>0. /\ inbox \in Seq(Events) /\ cmds \in [Ids -> Seq(Commands)] /\ 1 # None /\ tpc' = tpc /\ running' = running
      /\ svc' = 1 => svc = 1
  BY ServiceKeeps DEF IInv, ScreenTypes, SystemTypes, None
\* Sessions hold what they held, and a new one holds nothing.
<1>1. ASSUME ~Run(1)
      PROVE  /\ \A s \in Ids : Holds(s)' => Holds(s)
             /\ \A s \in Ids : owner'[s] = 1 /\ queued'[s] => tpc'[s] = "idle"
  <2>1. ASSUME NEW s \in Ids PROVE queued'[s] => queued[s]
    BY <1>1 DEF ServiceStep, TakeRun, Create, Start, CommandFails, TakeStop, TakeDestroy, ReleaseBegin,
           ReleaseDone, SelfStop, PublishStopped, threadVars, IInv, ThreadTypes
  <2>2. ASSUME NEW s \in Ids, owner'[s] = 1, queued[s] \/ tpc[s] # "idle" PROVE owner[s] = 1
    <3>1. phase[s] # "none"
      BY <2>2 DEF IInv, SessionsFit, SessionFits
    <3>2. wpc[1] = "create" => s # Head(cmds[1]).id
      BY <3>1, CreatesFresh
    <3>3. CASE s # agent[1]
      BY <2>2, <3>2, <3>3, OtherSessionsKeep
    <3>4. CASE s = agent[1]
      BY <3>4, IdsNumbers DEF IInv, AgentsOwned
    <3> QED
      BY <3>3, <3>4
  <2> QED
    BY <1>0, <2>1, <2>2 DEF Holds, OneTaskOut
<1>2. CASE TakeRun(1) \/ Create(1) \/ Start(1) \/ TakeStop(1) \/ TakeDestroy(1) \/ ReleaseBegin(1) \/ ReleaseDone(1)
  <2>1. ~Run(1) /\ UNCHANGED <<cmds, inbox, svc>>
    BY <1>2 DEF TakeRun, Create, Start, TakeStop, TakeDestroy, ReleaseBegin, ReleaseDone, Run, uiVars, systemVars
  <2>2. Answered => Answered'
    <3> USE DEF Answered, Goto, Release, IInv, ServiceTypes
    <3>1. CASE TakeRun(1) \/ Create(1) \/ Start(1) \/ TakeStop(1) \/ TakeDestroy(1)
      BY <3>1 DEF TakeRun, Create, Start, TakeStop, TakeDestroy
    <3>2. CASE ReleaseBegin(1)
      BY <3>2 DEF ReleaseBegin
    <3>3. CASE ReleaseDone(1)
      BY <3>3 DEF ReleaseDone
    <3> QED
      BY <1>2, <3>1, <3>2, <3>3
  <2>3. \A k \in Nat : Waits(k)' => Waits(k + 0)
    BY <2>1, <2>2, SameQueue
  <2>4. \A k \in Nat : Answers(k)' => Answers(k + 0)
    BY <2>1 DEF Answers
  <2> QED
    BY <1>0, <1>1, <2>1, <2>3, <2>4, NothingNew
<1>3. CASE Run(1)
  <2>1. /\ Waits(1) /\ NoneHeld /\ NoneAnswers /\ (svc = 1 => running)
        /\ \A k \in Nat : Waits(k) => k = 1
    BY <1>3, HeadWaits DEF Run
  <2>2. agent[1] \in Ids /\ phase[agent[1]] = "open" /\ owner[agent[1]] = 1
    BY <1>3 DEF Run, IInv, AgentsFit, AgentFits, AgentsOwned, ServiceTypes
  <2>3. ~busy[agent[1]]
    BY <2>1, <2>2 DEF BusyHasTask, NoneHeld, Holds
  <2>4. /\ queued' = [queued EXCEPT ![agent[1]] = TRUE] /\ UNCHANGED <<inbox, svc, owner>>
        /\ cmds' = Popping(cmds, 1) /\ wpc'[1] = "idle" /\ cmds[1] # <<>>
    BY <1>3, <2>3 DEF Run, Goto, Pop, Popping, sessionVars, systemVars, IInv, ServiceTypes, HeadsFit, HeadFits
  <2>5. \A s \in Ids : Holds(s)' => s = agent[1]
    BY <1>0, <2>1, <2>4 DEF Holds, NoneHeld, IInv, ThreadTypes
  <2>6. \A s \in Ids : owner'[s] = 1 /\ queued'[s] => tpc'[s] = "idle"
    BY <1>0, <2>1, <2>2, <2>4 DEF Holds, NoneHeld, IInv, ThreadTypes
  <2>7. NoneWaits'
    <3>0. \A k \in 1 .. Len(Popping(cmds, 1)[1]) :
            k + 1 \in 1 .. Len(cmds[1]) /\ Popping(cmds, 1)[1][k] = cmds[1][k + 1]
      <4>1. cmds[1] # <<>>
        BY <2>4
      <4> QED
        BY <1>0, <4>1, Popped
    <3>1. \A k \in 1 .. Len(cmds'[1]) : k + 1 \in 1 .. Len(cmds[1]) /\ cmds'[1][k] = cmds[1][k + 1]
      BY <2>4, <3>0
    <3>2. \A k \in 1 .. Len(cmds'[1]) : cmds'[1][k].op = "run" => Waits(k + 1)
      BY <3>1 DEF Waits
    <3> QED
      BY <2>1, <3>2 DEF NoneWaits, Waits
  <2>8. NoneAnswers'
    BY <2>1, <2>4 DEF NoneAnswers, Answers
  <2> QED
    BY <1>0, <2>1, <2>3, <2>5, <2>6, <2>7, <2>8, OneHeld
<1>4. CASE CommandFails(1)
  <2>1. /\ Waits(1) /\ NoneHeld /\ NoneAnswers /\ (svc = 1 => running)
        /\ \A k \in Nat : Waits(k) => k = 1
    BY <1>4, HeadWaits DEF CommandFails
  <2>2. ~Run(1) /\ Publish("Failed") /\ UNCHANGED <<cmds, svc>> /\ Answered'
    BY <1>4 DEF CommandFails, Run, Release, Goto, Answered, systemVars, IInv, ServiceTypes
  <2>3. NoneWaits'
    BY <2>1, <2>2 DEF NoneWaits, Waits
  <2>4. NoneHeld'
    BY <1>1, <2>1, <2>2 DEF NoneHeld
  <2>5. \A k \in Nat : Answers(k)' => k = Len(inbox')
    <3>1. "Failed" \in Events
      BY DEF Events
    <3>2. \A k \in 1 .. Len(inbox') : k # Len(inbox') => k \in 1 .. Len(inbox) /\ inbox'[k] = inbox[k]
      BY <1>0, <2>2, <3>1, PublishedLast
    <3> QED
      BY <2>1, <2>2, <3>2 DEF NoneAnswers, Answers
  <2> QED
    BY <1>0, <2>1, <2>2, <2>3, <2>4, <2>5, OneAnswers
<1>5. CASE SelfStop(1) \/ PublishStopped(1)
  <2>1. ~Run(1) /\ cmds[1] # <<>> /\ wpc'[1] = "idle"
    BY <1>5 DEF SelfStop, PublishStopped, Run, Goto, IInv, ServiceTypes, HeadsFit, HeadFits
  <2>2. ASSUME NEW k \in 1 .. Len(Popping(cmds, 1)[1]), Popping(cmds, 1)[1][k].op = "run"
        PROVE  Waits(k + 1)
    <3>1. k + 1 \in 1 .. Len(cmds[1]) /\ Popping(cmds, 1)[1][k] = cmds[1][k + 1]
      BY <1>0, <2>1, Popped
    <3> QED
      BY <2>2, <3>1 DEF Waits
  <2>3. \A k \in Nat : Waits(k)' => Waits(k + 1)
    <3>1. CASE cmds' = Popping(cmds, 1)
      BY <2>2, <3>1 DEF Waits
    <3>2. CASE svc = 1 /\ Destroy(Popping(cmds, 1))
      <4>1. Popping(cmds, 1) \in [Ids -> Seq(Commands)]
        BY <1>0, <2>1, Popped
      <4>2. \A k \in 1 .. Len(cmds'[1]) : cmds'[1][k].op = "run" =>
              k \in 1 .. Len(Popping(cmds, 1)[1]) /\ cmds'[1][k] = Popping(cmds, 1)[1][k]
        BY <3>2, <4>1, DestroyedWaits
      <4> QED
        BY <2>2, <4>2 DEF Waits
    <3>3. wpc[1] \in {"selfStop", "publish"}
      BY <1>5 DEF SelfStop, PublishStopped
    <3> QED
      BY <3>1, <3>2, <3>3, ServiceQueues
  <2>4. \A k \in Nat : Answers(k)' => Answers(k + 0)
    <3>1. CASE inbox' = inbox
      BY <1>0, <3>1 DEF Answers
    <3>2. CASE Publish("Stopped")
      <4>1. "Stopped" \in Events
        BY DEF Events
      <4>2. /\ Len(inbox) \in Nat /\ Len(inbox') = Len(inbox) + 1 /\ inbox'[Len(inbox')] = "Stopped"
            /\ \A k \in 1 .. Len(inbox) : inbox'[k] = inbox[k]
        BY <1>0, <3>2, <4>1, PublishedLast
      <4> QED
        BY <1>0, <4>2 DEF Answers
    <3> QED
      BY <1>5, <3>1, <3>2 DEF SelfStop, PublishStopped, uiVars
  <2> QED
    BY <1>0, <1>1, <2>1, <2>3, <2>4, NothingNew
<1> QED
  BY <1>2, <1>3, <1>4, <1>5 DEF ServiceStep

\* Task threads move it along.
LEMMA OutKeptByThreads ==
  ASSUME IInv, FirstAlone, OneTaskOut, 1 \in Ids, NEW s \in Ids, ThreadStep(s) \/ TaskEnds(s)
  PROVE  OneTaskOut'
<1>0. /\ inbox \in Seq(Events) /\ 1 # None
      /\ UNCHANGED <<running, svc, cmds, wpc, then, owner>>
  BY ThreadKeeps DEF IInv, ScreenTypes, None, systemVars, serviceVars, sessionVars
<1>1. \A k \in Nat : Waits(k)' => Waits(k + 0)
  BY <1>0, SameQueue DEF Answered
<1>2. \A t \in Ids : t # s => queued'[t] = queued[t] /\ tpc'[t] = tpc[t]
  BY OtherThreadsKeep DEF IInv
<1>3. CASE owner[s] # 1
  <2>1. svc # 1
    BY <1>3, ThreadPublishes, IdsNumbers DEF FirstAlone
  <2>2. \A t \in Ids : Holds(t)' => Holds(t)
    BY <1>0, <1>2, <1>3 DEF Holds
  <2>3. \A t \in Ids : owner'[t] = 1 /\ queued'[t] => tpc'[t] = "idle"
    BY <1>0, <1>2, <1>3 DEF OneTaskOut
  <2>4. \A k \in Nat : ~Answers(k)'
    BY <1>0, <2>1 DEF Answers
  <2> QED
    BY <1>0, <1>1, <2>1, <2>2, <2>3, <2>4, NothingNew
<1>4. CASE owner[s] = 1
  <2>1. Holds(s)
    BY <1>4 DEF Holds, ThreadStep, TaskPick, TaskAnnounce, TaskEnter, TaskEnds, TaskClear, TaskGate, TaskReport
  <2>2. /\ NoneWaits /\ NoneAnswers /\ (svc = 1 => running)
        /\ \A t \in Ids : Holds(t) => t = s
    BY <2>1 DEF OneTaskOut, NoneWaits, NoneHeld
  <2>3. NoneWaits'
    BY <1>1, <2>2 DEF NoneWaits
  <2>4. \A t \in Ids : Holds(t)' => t = s
    BY <1>0, <1>2, <2>2 DEF Holds
  <2>5. queued[s] => tpc[s] = "idle"
    BY <1>4 DEF OneTaskOut
  <2>6. queued'[s] => tpc'[s] = "idle"
    BY <2>5 DEF ThreadStep, TaskPick, TaskAnnounce, TaskEnter, TaskEnds, TaskClear, TaskGate, TaskReport,
           TaskLeaves, IInv, ThreadTypes
  <2>7. \A t \in Ids : owner'[t] = 1 /\ queued'[t] => tpc'[t] = "idle"
    BY <1>0, <1>2, <2>6 DEF OneTaskOut
  <2>8. CASE inbox' = inbox \/ Publish("Started")
    <3>1. NoneAnswers'
      <4>1. CASE inbox' = inbox
        BY <1>0, <2>2, <4>1 DEF NoneAnswers, Answers
      <4>2. CASE Publish("Started")
        <5>1. "Started" \in Events
          BY DEF Events
        <5>2. /\ Len(inbox) \in Nat /\ Len(inbox') = Len(inbox) + 1 /\ inbox'[Len(inbox')] = "Started"
              /\ \A k \in 1 .. Len(inbox) : inbox'[k] = inbox[k]
          BY <1>0, <4>2, <5>1, PublishedLast
        <5> QED
          BY <1>0, <2>2, <5>2 DEF NoneAnswers, Answers
      <4> QED
        BY <2>8, <4>1, <4>2
    <3> QED
      BY <1>0, <2>2, <2>3, <2>4, <2>7, <3>1, OneHeld
  <2>9. CASE TaskReport(s) /\ outcome[s] \in {"Finished", "Failed"} /\ Publish(outcome[s])
    <3>1. outcome[s] \in Events
      BY <2>9 DEF Events
    <3>2. \A k \in 1 .. Len(inbox') : k # Len(inbox') => k \in 1 .. Len(inbox) /\ inbox'[k] = inbox[k]
      BY <1>0, <2>9, <3>1, PublishedLast
    <3>3. \A k \in Nat : Answers(k)' => k = Len(inbox')
      BY <1>0, <2>2, <3>2 DEF NoneAnswers, Answers
    <3>4. tpc[s] = "report" /\ tpc'[s] = "idle" /\ queued'[s] = queued[s]
      BY <2>9 DEF TaskReport, TaskLeaves, IInv, ThreadTypes
    <3>5. NoneHeld'
      BY <2>4, <2>5, <3>4 DEF NoneHeld, Holds
    <3> QED
      BY <1>0, <2>2, <2>3, <3>3, <3>5, OneAnswers
  <2> QED
    BY <2>8, <2>9, ThreadPublishes
<1> QED
  BY <1>3, <1>4

\* Every step keeps the one task in one place.
LEMMA QueueInvKept ==
  ASSUME IInv, QueueInv, Next
  PROVE  QueueInv'
<1>1. BusyHasTask' /\ FirstAlone'
  BY BusyHasTaskKept, FirstAloneKept DEF QueueInv
<1>2. ASSUME alarms' = 0, 1 \in Ids PROVE OneTaskOut' /\ 1 \notin rejected'
  <2>1. alarms = 0
    <3>1. alarms' = alarms \/ (alarms' = alarms + 1 /\ alarms \in Nat)
      <4>1. UserStep \/ HandleEvent => alarms' = alarms \/ alarms' = alarms + 1
        BY DEF UserStep, PressStop, PressNotificationStop, AlarmRings, Select, PressStart, HandleEvent, userVars
      <4>2. \A i \in Ids : ServiceStep(i) => alarms' = alarms
        BY ServiceKeeps DEF userVars
      <4>3. \A s \in Ids : ThreadStep(s) \/ TaskEnds(s) => alarms' = alarms
        BY ThreadKeeps DEF userVars
      <4>4. alarms \in Nat
        BY ConstantsAssumption DEF IInv, UserTypes, ConstantsAssumption
      <4> QED
        BY <4>1, <4>2, <4>3, <4>4 DEF Next
    <3> QED
      BY <1>2, <3>1
  <2>2. OneTaskOut /\ 1 \notin rejected /\ BusyHasTask /\ FirstAlone
    BY <1>2, <2>1 DEF QueueInv
  <2>3. CASE UserStep \/ HandleEvent
    BY <1>2, <2>2, <2>3, OutKeptByMain, MainKeeps DEF history
  <2>4. ASSUME NEW i \in Ids, ServiceStep(i) PROVE OneTaskOut' /\ 1 \notin rejected'
    <3>1. rejected' = rejected \/ (Run(i) /\ busy[agent[i]] /\ rejected' = rejected \cup {i})
      BY <2>4 DEF ServiceStep, TakeRun, Create, Start, Run, CommandFails, TakeStop, TakeDestroy,
                ReleaseBegin, ReleaseDone, SelfStop, PublishStopped, history
    <3>2. CASE i = 1
      BY <1>2, <2>2, <2>4, <3>1, <3>2, OutKeptByFirst
    <3>3. CASE i # 1
      BY <1>2, <2>2, <2>4, <3>1, <3>3, OutKeptByOthers
    <3> QED
      BY <3>2, <3>3
  <2>5. ASSUME NEW s \in Ids, ThreadStep(s) \/ TaskEnds(s) PROVE OneTaskOut' /\ 1 \notin rejected'
    BY <1>2, <2>2, <2>5, OutKeptByThreads, ThreadKeeps DEF history
  <2> QED
    BY <2>3, <2>4, <2>5 DEF Next
<1> QED
  BY <1>1, <1>2 DEF QueueInv

\* As long as no alarm rings, the first service instance refuses no task.
THEOREM QueueAccepted == Spec => []QueueIsAccepted
<1>1. Init => QueueInv
  <2> SUFFICES ASSUME Init PROVE QueueInv
    OBVIOUS
  <2> USE DEF Init, None
  <2>1. BusyHasTask /\ FirstAlone
    BY DEF BusyHasTask, FirstAlone
  <2>2. 1 \in Ids => NoneWaits /\ NoneHeld /\ NoneAnswers /\ 1 \notin rejected
    BY DEF NoneWaits, Waits, NoneHeld, Holds, NoneAnswers, Answers
  <2>3. 1 \in Ids => OneTaskOut
    BY <2>2 DEF OneTaskOut, NoneWaits, NoneHeld, NoneAnswers
  <2> QED
    BY <2>1, <2>2, <2>3 DEF QueueInv
<1>2. IInv /\ QueueInv /\ [Next]_vars => QueueInv'
  <2> SUFFICES ASSUME IInv, QueueInv, [Next]_vars PROVE QueueInv'
    OBVIOUS
  <2>1. CASE UNCHANGED vars
    <3> USE <2>1 DEF vars, uiVars, userVars, systemVars, serviceVars, sessionVars, threadVars, history
    <3>1. BusyHasTask' /\ FirstAlone'
      BY DEF QueueInv, BusyHasTask, FirstAlone
    <3>2. OneTaskOut' = OneTaskOut
      BY DEF OneTaskOut, NoneWaits, NoneHeld, NoneAnswers, Waits, Holds, Answers, Answered
    <3> QED
      BY <3>1, <3>2 DEF QueueInv
  <2> QED
    BY <2>1, QueueInvKept
<1>3. IInv /\ QueueInv => QueueIsAccepted
  BY DEF IInv, HistoryTypes, QueueInv, QueueIsAccepted
<1> QED
  BY <1>1, <1>2, <1>3, InvHolds, PTL DEF Spec
=============================================================================
