--------------------------- MODULE GoBindingProofs ---------------------------
(***************************************************************************)
(* Proofs about GoBinding, for any objects, callbacks and threads.         *)
(***************************************************************************)
EXTENDS GoBinding, TLAPS

-----------------------------------------------------------------------------
(* The libraries                                                            *)

\* How often library i is loaded while a call is in progress
Counted(i) ==
  LET n == refs[Libraries[i]] IN
  /\ task.call = "none" => n = IF inited THEN 1 ELSE 0
  /\ task.call = "open" => n = IF i < task.next THEN 1 ELSE 0
  /\ task.call = "options" => n = 1
  /\ task.call \in {"undo", "release"} => n = IF i < task.next THEN 0 ELSE 1

LoadInv ==
  /\ LibraryTypeOK
  /\ task.call \in {"none", "options"} => task.next = 1
  /\ task.call \in {"open", "options", "undo"} => ~inited
  /\ task.call = "release" => inited
  /\ ~failed => \A i \in 1..4 : Counted(i)

LEMMA LibraryNames ==
  /\ Len(Libraries) = 4
  /\ \A i \in 1..4 : Libraries[i] \in Library
  /\ \A i, j \in 1..4 : Libraries[i] = Libraries[j] => i = j
  /\ \A l \in Library : \E i \in 1..4 : l = Libraries[i]
BY DEF Libraries, Library

LEMMA LoadInit == LibraryInit => LoadInv
<1> SUFFICES ASSUME LibraryInit PROVE LoadInv
  OBVIOUS
<1>1. task.call = "none" /\ task.next = 1 /\ ~inited
  BY DEF LibraryInit, Free
<1>2. \A i \in 1..4 : refs[Libraries[i]] = 0
  BY LibraryNames DEF LibraryInit
<1>3. LibraryTypeOK
  <2>1. refs \in [Library -> 0..MaxOpens]
    BY OpensAssumption DEF LibraryInit
  <2>2. task \in [call : Calls, next : 1..4]
    BY DEF LibraryInit, Free, Calls
  <2> QED BY <2>1, <2>2 DEF LibraryInit, LibraryTypeOK
<1> QED BY <1>1, <1>2, <1>3 DEF LoadInv, Counted

LEMMA OpenStep == ASSUME LoadInv, NEW l, Open(l) PROVE LoadInv'
<1>1. task.next \in 1..4 /\ l = Libraries[task.next] /\ l \in Library
  BY LibraryNames DEF Open, LoadInv, LibraryTypeOK
<1>2. LibraryTypeOK'
  BY <1>1, OpensAssumption, LibraryNames DEF Open, LoadInv, LibraryTypeOK, Calls
<1>3. ASSUME ~failed', NEW i \in 1..4 PROVE Counted(i)'
  <2>1. refs'[Libraries[i]] = IF i = task.next THEN refs[l] + 1 ELSE refs[Libraries[i]]
    BY <1>1, LibraryNames DEF Open, LoadInv, LibraryTypeOK
  <2>2. refs[Libraries[i]] = IF i < task.next THEN 1 ELSE 0
    BY <1>3 DEF Open, LoadInv, Counted
  <2>3. refs'[Libraries[i]] = IF i <= task.next THEN 1 ELSE 0
    BY <2>1, <2>2, <1>1
  <2>4. task' = IF task.next = 4 THEN [call |-> "options", next |-> 1] ELSE [call |-> "open", next |-> task.next + 1]
    BY LibraryNames DEF Open, LoadInv, LibraryTypeOK
  <2> QED BY <2>3, <2>4, <1>1 DEF Counted
<1> QED BY <1>1, <1>2, <1>3, LibraryNames DEF Open, LoadInv, LibraryTypeOK

LEMMA CloseStep == ASSUME LoadInv, Close PROVE LoadInv'
<1>1. task.next \in 1..4 /\ Libraries[task.next] \in Library
  BY LibraryNames DEF LoadInv, LibraryTypeOK
<1>2. LibraryTypeOK'
  BY <1>1, OpensAssumption, LibraryNames DEF Close, LoadInv, LibraryTypeOK, Calls, Free
<1>3. ASSUME ~failed', NEW i \in 1..4 PROVE Counted(i)'
  <2>1. refs'[Libraries[i]] = IF i = task.next THEN refs[Libraries[i]] - 1 ELSE refs[Libraries[i]]
    BY <1>1, LibraryNames DEF Close, LoadInv, LibraryTypeOK
  <2>2. refs[Libraries[i]] = IF i < task.next THEN 0 ELSE 1
    BY <1>3 DEF Close, LoadInv, Counted
  <2>3. refs'[Libraries[i]] = IF i <= task.next THEN 0 ELSE 1
    BY <2>1, <2>2, <1>1
  <2>4. CASE task.next = 4
    <3>1. task'.call = "none" /\ inited' = FALSE
      BY <2>4, LibraryNames DEF Close, LoadInv, LibraryTypeOK, Free
    <3>2. refs'[Libraries[i]] = 0
      BY <2>3, <2>4
    <3> QED BY <3>1, <3>2 DEF Counted
  <2>5. CASE task.next # 4
    <3>1. task' = [call |-> task.call, next |-> task.next + 1]
      BY <2>5, LibraryNames DEF Close, LoadInv, LibraryTypeOK
    <3> QED BY <3>1, <2>3, <1>1 DEF Counted, Close
  <2> QED BY <2>4, <2>5
<1> QED BY <1>1, <1>2, <1>3, LibraryNames DEF Close, LoadInv, LibraryTypeOK, Free

LEMMA LoadStep == LoadInv /\ [LibraryNext]_libraryVars => LoadInv'
<1> SUFFICES ASSUME LoadInv, [LibraryNext]_libraryVars PROVE LoadInv'
  OBVIOUS
<1> USE DEF LoadInv, LibraryTypeOK, Counted
<1>1. CASE InitBegin BY <1>1 DEF InitBegin, Calls, Free
<1>2. CASE InitFramework BY <1>2, OpenStep DEF InitFramework
<1>3. CASE InitToolkit BY <1>3, OpenStep DEF InitToolkit
<1>4. CASE InitAgentServer BY <1>4, OpenStep DEF InitAgentServer
<1>5. CASE InitAgentClient BY <1>5, OpenStep DEF InitAgentClient
<1>6. CASE OpenFails BY <1>6 DEF OpenFails, Calls, Free
<1>7. CASE InitDone BY <1>7 DEF InitDone, Calls, Free
<1>8. CASE OptionFails BY <1>8 DEF OptionFails, Calls
<1>9. CASE ReleaseBegin BY <1>9 DEF ReleaseBegin, Calls, Free
<1>10. CASE Close BY <1>10, CloseStep
<1>11. CASE CloseFails BY <1>11 DEF CloseFails, Calls, Free
<1>12. CASE UNCHANGED libraryVars BY <1>12 DEF libraryVars
<1> QED BY <1>1, <1>2, <1>3, <1>4, <1>5, <1>6, <1>7, <1>8, <1>9, <1>10, <1>11, <1>12
  DEF LibraryNext

\* A step of GoBinding is a step of the libraries, or leaves them alone.
LEMMA LibraryPart == [Next]_vars => [LibraryNext]_libraryVars
BY DEF Next, UseObjects, UseLibrary, vars, libraryVars

\* The binding says it is initialised exactly when its libraries are loaded, unless
\* one could not be opened or closed (Init and Release of maa.go).
THEOREM LibrariesFollow == Spec => []LibrariesFollowInited
<1>1. Init => LoadInv
  BY LoadInit DEF Init
<1>2. LoadInv /\ [Next]_vars => LoadInv'
  BY LoadStep, LibraryPart
<1>3. LoadInv => LibrariesFollowInited
  <2> SUFFICES ASSUME LoadInv, task = Free, ~failed, NEW l \in Library
               PROVE refs[l] = IF inited THEN 1 ELSE 0
    BY DEF LibrariesFollowInited
  <2>1. PICK i \in 1..4 : l = Libraries[i]
    BY LibraryNames
  <2> QED BY <2>1 DEF LoadInv, Counted, Free
<1> QED BY <1>1, <1>2, <1>3, PTL DEF Spec

-----------------------------------------------------------------------------
(* The handles: types                                                       *)

\* What an operation is about, by where it is
ObjectPCs == {"set", "set_custom", "store_custom", "native_add", "store_sink",
  "lock_remove", "drop_sink", "native_remove", "lock_clear", "drop_sinks", "native_clear",
  "native_register", "store_name", "native_unregister", "delete_name",
  "native_clear_names", "delete_names", "lock_destroy", "drop_entry", "native_destroy"}
ServerPCs == {"server_sink", "server_name"}
NoPCs == {"idle", "create_custom", "found", "missing"}
HoldingPCs == {"create_custom", "set_custom", "store_custom", "native_add", "store_sink",
  "native_register", "store_name", "native_unregister", "delete_name"} \cup ServerPCs

OperationOK(do) ==
  /\ do \in Doing
  /\ do.pc \in ObjectPCs => do.h \in Handle
  /\ do.pc \in ServerPCs => do.h = Server
  /\ do.pc = "unregister" => do.h \in Handle \cup {Server}
  /\ do.pc \in NoPCs => do.h = None
  /\ do.pc \in HoldingPCs \cup {"found", "missing"} => do.slot \in Slot
  /\ do.pc \in {"create_custom", "native_add", "native_register"} \cup ServerPCs =>
       \A cb \in do.cbs : cb[1] = KindOf(do.slot[1])
  /\ do.pc \in {"native_clear_names", "delete_names"} => do.slot \in NameSorts \X {None}
  /\ do.pc = "unregister" => do.slot \in Slot \cup (NameSorts \X {None})
  /\ do.pc \in {"create_custom", "set_custom", "store_custom"} => do.slot = Own
  /\ do.pc \in {"native_add", "store_sink"} => do.slot[1] \in SinkSorts
  /\ do.pc \in {"native_register", "store_name"} => do.slot[1] \in NameSorts
  /\ do.pc \notin HoldingPCs \cup {"unregister"} => do.cbs = {}

TypeInv ==
  /\ HandlesTypeOK
  /\ \A e \in held : e[3][1] = KindOf(e[2][1])
  /\ \A t \in Threads : OperationOK(th[t].do)

LEMMA SlotFacts ==
  /\ \A sort \in SinkSorts, s \in SinkIds \cup {Zero} : <<sort, s>> \in Slot
  /\ \A sort \in NameSorts, n \in Names : <<sort, n>> \in Slot
  /\ Own \in Slot
  /\ \A slot \in Slot \cup (NameSorts \X {None}) : KindOf(slot[1]) \in Kinds
  /\ \A h : StoreOf(h) \in Stores
BY DEF Slot, Own, SinkSorts, NameSorts, KindOf, Kinds, StoreOf, Stores

\* An operation that has an object and a slot may go on to drop any callbacks.
LEMMA DropsNext ==
  ASSUME NEW o, OperationOK(o), o.h \in Handle \cup {Server}, o.slot \in Slot \cup (NameSorts \X {None}),
         NEW C \in SUBSET Callback
  PROVE  OperationOK([o EXCEPT !.pc = "unregister", !.cbs = C])
<1> DEFINE r == [o EXCEPT !.pc = "unregister", !.cbs = C]
<1>1. o \in Doing
  BY DEF OperationOK
<1>2. /\ r.pc = "unregister" /\ r.h = o.h /\ r.slot = o.slot /\ r.cbs = C
      /\ r \in Doing
  BY <1>1 DEF Doing, PCs
<1> HIDE DEF r
<1>3. r.pc \notin ObjectPCs \cup ServerPCs \cup NoPCs \cup HoldingPCs
  BY <1>2 DEF ObjectPCs, ServerPCs, NoPCs, HoldingPCs
<1>4. OperationOK(r)
  BY <1>2, <1>3 DEF OperationOK, HoldingPCs, ServerPCs
<1> QED BY <1>4 DEF r

LEMMA IdleOK == OperationOK(Idle)
BY DEF OperationOK, Idle, Doing, PCs, ObjectPCs, ServerPCs, NoPCs, HoldingPCs

\* One thread goes on to another point, the others stay where they are.
LEMMA GoStep ==
  ASSUME TypeInv, NEW t \in Threads, NEW r, OperationOK(r), Go(t, r)
  PROVE  /\ th' \in [Threads -> [do : Doing, from : Handle \cup {Server, None}]]
         /\ \A u \in Threads : OperationOK(th'[u].do)
         /\ th'[t].do = r
         /\ \A u \in Threads : u # t => th'[u] = th[u]
         /\ \A u \in Threads : th'[u].from = th[u].from
<1>1. th \in [Threads -> [do : Doing, from : Handle \cup {Server, None}]] /\ r \in Doing
  BY DEF TypeInv, HandlesTypeOK, OperationOK
<1>2. th'[t] = [th[t] EXCEPT !.do = r]
  BY <1>1 DEF Go
<1>3. th'[t].do = r /\ th'[t].from = th[t].from
  BY <1>1, <1>2
<1>4. \A u \in Threads : u # t => th'[u] = th[u]
  BY <1>1 DEF Go
<1>5. th' \in [Threads -> [do : Doing, from : Handle \cup {Server, None}]]
  BY <1>1 DEF Go
<1> QED BY <1>3, <1>4, <1>5 DEF TypeInv

LEMMA ReturnStep ==
  ASSUME TypeInv, NEW t \in Threads, Return(t)
  PROVE  /\ th' \in [Threads -> [do : Doing, from : Handle \cup {Server, None}]]
         /\ \A u \in Threads : OperationOK(th'[u].do)
         /\ th'[t].do = Idle
         /\ \A u \in Threads : u # t => th'[u] = th[u]
         /\ \A u \in Threads : th'[u].from = th[u].from
BY GoStep, IdleOK DEF Return

LEMMA TypeInit == HandlesInit => TypeInv
BY IdleOK DEF HandlesInit, TypeInv, HandlesTypeOK, OperationOK

\* An operation that starts has registered at most the callback it holds, and is on
\* an object that no other operation is on.
Starts(t, r) ==
  /\ At(t, "idle") /\ OperationOK(r) /\ Go(t, r)
  /\ r.pc \in {"create_custom", "native_add", "lock_remove", "lock_clear", "native_register",
               "native_unregister", "native_clear_names", "lock_destroy"} \cup ServerPCs
  /\ r.h \in Handle => Usable(r.h)
  /\ r.pc = "lock_destroy" => th[t].from = None
  /\ IF r.pc = "native_unregister"
     THEN registered' = registered /\ r.cbs = CallbacksAt(entries, r.h, r.slot)
     ELSE registered' = registered \cup r.cbs /\ \A cb \in r.cbs : Fresh(cb)
  /\ UNCHANGED <<live, held, known, entries, lost, lock, readers>>

LEMMA BeginCases ==
  ASSUME TypeInv, NEW t \in Threads, Begin(t)
  PROVE  \/ \E h \in Handle : Create(t, h)
         \/ \E r : Starts(t, r)
         \/ \E e \in held : Deliver(t, e)
<1> USE SlotFacts, AddressAssumption DEF TypeInv, HandlesTypeOK
<1> DEFINE Goal == \E r : Starts(t, r)
<1>1. ASSUME NEW cb \in Callback, RegisterController(t, cb) PROVE Goal
  <2> DEFINE r == [pc |-> "create_custom", h |-> None, slot |-> Own, cbs |-> {cb}]
  <2>1. OperationOK(r)
    BY <1>1 DEF RegisterController, OperationOK, Doing, PCs, ObjectPCs, ServerPCs, NoPCs, HoldingPCs,
         KindOf, Own, SinkSorts
  <2>2. Starts(t, r)
    BY <1>1, <2>1 DEF RegisterController, Starts
  <2> QED BY <2>2
<1>2. ASSUME NEW h \in Handle, NEW sort \in SinkSorts, NEW cb \in Callback, AddSink(t, h, sort, cb)
      PROVE  Goal
  <2> DEFINE r == [pc |-> "native_add", h |-> h, slot |-> <<sort, Zero>>, cbs |-> {cb}]
  <2>1. OperationOK(r)
    BY <1>2 DEF AddSink, OperationOK, Doing, PCs, ObjectPCs, ServerPCs, NoPCs, HoldingPCs, KindOf
  <2>2. Starts(t, r)
    BY <1>2, <2>1 DEF AddSink, Starts
  <2> QED BY <2>2
<1>3. ASSUME NEW h \in Handle, NEW slot \in Slot, RemoveSink(t, h, slot) PROVE Goal
  <2> DEFINE r == [pc |-> "lock_remove", h |-> h, slot |-> slot, cbs |-> {}]
  <2>1. OperationOK(r)
    BY DEF OperationOK, Doing, PCs, ObjectPCs, ServerPCs, NoPCs, HoldingPCs
  <2>2. Starts(t, r)
    BY <1>3, <2>1 DEF RemoveSink, Starts
  <2> QED BY <2>2
<1>4. ASSUME NEW h \in Handle, NEW sort \in SinkSorts, ClearSinks(t, h, sort) PROVE Goal
  <2> DEFINE r == [pc |-> "lock_clear", h |-> h, slot |-> <<sort, Zero>>, cbs |-> {}]
  <2>1. OperationOK(r)
    BY DEF OperationOK, Doing, PCs, ObjectPCs, ServerPCs, NoPCs, HoldingPCs
  <2>2. Starts(t, r)
    BY <1>4, <2>1 DEF ClearSinks, Starts
  <2> QED BY <2>2
<1>5. ASSUME NEW h \in Handle, NEW slot \in Slot, NEW cb \in Callback, RegisterName(t, h, slot, cb)
      PROVE  Goal
  <2> DEFINE r == [pc |-> "native_register", h |-> h, slot |-> slot, cbs |-> {cb}]
  <2>1. OperationOK(r)
    BY <1>5 DEF RegisterName, OperationOK, Doing, PCs, ObjectPCs, ServerPCs, NoPCs, HoldingPCs,
         KindOf, NameSorts, SinkSorts
  <2>2. Starts(t, r)
    BY <1>5, <2>1 DEF RegisterName, Starts
  <2> QED BY <2>2
<1>6. ASSUME NEW h \in Handle, NEW slot \in Slot, UnregisterName(t, h, slot) PROVE Goal
  <2> DEFINE r == [pc |-> "native_unregister", h |-> h, slot |-> slot,
                   cbs |-> CallbacksAt(entries, h, slot)]
  <2>1. CallbacksAt(entries, h, slot) \subseteq Callback
    BY DEF CallbacksAt
  <2>2. OperationOK(r)
    BY <2>1 DEF OperationOK, Doing, PCs, ObjectPCs, ServerPCs, NoPCs, HoldingPCs
  <2>3. Starts(t, r)
    BY <1>6, <2>2 DEF UnregisterName, Starts
  <2> QED BY <2>3
<1>7. ASSUME NEW h \in Handle, NEW sort \in NameSorts, ClearNames(t, h, sort) PROVE Goal
  <2> DEFINE r == [pc |-> "native_clear_names", h |-> h, slot |-> <<sort, None>>, cbs |-> {}]
  <2>1. OperationOK(r)
    BY DEF OperationOK, Doing, PCs, ObjectPCs, ServerPCs, NoPCs, HoldingPCs
  <2>2. Starts(t, r)
    BY <1>7, <2>1 DEF ClearNames, Starts
  <2> QED BY <2>2
<1>8. ASSUME NEW slot \in Slot, NEW cb \in Callback, ServerRegister(t, slot, cb) PROVE Goal
  <2> DEFINE r == [pc |-> IF slot[1] = "sink" THEN "server_sink" ELSE "server_name",
                   h |-> Server, slot |-> slot, cbs |-> {cb}]
  <2>1. OperationOK(r)
    BY <1>8 DEF ServerRegister, OperationOK, Doing, PCs, ObjectPCs, ServerPCs, NoPCs, HoldingPCs
  <2>2. Starts(t, r)
    BY <1>8, <2>1 DEF ServerRegister, Starts, ServerPCs
  <2> QED BY <2>2
<1>9. ASSUME NEW h \in Handle, Destroy(t, h) PROVE Goal
  <2> DEFINE r == [pc |-> "lock_destroy", h |-> h, slot |-> None, cbs |-> {}]
  <2>1. OperationOK(r)
    BY DEF OperationOK, Doing, PCs, ObjectPCs, ServerPCs, NoPCs, HoldingPCs
  <2>2. Starts(t, r)
    BY <1>9, <2>1 DEF Destroy, Starts
  <2> QED BY <2>2
<1>10. ASSUME NEW h \in Handle, SinkOperation(t, h) PROVE Goal
  BY <1>10, <1>2, <1>3, <1>4 DEF SinkOperation
<1>11. ASSUME NEW sort \in NameSorts, NameOperation(t, sort) PROVE Goal
  <2>1. PICK h \in Resources :
          \/ \E n \in Names, i \in Ids : RegisterName(t, h, <<sort, n>>, <<sort, i>>)
          \/ \E n \in Names : UnregisterName(t, h, <<sort, n>>)
          \/ ClearNames(t, h, sort)
    BY <1>11 DEF NameOperation
  <2>2. h \in Handle
    BY DEF Handle
  <2>3. \A i \in Ids : <<sort, i>> \in Callback
    BY DEF Callback, Kinds, NameSorts
  <2> HIDE DEF Goal
  <2> QED BY <2>1, <2>2, <2>3, <1>5, <1>6, <1>7
<1> HIDE DEF Goal
<1>12. (\E h \in Handle : Create(t, h)) \/ Goal \/ (\E e \in held : Deliver(t, e))
  BY <1>1, <1>8, <1>9, <1>10, <1>11 DEF Begin, Handle, NewTasker, NewResource, NewController,
    TaskerSinks, ResourceSinks, ControllerSinks, CustomRecognitions, CustomActions, NameSorts,
    DestroyTasker, DestroyResource, DestroyController, EventCallbackAgent,
    CustomRecognitionCallbackAgent, CustomActionCallbackAgent, CustomControllerAgents
<1> QED BY <1>12 DEF Goal

LEMMA BeginTyped == ASSUME TypeInv, NEW t \in Threads, Begin(t) PROVE TypeInv'
<1> USE SlotFacts DEF TypeInv, HandlesTypeOK
<1>1. ASSUME NEW h \in Handle, Create(t, h) PROVE TypeInv'
  <2> DEFINE r == [pc |-> "set", h |-> h, slot |-> None, cbs |-> {}]
  <2>1. OperationOK(r)
    BY DEF OperationOK, Doing, PCs, ObjectPCs, ServerPCs, NoPCs, HoldingPCs
  <2>2. Go(t, r)
    BY <1>1 DEF Create
  <2> QED BY <1>1, <2>1, <2>2, GoStep DEF Create
<1>2. ASSUME NEW r, Starts(t, r) PROVE TypeInv'
  <2>1. OperationOK(r) /\ Go(t, r) /\ r.cbs \subseteq Callback
    BY <1>2 DEF Starts, OperationOK, Doing
  <2> QED BY <1>2, <2>1, GoStep DEF Starts
<1>3. ASSUME NEW e \in held, Deliver(t, e) PROVE TypeInv'
  <2> DEFINE do == [Idle EXCEPT !.pc = IF e[3] \in registered THEN "found" ELSE "missing",
                                !.slot = e[2]]
  <2>1. e[1] \in Handle \cup {Server} /\ e[2] \in Slot /\ e[3][1] \in Kinds
    BY DEF Callback
  <2>2. OperationOK(do)
    <3> DEFINE at(pc) == [Idle EXCEPT !.pc = pc, !.slot = e[2]]
    <3>1. ASSUME NEW pc \in {"found", "missing"} PROVE OperationOK(at(pc))
      <4>1. /\ at(pc).pc = pc /\ at(pc).h = None /\ at(pc).slot = e[2] /\ at(pc).cbs = {}
            /\ at(pc) \in Doing
        BY <2>1 DEF Idle, Doing, PCs
      <4> HIDE DEF at
      <4>2. pc \notin ObjectPCs \cup ServerPCs \cup HoldingPCs /\ pc # "unregister"
        BY DEF ObjectPCs, ServerPCs, HoldingPCs
      <4> QED BY <2>1, <4>1, <4>2 DEF OperationOK, HoldingPCs, ServerPCs
    <3> QED BY <3>1
  <2>3. th' = [th EXCEPT ![t] = [do |-> do, from |-> e[1]]]
    BY <1>3 DEF Deliver
  <2>4. do \in Doing
    BY <2>2 DEF OperationOK
  <2> HIDE DEF do
  <2>5. th' \in [Threads -> [do : Doing, from : Handle \cup {Server, None}]]
    BY <2>1, <2>3, <2>4
  <2>6. \A u \in Threads : OperationOK(th'[u].do)
    BY <2>2, <2>3
  <2>7. readers' \in [Kinds -> SUBSET Threads]
    BY <1>3, <2>1 DEF Deliver
  <2> QED BY <1>3, <2>5, <2>6, <2>7 DEF Deliver
<1> QED BY BeginCases, <1>1, <1>2, <1>3

LEMMA ContinueTyped == ASSUME TypeInv, NEW t \in Threads, Continue(t) PROVE TypeInv'
<1> DEFINE do == th[t].do
<1> USE SlotFacts DEF TypeInv, HandlesTypeOK, At
<1>0. OperationOK(do) /\ do \in Doing
  BY DEF OperationOK
<1>r. ASSUME Return(t) PROVE
        /\ th' \in [Threads -> [do : Doing, from : Handle \cup {Server, None}]]
        /\ \A u \in Threads : OperationOK(th'[u].do)
  BY <1>r, ReturnStep
<1>g. ASSUME NEW r, OperationOK(r), Go(t, r) PROVE
        /\ th' \in [Threads -> [do : Doing, from : Handle \cup {Server, None}]]
        /\ \A u \in Threads : OperationOK(th'[u].do)
  BY <1>g, GoStep
<1>1. ASSUME InitStore(t) PROVE TypeInv'
  BY <1>1, <1>0, <1>r DEF InitStore, SetEntry, OperationOK, Doing, ObjectPCs, ServerPCs, HoldingPCs
<1>2. ASSUME NEW h \in Controllers, CreateCustom(t, h) PROVE TypeInv'
  <2> DEFINE r == [do EXCEPT !.pc = "set_custom", !.h = h]
  <2>1. OperationOK(r)
    <3>1. do.pc = "create_custom" /\ do.slot = Own
      BY <1>2, <1>0 DEF CreateCustom, OperationOK
    <3>2. r \in Doing /\ r.pc = "set_custom" /\ r.h = h /\ r.slot = Own /\ h \in Handle
      BY <3>1, <1>0 DEF Doing, PCs, Handle
    <3> HIDE DEF r
    <3> QED BY <3>2 DEF OperationOK, ServerPCs, NoPCs, HoldingPCs
  <2>2. Go(t, r)
    BY <1>2 DEF CreateCustom
  <2>3. h \in Handle /\ do.slot \in Slot /\ do.cbs \subseteq Callback
        /\ \A cb \in do.cbs : cb[1] = KindOf(do.slot[1])
    BY <1>2, <1>0 DEF CreateCustom, OperationOK, Doing, HoldingPCs, Handle
  <2>4. held' = held \cup {<<h, do.slot, cb>> : cb \in do.cbs}
    BY <1>2, <1>0 DEF CreateCustom, OperationOK
  <2>5. /\ held' \subseteq (Handle \cup {Server}) \X Slot \X Callback
        /\ \A e \in held' : e[3][1] = KindOf(e[2][1])
    BY <2>3, <2>4
  <2> HIDE DEF r
  <2> QED BY <1>2, <1>g, <2>1, <2>2, <2>3, <2>5 DEF CreateCustom
<1>3. ASSUME CreateCustomFails(t) PROVE TypeInv'
  BY <1>3, <1>0, <1>r DEF CreateCustomFails, SetEntry, OperationOK, Doing, ObjectPCs, ServerPCs,
    HoldingPCs
<1>4. ASSUME InitCustomStore(t) PROVE TypeInv'
  <2> DEFINE r == [do EXCEPT !.pc = "store_custom"]
  <2>1. OperationOK(r)
    BY <1>4, <1>0 DEF InitCustomStore, OperationOK, Doing, PCs, ObjectPCs, ServerPCs, NoPCs, HoldingPCs
  <2>2. Go(t, r)
    BY <1>4 DEF InitCustomStore
  <2> HIDE DEF r
  <2> QED BY <1>4, <1>0, <1>g, <2>1, <2>2 DEF InitCustomStore, SetEntry, OperationOK, Doing, ObjectPCs,
    ServerPCs, HoldingPCs
<1>5. ASSUME StoreCustom(t) PROVE TypeInv'
  <2>1. do.h \in Handle /\ do.cbs \subseteq Callback
    BY <1>5, <1>0 DEF StoreCustom, OperationOK, Doing, ObjectPCs
  <2>2. entries' \subseteq Handle \X Slot \X Callback
    BY <1>5, <2>1 DEF StoreCustom
  <2>3. Return(t) /\ UNCHANGED <<live, held, known, registered, lost, lock, readers>>
    BY <1>5 DEF StoreCustom
  <2> QED BY <1>r, <2>2, <2>3
<1>6. ASSUME NEW s \in SinkIds \cup {Zero}, NativeAdd(t, s) PROVE TypeInv'
  <2> DEFINE slot == <<do.slot[1], s>>
             r == [do EXCEPT !.pc = "store_sink", !.slot = slot]
  <2>1. OperationOK(r)
    BY <1>6, <1>0 DEF NativeAdd, OperationOK, Doing, PCs, ObjectPCs, ServerPCs, NoPCs, HoldingPCs
  <2>2. Go(t, r)
    BY <1>6 DEF NativeAdd
  <2> HIDE DEF r
  <2>3. /\ do.h \in Handle /\ do.cbs \subseteq Callback /\ do.slot[1] \in SinkSorts
        /\ \A cb \in do.cbs : cb[1] = KindOf(do.slot[1])
    BY <1>6, <1>0 DEF NativeAdd, OperationOK, Doing, ObjectPCs
  <2>4. slot \in Slot /\ slot[1] = do.slot[1]
    BY <2>3
  <2> HIDE DEF slot
  <2>5. held' \subseteq held \cup {<<do.h, slot, cb>> : cb \in do.cbs}
    BY <1>6 DEF NativeAdd, slot
  <2>6. /\ held' \subseteq (Handle \cup {Server}) \X Slot \X Callback
        /\ \A e \in held' : e[3][1] = KindOf(e[2][1])
    BY <2>3, <2>4, <2>5
  <2>7. UNCHANGED <<live, known, entries, registered, lost, lock, readers>>
    BY <1>6 DEF NativeAdd
  <2>8. /\ th' \in [Threads -> [do : Doing, from : Handle \cup {Server, None}]]
        /\ \A u \in Threads : OperationOK(th'[u].do)
    BY <1>g, <2>1, <2>2
  <2> QED BY <2>6, <2>7, <2>8
<1>7. ASSUME StoreSink(t) PROVE TypeInv'
  <2>1. do.h \in Handle /\ do.slot \in Slot /\ do.cbs \subseteq Callback
    BY <1>7, <1>0 DEF StoreSink, OperationOK, Doing, ObjectPCs, HoldingPCs
  <2>2. entries' \subseteq Handle \X Slot \X Callback
    BY <1>7, <2>1 DEF StoreSink
  <2>3. lost' \subseteq Callback
    BY <1>7 DEF StoreSink, CallbacksAt
  <2>4. Return(t) /\ UNCHANGED <<live, held, known, registered, lock, readers>>
    BY <1>7 DEF StoreSink
  <2> QED BY <1>r, <2>2, <2>3, <2>4
<1>8. ASSUME TakeLock(t, "lock_remove", "drop_sink") PROVE TypeInv'
  <2> DEFINE r == [do EXCEPT !.pc = "drop_sink"]
  <2>1. OperationOK(r)
    BY <1>8, <1>0 DEF TakeLock, OperationOK, Doing, PCs, ObjectPCs, ServerPCs, NoPCs, HoldingPCs
  <2>2. Go(t, r)
    BY <1>8 DEF TakeLock
  <2> HIDE DEF r
  <2> QED BY <1>8, <1>0, <1>g, <2>1, <2>2 DEF TakeLock, SetEntry, OperationOK, Doing, ObjectPCs,
    ServerPCs, HoldingPCs
<1>9. ASSUME TakeLock(t, "lock_clear", "drop_sinks") PROVE TypeInv'
  <2> DEFINE r == [do EXCEPT !.pc = "drop_sinks"]
  <2>1. OperationOK(r)
    BY <1>9, <1>0 DEF TakeLock, OperationOK, Doing, PCs, ObjectPCs, ServerPCs, NoPCs, HoldingPCs
  <2>2. Go(t, r)
    BY <1>9 DEF TakeLock
  <2> HIDE DEF r
  <2> QED BY <1>9, <1>0, <1>g, <2>1, <2>2 DEF TakeLock, SetEntry, OperationOK, Doing, ObjectPCs,
    ServerPCs, HoldingPCs
<1>10. ASSUME TakeLock(t, "lock_destroy", "drop_entry") PROVE TypeInv'
  <2> DEFINE r == [do EXCEPT !.pc = "drop_entry"]
  <2>1. OperationOK(r)
    BY <1>10, <1>0 DEF TakeLock, OperationOK, Doing, PCs, ObjectPCs, ServerPCs, NoPCs, HoldingPCs
  <2>2. Go(t, r)
    BY <1>10 DEF TakeLock
  <2> HIDE DEF r
  <2> QED BY <1>10, <1>0, <1>g, <2>1, <2>2 DEF TakeLock, SetEntry, OperationOK, Doing, ObjectPCs,
    ServerPCs, HoldingPCs
<1>11. ASSUME DropSink(t) PROVE TypeInv'
  <2> DEFINE r == [do EXCEPT !.pc = "native_remove"]
  <2>1. OperationOK(r)
    BY <1>11, <1>0 DEF DropSink, OperationOK, Doing, PCs, ObjectPCs, ServerPCs, NoPCs, HoldingPCs
  <2>2. Go(t, r)
    BY <1>11 DEF DropSink
  <2> HIDE DEF r
  <2> QED BY <1>11, <1>0, <1>g, <2>1, <2>2 DEF DropSink, SetEntry, OperationOK, Doing, ObjectPCs,
    ServerPCs, HoldingPCs
<1>12. ASSUME NativeRemove(t) PROVE TypeInv'
  BY <1>12, <1>0, <1>r DEF NativeRemove, SetEntry, OperationOK, Doing, ObjectPCs, ServerPCs, HoldingPCs
<1>13. ASSUME DropSinks(t) PROVE TypeInv'
  <2> DEFINE r == [do EXCEPT !.pc = "native_clear"]
  <2>1. OperationOK(r)
    BY <1>13, <1>0 DEF DropSinks, OperationOK, Doing, PCs, ObjectPCs, ServerPCs, NoPCs, HoldingPCs
  <2>2. Go(t, r)
    BY <1>13 DEF DropSinks
  <2> HIDE DEF r
  <2> QED BY <1>13, <1>0, <1>g, <2>1, <2>2 DEF DropSinks, SetEntry, OperationOK, Doing, ObjectPCs,
    ServerPCs, HoldingPCs, OfSort
<1>14. ASSUME NativeClear(t) PROVE TypeInv'
  BY <1>14, <1>0, <1>r DEF NativeClear, SetEntry, OperationOK, Doing, ObjectPCs, ServerPCs, HoldingPCs,
    OfSort
<1>15. ASSUME NativeRegister(t) PROVE TypeInv'
  <2>1. OperationOK([do EXCEPT !.pc = "store_name"]) /\ OperationOK([do EXCEPT !.pc = "unregister"])
    BY <1>15, <1>0 DEF NativeRegister, OperationOK, Doing, PCs, ObjectPCs, ServerPCs, NoPCs, HoldingPCs
  <2>2. do.h \in Handle /\ do.slot \in Slot /\ do.cbs \subseteq Callback
        /\ \A cb \in do.cbs : cb[1] = KindOf(do.slot[1])
    BY <1>15, <1>0 DEF NativeRegister, OperationOK, Doing, ObjectPCs, HoldingPCs
  <2>3. /\ held' \subseteq (Handle \cup {Server}) \X Slot \X Callback
        /\ \A e \in held' : e[3][1] = KindOf(e[2][1])
    BY <1>15, <2>2 DEF NativeRegister
  <2>4. Go(t, [do EXCEPT !.pc = "store_name"]) \/ Go(t, [do EXCEPT !.pc = "unregister"])
    BY <1>15 DEF NativeRegister
  <2>5. /\ th' \in [Threads -> [do : Doing, from : Handle \cup {Server, None}]]
        /\ \A u \in Threads : OperationOK(th'[u].do)
    BY <1>g, <2>1, <2>4
  <2>6. UNCHANGED <<live, known, entries, registered, lost, lock, readers>>
    BY <1>15 DEF NativeRegister
  <2> QED BY <2>3, <2>5, <2>6
<1>16. ASSUME StoreName(t) PROVE TypeInv'
  <2> DEFINE r == [do EXCEPT !.pc = "unregister", !.cbs = CallbacksAt(entries, do.h, do.slot)]
  <2>1. do.pc = "store_name" /\ do.h \in Handle /\ do.slot \in Slot /\ do.cbs \subseteq Callback
    BY <1>16, <1>0 DEF StoreName, OperationOK, Doing, ObjectPCs, HoldingPCs
  <2>2. CallbacksAt(entries, do.h, do.slot) \subseteq Callback
    BY DEF CallbacksAt
  <2>3. OperationOK(r)
    BY <2>1, <2>2, <1>0, DropsNext
  <2>4. Go(t, r)
    BY <1>16 DEF StoreName
  <2> HIDE DEF r
  <2>5. entries' \subseteq Handle \X Slot \X Callback
    BY <1>16, <2>1 DEF StoreName
  <2>6. UNCHANGED <<live, held, known, registered, lost, lock, readers>>
    BY <1>16 DEF StoreName
  <2>7. /\ th' \in [Threads -> [do : Doing, from : Handle \cup {Server, None}]]
        /\ \A u \in Threads : OperationOK(th'[u].do)
    BY <1>g, <2>3, <2>4
  <2> QED BY <2>5, <2>6, <2>7
<1>17. ASSUME Unregister(t) PROVE TypeInv'
  BY <1>17, <1>0, <1>r DEF Unregister, SetEntry, OperationOK, Doing, ObjectPCs, ServerPCs, HoldingPCs
<1>18. ASSUME NativeUnregister(t) PROVE TypeInv'
  <2>1. OperationOK([do EXCEPT !.pc = "delete_name"])
    BY <1>18, <1>0 DEF NativeUnregister, OperationOK, Doing, PCs, ObjectPCs, ServerPCs, NoPCs, HoldingPCs
  <2> QED BY <1>18, <1>0, <1>g, <1>r, <2>1 DEF NativeUnregister
<1>19. ASSUME DeleteName(t) PROVE TypeInv'
  <2> DEFINE r == [do EXCEPT !.pc = "unregister"]
  <2>1. OperationOK(r)
    BY <1>19, <1>0 DEF DeleteName, OperationOK, Doing, PCs, ObjectPCs, ServerPCs, NoPCs, HoldingPCs
  <2>2. Go(t, r)
    BY <1>19 DEF DeleteName
  <2> HIDE DEF r
  <2> QED BY <1>19, <1>0, <1>g, <2>1, <2>2 DEF DeleteName, SetEntry, OperationOK, Doing, ObjectPCs,
    ServerPCs, HoldingPCs
<1>20. ASSUME NativeClearNames(t) PROVE TypeInv'
  <2>1. OperationOK([do EXCEPT !.pc = "delete_names"])
    BY <1>20, <1>0 DEF NativeClearNames, OperationOK, Doing, PCs, ObjectPCs, ServerPCs, NoPCs, HoldingPCs
  <2>2. held' \subseteq held
    BY <1>20 DEF NativeClearNames
  <2>3. Go(t, [do EXCEPT !.pc = "delete_names"]) \/ Return(t)
    BY <1>20 DEF NativeClearNames
  <2>4. /\ th' \in [Threads -> [do : Doing, from : Handle \cup {Server, None}]]
        /\ \A u \in Threads : OperationOK(th'[u].do)
    BY <1>g, <1>r, <2>1, <2>3
  <2>5. UNCHANGED <<live, known, entries, registered, lost, lock, readers>>
    BY <1>20 DEF NativeClearNames
  <2> QED BY <2>2, <2>4, <2>5
<1>21. ASSUME DeleteNames(t) PROVE TypeInv'
  <2> DEFINE C == {e[3] : e \in OfSort(entries, do.h, do.slot[1])}
             r == [do EXCEPT !.pc = "unregister", !.cbs = C]
  <2>1. do.h \in Handle /\ do.slot \in NameSorts \X {None}
    BY <1>21, <1>0 DEF DeleteNames, OperationOK, ObjectPCs
  <2>2. C \subseteq Callback
    BY DEF OfSort
  <2>3. Go(t, r)
    BY <1>21 DEF DeleteNames
  <2> HIDE DEF C
  <2>4. OperationOK(r)
    BY <2>1, <2>2, <1>0, DropsNext
  <2> HIDE DEF r
  <2>5. entries' \subseteq entries
    BY <1>21 DEF DeleteNames, OfSort
  <2>6. UNCHANGED <<live, held, known, registered, lost, lock, readers>>
    BY <1>21 DEF DeleteNames
  <2>7. /\ th' \in [Threads -> [do : Doing, from : Handle \cup {Server, None}]]
        /\ \A u \in Threads : OperationOK(th'[u].do)
    BY <1>g, <2>3, <2>4
  <2> QED BY <2>5, <2>6, <2>7
<1>22. ASSUME ServerAccepts(t) PROVE TypeInv'
  <2>1. /\ do.slot \in Slot /\ do.cbs \subseteq Callback
        /\ \A cb \in do.cbs : cb[1] = KindOf(do.slot[1])
    BY <1>22, <1>0 DEF ServerAccepts, OperationOK, Doing, ServerPCs, HoldingPCs
  <2>2. held' = held \cup {<<Server, do.slot, cb>> : cb \in do.cbs}
    BY <1>22 DEF ServerAccepts
  <2>3. /\ held' \subseteq (Handle \cup {Server}) \X Slot \X Callback
        /\ \A e \in held' : e[3][1] = KindOf(e[2][1])
    BY <2>1, <2>2
  <2>4. Return(t) /\ UNCHANGED <<live, known, entries, registered, lost, lock, readers>>
    BY <1>22 DEF ServerAccepts
  <2> QED BY <1>r, <2>3, <2>4
<1>23. ASSUME ServerRefusesName(t) PROVE TypeInv'
  <2> DEFINE r == [do EXCEPT !.pc = "unregister"]
  <2>1. OperationOK(r)
    BY <1>23, <1>0 DEF ServerRefusesName, OperationOK, Doing, PCs, ObjectPCs, ServerPCs, NoPCs,
      HoldingPCs
  <2>2. Go(t, r)
    BY <1>23 DEF ServerRefusesName
  <2> HIDE DEF r
  <2> QED BY <1>23, <1>0, <1>g, <2>1, <2>2 DEF ServerRefusesName, SetEntry, OperationOK, Doing,
    ObjectPCs, ServerPCs, HoldingPCs
<1>24. ASSUME ServerRefusesSink(t) PROVE TypeInv'
  BY <1>24, <1>0, <1>r DEF ServerRefusesSink, SetEntry, OperationOK, Doing, ObjectPCs, ServerPCs,
    HoldingPCs
<1>25. ASSUME DropEntry(t) PROVE TypeInv'
  <2> DEFINE r == [do EXCEPT !.pc = "native_destroy"]
  <2>1. OperationOK(r)
    BY <1>25, <1>0 DEF DropEntry, OperationOK, Doing, PCs, ObjectPCs, ServerPCs, NoPCs, HoldingPCs
  <2>2. Go(t, r)
    BY <1>25 DEF DropEntry
  <2> HIDE DEF r
  <2> QED BY <1>25, <1>0, <1>g, <2>1, <2>2 DEF DropEntry, SetEntry, OperationOK, Doing, ObjectPCs,
    ServerPCs, HoldingPCs
<1>26. ASSUME NativeDestroy(t) PROVE TypeInv'
  BY <1>26, <1>0, <1>r DEF NativeDestroy, SetEntry, OperationOK, Doing, ObjectPCs, ServerPCs, HoldingPCs
<1>27. ASSUME EndLookup(t) PROVE TypeInv'
  BY <1>27, <1>0, <1>r DEF EndLookup, SetEntry, OperationOK, Doing, ObjectPCs, ServerPCs, HoldingPCs
<1>28. ASSUME AnswerZero(t) PROVE TypeInv'
  <2>1. th' = [th EXCEPT ![t] = [do |-> Idle, from |-> None]]
    BY <1>28 DEF AnswerZero
  <2>2. Idle \in Doing
    BY IdleOK DEF OperationOK
  <2>3. /\ th' \in [Threads -> [do : Doing, from : Handle \cup {Server, None}]]
        /\ \A u \in Threads : OperationOK(th'[u].do)
    BY <2>1, <2>2, IdleOK
  <2> QED BY <1>28, <1>0, <2>3 DEF AnswerZero
<1>29. ASSUME HandlerReturns(t) PROVE TypeInv'
  <2>1. th' = [th EXCEPT ![t].from = None]
    BY <1>29 DEF HandlerReturns
  <2>2. /\ th' \in [Threads -> [do : Doing, from : Handle \cup {Server, None}]]
        /\ \A u \in Threads : th'[u].do = th[u].do
    BY <2>1
  <2> QED BY <1>29, <2>2 DEF HandlerReturns
<1> QED BY <1>1, <1>2, <1>3, <1>4, <1>5, <1>6, <1>7, <1>8, <1>9, <1>10, <1>11, <1>12, <1>13, <1>14,
  <1>15, <1>16, <1>17, <1>18, <1>19, <1>20, <1>21, <1>22, <1>23, <1>24, <1>25, <1>26, <1>27, <1>28, <1>29 DEF Continue

\* A step of GoBinding is a step of one thread on the handles, or leaves them alone.
LEMMA HandlesPart ==
  [Next]_vars => (\E t \in Threads : Begin(t) \/ Continue(t)) \/ UNCHANGED handleVars
BY DEF Next, UseObjects, UseLibrary, HandlesNext, vars, handleVars

LEMMA StepTyped == TypeInv /\ [Next]_vars => TypeInv'
<1> SUFFICES ASSUME TypeInv, [Next]_vars PROVE TypeInv'
  OBVIOUS
<1>1. CASE UNCHANGED handleVars
  BY <1>1 DEF TypeInv, HandlesTypeOK, handleVars
<1> QED BY <1>1, HandlesPart, BeginTyped, ContinueTyped

\* The variables keep their types.
THEOREM TypesCorrect == Spec => []TypeOK
<1>1. Init => TypeInv /\ LoadInv
  BY TypeInit, LoadInit DEF Init
<1>2. TypeInv /\ LoadInv /\ [Next]_vars => TypeInv' /\ LoadInv'
  BY StepTyped, LoadStep, LibraryPart
<1>3. TypeInv /\ LoadInv => TypeOK
  BY DEF TypeInv, LoadInv, TypeOK
<1> QED BY <1>1, <1>2, <1>3, PTL DEF Spec

-----------------------------------------------------------------------------
(* The handles: entries follow objects                                      *)

\* No two operations are on one object, and an object that is worked on exists.
Alone == \A t, u \in Threads : th[t].do.h \in Handle /\ th[u].do.h = th[t].do.h => t = u
WorkedOnLives == \A t \in Threads : th[t].do.h \in Handle => th[t].do.h \in live

EntryInv ==
  /\ EntryFollowsObject
  /\ Alone
  /\ WorkedOnLives
  /\ \A e \in entries : e[1] \in known

\* The points at which object, entry and operation do not agree
ChangingPCs == {"set", "set_custom", "native_destroy"}

LEMMA EntryStates ==
  ASSUME TypeInv, EntryInv
  PROVE  /\ known \subseteq live
         /\ \A t \in Threads : th[t].do.h \in Handle /\ th[t].do.pc \notin ChangingPCs
              => th[t].do.h \in known
         /\ \A t \in Threads : th[t].do.pc \in ChangingPCs
              => th[t].do.h \in Handle \cap live /\ th[t].do.h \notin known
BY DEF TypeInv, HandlesTypeOK, OperationOK, ObjectPCs, EntryInv, EntryFollowsObject, Creating, Dying,
  Alone, WorkedOnLives, ChangingPCs, At

\* What a thread does without changing which objects and entries there are
Neutral(t) ==
  /\ th[t].do.pc \notin ChangingPCs /\ th'[t].do.pc \notin ChangingPCs
  /\ th'[t].do.h \in {th[t].do.h, None, Server} \cup {h \in Handle : Usable(h)}
  /\ \A u \in Threads : u # t => th'[u].do = th[u].do
  /\ UNCHANGED <<live, known>>
  /\ \A e \in entries' : e \in entries \/ (e[1] = th[t].do.h /\ e[1] \in Handle)

LEMMA NeutralKeeps ==
  ASSUME TypeInv, TypeInv', EntryInv, NEW t \in Threads, Neutral(t) PROVE EntryInv'
<1> USE AddressAssumption
<1>1. known \subseteq live /\ live \subseteq Handle
  BY EntryStates DEF TypeInv, HandlesTypeOK
<1>2. Alone'
  BY <1>1 DEF Neutral, Alone, EntryInv, Usable
<1>3. WorkedOnLives'
  BY <1>1 DEF Neutral, WorkedOnLives, EntryInv, Usable
<1>4. Creating' = Creating /\ Dying' = Dying
  BY DEF Neutral, Creating, Dying, ChangingPCs, At
<1>5. EntryFollowsObject'
  BY <1>4 DEF Neutral, EntryInv, EntryFollowsObject
<1>6. \A e \in entries' : e[1] \in known'
  BY EntryStates DEF Neutral, EntryInv
<1> QED BY <1>2, <1>3, <1>5, <1>6 DEF EntryInv

LEMMA BeginEntries ==
  ASSUME TypeInv, TypeInv', EntryInv, NEW t \in Threads, Begin(t) PROVE EntryInv'
<1> USE AddressAssumption
<1>1. ASSUME NEW h \in Handle, Create(t, h) PROVE EntryInv'
  <2> DEFINE r == [pc |-> "set", h |-> h, slot |-> None, cbs |-> {}]
  <2>1. OperationOK(r)
    BY DEF OperationOK, Doing, PCs, ObjectPCs, ServerPCs, NoPCs, HoldingPCs
  <2>2. Go(t, r)
    BY <1>1 DEF Create
  <2>3. th'[t].do = r /\ \A u \in Threads : u # t => th'[u] = th[u]
    BY <2>1, <2>2, GoStep
  <2>4. /\ h \notin live /\ h \notin known /\ th[t].do.pc = "idle" /\ th[t].do.h = None
        /\ live' = live \cup {h} /\ known' = known /\ entries' = entries
        /\ \A u \in Threads : th[u].do.h # h
    BY <1>1, EntryStates DEF Create, At, TypeInv, OperationOK, NoPCs, EntryInv, WorkedOnLives
  <2>5. Alone' /\ WorkedOnLives'
    BY <2>3, <2>4 DEF EntryInv, Alone, WorkedOnLives
  <2>6. Creating' = Creating \cup {h} /\ Dying' = Dying
    BY <2>3, <2>4 DEF Creating, Dying, At
  <2>7. h \notin Dying /\ h \notin Creating
    BY <2>4 DEF Creating, Dying
  <2> QED BY <2>4, <2>5, <2>6, <2>7 DEF EntryInv, EntryFollowsObject
<1>2. ASSUME NEW r, Starts(t, r) PROVE EntryInv'
  <2>1. th'[t].do = r /\ \A u \in Threads : u # t => th'[u] = th[u]
    BY <1>2, GoStep DEF Starts
  <2>2. r.h \in {None, Server} \/ (r.h \in Handle /\ Usable(r.h))
    BY <1>2 DEF Starts, OperationOK, Doing
  <2>3. Neutral(t)
    BY <1>2, <2>1, <2>2 DEF Starts, Neutral, ChangingPCs, ServerPCs, At
  <2> QED BY <2>3, NeutralKeeps
<1>3. ASSUME NEW e \in held, Deliver(t, e) PROVE EntryInv'
  <2> DEFINE do == [Idle EXCEPT !.pc = IF e[3] \in registered THEN "found" ELSE "missing",
                                !.slot = e[2]]
  <2>1. th' = [th EXCEPT ![t] = [do |-> do, from |-> e[1]]]
    BY <1>3 DEF Deliver
  <2>2. th'[t].do = do /\ \A u \in Threads : u # t => th'[u] = th[u]
    BY <2>1 DEF TypeInv, HandlesTypeOK
  <2>3. do.h = None /\ do.pc \in {"found", "missing"}
    BY DEF Idle
  <2> HIDE DEF do
  <2>4. Neutral(t)
    BY <1>3, <2>2, <2>3 DEF Deliver, Neutral, ChangingPCs, At
  <2> QED BY <2>4, NeutralKeeps
<1> QED BY BeginCases, <1>1, <1>2, <1>3

\* SetEntry ends the creation of a store's entry, which had none before.
LEMMA SetKeeps ==
  ASSUME TypeInv, TypeInv', EntryInv, NEW t \in Threads,
         th[t].do.pc \in {"set", "set_custom"}, SetEntry(th[t].do.h), live' = live,
         th'[t].do.pc \notin ChangingPCs, th'[t].do.h \in {th[t].do.h, None},
         \A u \in Threads : u # t => th'[u] = th[u]
  PROVE  EntryInv'
<1> USE AddressAssumption
<1> DEFINE h == th[t].do.h
<1>1. h \in Handle \cap live /\ h \notin known
  BY EntryStates DEF ChangingPCs
<1>2. Alone' /\ WorkedOnLives'
  BY <1>1 DEF EntryInv, Alone, WorkedOnLives
<1>3. \A u \in Threads : u # t => th[u].do.h # h
  BY <1>1 DEF EntryInv, Alone
<1>4. Creating' = Creating \ {h} /\ Dying' = Dying
  BY <1>1, <1>3 DEF Creating, Dying, ChangingPCs, At
<1>5. h \notin Dying
  BY <1>3 DEF Dying, At
<1>6. EntryFollowsObject'
  BY <1>1, <1>4, <1>5 DEF EntryInv, EntryFollowsObject, SetEntry
<1>7. \A e \in entries' : e[1] \in known'
  BY DEF EntryInv, SetEntry
<1> QED BY <1>2, <1>6, <1>7 DEF EntryInv

LEMMA ContinueEntries ==
  ASSUME TypeInv, TypeInv', EntryInv, NEW t \in Threads, Continue(t) PROVE EntryInv'
<1> DEFINE do == th[t].do
<1> USE AddressAssumption DEF At
<1>0. OperationOK(do) /\ th \in [Threads -> [do : Doing, from : Handle \cup {Server, None}]]
  BY DEF TypeInv, HandlesTypeOK
<1>r. ASSUME Return(t) PROVE th'[t].do = Idle /\ \A u \in Threads : u # t => th'[u] = th[u]
  BY <1>r, ReturnStep
<1>g. ASSUME NEW r, Go(t, r) PROVE th'[t].do = r /\ \A u \in Threads : u # t => th'[u] = th[u]
  BY <1>g, <1>0 DEF Go
<1>i. Idle.pc = "idle" /\ Idle.h = None
  BY DEF Idle
<1>1. CASE InitStore(t)
  BY <1>1, <1>r, <1>i, SetKeeps DEF InitStore, ChangingPCs
<1>2. CASE InitCustomStore(t)
  <2>1. Go(t, [do EXCEPT !.pc = "store_custom"])
    BY <1>2 DEF InitCustomStore
  <2> QED BY <1>0, <1>2, <1>g, <2>1, SetKeeps DEF InitCustomStore, ChangingPCs, OperationOK, Doing
<1>3. ASSUME NEW h \in Controllers, CreateCustom(t, h) PROVE EntryInv'
  <2> DEFINE r == [do EXCEPT !.pc = "set_custom", !.h = h]
  <2>1. th'[t].do = r /\ \A u \in Threads : u # t => th'[u] = th[u]
    BY <1>3, <1>g DEF CreateCustom
  <2>r. r.pc = "set_custom" /\ r.h = h
    BY <1>0 DEF OperationOK, Doing
  <2>2. th'[t].do.pc = "set_custom" /\ th'[t].do.h = h /\ \A u \in Threads : u # t => th'[u] = th[u]
    BY <2>1, <2>r
  <2>3. /\ h \in Handle /\ h \notin live /\ h \notin known /\ do.pc = "create_custom" /\ do.h = None
        /\ live' = live \cup {h} /\ known' = known /\ entries' = entries
        /\ \A u \in Threads : th[u].do.h # h
    BY <1>0, <1>3, EntryStates DEF CreateCustom, Handle, OperationOK, NoPCs, EntryInv, WorkedOnLives
  <2>4. Alone' /\ WorkedOnLives'
    BY <2>2, <2>3 DEF EntryInv, Alone, WorkedOnLives
  <2>5. Creating' = Creating \cup {h} /\ Dying' = Dying
    BY <2>2, <2>3 DEF Creating, Dying
  <2>6. h \notin Dying /\ h \notin Creating
    BY <2>3 DEF Creating, Dying
  <2> QED BY <2>3, <2>4, <2>5, <2>6 DEF EntryInv, EntryFollowsObject
<1>4. CASE DropEntry(t)
  <2>1. Go(t, [do EXCEPT !.pc = "native_destroy"])
    BY <1>4 DEF DropEntry
  <2>2. th'[t].do.pc = "native_destroy" /\ th'[t].do.h = do.h /\ \A u \in Threads : u # t => th'[u] = th[u]
    BY <1>0, <1>g, <2>1 DEF OperationOK, Doing
  <2>3. do.h \in Handle /\ do.pc = "drop_entry" /\ do.h \in known /\ do.h \in live
    BY <1>0, <1>4, EntryStates DEF DropEntry, OperationOK, ObjectPCs, ChangingPCs
  <2>4. Alone' /\ WorkedOnLives'
    BY <1>4, <2>2, <2>3 DEF DropEntry, EntryInv, Alone, WorkedOnLives
  <2>5. Creating' = Creating /\ Dying' = Dying \cup {do.h}
    BY <2>2, <2>3 DEF Creating, Dying
  <2>6. EntryFollowsObject' /\ \A e \in entries' : e[1] \in known'
    BY <1>4, <2>5 DEF DropEntry, EntryInv, EntryFollowsObject
  <2> QED BY <2>4, <2>6 DEF EntryInv
<1>5. CASE NativeDestroy(t)
  <2>1. th'[t].do.pc = "idle" /\ th'[t].do.h = None /\ \A u \in Threads : u # t => th'[u] = th[u]
    BY <1>5, <1>r, <1>i DEF NativeDestroy
  <2>2. do.h \in Handle /\ do.pc = "native_destroy" /\ do.h \notin known
    BY <1>0, <1>5, EntryStates DEF NativeDestroy, OperationOK, ObjectPCs, ChangingPCs
  <2>3. \A u \in Threads : u # t => th[u].do.h # do.h
    BY <2>2 DEF EntryInv, Alone
  <2>4. Alone' /\ WorkedOnLives'
    BY <1>5, <2>1, <2>2, <2>3 DEF NativeDestroy, EntryInv, Alone, WorkedOnLives
  <2>5. Creating' = Creating /\ Dying' = Dying \ {do.h}
    BY <2>1, <2>2, <2>3 DEF Creating, Dying
  <2>6. EntryFollowsObject' /\ \A e \in entries' : e[1] \in known'
    BY <1>5, <2>2, <2>5 DEF NativeDestroy, EntryInv, EntryFollowsObject
  <2> QED BY <2>4, <2>6 DEF EntryInv
<1>6. CASE CreateCustomFails(t)
  <2>1. Neutral(t)
    BY <1>0, <1>6, <1>r, <1>g, <1>i DEF CreateCustomFails, Neutral, ChangingPCs, OperationOK, Doing,
      ObjectPCs
  <2> QED BY <2>1, NeutralKeeps
<1>7. CASE StoreCustom(t)
  <2>1. Neutral(t)
    BY <1>0, <1>7, <1>r, <1>g, <1>i DEF StoreCustom, Neutral, ChangingPCs, OperationOK, Doing, ObjectPCs
  <2> QED BY <2>1, NeutralKeeps
<1>8. ASSUME NEW s \in SinkIds \cup {Zero}, NativeAdd(t, s) PROVE EntryInv'
  <2> DEFINE r == [do EXCEPT !.pc = "store_sink", !.slot = <<do.slot[1], s>>]
  <2>1. th'[t].do = r /\ \A u \in Threads : u # t => th'[u] = th[u]
    BY <1>8, <1>g DEF NativeAdd
  <2>2. r.pc \in {"store_sink", "unregister"} /\ r.h = do.h
    BY <1>0 DEF OperationOK, Doing
  <2> HIDE DEF r
  <2>3. do.pc \notin ChangingPCs /\ do.h \in Handle
    BY <1>0, <1>8 DEF NativeAdd, OperationOK, ObjectPCs, ChangingPCs
  <2>4. \A e \in entries' : e \in entries \/ (e[1] = do.h /\ e[1] \in Handle)
    BY <1>8, <2>3 DEF NativeAdd
  <2>5. Neutral(t)
    BY <1>8, <2>1, <2>2, <2>3, <2>4 DEF NativeAdd, Neutral, ChangingPCs
  <2> QED BY <2>5, NeutralKeeps
<1>9. CASE StoreSink(t)
  <2>1. Neutral(t)
    BY <1>0, <1>9, <1>r, <1>g, <1>i DEF StoreSink, Neutral, ChangingPCs, OperationOK, Doing, ObjectPCs
  <2> QED BY <2>1, NeutralKeeps
<1>10. CASE TakeLock(t, "lock_remove", "drop_sink")
  <2>1. Neutral(t)
    BY <1>0, <1>10, <1>r, <1>g, <1>i DEF TakeLock, Neutral, ChangingPCs, OperationOK, Doing, ObjectPCs
  <2> QED BY <2>1, NeutralKeeps
<1>11. CASE DropSink(t)
  <2>1. Neutral(t)
    BY <1>0, <1>11, <1>r, <1>g, <1>i DEF DropSink, Neutral, ChangingPCs, OperationOK, Doing, ObjectPCs
  <2> QED BY <2>1, NeutralKeeps
<1>12. CASE NativeRemove(t)
  <2>1. Neutral(t)
    BY <1>0, <1>12, <1>r, <1>g, <1>i DEF NativeRemove, Neutral, ChangingPCs, OperationOK, Doing,
      ObjectPCs
  <2> QED BY <2>1, NeutralKeeps
<1>13. CASE TakeLock(t, "lock_clear", "drop_sinks")
  <2>1. Neutral(t)
    BY <1>0, <1>13, <1>r, <1>g, <1>i DEF TakeLock, Neutral, ChangingPCs, OperationOK, Doing, ObjectPCs
  <2> QED BY <2>1, NeutralKeeps
<1>14. CASE DropSinks(t)
  <2>1. Neutral(t)
    BY <1>0, <1>14, <1>r, <1>g, <1>i DEF DropSinks, Neutral, ChangingPCs, OperationOK, Doing, ObjectPCs
  <2> QED BY <2>1, NeutralKeeps
<1>15. CASE NativeClear(t)
  <2>1. Neutral(t)
    BY <1>0, <1>15, <1>r, <1>g, <1>i DEF NativeClear, Neutral, ChangingPCs, OperationOK, Doing, ObjectPCs
  <2> QED BY <2>1, NeutralKeeps
<1>16. CASE NativeRegister(t)
  <2>1. Neutral(t)
    BY <1>0, <1>16, <1>r, <1>g, <1>i DEF NativeRegister, Neutral, ChangingPCs, OperationOK, Doing,
      ObjectPCs
  <2> QED BY <2>1, NeutralKeeps
<1>17. CASE StoreName(t)
  <2> DEFINE r == [do EXCEPT !.pc = "unregister", !.cbs = CallbacksAt(entries, do.h, do.slot)]
  <2>1. th'[t].do = r /\ \A u \in Threads : u # t => th'[u] = th[u]
    BY <1>17, <1>g DEF StoreName
  <2>2. r.pc \in {"store_sink", "unregister"} /\ r.h = do.h
    BY <1>0 DEF OperationOK, Doing
  <2> HIDE DEF r
  <2>3. do.pc \notin ChangingPCs /\ do.h \in Handle
    BY <1>0, <1>17 DEF StoreName, OperationOK, ObjectPCs, ChangingPCs
  <2>4. \A e \in entries' : e \in entries \/ (e[1] = do.h /\ e[1] \in Handle)
    BY <1>17, <2>3 DEF StoreName
  <2>5. Neutral(t)
    BY <1>17, <2>1, <2>2, <2>3, <2>4 DEF StoreName, Neutral, ChangingPCs
  <2> QED BY <2>5, NeutralKeeps
<1>18. CASE Unregister(t)
  <2>1. Neutral(t)
    BY <1>0, <1>18, <1>r, <1>g, <1>i DEF Unregister, Neutral, ChangingPCs, OperationOK, Doing, ObjectPCs
  <2> QED BY <2>1, NeutralKeeps
<1>19. CASE NativeUnregister(t)
  <2>1. Neutral(t)
    BY <1>0, <1>19, <1>r, <1>g, <1>i DEF NativeUnregister, Neutral, ChangingPCs, OperationOK, Doing,
      ObjectPCs
  <2> QED BY <2>1, NeutralKeeps
<1>20. CASE DeleteName(t)
  <2>1. Neutral(t)
    BY <1>0, <1>20, <1>r, <1>g, <1>i DEF DeleteName, Neutral, ChangingPCs, OperationOK, Doing, ObjectPCs
  <2> QED BY <2>1, NeutralKeeps
<1>21. CASE NativeClearNames(t)
  <2>1. Neutral(t)
    BY <1>0, <1>21, <1>r, <1>g, <1>i DEF NativeClearNames, Neutral, ChangingPCs, OperationOK, Doing,
      ObjectPCs
  <2> QED BY <2>1, NeutralKeeps
<1>22. CASE DeleteNames(t)
  <2> DEFINE r == [do EXCEPT !.pc = "unregister", !.cbs = {e[3] : e \in OfSort(entries, do.h, do.slot[1])}]
  <2>1. th'[t].do = r /\ \A u \in Threads : u # t => th'[u] = th[u]
    BY <1>22, <1>g DEF DeleteNames
  <2>2. r.pc \in {"store_sink", "unregister"} /\ r.h = do.h
    BY <1>0 DEF OperationOK, Doing
  <2> HIDE DEF r
  <2>3. do.pc \notin ChangingPCs /\ do.h \in Handle
    BY <1>0, <1>22 DEF DeleteNames, OperationOK, ObjectPCs, ChangingPCs
  <2>4. \A e \in entries' : e \in entries \/ (e[1] = do.h /\ e[1] \in Handle)
    BY <1>22, <2>3 DEF DeleteNames
  <2>5. Neutral(t)
    BY <1>22, <2>1, <2>2, <2>3, <2>4 DEF DeleteNames, Neutral, ChangingPCs
  <2> QED BY <2>5, NeutralKeeps
<1>23. CASE ServerAccepts(t)
  <2>1. Neutral(t)
    BY <1>0, <1>23, <1>r, <1>g, <1>i DEF ServerAccepts, Neutral, ChangingPCs, OperationOK, Doing,
      ObjectPCs
  <2> QED BY <2>1, NeutralKeeps
<1>24. CASE ServerRefusesName(t)
  <2>1. Neutral(t)
    BY <1>0, <1>24, <1>r, <1>g, <1>i DEF ServerRefusesName, Neutral, ChangingPCs, OperationOK, Doing,
      ObjectPCs
  <2> QED BY <2>1, NeutralKeeps
<1>25. CASE ServerRefusesSink(t)
  <2>1. Neutral(t)
    BY <1>0, <1>25, <1>r, <1>g, <1>i DEF ServerRefusesSink, Neutral, ChangingPCs, OperationOK, Doing,
      ObjectPCs
  <2> QED BY <2>1, NeutralKeeps
<1>26. CASE TakeLock(t, "lock_destroy", "drop_entry")
  <2>1. Neutral(t)
    BY <1>0, <1>26, <1>r, <1>g, <1>i DEF TakeLock, Neutral, ChangingPCs, OperationOK, Doing, ObjectPCs
  <2> QED BY <2>1, NeutralKeeps
<1>27. CASE EndLookup(t)
  <2>1. Neutral(t)
    BY <1>0, <1>27, <1>r, <1>g, <1>i DEF EndLookup, Neutral, ChangingPCs, OperationOK, Doing, ObjectPCs
  <2> QED BY <2>1, NeutralKeeps
<1>28. CASE AnswerZero(t) \/ HandlerReturns(t)
  <2>1. Neutral(t)
    BY <1>0, <1>28, <1>i DEF AnswerZero, HandlerReturns, Neutral, ChangingPCs
  <2> QED BY <2>1, NeutralKeeps
<1> QED BY <1>1, <1>2, <1>3, <1>4, <1>5, <1>6, <1>7, <1>8, <1>9, <1>10, <1>11, <1>12, <1>13, <1>14,
  <1>15, <1>16, <1>17, <1>18, <1>19, <1>20, <1>21, <1>22, <1>23, <1>24, <1>25, <1>26, <1>27, <1>28 DEF Continue

LEMMA EntryInit == HandlesInit => EntryInv
BY AddressAssumption DEF HandlesInit, EntryInv, EntryFollowsObject, Creating, Dying, Alone,
  WorkedOnLives, Idle, At

LEMMA EntryStep == TypeInv /\ EntryInv /\ [Next]_vars => EntryInv'
<1> SUFFICES ASSUME TypeInv, EntryInv, [Next]_vars PROVE EntryInv'
  OBVIOUS
<1>1. TypeInv'
  BY StepTyped
<1>2. CASE UNCHANGED handleVars
  BY <1>2 DEF EntryInv, EntryFollowsObject, Creating, Dying, Alone, WorkedOnLives, At, handleVars
<1> QED BY <1>1, <1>2, HandlesPart, BeginEntries, ContinueEntries

\* An object's entry comes and goes with the object, whoever gets its address next
\* (InitStore and Destroy of tasker.go, resource.go and controller.go).
THEOREM EntriesFollow == Spec => []EntryFollowsObject
<1>1. Init => TypeInv /\ EntryInv
  BY TypeInit, EntryInit DEF Init
<1>2. TypeInv /\ EntryInv /\ [Next]_vars => TypeInv' /\ EntryInv'
  BY StepTyped, EntryStep
<1>3. EntryInv => EntryFollowsObject
  BY DEF EntryInv
<1> QED BY <1>1, <1>2, <1>3, PTL DEF Spec

-----------------------------------------------------------------------------
(* The handles: callbacks have an owner                                     *)

Owned(cb) ==
  \/ \E e \in entries : e[3] = cb
  \/ \E e \in held : e[1] = Server /\ e[3] = cb
  \/ cb \in lost
  \/ \E t \in Threads : cb \in th[t].do.cbs

\* An operation that takes a name away still finds its callbacks in the entry.
TakesEntry ==
  \A t \in Threads : th[t].do.pc \in {"native_unregister", "delete_name"} =>
    \A cb : cb \in th[t].do.cbs <=>
              \E e \in entries : e[1] = th[t].do.h /\ e[2] = th[t].do.slot /\ e[3] = cb

LeakInv ==
  /\ \A cb \in registered : Owned(cb)
  /\ TakesEntry

LEMMA OwnedIsEnough == (\A cb \in registered : Owned(cb)) <=> NoCallbackLeak
BY DEF Owned, NoCallbackLeak, CallbacksOf

\* A thread changes entries of its object alone, and hands over what it holds and
\* what it takes out of them.
HandsOver(t) ==
  /\ \A u \in Threads : u # t => th'[u].do = th[u].do
  /\ \A e : e[1] # th[t].do.h \/ th[t].do.h \notin Handle => (e \in entries' <=> e \in entries)
  /\ \A cb \in registered' : cb \in registered \/ cb \in th'[t].do.cbs
  /\ lost \subseteq lost' /\ \A e \in held : e[1] = Server => e \in held'
  /\ \A cb \in registered' :
       cb \in th[t].do.cbs \/ (\E e \in entries \ entries' : e[3] = cb) => Owned(cb)'
  /\ th'[t].do.pc \in {"native_unregister", "delete_name"} =>
       \A cb : cb \in th'[t].do.cbs <=>
                 \E e \in entries' : e[1] = th'[t].do.h /\ e[2] = th'[t].do.slot /\ e[3] = cb

LEMMA HandsOverKeeps ==
  ASSUME TypeInv, EntryInv, LeakInv, NEW t \in Threads, HandsOver(t) PROVE LeakInv'
<1>1. ASSUME NEW cb \in registered' PROVE Owned(cb)'
  <2>1. CASE cb \in th'[t].do.cbs
    BY <2>1 DEF Owned
  <2>2. CASE cb \in th[t].do.cbs \/ \E e \in entries \ entries' : e[3] = cb
    BY <2>2 DEF HandsOver
  <2>3. CASE /\ cb \in registered /\ cb \notin th[t].do.cbs
             /\ ~\E e \in entries \ entries' : e[3] = cb
    <3>1. Owned(cb)
      BY <2>3 DEF LeakInv
    <3> QED BY <3>1, <2>3 DEF Owned, HandsOver
  <2> QED BY <2>1, <2>2, <2>3 DEF HandsOver
<1>2. ASSUME NEW u \in Threads, u # t, th'[u].do.pc \in {"native_unregister", "delete_name"}, NEW cb
      PROVE  cb \in th'[u].do.cbs <=>
               \E e \in entries' : e[1] = th'[u].do.h /\ e[2] = th'[u].do.slot /\ e[3] = cb
  <2>1. th[u].do = th'[u].do /\ th[u].do.h \in Handle
    BY <1>2 DEF HandsOver, TypeInv, OperationOK, ObjectPCs
  <2>2. th[t].do.h # th[u].do.h
    BY <1>2, <2>1 DEF EntryInv, Alone
  <2>3. \A e : e[1] = th[u].do.h => (e \in entries' <=> e \in entries)
    BY <2>2 DEF HandsOver
  <2> QED BY <1>2, <2>1, <2>3 DEF LeakInv, TakesEntry
<1>3. TakesEntry'
  BY <1>2 DEF TakesEntry, HandsOver
<1> QED BY <1>1, <1>3 DEF LeakInv

LEMMA BeginHandsOver ==
  ASSUME TypeInv, EntryInv, LeakInv, NEW t \in Threads, Begin(t) PROVE HandsOver(t)
<1>1. ASSUME th[t].do.pc = "idle" PROVE th[t].do.cbs = {}
  BY <1>1 DEF TypeInv, OperationOK, HoldingPCs, ServerPCs
<1>2. ASSUME NEW h \in Handle, Create(t, h) PROVE HandsOver(t)
  <2> DEFINE r == [pc |-> "set", h |-> h, slot |-> None, cbs |-> {}]
  <2>1. OperationOK(r)
    BY DEF OperationOK, Doing, PCs, ObjectPCs, ServerPCs, NoPCs, HoldingPCs
  <2>2. Go(t, r)
    BY <1>2 DEF Create
  <2>3. th'[t].do = r /\ \A u \in Threads : u # t => th'[u] = th[u]
    BY <2>1, <2>2, GoStep
  <2> QED BY <1>1, <1>2, <2>3 DEF Create, HandsOver, At
<1>3. ASSUME NEW r, Starts(t, r) PROVE HandsOver(t)
  <2>1. th'[t].do = r /\ \A u \in Threads : u # t => th'[u] = th[u]
    BY <1>3, GoStep DEF Starts
  <2>2. r.pc \in {"native_unregister", "delete_name"} =>
          \A cb : cb \in r.cbs <=> \E e \in entries : e[1] = r.h /\ e[2] = r.slot /\ e[3] = cb
    BY <1>3 DEF Starts, CallbacksAt, ServerPCs
  <2> QED BY <1>1, <1>3, <2>1, <2>2 DEF Starts, HandsOver, At
<1>4. ASSUME NEW e \in held, Deliver(t, e) PROVE HandsOver(t)
  <2> DEFINE do == [Idle EXCEPT !.pc = IF e[3] \in registered THEN "found" ELSE "missing",
                                !.slot = e[2]]
  <2>1. th' = [th EXCEPT ![t] = [do |-> do, from |-> e[1]]]
    BY <1>4 DEF Deliver
  <2>2. th'[t].do = do /\ \A u \in Threads : u # t => th'[u] = th[u]
    BY <2>1 DEF TypeInv, HandlesTypeOK
  <2>3. do.cbs = {} /\ do.pc \in {"found", "missing"}
    BY DEF Idle
  <2> HIDE DEF do
  <2> QED BY <1>1, <1>4, <2>2, <2>3 DEF Deliver, HandsOver, At
<1> QED BY BeginCases, <1>2, <1>3, <1>4

LEMMA ContinueHandsOver ==
  ASSUME TypeInv, EntryInv, LeakInv, NEW t \in Threads, Continue(t) PROVE HandsOver(t)
<1> DEFINE do == th[t].do
<1> USE AddressAssumption DEF At
<1>0. OperationOK(do) /\ th \in [Threads -> [do : Doing, from : Handle \cup {Server, None}]]
  BY DEF TypeInv, HandlesTypeOK
<1>r. ASSUME Return(t) PROVE th'[t].do = Idle /\ \A u \in Threads : u # t => th'[u] = th[u]
  BY <1>r, ReturnStep
<1>g. ASSUME NEW r, Go(t, r) PROVE th'[t].do = r /\ \A u \in Threads : u # t => th'[u] = th[u]
  BY <1>g, <1>0 DEF Go
<1>i. Idle.pc = "idle" /\ Idle.cbs = {}
  BY DEF Idle
<1>k. do.pc \in ObjectPCs => do.h \in Handle /\ do.h # Server
  BY <1>0 DEF OperationOK
<1>e. do.pc \notin HoldingPCs \cup {"unregister"} => do.cbs = {}
  BY <1>0 DEF OperationOK
<1>s. ASSUME do.pc \in {"set", "set_custom"}, SetEntry(do.h) PROVE entries' = entries
  BY <1>s, EntryStates DEF SetEntry, EntryInv, ChangingPCs, TypeInv, HandlesTypeOK
<1>1. CASE InitStore(t)
  <2>1. th'[t].do = Idle /\ \A u \in Threads : u # t => th'[u] = th[u]
    BY <1>1, <1>r DEF InitStore
  <2> QED BY <1>1, <1>i, <1>k, <1>e, <2>1, <1>s DEF InitStore, HandsOver, Owned, ObjectPCs, HoldingPCs,
    ServerPCs
<1>2. CASE InitCustomStore(t)
  <2> DEFINE r == [do EXCEPT !.pc = "store_custom"]
  <2>1. th'[t].do = r /\ \A u \in Threads : u # t => th'[u] = th[u]
    BY <1>2, <1>g DEF InitCustomStore
  <2>2. r.pc = "store_custom" /\ r.cbs = do.cbs
    BY <1>0 DEF OperationOK, Doing
  <2> HIDE DEF r
  <2> QED BY <1>2, <1>k, <1>e, <2>1, <2>2, <1>s DEF InitCustomStore, HandsOver, Owned, ObjectPCs,
    HoldingPCs, ServerPCs
<1>3. ASSUME NEW h \in Controllers, CreateCustom(t, h) PROVE HandsOver(t)
  <2> DEFINE r == [do EXCEPT !.pc = "set_custom", !.h = h]
  <2>1. th'[t].do = r /\ \A u \in Threads : u # t => th'[u] = th[u]
    BY <1>3, <1>g DEF CreateCustom
  <2>2. r.pc = "set_custom" /\ r.cbs = do.cbs
    BY <1>0 DEF OperationOK, Doing
  <2> HIDE DEF r
  <2> QED BY <1>3, <1>k, <1>e, <2>1, <2>2 DEF CreateCustom, HandsOver, Owned, ObjectPCs, HoldingPCs,
    ServerPCs
<1>4. CASE CreateCustomFails(t)
  <2>1. th'[t].do = Idle /\ \A u \in Threads : u # t => th'[u] = th[u]
    BY <1>4, <1>r DEF CreateCustomFails
  <2> QED BY <1>4, <1>i, <1>k, <1>e, <2>1 DEF CreateCustomFails, HandsOver, Owned, ObjectPCs,
    HoldingPCs, ServerPCs
<1>5. CASE StoreCustom(t)
  <2>1. th'[t].do = Idle /\ \A u \in Threads : u # t => th'[u] = th[u]
    BY <1>5, <1>r DEF StoreCustom
  <2>3. ASSUME NEW cb \in do.cbs PROVE \E e \in entries' : e[3] = cb
    <3>1. <<do.h, Own, cb>> \in entries'
      BY <1>5 DEF StoreCustom
    <3> QED BY <3>1
  <2>4. entries \subseteq entries'
    BY <1>5 DEF StoreCustom
  <2>5. \A e : e[1] # do.h => (e \in entries' <=> e \in entries)
    BY <1>5 DEF StoreCustom
  <2>6. UNCHANGED <<held, registered>> /\ lost \subseteq lost' /\ do.h \in Handle
    BY <1>5, <1>k DEF StoreCustom, ObjectPCs
  <2> QED BY <1>i, <2>1, <2>3, <2>4, <2>5, <2>6 DEF HandsOver, Owned
<1>6. ASSUME NEW s \in SinkIds \cup {Zero}, NativeAdd(t, s) PROVE HandsOver(t)
  <2> DEFINE r == [do EXCEPT !.pc = "store_sink", !.slot = <<do.slot[1], s>>]
  <2>1. th'[t].do = r /\ \A u \in Threads : u # t => th'[u] = th[u]
    BY <1>6, <1>g DEF NativeAdd
  <2>2. r.pc = "store_sink" /\ r.cbs = do.cbs
    BY <1>0 DEF OperationOK, Doing
  <2> HIDE DEF r
  <2> QED BY <1>6, <1>k, <1>e, <2>1, <2>2 DEF NativeAdd, HandsOver, Owned, ObjectPCs, HoldingPCs,
    ServerPCs
<1>7. CASE StoreSink(t)
  <2>1. th'[t].do = Idle /\ \A u \in Threads : u # t => th'[u] = th[u]
    BY <1>7, <1>r DEF StoreSink
  <2>3. ASSUME NEW cb \in do.cbs PROVE \E e \in entries' : e[3] = cb
    <3>1. <<do.h, do.slot, cb>> \in entries'
      BY <1>7 DEF StoreSink
    <3> QED BY <3>1
  <2>4. \A e \in entries \ entries' : e[3] \in lost'
    BY <1>7 DEF StoreSink, CallbacksAt
  <2>5. \A e : e[1] # do.h => (e \in entries' <=> e \in entries)
    BY <1>7 DEF StoreSink
  <2>6. UNCHANGED <<held, registered>> /\ lost \subseteq lost' /\ do.h \in Handle
    BY <1>7, <1>k DEF StoreSink, ObjectPCs
  <2> QED BY <1>i, <2>1, <2>3, <2>4, <2>5, <2>6 DEF HandsOver, Owned
<1>8. CASE TakeLock(t, "lock_remove", "drop_sink")
  <2> DEFINE r == [do EXCEPT !.pc = "drop_sink"]
  <2>1. th'[t].do = r /\ \A u \in Threads : u # t => th'[u] = th[u]
    BY <1>8, <1>g DEF TakeLock
  <2>2. r.pc = "drop_sink" /\ r.cbs = do.cbs
    BY <1>0 DEF OperationOK, Doing
  <2> HIDE DEF r
  <2> QED BY <1>8, <1>k, <1>e, <2>1, <2>2 DEF TakeLock, HandsOver, Owned, ObjectPCs, HoldingPCs,
    ServerPCs
<1>9. CASE TakeLock(t, "lock_clear", "drop_sinks")
  <2> DEFINE r == [do EXCEPT !.pc = "drop_sinks"]
  <2>1. th'[t].do = r /\ \A u \in Threads : u # t => th'[u] = th[u]
    BY <1>9, <1>g DEF TakeLock
  <2>2. r.pc = "drop_sinks" /\ r.cbs = do.cbs
    BY <1>0 DEF OperationOK, Doing
  <2> HIDE DEF r
  <2> QED BY <1>9, <1>k, <1>e, <2>1, <2>2 DEF TakeLock, HandsOver, Owned, ObjectPCs, HoldingPCs,
    ServerPCs
<1>10. CASE TakeLock(t, "lock_destroy", "drop_entry")
  <2> DEFINE r == [do EXCEPT !.pc = "drop_entry"]
  <2>1. th'[t].do = r /\ \A u \in Threads : u # t => th'[u] = th[u]
    BY <1>10, <1>g DEF TakeLock
  <2>2. r.pc = "drop_entry" /\ r.cbs = do.cbs
    BY <1>0 DEF OperationOK, Doing
  <2> HIDE DEF r
  <2> QED BY <1>10, <1>k, <1>e, <2>1, <2>2 DEF TakeLock, HandsOver, Owned, ObjectPCs, HoldingPCs,
    ServerPCs
<1>11. CASE DropSink(t)
  <2> DEFINE r == [do EXCEPT !.pc = "native_remove"]
  <2>1. th'[t].do = r /\ \A u \in Threads : u # t => th'[u] = th[u]
    BY <1>11, <1>g DEF DropSink
  <2>2. r.pc = "native_remove" /\ r.cbs = do.cbs
    BY <1>0 DEF OperationOK, Doing
  <2> HIDE DEF r
  <2> QED BY <1>11, <1>k, <1>e, <2>1, <2>2 DEF DropSink, HandsOver, Owned, ObjectPCs, HoldingPCs,
    ServerPCs, CallbacksAt
<1>12. CASE NativeRemove(t)
  <2>1. th'[t].do = Idle /\ \A u \in Threads : u # t => th'[u] = th[u]
    BY <1>12, <1>r DEF NativeRemove
  <2> QED BY <1>12, <1>i, <1>k, <1>e, <2>1 DEF NativeRemove, HandsOver, Owned, ObjectPCs, HoldingPCs,
    ServerPCs
<1>13. CASE DropSinks(t)
  <2> DEFINE r == [do EXCEPT !.pc = "native_clear"]
  <2>1. th'[t].do = r /\ \A u \in Threads : u # t => th'[u] = th[u]
    BY <1>13, <1>g DEF DropSinks
  <2>2. r.pc = "native_clear" /\ r.cbs = do.cbs
    BY <1>0 DEF OperationOK, Doing
  <2> HIDE DEF r
  <2> QED BY <1>13, <1>k, <1>e, <2>1, <2>2 DEF DropSinks, HandsOver, Owned, ObjectPCs, HoldingPCs,
    ServerPCs, OfSort
<1>14. CASE NativeClear(t)
  <2>1. th'[t].do = Idle /\ \A u \in Threads : u # t => th'[u] = th[u]
    BY <1>14, <1>r DEF NativeClear
  <2> QED BY <1>14, <1>i, <1>k, <1>e, <2>1 DEF NativeClear, HandsOver, Owned, ObjectPCs, HoldingPCs,
    ServerPCs, OfSort
<1>15. CASE NativeRegister(t)
  <2>1. PICK r \in {[do EXCEPT !.pc = "store_name"], [do EXCEPT !.pc = "unregister"]} : Go(t, r)
    BY <1>15 DEF NativeRegister
  <2>2. th'[t].do = r /\ \A u \in Threads : u # t => th'[u] = th[u]
    BY <2>1, <1>g
  <2>3. r.pc \in {"store_name", "unregister"} /\ r.cbs = do.cbs
    BY <1>0, <2>1 DEF OperationOK, Doing
  <2>4. \A e \in held : e[1] = Server => e \in held'
    BY <1>15, <1>k DEF NativeRegister, ObjectPCs
  <2>5. UNCHANGED <<entries, registered, lost>>
    BY <1>15 DEF NativeRegister
  <2> QED BY <2>2, <2>3, <2>4, <2>5 DEF HandsOver, Owned
<1>16. CASE StoreName(t)
  <2> DEFINE r == [do EXCEPT !.pc = "unregister", !.cbs = CallbacksAt(entries, do.h, do.slot)]
  <2>1. th'[t].do = r /\ \A u \in Threads : u # t => th'[u] = th[u]
    BY <1>16, <1>g DEF StoreName
  <2>2. r.pc = "unregister" /\ r.cbs = CallbacksAt(entries, do.h, do.slot)
    BY <1>0 DEF OperationOK, Doing
  <2> HIDE DEF r
  <2>3. ASSUME NEW cb \in do.cbs PROVE \E e \in entries' : e[3] = cb
    <3>1. <<do.h, do.slot, cb>> \in entries'
      BY <1>16 DEF StoreName
    <3> QED BY <3>1
  <2>4. \A e \in entries \ entries' : e[3] \in th'[t].do.cbs
    BY <1>16, <2>1, <2>2 DEF StoreName, CallbacksAt
  <2>5. \A e : e[1] # do.h => (e \in entries' <=> e \in entries)
    BY <1>16 DEF StoreName
  <2>6. UNCHANGED <<held, registered>> /\ lost \subseteq lost' /\ do.h \in Handle
    BY <1>16, <1>k DEF StoreName, ObjectPCs
  <2> QED BY <2>1, <2>2, <2>3, <2>4, <2>5, <2>6 DEF HandsOver, Owned
<1>17. CASE Unregister(t)
  <2>1. th'[t].do = Idle /\ \A u \in Threads : u # t => th'[u] = th[u]
    BY <1>17, <1>r DEF Unregister
  <2> QED BY <1>17, <1>i, <1>k, <1>e, <2>1 DEF Unregister, HandsOver, Owned, ObjectPCs, HoldingPCs,
    ServerPCs
<1>18. CASE NativeUnregister(t)
  <2> DEFINE r == [do EXCEPT !.pc = "delete_name"]
  <2>1. Go(t, r) \/ Return(t)
    BY <1>18 DEF NativeUnregister
  <2>2. \A u \in Threads : u # t => th'[u] = th[u]
    BY <2>1, <1>r, <1>g
  <2>3. r.pc = "delete_name" /\ r.cbs = do.cbs /\ r.h = do.h /\ r.slot = do.slot
    BY <1>0 DEF OperationOK, Doing
  <2>4. \A e \in held : e[1] = Server => e \in held'
    BY <1>18, <1>k DEF NativeUnregister, ObjectPCs
  <2>5. UNCHANGED <<entries, registered, lost>>
    BY <1>18 DEF NativeUnregister
  <2>6. \A cb : cb \in do.cbs <=> \E e \in entries : e[1] = do.h /\ e[2] = do.slot /\ e[3] = cb
    BY <1>18 DEF NativeUnregister, LeakInv, TakesEntry
  <2> HIDE DEF r
  <2>7. CASE Go(t, r)
    BY <2>2, <2>3, <2>4, <2>5, <2>6, <2>7, <1>g DEF HandsOver, Owned
  <2>8. CASE Return(t)
    BY <2>2, <2>4, <2>5, <2>6, <2>8, <1>r, <1>i DEF HandsOver, Owned
  <2> QED BY <2>1, <2>7, <2>8
<1>19. CASE DeleteName(t)
  <2> DEFINE r == [do EXCEPT !.pc = "unregister"]
  <2>1. th'[t].do = r /\ \A u \in Threads : u # t => th'[u] = th[u]
    BY <1>19, <1>g DEF DeleteName
  <2>2. r.pc = "unregister" /\ r.cbs = do.cbs
    BY <1>0 DEF OperationOK, Doing
  <2> HIDE DEF r
  <2>3. \A cb : cb \in do.cbs <=> \E e \in entries : e[1] = do.h /\ e[2] = do.slot /\ e[3] = cb
    BY <1>19 DEF DeleteName, LeakInv, TakesEntry
  <2> QED BY <1>19, <1>k, <2>1, <2>2, <2>3 DEF DeleteName, HandsOver, Owned, ObjectPCs
<1>20. CASE NativeClearNames(t)
  <2> DEFINE r == [do EXCEPT !.pc = "delete_names"]
  <2>1. Go(t, r) \/ Return(t)
    BY <1>20 DEF NativeClearNames
  <2>2. \A u \in Threads : u # t => th'[u] = th[u]
    BY <2>1, <1>r, <1>g
  <2>3. r.pc = "delete_names" /\ do.cbs = {}
    BY <1>0, <1>20, <1>e DEF NativeClearNames, OperationOK, Doing, HoldingPCs, ServerPCs
  <2>4. \A e \in held : e[1] = Server => e \in held'
    BY <1>20, <1>k DEF NativeClearNames, ObjectPCs, OfSort
  <2>5. UNCHANGED <<entries, registered, lost>>
    BY <1>20 DEF NativeClearNames
  <2> HIDE DEF r
  <2>6. th'[t].do = r \/ th'[t].do = Idle
    BY <2>1, <1>r, <1>g
  <2> QED BY <2>2, <2>3, <2>4, <2>5, <2>6, <1>i DEF HandsOver, Owned
<1>21. CASE DeleteNames(t)
  <2> DEFINE mine == OfSort(entries, do.h, do.slot[1])
             r == [do EXCEPT !.pc = "unregister", !.cbs = {e[3] : e \in mine}]
  <2>1. th'[t].do = r /\ \A u \in Threads : u # t => th'[u] = th[u]
    BY <1>21, <1>g DEF DeleteNames
  <2>2. r.pc = "unregister" /\ r.cbs = {e[3] : e \in mine}
    BY <1>0 DEF OperationOK, Doing
  <2>3. do.cbs = {}
    BY <1>21, <1>e DEF DeleteNames, HoldingPCs, ServerPCs
  <2> HIDE DEF r
  <2>4. \A e \in entries \ entries' : e[3] \in th'[t].do.cbs
    BY <1>21, <2>1, <2>2 DEF DeleteNames
  <2>5. \A e : e[1] # do.h => (e \in entries' <=> e \in entries)
    BY <1>21 DEF DeleteNames, OfSort
  <2>6. UNCHANGED <<held, registered>> /\ lost \subseteq lost' /\ do.h \in Handle
    BY <1>21, <1>k DEF DeleteNames, ObjectPCs
  <2> QED BY <2>1, <2>2, <2>3, <2>4, <2>5, <2>6 DEF HandsOver, Owned
<1>22. CASE ServerAccepts(t)
  <2>1. th'[t].do = Idle /\ \A u \in Threads : u # t => th'[u] = th[u]
    BY <1>22, <1>r DEF ServerAccepts
  <2>2. ASSUME NEW cb \in do.cbs PROVE \E e \in held' : e[1] = Server /\ e[3] = cb
    <3>1. <<Server, do.slot, cb>> \in held'
      BY <1>22 DEF ServerAccepts
    <3> QED BY <3>1
  <2> QED BY <1>22, <1>i, <2>1, <2>2 DEF ServerAccepts, HandsOver, Owned
<1>23. CASE ServerRefusesName(t)
  <2> DEFINE r == [do EXCEPT !.pc = "unregister"]
  <2>1. th'[t].do = r /\ \A u \in Threads : u # t => th'[u] = th[u]
    BY <1>23, <1>g DEF ServerRefusesName
  <2>2. r.pc = "unregister" /\ r.cbs = do.cbs
    BY <1>0 DEF OperationOK, Doing
  <2> HIDE DEF r
  <2> QED BY <1>23, <1>k, <1>e, <2>1, <2>2 DEF ServerRefusesName, HandsOver, Owned, ObjectPCs,
    HoldingPCs, ServerPCs
<1>24. CASE ServerRefusesSink(t)
  <2>1. th'[t].do = Idle /\ \A u \in Threads : u # t => th'[u] = th[u]
    BY <1>24, <1>r DEF ServerRefusesSink
  <2> QED BY <1>24, <1>i, <1>k, <1>e, <2>1 DEF ServerRefusesSink, HandsOver, Owned, ObjectPCs,
    HoldingPCs, ServerPCs
<1>25. CASE DropEntry(t)
  <2> DEFINE r == [do EXCEPT !.pc = "native_destroy"]
  <2>1. th'[t].do = r /\ \A u \in Threads : u # t => th'[u] = th[u]
    BY <1>25, <1>g DEF DropEntry
  <2>2. r.pc = "native_destroy" /\ r.cbs = do.cbs
    BY <1>0 DEF OperationOK, Doing
  <2> HIDE DEF r
  <2> QED BY <1>25, <1>k, <1>e, <2>1, <2>2 DEF DropEntry, HandsOver, Owned, ObjectPCs, HoldingPCs,
    ServerPCs, CallbacksOf
<1>26. CASE NativeDestroy(t)
  <2>1. th'[t].do = Idle /\ \A u \in Threads : u # t => th'[u] = th[u]
    BY <1>26, <1>r DEF NativeDestroy
  <2> QED BY <1>26, <1>i, <1>k, <1>e, <2>1 DEF NativeDestroy, HandsOver, Owned, ObjectPCs, HoldingPCs,
    ServerPCs
<1>27. CASE EndLookup(t)
  <2>1. th'[t].do = Idle /\ \A u \in Threads : u # t => th'[u] = th[u]
    BY <1>27, <1>r DEF EndLookup
  <2> QED BY <1>27, <1>i, <1>k, <1>e, <2>1 DEF EndLookup, HandsOver, Owned, ObjectPCs, HoldingPCs,
    ServerPCs
<1>28. CASE AnswerZero(t) \/ HandlerReturns(t)
  <2>1. th'[t].do = Idle \/ th'[t].do = do
    BY <1>0, <1>28 DEF AnswerZero, HandlerReturns
  <2>2. do.cbs = {} /\ do.pc \in {"idle", "found", "missing"}
    BY <1>28, <1>e DEF AnswerZero, HandlerReturns, HoldingPCs, ServerPCs
  <2> QED BY <1>0, <1>28, <1>i, <2>1, <2>2 DEF AnswerZero, HandlerReturns, HandsOver, Owned
<1> QED BY <1>1, <1>2, <1>3, <1>4, <1>5, <1>6, <1>7, <1>8, <1>9, <1>10, <1>11, <1>12, <1>13, <1>14,
  <1>15, <1>16, <1>17, <1>18, <1>19, <1>20, <1>21, <1>22, <1>23, <1>24, <1>25, <1>26, <1>27, <1>28 DEF Continue

\* Every callback in the binding's tables belongs to an entry, to the agent server or to
\* an operation under way, but for those the framework refused (the rollback paths of
\* tasker.go, resource.go, custom_action.go and agent_server.go).
THEOREM NoLeak == Spec => []NoCallbackLeak
<1>1. Init => TypeInv /\ EntryInv /\ LeakInv
  BY TypeInit, EntryInit DEF Init, HandlesInit, LeakInv, TakesEntry, Idle
<1>2. TypeInv /\ EntryInv /\ LeakInv /\ [Next]_vars => TypeInv' /\ EntryInv' /\ LeakInv'
  <2> SUFFICES ASSUME TypeInv, EntryInv, LeakInv, [Next]_vars PROVE LeakInv'
    BY StepTyped, EntryStep
  <2>1. CASE UNCHANGED handleVars
    BY <2>1 DEF LeakInv, Owned, TakesEntry, handleVars
  <2> QED BY <2>1, HandlesPart, BeginHandsOver, ContinueHandsOver, HandsOverKeeps
<1>3. LeakInv => NoCallbackLeak
  BY OwnedIsEnough DEF LeakInv
<1> QED BY <1>1, <1>2, <1>3, PTL DEF Spec

-----------------------------------------------------------------------------
(* The handles: no circular wait                                            *)

LockedPCs == {"drop_sink", "drop_sinks", "drop_entry"}
DestroyPCs == {"lock_destroy", "drop_entry", "native_destroy"}

\* The locks are held where the code holds them, and handlers destroy nothing.
LockInv ==
  /\ \A s \in Stores, t \in Threads : lock[s] = t /\ t # None =>
       th[t].do.pc \in LockedPCs /\ StoreOf(th[t].do.h) = s
  /\ \A k \in Kinds : \A t \in readers[k] :
       th[t].do.pc \in {"found", "missing"} /\ KindOf(th[t].do.slot[1]) = k
  /\ \A t \in Threads : th[t].from # None => th[t].do.pc \notin DestroyPCs

\* A step by which a thread neither takes nor gives up anything another may wait for
Calm(t) ==
  /\ th[t].do.pc \notin LockedPCs \cup {"found", "missing"}
  /\ th'[t].do.pc \in DestroyPCs => th[t].from = None
  /\ th'[t].from = th[t].from
  /\ \A u \in Threads : u # t => th'[u] = th[u]
  /\ UNCHANGED <<lock, readers>>

LEMMA CalmKeeps == ASSUME TypeInv, LockInv, NEW t \in Threads, Calm(t) PROVE LockInv'
<1>1. \A s \in Stores : lock[s] = t => t = None
  BY DEF LockInv, Calm
<1>2. \A k \in Kinds : t \notin readers[k] /\ readers[k] \subseteq Threads
  BY DEF LockInv, Calm, TypeInv, HandlesTypeOK
<1> QED BY <1>1, <1>2 DEF LockInv, Calm

LEMMA BeginLocks == ASSUME TypeInv, LockInv, NEW t \in Threads, Begin(t) PROVE LockInv'
<1>1. ASSUME NEW h \in Handle, Create(t, h) PROVE LockInv'
  <2> DEFINE r == [pc |-> "set", h |-> h, slot |-> None, cbs |-> {}]
  <2>1. OperationOK(r)
    BY DEF OperationOK, Doing, PCs, ObjectPCs, ServerPCs, NoPCs, HoldingPCs
  <2>2. Go(t, r)
    BY <1>1 DEF Create
  <2>3. th'[t].do = r /\ th'[t].from = th[t].from /\ \A u \in Threads : u # t => th'[u] = th[u]
    BY <2>1, <2>2, GoStep
  <2>4. Calm(t)
    BY <1>1, <2>3 DEF Create, Calm, At, LockedPCs, DestroyPCs
  <2> QED BY <2>4, CalmKeeps
<1>2. ASSUME NEW r, Starts(t, r) PROVE LockInv'
  <2>1. th'[t].do = r /\ th'[t].from = th[t].from /\ \A u \in Threads : u # t => th'[u] = th[u]
    BY <1>2, GoStep DEF Starts
  <2>2. Calm(t)
    BY <1>2, <2>1 DEF Starts, Calm, At, LockedPCs, DestroyPCs, ServerPCs
  <2> QED BY <2>2, CalmKeeps
<1>3. ASSUME NEW e \in held, Deliver(t, e) PROVE LockInv'
  <2> DEFINE do == [Idle EXCEPT !.pc = IF e[3] \in registered THEN "found" ELSE "missing",
                                !.slot = e[2]]
  <2>1. th' = [th EXCEPT ![t] = [do |-> do, from |-> e[1]]]
    BY <1>3 DEF Deliver
  <2>2. th'[t].do = do /\ \A u \in Threads : u # t => th'[u] = th[u]
    BY <2>1 DEF TypeInv, HandlesTypeOK
  <2>3. do.slot = e[2] /\ do.pc \in {"found", "missing"}
    BY DEF Idle
  <2> HIDE DEF do
  <2>4. th[t].do.pc = "idle" /\ lock' = lock /\ readers' = [readers EXCEPT ![e[3][1]] = @ \cup {t}]
    BY <1>3 DEF Deliver, At
  <2>5. \A s \in Stores, u \in Threads : lock'[s] = u /\ u # None =>
          th'[u].do.pc \in LockedPCs /\ StoreOf(th'[u].do.h) = s
    BY <2>2, <2>4 DEF LockInv, LockedPCs
  <2>6. ASSUME NEW k \in Kinds, NEW u \in readers'[k]
        PROVE  th'[u].do.pc \in {"found", "missing"} /\ KindOf(th'[u].do.slot[1]) = k
    <3>1. CASE u = t
      <4>1. t \notin readers[k]
        BY <2>4 DEF LockInv
      <4>2. k = e[3][1]
        BY <3>1, <4>1, <2>4 DEF TypeInv, HandlesTypeOK
      <4>3. e[3][1] = KindOf(e[2][1])
        BY DEF TypeInv
      <4> QED BY <3>1, <4>2, <4>3, <2>2, <2>3
    <3>2. CASE u # t
      <4>1. u \in readers[k] /\ u \in Threads
        BY <3>2, <2>4 DEF TypeInv, HandlesTypeOK
      <4> QED BY <3>2, <4>1, <2>2 DEF LockInv
    <3> QED BY <3>1, <3>2
  <2>7. \A u \in Threads : th'[u].from # None => th'[u].do.pc \notin DestroyPCs
    BY <2>2, <2>3 DEF LockInv, DestroyPCs
  <2> QED BY <2>5, <2>6, <2>7 DEF LockInv
<1> QED BY BeginCases, <1>1, <1>2, <1>3

\* What a thread does under a store's lock ends with the lock free again.
LEMMA UnlockKeeps ==
  ASSUME TypeInv, LockInv, NEW t \in Threads, th[t].do.pc \in LockedPCs,
         lock' = [lock EXCEPT ![StoreOf(th[t].do.h)] = None], readers' = readers,
         th'[t].do.pc \in DestroyPCs => th[t].from = None, th'[t].from = th[t].from,
         \A u \in Threads : u # t => th'[u] = th[u]
  PROVE  LockInv'
<1>1. \A s \in Stores : lock'[s] = IF s = StoreOf(th[t].do.h) THEN None ELSE lock[s]
  BY DEF TypeInv, HandlesTypeOK
<1>2. \A s \in Stores : lock'[s] = t => t = None
  BY <1>1 DEF LockInv
<1>3. \A s \in Stores, u \in Threads : lock'[s] = u /\ u # None =>
        th'[u].do.pc \in LockedPCs /\ StoreOf(th'[u].do.h) = s
  BY <1>1, <1>2 DEF LockInv
<1>4. \A k \in Kinds : t \notin readers[k] /\ readers[k] \subseteq Threads
  BY DEF LockInv, LockedPCs, TypeInv, HandlesTypeOK
<1> QED BY <1>3, <1>4 DEF LockInv

LEMMA LookupEnds ==
  ASSUME TypeInv, LockInv, NEW t \in Threads, th[t].do.pc \in {"found", "missing"},
         readers' = [readers EXCEPT ![KindOf(th[t].do.slot[1])] = @ \ {t}], lock' = lock,
         th'[t].do = Idle, \A u \in Threads : u # t => th'[u] = th[u]
  PROVE  LockInv'
<1>1. \A k \in Kinds : readers'[k] = readers[k] \ {t}
  BY DEF LockInv, TypeInv, HandlesTypeOK
<1>2. \A k \in Kinds : readers[k] \subseteq Threads
  BY DEF TypeInv, HandlesTypeOK
<1>3. \A s \in Stores : lock[s] = t => t = None
  BY DEF LockInv, LockedPCs
<1> QED BY <1>1, <1>2, <1>3 DEF LockInv, Idle, DestroyPCs

LEMMA ContinueLocks == ASSUME TypeInv, LockInv, NEW t \in Threads, Continue(t) PROVE LockInv'
<1> DEFINE do == th[t].do
<1> USE DEF At
<1>0. OperationOK(do) /\ th \in [Threads -> [do : Doing, from : Handle \cup {Server, None}]]
  BY DEF TypeInv, HandlesTypeOK
<1>r. ASSUME Return(t)
      PROVE  th'[t].do = Idle /\ th'[t].from = th[t].from /\ \A u \in Threads : u # t => th'[u] = th[u]
  BY <1>r, ReturnStep
<1>g. ASSUME NEW r, Go(t, r)
      PROVE  th'[t].do = r /\ th'[t].from = th[t].from /\ \A u \in Threads : u # t => th'[u] = th[u]
  BY <1>g, <1>0 DEF Go
<1>i. Idle.pc = "idle"
  BY DEF Idle
<1>1. CASE InitStore(t)
  <2>1. Calm(t)
    BY <1>1, <1>r, <1>i DEF InitStore, Calm, LockedPCs, DestroyPCs
  <2> QED BY <2>1, CalmKeeps
<1>2. CASE CreateCustomFails(t)
  <2>1. Calm(t)
    BY <1>2, <1>r, <1>i DEF CreateCustomFails, Calm, LockedPCs, DestroyPCs
  <2> QED BY <2>1, CalmKeeps
<1>3. CASE StoreCustom(t)
  <2>1. Calm(t)
    BY <1>3, <1>r, <1>i DEF StoreCustom, Calm, LockedPCs, DestroyPCs
  <2> QED BY <2>1, CalmKeeps
<1>4. CASE StoreSink(t)
  <2>1. Calm(t)
    BY <1>4, <1>r, <1>i DEF StoreSink, Calm, LockedPCs, DestroyPCs
  <2> QED BY <2>1, CalmKeeps
<1>5. CASE NativeRemove(t)
  <2>1. Calm(t)
    BY <1>5, <1>r, <1>i DEF NativeRemove, Calm, LockedPCs, DestroyPCs
  <2> QED BY <2>1, CalmKeeps
<1>6. CASE NativeClear(t)
  <2>1. Calm(t)
    BY <1>6, <1>r, <1>i DEF NativeClear, Calm, LockedPCs, DestroyPCs
  <2> QED BY <2>1, CalmKeeps
<1>7. CASE Unregister(t)
  <2>1. Calm(t)
    BY <1>7, <1>r, <1>i DEF Unregister, Calm, LockedPCs, DestroyPCs
  <2> QED BY <2>1, CalmKeeps
<1>8. CASE ServerAccepts(t)
  <2>1. Calm(t)
    BY <1>8, <1>r, <1>i DEF ServerAccepts, Calm, LockedPCs, DestroyPCs
  <2> QED BY <2>1, CalmKeeps
<1>9. CASE ServerRefusesSink(t)
  <2>1. Calm(t)
    BY <1>9, <1>r, <1>i DEF ServerRefusesSink, Calm, LockedPCs, DestroyPCs
  <2> QED BY <2>1, CalmKeeps
<1>10. CASE NativeDestroy(t)
  <2>1. Calm(t)
    BY <1>10, <1>r, <1>i DEF NativeDestroy, Calm, LockedPCs, DestroyPCs
  <2> QED BY <2>1, CalmKeeps
<1>11. ASSUME NEW h \in Controllers, CreateCustom(t, h) PROVE LockInv'
  <2> DEFINE r == [do EXCEPT !.pc = "set_custom", !.h = h]
  <2>1. th'[t].do = r /\ th'[t].from = th[t].from /\ \A u \in Threads : u # t => th'[u] = th[u]
    BY <1>11, <1>g DEF CreateCustom
  <2>2. r.pc = "set_custom"
    BY <1>0 DEF OperationOK, Doing
  <2> HIDE DEF r
  <2>3. Calm(t)
    BY <1>11, <2>1, <2>2 DEF CreateCustom, Calm, LockedPCs, DestroyPCs
  <2> QED BY <2>3, CalmKeeps
<1>12. CASE InitCustomStore(t)
  <2> DEFINE r == [do EXCEPT !.pc = "store_custom"]
  <2>1. th'[t].do = r /\ th'[t].from = th[t].from /\ \A u \in Threads : u # t => th'[u] = th[u]
    BY <1>12, <1>g DEF InitCustomStore
  <2>2. r.pc = "store_custom"
    BY <1>0 DEF OperationOK, Doing
  <2> HIDE DEF r
  <2>3. Calm(t)
    BY <1>12, <2>1, <2>2 DEF InitCustomStore, Calm, LockedPCs, DestroyPCs
  <2> QED BY <2>3, CalmKeeps
<1>13. ASSUME NEW s \in SinkIds \cup {Zero}, NativeAdd(t, s) PROVE LockInv'
  <2> DEFINE r == [do EXCEPT !.pc = "store_sink", !.slot = <<do.slot[1], s>>]
  <2>1. th'[t].do = r /\ th'[t].from = th[t].from /\ \A u \in Threads : u # t => th'[u] = th[u]
    BY <1>13, <1>g DEF NativeAdd
  <2>2. r.pc = "store_sink"
    BY <1>0 DEF OperationOK, Doing
  <2> HIDE DEF r
  <2>3. Calm(t)
    BY <1>13, <2>1, <2>2 DEF NativeAdd, Calm, LockedPCs, DestroyPCs
  <2> QED BY <2>3, CalmKeeps
<1>14. CASE StoreName(t)
  <2> DEFINE r == [do EXCEPT !.pc = "unregister", !.cbs = CallbacksAt(entries, do.h, do.slot)]
  <2>1. th'[t].do = r /\ th'[t].from = th[t].from /\ \A u \in Threads : u # t => th'[u] = th[u]
    BY <1>14, <1>g DEF StoreName
  <2>2. r.pc = "unregister"
    BY <1>0 DEF OperationOK, Doing
  <2> HIDE DEF r
  <2>3. Calm(t)
    BY <1>14, <2>1, <2>2 DEF StoreName, Calm, LockedPCs, DestroyPCs
  <2> QED BY <2>3, CalmKeeps
<1>15. CASE DeleteName(t)
  <2> DEFINE r == [do EXCEPT !.pc = "unregister"]
  <2>1. th'[t].do = r /\ th'[t].from = th[t].from /\ \A u \in Threads : u # t => th'[u] = th[u]
    BY <1>15, <1>g DEF DeleteName
  <2>2. r.pc = "unregister"
    BY <1>0 DEF OperationOK, Doing
  <2> HIDE DEF r
  <2>3. Calm(t)
    BY <1>15, <2>1, <2>2 DEF DeleteName, Calm, LockedPCs, DestroyPCs
  <2> QED BY <2>3, CalmKeeps
<1>16. CASE DeleteNames(t)
  <2> DEFINE r == [do EXCEPT !.pc = "unregister", !.cbs = {e[3] : e \in OfSort(entries, do.h, do.slot[1])}]
  <2>1. th'[t].do = r /\ th'[t].from = th[t].from /\ \A u \in Threads : u # t => th'[u] = th[u]
    BY <1>16, <1>g DEF DeleteNames
  <2>2. r.pc = "unregister"
    BY <1>0 DEF OperationOK, Doing
  <2> HIDE DEF r
  <2>3. Calm(t)
    BY <1>16, <2>1, <2>2 DEF DeleteNames, Calm, LockedPCs, DestroyPCs
  <2> QED BY <2>3, CalmKeeps
<1>17. CASE ServerRefusesName(t)
  <2> DEFINE r == [do EXCEPT !.pc = "unregister"]
  <2>1. th'[t].do = r /\ th'[t].from = th[t].from /\ \A u \in Threads : u # t => th'[u] = th[u]
    BY <1>17, <1>g DEF ServerRefusesName
  <2>2. r.pc = "unregister"
    BY <1>0 DEF OperationOK, Doing
  <2> HIDE DEF r
  <2>3. Calm(t)
    BY <1>17, <2>1, <2>2 DEF ServerRefusesName, Calm, LockedPCs, DestroyPCs
  <2> QED BY <2>3, CalmKeeps
<1>18. CASE NativeRegister(t)
  <2>1. Go(t, [do EXCEPT !.pc = "store_name"]) \/ Go(t, [do EXCEPT !.pc = "unregister"])
    BY <1>18 DEF NativeRegister
  <2>2. th'[t].from = th[t].from /\ \A u \in Threads : u # t => th'[u] = th[u]
    BY <2>1, <1>r, <1>g
  <2>3. th'[t].do.pc \in {"store_name", "unregister"}
    BY <2>1, <1>0, <1>r, <1>g, <1>i DEF OperationOK, Doing
  <2>4. Calm(t)
    BY <1>18, <2>2, <2>3 DEF NativeRegister, Calm, LockedPCs, DestroyPCs
  <2> QED BY <2>4, CalmKeeps
<1>19. CASE NativeUnregister(t)
  <2>1. Go(t, [do EXCEPT !.pc = "delete_name"]) \/ Return(t)
    BY <1>19 DEF NativeUnregister
  <2>2. th'[t].from = th[t].from /\ \A u \in Threads : u # t => th'[u] = th[u]
    BY <2>1, <1>r, <1>g
  <2>3. th'[t].do.pc \in {"delete_name", "idle"}
    BY <2>1, <1>0, <1>r, <1>g, <1>i DEF OperationOK, Doing
  <2>4. Calm(t)
    BY <1>19, <2>2, <2>3 DEF NativeUnregister, Calm, LockedPCs, DestroyPCs
  <2> QED BY <2>4, CalmKeeps
<1>20. CASE NativeClearNames(t)
  <2>1. Go(t, [do EXCEPT !.pc = "delete_names"]) \/ Return(t)
    BY <1>20 DEF NativeClearNames
  <2>2. th'[t].from = th[t].from /\ \A u \in Threads : u # t => th'[u] = th[u]
    BY <2>1, <1>r, <1>g
  <2>3. th'[t].do.pc \in {"delete_names", "idle"}
    BY <2>1, <1>0, <1>r, <1>g, <1>i DEF OperationOK, Doing
  <2>4. Calm(t)
    BY <1>20, <2>2, <2>3 DEF NativeClearNames, Calm, LockedPCs, DestroyPCs
  <2> QED BY <2>4, CalmKeeps
<1>21. CASE DropSink(t)
  <2> DEFINE r == [do EXCEPT !.pc = "native_remove"]
  <2>1. th'[t].do = r /\ th'[t].from = th[t].from /\ \A u \in Threads : u # t => th'[u] = th[u]
    BY <1>21, <1>g DEF DropSink
  <2>2. r.pc = "native_remove"
    BY <1>0 DEF OperationOK, Doing
  <2> HIDE DEF r
  <2> QED BY <1>21, <2>1, <2>2, UnlockKeeps DEF DropSink, LockInv, LockedPCs, DestroyPCs
<1>22. CASE DropSinks(t)
  <2> DEFINE r == [do EXCEPT !.pc = "native_clear"]
  <2>1. th'[t].do = r /\ th'[t].from = th[t].from /\ \A u \in Threads : u # t => th'[u] = th[u]
    BY <1>22, <1>g DEF DropSinks
  <2>2. r.pc = "native_clear"
    BY <1>0 DEF OperationOK, Doing
  <2> HIDE DEF r
  <2> QED BY <1>22, <2>1, <2>2, UnlockKeeps DEF DropSinks, LockInv, LockedPCs, DestroyPCs
<1>23. CASE DropEntry(t)
  <2> DEFINE r == [do EXCEPT !.pc = "native_destroy"]
  <2>1. th'[t].do = r /\ th'[t].from = th[t].from /\ \A u \in Threads : u # t => th'[u] = th[u]
    BY <1>23, <1>g DEF DropEntry
  <2>2. r.pc = "native_destroy"
    BY <1>0 DEF OperationOK, Doing
  <2> HIDE DEF r
  <2> QED BY <1>23, <2>1, <2>2, UnlockKeeps DEF DropEntry, LockInv, LockedPCs, DestroyPCs
<1>24. CASE \/ TakeLock(t, "lock_remove", "drop_sink")
            \/ TakeLock(t, "lock_clear", "drop_sinks")
            \/ TakeLock(t, "lock_destroy", "drop_entry")
  <2>1. PICK from \in {"lock_remove", "lock_clear", "lock_destroy"}, to \in LockedPCs :
          TakeLock(t, from, to) /\ (to = "drop_entry" => from = "lock_destroy")
    BY <1>24 DEF LockedPCs
  <2> DEFINE r == [do EXCEPT !.pc = to]
  <2>2. th'[t].do = r /\ th'[t].from = th[t].from /\ \A u \in Threads : u # t => th'[u] = th[u]
    BY <2>1, <1>g DEF TakeLock
  <2>3. r.pc = to /\ r.h = do.h
    BY <1>0 DEF OperationOK, Doing
  <2> HIDE DEF r
  <2>4. /\ do.pc = from /\ readers' = readers
        /\ lock[StoreOf(do.h)] = None /\ lock' = [lock EXCEPT ![StoreOf(do.h)] = t]
    BY <2>1 DEF TakeLock
  <2>5. \A s \in Stores : lock'[s] = IF s = StoreOf(do.h) THEN t ELSE lock[s]
    BY <2>4 DEF TypeInv, HandlesTypeOK
  <2>6. \A s \in Stores : lock[s] = t => t = None
    BY <2>4 DEF LockInv, LockedPCs
  <2>7. \A s \in Stores, u \in Threads : lock'[s] = u /\ u # None =>
          th'[u].do.pc \in LockedPCs /\ StoreOf(th'[u].do.h) = s
    BY <2>2, <2>3, <2>5, <2>6 DEF LockInv
  <2>8. \A k \in Kinds : t \notin readers[k] /\ readers[k] \subseteq Threads
    BY <2>4 DEF LockInv, TypeInv, HandlesTypeOK
  <2>9. \A u \in Threads : th'[u].from # None => th'[u].do.pc \notin DestroyPCs
    BY <2>1, <2>2, <2>3, <2>4 DEF LockInv, DestroyPCs, LockedPCs
  <2> QED BY <2>2, <2>4, <2>7, <2>8, <2>9 DEF LockInv
<1>25. CASE EndLookup(t)
  BY <1>25, <1>r, LookupEnds DEF EndLookup
<1>26. CASE AnswerZero(t)
  <2>1. th'[t].do = Idle /\ \A u \in Threads : u # t => th'[u] = th[u]
    BY <1>0, <1>26 DEF AnswerZero
  <2> QED BY <1>26, <2>1, LookupEnds DEF AnswerZero
<1>27. CASE HandlerReturns(t)
  <2>1. th'[t].do = do /\ th'[t].from = None /\ \A u \in Threads : u # t => th'[u] = th[u]
    BY <1>0, <1>27 DEF HandlerReturns
  <2>2. \A k \in Kinds : readers[k] \subseteq Threads
    BY DEF TypeInv, HandlesTypeOK
  <2> QED BY <1>27, <2>1, <2>2 DEF HandlerReturns, LockInv
<1> QED BY <1>1, <1>2, <1>3, <1>4, <1>5, <1>6, <1>7, <1>8, <1>9, <1>10, <1>11, <1>12, <1>13, <1>14,
  <1>15, <1>16, <1>17, <1>18, <1>19, <1>20, <1>21, <1>22, <1>23, <1>24, <1>25, <1>26, <1>27 DEF Continue

LEMMA LockStep == TypeInv /\ LockInv /\ [Next]_vars => LockInv'
<1> SUFFICES ASSUME TypeInv, LockInv, [Next]_vars PROVE LockInv'
  OBVIOUS
<1>1. CASE UNCHANGED handleVars
  BY <1>1 DEF LockInv, handleVars
<1> QED BY <1>1, HandlesPart, BeginLocks, ContinueLocks

\* Those who wait for a destroyed object's deliveries wait for threads that hold
\* nothing back, those who wait for a store's lock for threads that wait for look-ups
\* at most, and a look-up waits for nobody.
LEMMA WaitsEnd == TypeInv /\ LockInv => NoCircularWait
<1> SUFFICES ASSUME TypeInv, LockInv, NEW S \in SUBSET Threads, S # {}
             PROVE  \E t \in S : WaitsFor(t) \cap S = {}
  BY DEF NoCircularWait
<1> DEFINE ForLock == {"set", "set_custom", "store_custom", "store_sink", "store_name", "delete_name",
                       "delete_names", "lock_remove", "lock_clear", "lock_destroy"}
           ForTable(t) == th[t].do.pc \in LockedPCs \cup {"unregister"}
                          \/ (th[t].do.pc = "idle" /\ th[t].from # None)
<1>1. \A k, u : u \in readers[k] /\ k \in Kinds => th[u].do.pc \in {"found", "missing"}
  BY DEF LockInv
<1>2. CASE \E t \in S : th[t].do.pc \in {"found", "missing"}
  BY <1>2 DEF WaitsFor
<1>3. CASE (\A t \in S : th[t].do.pc \notin {"found", "missing"}) /\ \E t \in S : ForTable(t)
  <2>1. PICK t \in S : ForTable(t)
    BY <1>3
  <2>2. WaitsFor(t) \subseteq UNION {readers[k] : k \in Kinds}
    <3>1. OperationOK(th[t].do)
      BY DEF TypeInv
    <3>2. CASE th[t].do.pc \in {"drop_sink", "drop_sinks"}
      BY <3>2 DEF WaitsFor, Kinds
    <3>3. CASE th[t].do.pc = "drop_entry"
      <4>1. Visits(th[t].do.h) \subseteq Kinds
        BY DEF Visits, CallbacksOf, TypeInv, HandlesTypeOK, Callback, Kinds
      <4> QED BY <3>3, <4>1 DEF WaitsFor
    <3>4. CASE th[t].do.pc = "unregister"
      <4>1. KindOf(th[t].do.slot[1]) \in Kinds
        BY <3>4, <3>1, SlotFacts DEF OperationOK
      <4> QED BY <3>4, <4>1 DEF WaitsFor
    <3>5. CASE th[t].do.pc = "idle" /\ th[t].from # None
      BY <3>5 DEF WaitsFor
    <3> QED BY <2>1, <3>2, <3>3, <3>4, <3>5 DEF LockedPCs
  <2> QED BY <1>1, <1>3, <2>1, <2>2
<1>4. CASE (\A t \in S : ~ForTable(t)) /\ \E t \in S : th[t].do.pc \in ForLock
  <2>1. PICK t \in S : th[t].do.pc \in ForLock
    BY <1>4
  <2>2. WaitsFor(t) = {lock[StoreOf(th[t].do.h)]} \ {None}
    BY <2>1 DEF WaitsFor
  <2>3. \A u \in WaitsFor(t) \cap S : ForTable(u)
    BY <2>2, SlotFacts DEF LockInv
  <2> QED BY <1>4, <2>1, <2>3
<1>5. CASE \A t \in S : ~ForTable(t) /\ th[t].do.pc \notin ForLock \cup {"found", "missing"}
  <2>1. PICK t \in S : TRUE
    OBVIOUS
  <2>2. CASE th[t].do.pc # "native_destroy"
    BY <1>5, <2>1, <2>2 DEF WaitsFor, LockedPCs
  <2>3. CASE th[t].do.pc = "native_destroy" /\ \E u \in S : th[u].do.pc # "native_destroy"
    <3>1. PICK u \in S : th[u].do.pc # "native_destroy"
      BY <2>3
    <3> QED BY <1>5, <3>1 DEF WaitsFor, LockedPCs
  <2>4. CASE \A u \in S : th[u].do.pc = "native_destroy"
    <3>1. th[t].do.h \in Handle
      BY <2>1, <2>4 DEF TypeInv, OperationOK, ObjectPCs
    <3>2. WaitsFor(t) = Delivering(th[t].do.h)
      BY <2>1, <2>4 DEF WaitsFor
    <3>3. \A u \in Delivering(th[t].do.h) : th[u].do.pc # "native_destroy"
      BY <3>1, AddressAssumption DEF Delivering, LockInv, DestroyPCs
    <3> QED BY <2>1, <2>4, <3>2, <3>3
  <2> QED BY <2>1, <2>2, <2>3, <2>4
<1> QED BY <1>2, <1>3, <1>4, <1>5

\* No threads wait for each other in a circle, with any number of objects and threads
\* and whatever the handlers call (the locks of store.go and of the callback tables).
THEOREM NoDeadlock == Spec => []NoCircularWait
<1>1. Init => TypeInv /\ LockInv
  BY TypeInit DEF Init, HandlesInit, LockInv, Idle
<1>2. TypeInv /\ LockInv /\ [Next]_vars => TypeInv' /\ LockInv'
  BY StepTyped, LockStep
<1> QED BY <1>1, <1>2, WaitsEnd, PTL DEF Spec

-----------------------------------------------------------------------------
(***************************************************************************)
(* Entries and the framework.  An operation visits the framework, the      *)
(* store and a table one after the other, so the two differ while it       *)
(* lasts.  The invariant says by how much at every point of every          *)
(* operation, and that a callback is at one place at most: what an         *)
(* operation unregisters is in no entry any more, and what it is going to  *)
(* store is still in its table.                                            *)
(***************************************************************************)

\* What the framework may hold for an object, and an entry may say.
Triples == Handle \X Slot \X Callback

\* A sink that the framework refused is stored under 0, which the framework does not know.
Real(e) == e[2][1] \in SinkSorts => e[2][2] # Zero
Matches(e) == e \in held <=> e \in entries /\ Real(e)

\* Where an operation is between the framework and the entry, and what it has told
\* the framework, or has dropped of the entry.
Told(o, e) == o.pc \in {"set_custom", "store_custom", "store_sink", "store_name"} /\ e[2] = o.slot
Untold(o, e) ==
  \/ o.pc = "delete_name" /\ e[2] = o.slot
  \/ o.pc = "delete_names" /\ e[2][1] = o.slot[1]
Dropped(o, e) ==
  \/ o.pc = "native_remove" /\ e[2] = o.slot
  \/ o.pc = "native_clear" /\ e[2][1] = o.slot[1]
  \/ o.pc = "native_destroy"

\* What the framework holds is what the entry says, or what the object's operation
\* is about to make it say.
Fits(o, e) ==
  /\ Told(o, e) => (e \in held <=> e[3] \in o.cbs /\ Real(e))
  /\ Untold(o, e) => e \notin held
  /\ Dropped(o, e) => e \notin entries
  /\ ~Told(o, e) /\ ~Untold(o, e) /\ ~Dropped(o, e) => Matches(e)

\* Everywhere else the two agree, and an object being created has an empty entry.
MatchInv ==
  /\ \A e \in Triples :
       /\ \A t \in Threads : th[t].do.h = e[1] => Fits(th[t].do, e)
       /\ (\A t \in Threads : th[t].do.h # e[1]) => Matches(e)
  /\ \A t \in Threads : th[t].do.pc = "store_custom" => \A e \in entries : e[1] # th[t].do.h

\* Operations that hold a callback of an entry
TakingPCs == {"native_unregister", "delete_name"}
\* Operations that hold one they are going to store
StoringPCs == {"create_custom", "set_custom", "store_custom", "native_add", "store_sink",
               "native_register", "store_name"}

\* A callback belongs to one slot of one object, or to one operation.
CallbackInv ==
  /\ \A e, f \in entries : e[3] = f[3] => e = f
  /\ \A t, u \in Threads : t # u => th[t].do.cbs \cap th[u].do.cbs = {}
  /\ \A t \in Threads, e \in entries : e[3] \in th[t].do.cbs =>
       th[t].do.pc \in TakingPCs /\ e[1] = th[t].do.h /\ e[2] = th[t].do.slot
  /\ \A e \in entries : e[3] \in registered
  /\ \A t \in Threads : th[t].do.pc \in StoringPCs => th[t].do.cbs \subseteq registered

-----------------------------------------------------------------------------
(* What a step must leave as it is                                          *)

\* Membership in the set of triples that an operation adds, by components.
LEMMA TripleIn ==
  ASSUME NEW e \in Triples, NEW h, NEW s, NEW C
  PROVE  e \in {<<h, s, cb>> : cb \in C} <=> e[1] = h /\ e[2] = s /\ e[3] \in C
<1>1. PICK a \in Handle, b \in Slot, c \in Callback : e = <<a, b, c>>
  BY DEF Triples
<1> QED
  BY <1>1

\* An object's thread changes what the framework holds for it and what its entry says
\* together, up to what the operation remembers.
KeepsMatch(t) ==
  /\ \A u \in Threads : u # t => th'[u].do = th[u].do
  /\ \A e \in Triples : e[1] \notin {th[t].do.h, th'[t].do.h} =>
       (e \in held' <=> e \in held) /\ (e \in entries' <=> e \in entries)
  /\ \A e \in Triples : e[1] = th'[t].do.h => Fits(th[t].do, e)'
  /\ \A e \in Triples : e[1] = th[t].do.h /\ e[1] # th'[t].do.h => Matches(e)'
  /\ th'[t].do.pc = "store_custom" => \A e \in entries' : e[1] # th'[t].do.h

\* That is enough: other objects have other threads.
LEMMA MatchKept ==
  ASSUME TypeInv, TypeInv', EntryInv, EntryInv', MatchInv, NEW t \in Threads, KeepsMatch(t)
  PROVE  MatchInv'
<1>1. entries \subseteq Triples /\ entries' \subseteq Triples
  BY DEF TypeInv, HandlesTypeOK, Triples
<1>2. ASSUME NEW e \in Triples, NEW u \in Threads, th'[u].do.h = e[1]
      PROVE  Fits(th[u].do, e)'
  <2>1. CASE u = t
    BY <1>2, <2>1 DEF KeepsMatch
  <2>2. CASE u # t
    <3>1. e[1] \in Handle /\ th[u].do = th'[u].do
      BY <2>2 DEF KeepsMatch, Triples
    <3>2. e[1] \notin {th[t].do.h, th'[t].do.h}
      BY <1>2, <2>2, <3>1 DEF EntryInv, Alone
    <3>3. Fits(th[u].do, e)
      BY <1>2, <3>1 DEF MatchInv
    <3>4. (e \in held' <=> e \in held) /\ (e \in entries' <=> e \in entries)
      BY <3>2 DEF KeepsMatch
    <3> QED
      BY <3>1, <3>3, <3>4 DEF Fits, Told, Untold, Dropped, Matches, Real
  <2> QED
    BY <2>1, <2>2
<1>3. ASSUME NEW e \in Triples, \A u \in Threads : th'[u].do.h # e[1]
      PROVE  Matches(e)'
  <2>1. CASE e[1] = th[t].do.h
    BY <1>3, <2>1 DEF KeepsMatch
  <2>2. CASE e[1] # th[t].do.h
    <3>1. \A u \in Threads : th[u].do.h # e[1]
      BY <1>3, <2>2 DEF KeepsMatch
    <3>2. Matches(e)
      BY <3>1 DEF MatchInv
    <3> QED
      BY <1>3, <2>2, <3>2 DEF KeepsMatch, Matches, Real
  <2> QED
    BY <2>1, <2>2
<1>4. ASSUME NEW e \in entries', NEW u \in Threads, th'[u].do.pc = "store_custom"
      PROVE  e[1] # th'[u].do.h
  <2>1. CASE u = t
    BY <1>4, <2>1 DEF KeepsMatch
  <2>2. CASE u # t /\ e[1] = th'[u].do.h
    <3>1. th[u].do = th'[u].do /\ e \in Triples /\ e[1] \in Handle
      BY <1>1, <2>2 DEF KeepsMatch, Triples
    <3>2. e[1] \notin {th[t].do.h, th'[t].do.h}
      BY <2>2, <3>1 DEF EntryInv, Alone
    <3>3. e \in entries
      BY <3>1, <3>2 DEF KeepsMatch
    <3> QED
      BY <1>4, <2>2, <3>1, <3>3 DEF MatchInv
  <2> QED
    BY <2>1, <2>2
<1> QED
  BY <1>2, <1>3, <1>4 DEF MatchInv

\* A thread stores callbacks it holds, and takes callbacks that are new or its object's.
KeepsCallbacks(t) ==
  /\ \A u \in Threads : u # t => th'[u].do = th[u].do
  /\ \A cb \in th'[t].do.cbs :
       \/ cb \in th[t].do.cbs
       \/ \E e \in entries : e[3] = cb /\ e[1] \in {th[t].do.h, th'[t].do.h}
       \/ Fresh(cb)
  /\ \A e \in entries' : e \in entries \/
       /\ th[t].do.pc \in StoringPCs /\ e[3] \in th[t].do.cbs
       /\ e[1] = th[t].do.h /\ e[2] = th[t].do.slot
  /\ \A e \in entries' : e[3] \in th'[t].do.cbs =>
       th'[t].do.pc \in TakingPCs /\ e[1] = th'[t].do.h /\ e[2] = th'[t].do.slot
  /\ \A cb \in registered \ registered' :
       \/ th[t].do.pc = "unregister" /\ cb \in th[t].do.cbs
       \/ \E e \in entries \ entries' : e[3] = cb
  /\ th'[t].do.pc \in StoringPCs => th'[t].do.cbs \subseteq registered'

\* That is enough: other operations hold other callbacks.
LEMMA CallbacksKept ==
  ASSUME TypeInv, TypeInv', EntryInv, EntryInv', CallbackInv, NEW t \in Threads, KeepsCallbacks(t)
  PROVE  CallbackInv'
<1> USE DEF KeepsCallbacks
<1>1. entries \subseteq Triples /\ entries' \subseteq Triples
  BY DEF TypeInv, HandlesTypeOK, Triples
<1>2. \A x \in {"unregister"} \cup StoringPCs : x \notin TakingPCs
  BY DEF StoringPCs, TakingPCs
<1>3. "unregister" \notin StoringPCs
  BY DEF StoringPCs
<1>4. ASSUME NEW e \in entries', NEW f \in entries', e[3] = f[3] PROVE e = f
  <2>1. CASE e \in entries /\ f \in entries
    BY <1>4, <2>1 DEF CallbackInv
  <2>2. CASE e \notin entries /\ f \notin entries
    <3>1. e[1] = f[1] /\ e[2] = f[2]
      BY <2>2
    <3> QED
      BY <1>1, <1>4, <3>1 DEF Triples
  <2>3. ASSUME NEW x \in entries, NEW y \in entries', y \notin entries, x[3] = y[3] PROVE FALSE
    BY <1>2, <2>3 DEF CallbackInv
  <2> QED
    BY <1>4, <2>1, <2>2, <2>3
<1>5. ASSUME NEW u \in Threads, u # t PROVE th'[t].do.cbs \cap th'[u].do.cbs = {}
  <2>1. th'[u].do = th[u].do
    BY <1>5
  <2>2. ASSUME NEW cb \in th'[t].do.cbs, cb \in th[u].do.cbs PROVE FALSE
    <3>1. CASE cb \in th[t].do.cbs
      BY <1>5, <2>2, <3>1 DEF CallbackInv
    <3>2. ASSUME NEW e \in entries, e[3] = cb, e[1] \in {th[t].do.h, th'[t].do.h} PROVE FALSE
      <4>1. e[1] = th[u].do.h /\ e[1] \in Handle
        BY <1>1, <2>2, <3>2 DEF CallbackInv, Triples
      <4> QED
        BY <1>5, <2>1, <3>2, <4>1 DEF EntryInv, Alone
    <3>3. CASE Fresh(cb)
      BY <2>2, <3>3 DEF Fresh
    <3> QED
      BY <2>2, <3>1, <3>2, <3>3
  <2> QED
    BY <2>1, <2>2
<1>6. \A u, v \in Threads : u # v => th'[u].do.cbs \cap th'[v].do.cbs = {}
  BY <1>5 DEF CallbackInv
<1>7. ASSUME NEW u \in Threads, NEW e \in entries', e[3] \in th'[u].do.cbs
      PROVE  th'[u].do.pc \in TakingPCs /\ e[1] = th'[u].do.h /\ e[2] = th'[u].do.slot
  <2>1. CASE u = t
    BY <1>7, <2>1
  <2>2. CASE u # t
    <3>1. e \in entries
      BY <1>7, <2>2 DEF CallbackInv
    <3> QED
      BY <1>7, <2>2, <3>1 DEF CallbackInv
  <2> QED
    BY <2>1, <2>2
<1>8. ASSUME NEW e \in entries' PROVE e[3] \in registered'
  <2>1. e[3] \in registered
    BY <1>8 DEF CallbackInv
  <2>2. ~(th[t].do.pc = "unregister" /\ e[3] \in th[t].do.cbs)
    BY <1>2, <1>3, <1>8 DEF CallbackInv
  <2>3. ASSUME NEW f \in entries, f \notin entries', f[3] = e[3] PROVE FALSE
    BY <1>2, <2>3 DEF CallbackInv
  <2> QED
    BY <2>1, <2>2, <2>3
<1>9. ASSUME NEW u \in Threads, th'[u].do.pc \in StoringPCs PROVE th'[u].do.cbs \subseteq
   registered'
  <2>1. CASE u = t
    BY <1>9, <2>1
  <2>2. ASSUME NEW cb \in th'[u].do.cbs, u # t PROVE cb \in registered'
    <3>1. cb \in registered /\ cb \notin th[t].do.cbs /\ th[u].do.pc \in StoringPCs /\ cb \in th[u].do.cbs
      BY <1>9, <2>2 DEF CallbackInv
    <3>2. ASSUME NEW e \in entries, e[3] = cb PROVE FALSE
      <4>1. th[u].do.pc \in TakingPCs
        BY <3>1, <3>2 DEF CallbackInv
      <4> QED
        BY <1>2, <3>1, <4>1
    <3> QED
      BY <3>1, <3>2
  <2> QED
    BY <2>1, <2>2
<1> QED
  BY <1>4, <1>6, <1>7, <1>8, <1>9 DEF CallbackInv

-----------------------------------------------------------------------------
(* What each step does                                                      *)

\* Every operation begins with the two in agreement.
LEMMA BeginMatches ==
  ASSUME TypeInv, TypeInv', EntryInv, EntryInv', MatchInv, CallbackInv, NEW t \in Threads, Begin(t)
  PROVE  MatchInv' /\ CallbackInv'
<1> DEFINE new == th'[t].do
<1> USE AddressAssumption
<1>1. ASSUME th[t].do.pc = "idle" PROVE th[t].do.h = None /\ th[t].do.cbs = {}
  BY <1>1 DEF TypeInv, OperationOK, NoPCs, HoldingPCs, ServerPCs
<1>2. \A e \in Triples : e[1] \in Handle
  BY DEF Triples
<1>3. ASSUME KeepsMatch(t), KeepsCallbacks(t) PROVE MatchInv' /\ CallbackInv'
  BY <1>3, MatchKept, CallbacksKept
<1>4. ASSUME NEW h \in Handle, Create(t, h) PROVE MatchInv' /\ CallbackInv'
  <2> DEFINE r == [pc |-> "set", h |-> h, slot |-> None, cbs |-> {}]
  <2>1. OperationOK(r)
    BY DEF OperationOK, Doing, PCs, ObjectPCs, ServerPCs, NoPCs, HoldingPCs
  <2>2. Go(t, r)
    BY <1>4 DEF Create
  <2>3. new = r /\ \A u \in Threads : u # t => th'[u].do = th[u].do
    BY <2>1, <2>2, GoStep
  <2>4. new.pc = "set" /\ new.h = h /\ new.cbs = {}
    BY <2>3
  <2> HIDE DEF r
  <2>5. /\ h \notin live /\ th[t].do.pc = "idle" /\ th[t].do.h = None /\ th[t].do.cbs = {}
        /\ UNCHANGED <<held, entries, registered>>
    BY <1>1, <1>4 DEF Create, At
  <2>6. ASSUME NEW e \in Triples, e[1] = h PROVE Fits(th[t].do, e)'
    <3>1. \A u \in Threads : th[u].do.h # h
      BY <2>5 DEF EntryInv, WorkedOnLives
    <3>2. Matches(e)
      BY <2>6, <3>1 DEF MatchInv
    <3> QED
      BY <2>4, <2>5, <3>2 DEF Fits, Told, Untold, Dropped, Matches, Real
  <2>7. KeepsMatch(t)
    BY <1>2, <2>3, <2>4, <2>5, <2>6 DEF KeepsMatch
  <2>8. KeepsCallbacks(t)
    BY <2>3, <2>4, <2>5 DEF KeepsCallbacks, StoringPCs
  <2> QED
    BY <1>3, <2>7, <2>8
<1>5. ASSUME NEW r, Starts(t, r) PROVE MatchInv' /\ CallbackInv'
  <2>1. new = r /\ \A u \in Threads : u # t => th'[u].do = th[u].do
    BY <1>5, GoStep DEF Starts
  <2>2. th[t].do.pc = "idle" /\ th[t].do.h = None /\ th[t].do.cbs = {} /\ UNCHANGED <<held, entries>>
    BY <1>1, <1>5 DEF Starts, At
  <2>3. ASSUME NEW e \in Triples, e[1] = r.h PROVE Fits(th[t].do, e)'
    <3>1. \A u \in Threads : th[u].do.h # r.h
      BY <1>2, <1>5, <2>3 DEF Starts, Usable
    <3>2. Matches(e)
      BY <2>3, <3>1 DEF MatchInv
    <3> QED
      BY <1>5, <2>1, <2>2, <3>2 DEF Starts, ServerPCs, Fits, Told, Untold, Dropped, Matches, Real
  <2>4. KeepsMatch(t)
    BY <1>2, <1>5, <2>1, <2>2, <2>3 DEF KeepsMatch, Starts, ServerPCs
  <2>5. CASE r.pc = "native_unregister"
    <3>1. registered' = registered /\ r.cbs = CallbacksAt(entries, r.h, r.slot)
      BY <1>5, <2>5 DEF Starts
    <3>2. \A cb \in r.cbs : \E e \in entries : e[3] = cb /\ e[1] = r.h /\ e[2] = r.slot
      BY <3>1 DEF CallbacksAt
    <3>3. \A e \in entries : e[3] \in r.cbs => e[1] = r.h /\ e[2] = r.slot
      BY <3>2 DEF CallbackInv
    <3>4. KeepsCallbacks(t)
      BY <2>1, <2>2, <2>5, <3>1, <3>2, <3>3 DEF KeepsCallbacks, StoringPCs, TakingPCs
    <3> QED
      BY <1>3, <2>4, <3>4
  <2>6. CASE r.pc # "native_unregister"
    <3>1. registered' = registered \cup r.cbs /\ \A cb \in r.cbs : Fresh(cb)
      BY <1>5, <2>6 DEF Starts
    <3>2. \A e \in entries : e[3] \notin r.cbs
      BY <3>1 DEF Fresh
    <3>3. KeepsCallbacks(t)
      BY <2>1, <2>2, <3>1, <3>2 DEF KeepsCallbacks
    <3> QED
      BY <1>3, <2>4, <3>3
  <2> QED
    BY <2>5, <2>6
<1>6. ASSUME NEW e \in held, Deliver(t, e) PROVE MatchInv' /\ CallbackInv'
  <2> DEFINE do == [Idle EXCEPT !.pc = IF e[3] \in registered THEN "found" ELSE "missing",
                                !.slot = e[2]]
  <2>1. th' = [th EXCEPT ![t] = [do |-> do, from |-> e[1]]]
    BY <1>6 DEF Deliver
  <2>2. new = do /\ \A u \in Threads : u # t => th'[u].do = th[u].do
    BY <2>1 DEF TypeInv, HandlesTypeOK
  <2>3. new.h = None /\ new.pc \in {"found", "missing"} /\ new.cbs = {}
    BY <2>2 DEF Idle
  <2> HIDE DEF do
  <2>4. th[t].do.pc = "idle" /\ th[t].do.h = None /\ th[t].do.cbs = {} /\ UNCHANGED <<held, entries, registered>>
    BY <1>1, <1>6 DEF Deliver, At
  <2>5. KeepsMatch(t)
    BY <1>2, <2>2, <2>3, <2>4 DEF KeepsMatch
  <2>6. KeepsCallbacks(t)
    BY <2>2, <2>3, <2>4 DEF KeepsCallbacks, StoringPCs
  <2> QED
    BY <1>3, <2>5, <2>6
<1> QED
  BY BeginCases, <1>4, <1>5, <1>6

\* Every later step of an operation keeps both invariants.
LEMMA ContinueMatches ==
  ASSUME TypeInv, TypeInv', EntryInv, EntryInv', MatchInv, CallbackInv, NEW t \in Threads, Continue(t)
  PROVE  MatchInv' /\ CallbackInv'
<1> DEFINE do == th[t].do
           new == th'[t].do
<1> USE AddressAssumption DEF At
<1>0. OperationOK(do) /\ th \in [Threads -> [do : Doing, from : Handle \cup {Server, None}]]
  BY DEF TypeInv, HandlesTypeOK
<1>r. ASSUME Return(t) PROVE new = Idle /\ \A u \in Threads : u # t => th'[u].do = th[u].do
  BY <1>r, ReturnStep
<1>g. ASSUME NEW r, Go(t, r) PROVE new = r /\ \A u \in Threads : u # t => th'[u].do = th[u].do
  BY <1>g, <1>0 DEF Go
<1>i. Idle.pc = "idle" /\ Idle.h = None /\ Idle.cbs = {}
  BY DEF Idle
<1>e. entries \subseteq Triples /\ entries' \subseteq Triples /\ held \subseteq (Handle \cup
   {Server}) \X Slot \X Callback
  BY DEF TypeInv, HandlesTypeOK, Triples
<1>f. \A e \in Triples : e[1] \in Handle /\ (do.h = e[1] => Fits(do, e))
  BY DEF MatchInv, Triples
<1>c. /\ \A e, f \in entries : e[3] = f[3] => e = f
      /\ \A e \in entries : e[3] \in do.cbs => do.pc \in TakingPCs /\ e[1] = do.h /\ e[2] = do.slot
      /\ do.pc \in StoringPCs => do.cbs \subseteq registered
  BY DEF CallbackInv
<1>k. ASSUME KeepsMatch(t), KeepsCallbacks(t) PROVE MatchInv' /\ CallbackInv'
  BY <1>k, MatchKept, CallbacksKept
<1>1. CASE InitStore(t)
  <2>1. new = Idle /\ \A u \in Threads : u # t => th'[u].do = th[u].do
    BY <1>1, <1>r DEF InitStore
  <2>2. new.pc = "idle" /\ new.h = None /\ new.cbs = {}
    BY <2>1, <1>i
  <2>3. do.pc = "set"
    BY <1>1 DEF InitStore
  <2>4. OperationOK(do) /\ do.h \in Handle \cup {Server, None}
    BY <1>0 DEF OperationOK, Doing
  <2>5. ASSUME NEW e \in Triples, e[1] = do.h PROVE Matches(e)'
    <3>1. Fits(do, e) /\ e[1] \in Handle
      BY <1>f, <2>5
    <3> QED
      BY <1>1, <1>e, EntryStates, <2>1, <2>2, <2>3, <2>4, <2>5, <3>1 DEF InitStore, SetEntry,
         ChangingPCs, EntryInv, Fits, Told, Untold, Dropped, Matches, Real, OperationOK
  <2>6. \A e \in Triples : e[1] # do.h => (e \in held' <=> e \in held) /\ (e \in entries' <=> e \in entries)
    BY <1>1, <1>e DEF InitStore, SetEntry, ChangingPCs, EntryInv, Triples
  <2>7. KeepsMatch(t)
    BY <1>f, <2>1, <2>2, <2>5, <2>6 DEF KeepsMatch
  <2>8. /\ \A e \in entries' : e \in entries \/
             /\ do.pc \in StoringPCs /\ e[3] \in do.cbs
             /\ e[1] = do.h /\ e[2] = do.slot
        /\ \A cb \in new.cbs : cb \in do.cbs \/ \E e \in entries : e[3] = cb /\ e[1] = do.h
    BY <1>1, <2>2 DEF InitStore, SetEntry, ChangingPCs, EntryInv
  <2>9. \A e \in entries' : e[3] \in new.cbs => new.pc \in TakingPCs /\ e[1] = new.h /\ e[2] =
     new.slot
    BY <1>1, <1>c, <2>2, <2>3, <2>8 DEF InitStore, SetEntry, ChangingPCs, EntryInv, TakingPCs,
       StoringPCs
  <2>10. \A cb \in registered \ registered' :
             \/ do.pc = "unregister" /\ cb \in do.cbs
             \/ \E e \in entries \ entries' : e[3] = cb
    BY <1>1, <2>3 DEF InitStore, SetEntry, ChangingPCs, EntryInv
  <2>11. new.pc \in StoringPCs => new.cbs \subseteq registered'
    BY <1>1, <1>c, <2>2, <2>3 DEF InitStore, SetEntry, ChangingPCs, EntryInv, StoringPCs
  <2> QED
    BY <1>k, <2>1, <2>7, <2>8, <2>9, <2>10, <2>11 DEF KeepsCallbacks
<1>2. CASE CreateCustomFails(t)
  <2>1. new = Idle /\ \A u \in Threads : u # t => th'[u].do = th[u].do
    BY <1>2, <1>r DEF CreateCustomFails
  <2>2. new.pc = "idle" /\ new.h = None /\ new.cbs = {}
    BY <2>1, <1>i
  <2>3. do.pc = "create_custom"
    BY <1>2 DEF CreateCustomFails
  <2>4. OperationOK(do) /\ do.h \in Handle \cup {Server, None}
    BY <1>0 DEF OperationOK, Doing
  <2>5. ASSUME NEW e \in Triples, e[1] = do.h PROVE Matches(e)'
    <3>1. Fits(do, e) /\ e[1] \in Handle
      BY <1>f, <2>5
    <3> QED
      BY <1>2, <1>e, <2>1, <2>2, <2>3, <2>4, <2>5, <3>1 DEF CreateCustomFails, Fits, Told,
         Untold, Dropped, Matches, Real
  <2>6. \A e \in Triples : e[1] # do.h => (e \in held' <=> e \in held) /\ (e \in entries' <=> e \in entries)
    BY <1>2, <1>e DEF CreateCustomFails, Triples
  <2>7. KeepsMatch(t)
    BY <1>f, <2>1, <2>2, <2>5, <2>6 DEF KeepsMatch
  <2>8. /\ \A e \in entries' : e \in entries \/
             /\ do.pc \in StoringPCs /\ e[3] \in do.cbs
             /\ e[1] = do.h /\ e[2] = do.slot
        /\ \A cb \in new.cbs : cb \in do.cbs \/ \E e \in entries : e[3] = cb /\ e[1] = do.h
    BY <1>2, <2>2 DEF CreateCustomFails
  <2>9. \A e \in entries' : e[3] \in new.cbs => new.pc \in TakingPCs /\ e[1] = new.h /\ e[2] =
     new.slot
    BY <1>2, <1>c, <2>2, <2>3, <2>8 DEF CreateCustomFails, TakingPCs, StoringPCs
  <2>10. \A cb \in registered \ registered' :
             \/ do.pc = "unregister" /\ cb \in do.cbs
             \/ \E e \in entries \ entries' : e[3] = cb
    BY <1>2, <2>3 DEF CreateCustomFails
  <2>11. new.pc \in StoringPCs => new.cbs \subseteq registered'
    BY <1>2, <1>c, <2>2, <2>3 DEF CreateCustomFails, StoringPCs
  <2> QED
    BY <1>k, <2>1, <2>7, <2>8, <2>9, <2>10, <2>11 DEF KeepsCallbacks
<1>3. CASE InitCustomStore(t)
  <2> DEFINE r == [do EXCEPT !.pc = "store_custom"]
  <2>1. new = r /\ \A u \in Threads : u # t => th'[u].do = th[u].do
    BY <1>3, <1>g DEF InitCustomStore
  <2>2. new.pc = "store_custom" /\ new.h = do.h /\ new.slot = do.slot /\ new.cbs = do.cbs
    BY <1>0, <2>1 DEF OperationOK, Doing
  <2> HIDE DEF r
  <2>3. do.pc = "set_custom"
    BY <1>3 DEF InitCustomStore
  <2>4. OperationOK(do) /\ do.h \in Handle \cup {Server, None}
    BY <1>0 DEF OperationOK, Doing
  <2>5. ASSUME NEW e \in Triples, e[1] = do.h PROVE Fits(th[t].do, e)'
    <3>1. Fits(do, e) /\ e[1] \in Handle
      BY <1>f, <2>5
    <3> QED
      BY <1>3, <1>e, EntryStates, <2>1, <2>2, <2>3, <2>4, <2>5, <3>1 DEF InitCustomStore,
         SetEntry, ChangingPCs, EntryInv, Fits, Told, Untold, Dropped, Matches, Real
  <2>6. \A e \in Triples : e[1] # do.h => (e \in held' <=> e \in held) /\ (e \in entries' <=> e \in entries)
    BY <1>3, <1>e DEF InitCustomStore, SetEntry, ChangingPCs, EntryInv, Triples
  <2>7. KeepsMatch(t)
    <3>1. \A e \in entries' : e[1] # do.h
      BY <1>3 DEF InitCustomStore, SetEntry, ChangingPCs, EntryInv
    <3> QED
      BY <2>1, <2>2, <2>5, <2>6, <3>1 DEF KeepsMatch
  <2>8. /\ \A e \in entries' : e \in entries \/
             /\ do.pc \in StoringPCs /\ e[3] \in do.cbs
             /\ e[1] = do.h /\ e[2] = do.slot
        /\ \A cb \in new.cbs : cb \in do.cbs \/ \E e \in entries : e[3] = cb /\ e[1] = do.h
    BY <1>3, <2>2 DEF InitCustomStore, SetEntry, ChangingPCs, EntryInv
  <2>9. \A e \in entries' : e[3] \in new.cbs => new.pc \in TakingPCs /\ e[1] = new.h /\ e[2] =
     new.slot
    BY <1>3, <1>c, <2>2, <2>3, <2>8 DEF InitCustomStore, SetEntry, ChangingPCs, EntryInv,
       TakingPCs, StoringPCs
  <2>10. \A cb \in registered \ registered' :
             \/ do.pc = "unregister" /\ cb \in do.cbs
             \/ \E e \in entries \ entries' : e[3] = cb
    BY <1>3, <2>3 DEF InitCustomStore, SetEntry, ChangingPCs, EntryInv
  <2>11. new.pc \in StoringPCs => new.cbs \subseteq registered'
    BY <1>3, <1>c, <2>2, <2>3 DEF InitCustomStore, SetEntry, ChangingPCs, EntryInv, StoringPCs
  <2> QED
    BY <1>k, <2>1, <2>7, <2>8, <2>9, <2>10, <2>11 DEF KeepsCallbacks
<1>4. CASE StoreCustom(t)
  <2>1. new = Idle /\ \A u \in Threads : u # t => th'[u].do = th[u].do
    BY <1>4, <1>r DEF StoreCustom
  <2>2. new.pc = "idle" /\ new.h = None /\ new.cbs = {}
    BY <2>1, <1>i
  <2>3. do.pc = "store_custom"
    BY <1>4 DEF StoreCustom
  <2>4. OperationOK(do) /\ do.h \in Handle \cup {Server, None}
    BY <1>0 DEF OperationOK, Doing
  <2>5. ASSUME NEW e \in Triples, e[1] = do.h PROVE Matches(e)'
    <3>1. Fits(do, e) /\ e[1] \in Handle
      BY <1>f, <2>5
    <3>2. e \notin entries
      BY <2>3, <2>5 DEF MatchInv
    <3>3. e \in entries' <=> e[2] = Own /\ e[3] \in do.cbs
      BY <1>4, <2>5, <3>2, TripleIn DEF StoreCustom
    <3>4. do.slot = Own
      BY <2>3, <2>4 DEF OperationOK
    <3>5. e \in held' <=> e \in held
      BY <1>4 DEF StoreCustom
    <3> QED
      BY <2>3, <3>1, <3>2, <3>3, <3>4, <3>5 DEF Fits, Told, Untold, Dropped, Matches, Real,
         Own, SinkSorts
  <2>6. \A e \in Triples : e[1] # do.h => (e \in held' <=> e \in held) /\ (e \in entries' <=> e \in entries)
    BY <1>4, TripleIn, <1>e DEF StoreCustom, Triples
  <2>7. KeepsMatch(t)
    BY <1>f, <2>1, <2>2, <2>5, <2>6 DEF KeepsMatch
  <2>8. /\ \A e \in entries' : e \in entries \/
             /\ do.pc \in StoringPCs /\ e[3] \in do.cbs
             /\ e[1] = do.h /\ e[2] = do.slot
        /\ \A cb \in new.cbs : cb \in do.cbs \/ \E e \in entries : e[3] = cb /\ e[1] = do.h
    BY <1>4, <2>2, <2>3, <2>4 DEF StoreCustom, StoringPCs, OperationOK
  <2>9. \A e \in entries' : e[3] \in new.cbs => new.pc \in TakingPCs /\ e[1] = new.h /\ e[2] =
     new.slot
    BY <1>4, <1>c, <2>2, <2>3, <2>8 DEF StoreCustom, TakingPCs, StoringPCs
  <2>10. \A cb \in registered \ registered' :
             \/ do.pc = "unregister" /\ cb \in do.cbs
             \/ \E e \in entries \ entries' : e[3] = cb
    BY <1>4, <2>3 DEF StoreCustom
  <2>11. new.pc \in StoringPCs => new.cbs \subseteq registered'
    BY <1>4, <1>c, <2>2, <2>3 DEF StoreCustom, StoringPCs
  <2> QED
    BY <1>k, <2>1, <2>7, <2>8, <2>9, <2>10, <2>11 DEF KeepsCallbacks
<1>5. CASE StoreSink(t)
  <2>1. new = Idle /\ \A u \in Threads : u # t => th'[u].do = th[u].do
    BY <1>5, <1>r DEF StoreSink
  <2>2. new.pc = "idle" /\ new.h = None /\ new.cbs = {}
    BY <2>1, <1>i
  <2>3. do.pc = "store_sink"
    BY <1>5 DEF StoreSink
  <2>4. OperationOK(do) /\ do.h \in Handle \cup {Server, None}
    BY <1>0 DEF OperationOK, Doing
  <2>5. ASSUME NEW e \in Triples, e[1] = do.h PROVE Matches(e)'
    <3>1. Fits(do, e) /\ e[1] \in Handle
      BY <1>f, <2>5
    <3> QED
      BY <1>5, <1>e, TripleIn, <2>1, <2>2, <2>3, <2>4, <2>5, <3>1 DEF StoreSink, Fits, Told,
         Untold, Dropped, Matches, Real
  <2>6. \A e \in Triples : e[1] # do.h => (e \in held' <=> e \in held) /\ (e \in entries' <=> e \in entries)
    BY <1>5, TripleIn, <1>e DEF StoreSink, Triples
  <2>7. KeepsMatch(t)
    BY <1>f, <2>1, <2>2, <2>5, <2>6 DEF KeepsMatch
  <2>8. /\ \A e \in entries' : e \in entries \/
             /\ do.pc \in StoringPCs /\ e[3] \in do.cbs
             /\ e[1] = do.h /\ e[2] = do.slot
        /\ \A cb \in new.cbs : cb \in do.cbs \/ \E e \in entries : e[3] = cb /\ e[1] = do.h
    BY <1>5, <2>2, <2>3, <2>4 DEF StoreSink, StoringPCs, OperationOK
  <2>9. \A e \in entries' : e[3] \in new.cbs => new.pc \in TakingPCs /\ e[1] = new.h /\ e[2] =
     new.slot
    BY <1>5, <1>c, <2>2, <2>3, <2>8 DEF StoreSink, TakingPCs, StoringPCs
  <2>10. \A cb \in registered \ registered' :
             \/ do.pc = "unregister" /\ cb \in do.cbs
             \/ \E e \in entries \ entries' : e[3] = cb
    BY <1>5, <2>3 DEF StoreSink
  <2>11. new.pc \in StoringPCs => new.cbs \subseteq registered'
    BY <1>5, <1>c, <2>2, <2>3 DEF StoreSink, StoringPCs
  <2> QED
    BY <1>k, <2>1, <2>7, <2>8, <2>9, <2>10, <2>11 DEF KeepsCallbacks
<1>6. CASE TakeLock(t, "lock_remove", "drop_sink")
  <2> DEFINE r == [do EXCEPT !.pc = "drop_sink"]
  <2>1. new = r /\ \A u \in Threads : u # t => th'[u].do = th[u].do
    BY <1>6, <1>g DEF TakeLock
  <2>2. new.pc = "drop_sink" /\ new.h = do.h /\ new.slot = do.slot /\ new.cbs = do.cbs
    BY <1>0, <2>1 DEF OperationOK, Doing
  <2> HIDE DEF r
  <2>3. do.pc = "lock_remove"
    BY <1>6 DEF TakeLock
  <2>4. OperationOK(do) /\ do.h \in Handle \cup {Server, None}
    BY <1>0 DEF OperationOK, Doing
  <2>5. ASSUME NEW e \in Triples, e[1] = do.h PROVE Fits(th[t].do, e)'
    <3>1. Fits(do, e) /\ e[1] \in Handle
      BY <1>f, <2>5
    <3> QED
      BY <1>6, <1>e, <2>1, <2>2, <2>3, <2>4, <2>5, <3>1 DEF TakeLock, Fits, Told, Untold,
         Dropped, Matches, Real
  <2>6. \A e \in Triples : e[1] # do.h => (e \in held' <=> e \in held) /\ (e \in entries' <=> e \in entries)
    BY <1>6, <1>e DEF TakeLock, Triples
  <2>7. KeepsMatch(t)
    BY <1>f, <2>1, <2>2, <2>5, <2>6 DEF KeepsMatch
  <2>8. /\ \A e \in entries' : e \in entries \/
             /\ do.pc \in StoringPCs /\ e[3] \in do.cbs
             /\ e[1] = do.h /\ e[2] = do.slot
        /\ \A cb \in new.cbs : cb \in do.cbs \/ \E e \in entries : e[3] = cb /\ e[1] = do.h
    BY <1>6, <2>2 DEF TakeLock
  <2>9. \A e \in entries' : e[3] \in new.cbs => new.pc \in TakingPCs /\ e[1] = new.h /\ e[2] =
     new.slot
    BY <1>6, <1>c, <2>2, <2>3, <2>8 DEF TakeLock, TakingPCs, StoringPCs
  <2>10. \A cb \in registered \ registered' :
             \/ do.pc = "unregister" /\ cb \in do.cbs
             \/ \E e \in entries \ entries' : e[3] = cb
    BY <1>6, <2>3 DEF TakeLock
  <2>11. new.pc \in StoringPCs => new.cbs \subseteq registered'
    BY <1>6, <1>c, <2>2, <2>3 DEF TakeLock, StoringPCs
  <2> QED
    BY <1>k, <2>1, <2>7, <2>8, <2>9, <2>10, <2>11 DEF KeepsCallbacks
<1>7. CASE DropSink(t)
  <2> DEFINE r == [do EXCEPT !.pc = "native_remove"]
  <2>1. new = r /\ \A u \in Threads : u # t => th'[u].do = th[u].do
    BY <1>7, <1>g DEF DropSink
  <2>2. new.pc = "native_remove" /\ new.h = do.h /\ new.slot = do.slot /\ new.cbs = do.cbs
    BY <1>0, <2>1 DEF OperationOK, Doing
  <2> HIDE DEF r
  <2>3. do.pc = "drop_sink"
    BY <1>7 DEF DropSink
  <2>4. OperationOK(do) /\ do.h \in Handle \cup {Server, None}
    BY <1>0 DEF OperationOK, Doing
  <2>5. ASSUME NEW e \in Triples, e[1] = do.h PROVE Fits(th[t].do, e)'
    <3>1. Fits(do, e) /\ e[1] \in Handle
      BY <1>f, <2>5
    <3> QED
      BY <1>7, <1>e, <2>1, <2>2, <2>3, <2>4, <2>5, <3>1 DEF DropSink, CallbacksAt, Fits, Told,
         Untold, Dropped, Matches, Real
  <2>6. \A e \in Triples : e[1] # do.h => (e \in held' <=> e \in held) /\ (e \in entries' <=> e \in entries)
    BY <1>7, <1>e DEF DropSink, CallbacksAt, Triples
  <2>7. KeepsMatch(t)
    BY <1>f, <2>1, <2>2, <2>5, <2>6 DEF KeepsMatch
  <2>8. /\ \A e \in entries' : e \in entries \/
             /\ do.pc \in StoringPCs /\ e[3] \in do.cbs
             /\ e[1] = do.h /\ e[2] = do.slot
        /\ \A cb \in new.cbs : cb \in do.cbs \/ \E e \in entries : e[3] = cb /\ e[1] = do.h
    BY <1>7, <2>2 DEF DropSink, CallbacksAt
  <2>9. \A e \in entries' : e[3] \in new.cbs => new.pc \in TakingPCs /\ e[1] = new.h /\ e[2] =
     new.slot
    BY <1>7, <1>c, <2>2, <2>3, <2>8 DEF DropSink, CallbacksAt, TakingPCs, StoringPCs
  <2>10. \A cb \in registered \ registered' :
             \/ do.pc = "unregister" /\ cb \in do.cbs
             \/ \E e \in entries \ entries' : e[3] = cb
    BY <1>7, <2>3 DEF DropSink, CallbacksAt
  <2>11. new.pc \in StoringPCs => new.cbs \subseteq registered'
    BY <1>7, <1>c, <2>2, <2>3 DEF DropSink, CallbacksAt, StoringPCs
  <2> QED
    BY <1>k, <2>1, <2>7, <2>8, <2>9, <2>10, <2>11 DEF KeepsCallbacks
<1>8. CASE NativeRemove(t)
  <2>1. new = Idle /\ \A u \in Threads : u # t => th'[u].do = th[u].do
    BY <1>8, <1>r DEF NativeRemove
  <2>2. new.pc = "idle" /\ new.h = None /\ new.cbs = {}
    BY <2>1, <1>i
  <2>3. do.pc = "native_remove"
    BY <1>8 DEF NativeRemove
  <2>4. OperationOK(do) /\ do.h \in Handle \cup {Server, None}
    BY <1>0 DEF OperationOK, Doing
  <2>5. ASSUME NEW e \in Triples, e[1] = do.h PROVE Matches(e)'
    <3>1. Fits(do, e) /\ e[1] \in Handle
      BY <1>f, <2>5
    <3> QED
      BY <1>8, <1>e, <2>1, <2>2, <2>3, <2>4, <2>5, <3>1 DEF NativeRemove, Fits, Told, Untold,
         Dropped, Matches, Real
  <2>6. \A e \in Triples : e[1] # do.h => (e \in held' <=> e \in held) /\ (e \in entries' <=> e \in entries)
    BY <1>8, <1>e DEF NativeRemove, Triples
  <2>7. KeepsMatch(t)
    BY <1>f, <2>1, <2>2, <2>5, <2>6 DEF KeepsMatch
  <2>8. /\ \A e \in entries' : e \in entries \/
             /\ do.pc \in StoringPCs /\ e[3] \in do.cbs
             /\ e[1] = do.h /\ e[2] = do.slot
        /\ \A cb \in new.cbs : cb \in do.cbs \/ \E e \in entries : e[3] = cb /\ e[1] = do.h
    BY <1>8, <2>2 DEF NativeRemove
  <2>9. \A e \in entries' : e[3] \in new.cbs => new.pc \in TakingPCs /\ e[1] = new.h /\ e[2] =
     new.slot
    BY <1>8, <1>c, <2>2, <2>3, <2>8 DEF NativeRemove, TakingPCs, StoringPCs
  <2>10. \A cb \in registered \ registered' :
             \/ do.pc = "unregister" /\ cb \in do.cbs
             \/ \E e \in entries \ entries' : e[3] = cb
    BY <1>8, <2>3 DEF NativeRemove
  <2>11. new.pc \in StoringPCs => new.cbs \subseteq registered'
    BY <1>8, <1>c, <2>2, <2>3 DEF NativeRemove, StoringPCs
  <2> QED
    BY <1>k, <2>1, <2>7, <2>8, <2>9, <2>10, <2>11 DEF KeepsCallbacks
<1>9. CASE TakeLock(t, "lock_clear", "drop_sinks")
  <2> DEFINE r == [do EXCEPT !.pc = "drop_sinks"]
  <2>1. new = r /\ \A u \in Threads : u # t => th'[u].do = th[u].do
    BY <1>9, <1>g DEF TakeLock
  <2>2. new.pc = "drop_sinks" /\ new.h = do.h /\ new.slot = do.slot /\ new.cbs = do.cbs
    BY <1>0, <2>1 DEF OperationOK, Doing
  <2> HIDE DEF r
  <2>3. do.pc = "lock_clear"
    BY <1>9 DEF TakeLock
  <2>4. OperationOK(do) /\ do.h \in Handle \cup {Server, None}
    BY <1>0 DEF OperationOK, Doing
  <2>5. ASSUME NEW e \in Triples, e[1] = do.h PROVE Fits(th[t].do, e)'
    <3>1. Fits(do, e) /\ e[1] \in Handle
      BY <1>f, <2>5
    <3> QED
      BY <1>9, <1>e, <2>1, <2>2, <2>3, <2>4, <2>5, <3>1 DEF TakeLock, Fits, Told, Untold,
         Dropped, Matches, Real
  <2>6. \A e \in Triples : e[1] # do.h => (e \in held' <=> e \in held) /\ (e \in entries' <=> e \in entries)
    BY <1>9, <1>e DEF TakeLock, Triples
  <2>7. KeepsMatch(t)
    BY <1>f, <2>1, <2>2, <2>5, <2>6 DEF KeepsMatch
  <2>8. /\ \A e \in entries' : e \in entries \/
             /\ do.pc \in StoringPCs /\ e[3] \in do.cbs
             /\ e[1] = do.h /\ e[2] = do.slot
        /\ \A cb \in new.cbs : cb \in do.cbs \/ \E e \in entries : e[3] = cb /\ e[1] = do.h
    BY <1>9, <2>2 DEF TakeLock
  <2>9. \A e \in entries' : e[3] \in new.cbs => new.pc \in TakingPCs /\ e[1] = new.h /\ e[2] =
     new.slot
    BY <1>9, <1>c, <2>2, <2>3, <2>8 DEF TakeLock, TakingPCs, StoringPCs
  <2>10. \A cb \in registered \ registered' :
             \/ do.pc = "unregister" /\ cb \in do.cbs
             \/ \E e \in entries \ entries' : e[3] = cb
    BY <1>9, <2>3 DEF TakeLock
  <2>11. new.pc \in StoringPCs => new.cbs \subseteq registered'
    BY <1>9, <1>c, <2>2, <2>3 DEF TakeLock, StoringPCs
  <2> QED
    BY <1>k, <2>1, <2>7, <2>8, <2>9, <2>10, <2>11 DEF KeepsCallbacks
<1>10. CASE DropSinks(t)
  <2> DEFINE r == [do EXCEPT !.pc = "native_clear"]
  <2>1. new = r /\ \A u \in Threads : u # t => th'[u].do = th[u].do
    BY <1>10, <1>g DEF DropSinks
  <2>2. new.pc = "native_clear" /\ new.h = do.h /\ new.slot = do.slot /\ new.cbs = do.cbs
    BY <1>0, <2>1 DEF OperationOK, Doing
  <2> HIDE DEF r
  <2>3. do.pc = "drop_sinks"
    BY <1>10 DEF DropSinks
  <2>4. OperationOK(do) /\ do.h \in Handle \cup {Server, None}
    BY <1>0 DEF OperationOK, Doing
  <2>5. ASSUME NEW e \in Triples, e[1] = do.h PROVE Fits(th[t].do, e)'
    <3>1. Fits(do, e) /\ e[1] \in Handle
      BY <1>f, <2>5
    <3> QED
      BY <1>10, <1>e, <2>1, <2>2, <2>3, <2>4, <2>5, <3>1 DEF DropSinks, OfSort, Fits, Told,
         Untold, Dropped, Matches, Real
  <2>6. \A e \in Triples : e[1] # do.h => (e \in held' <=> e \in held) /\ (e \in entries' <=> e \in entries)
    BY <1>10, <1>e DEF DropSinks, OfSort, Triples
  <2>7. KeepsMatch(t)
    BY <1>f, <2>1, <2>2, <2>5, <2>6 DEF KeepsMatch
  <2>8. /\ \A e \in entries' : e \in entries \/
             /\ do.pc \in StoringPCs /\ e[3] \in do.cbs
             /\ e[1] = do.h /\ e[2] = do.slot
        /\ \A cb \in new.cbs : cb \in do.cbs \/ \E e \in entries : e[3] = cb /\ e[1] = do.h
    BY <1>10, <2>2 DEF DropSinks, OfSort
  <2>9. \A e \in entries' : e[3] \in new.cbs => new.pc \in TakingPCs /\ e[1] = new.h /\ e[2] =
     new.slot
    BY <1>10, <1>c, <2>2, <2>3, <2>8 DEF DropSinks, OfSort, TakingPCs, StoringPCs
  <2>10. \A cb \in registered \ registered' :
             \/ do.pc = "unregister" /\ cb \in do.cbs
             \/ \E e \in entries \ entries' : e[3] = cb
    BY <1>10, <2>3 DEF DropSinks, OfSort
  <2>11. new.pc \in StoringPCs => new.cbs \subseteq registered'
    BY <1>10, <1>c, <2>2, <2>3 DEF DropSinks, OfSort, StoringPCs
  <2> QED
    BY <1>k, <2>1, <2>7, <2>8, <2>9, <2>10, <2>11 DEF KeepsCallbacks
<1>11. CASE NativeClear(t)
  <2>1. new = Idle /\ \A u \in Threads : u # t => th'[u].do = th[u].do
    BY <1>11, <1>r DEF NativeClear
  <2>2. new.pc = "idle" /\ new.h = None /\ new.cbs = {}
    BY <2>1, <1>i
  <2>3. do.pc = "native_clear"
    BY <1>11 DEF NativeClear
  <2>4. OperationOK(do) /\ do.h \in Handle \cup {Server, None}
    BY <1>0 DEF OperationOK, Doing
  <2>5. ASSUME NEW e \in Triples, e[1] = do.h PROVE Matches(e)'
    <3>1. Fits(do, e) /\ e[1] \in Handle
      BY <1>f, <2>5
    <3> QED
      BY <1>11, <1>e, <2>1, <2>2, <2>3, <2>4, <2>5, <3>1 DEF NativeClear, OfSort, Fits, Told,
         Untold, Dropped, Matches, Real
  <2>6. \A e \in Triples : e[1] # do.h => (e \in held' <=> e \in held) /\ (e \in entries' <=> e \in entries)
    BY <1>11, <1>e DEF NativeClear, OfSort, Triples
  <2>7. KeepsMatch(t)
    BY <1>f, <2>1, <2>2, <2>5, <2>6 DEF KeepsMatch
  <2>8. /\ \A e \in entries' : e \in entries \/
             /\ do.pc \in StoringPCs /\ e[3] \in do.cbs
             /\ e[1] = do.h /\ e[2] = do.slot
        /\ \A cb \in new.cbs : cb \in do.cbs \/ \E e \in entries : e[3] = cb /\ e[1] = do.h
    BY <1>11, <2>2 DEF NativeClear, OfSort
  <2>9. \A e \in entries' : e[3] \in new.cbs => new.pc \in TakingPCs /\ e[1] = new.h /\ e[2] =
     new.slot
    BY <1>11, <1>c, <2>2, <2>3, <2>8 DEF NativeClear, OfSort, TakingPCs, StoringPCs
  <2>10. \A cb \in registered \ registered' :
             \/ do.pc = "unregister" /\ cb \in do.cbs
             \/ \E e \in entries \ entries' : e[3] = cb
    BY <1>11, <2>3 DEF NativeClear, OfSort
  <2>11. new.pc \in StoringPCs => new.cbs \subseteq registered'
    BY <1>11, <1>c, <2>2, <2>3 DEF NativeClear, OfSort, StoringPCs
  <2> QED
    BY <1>k, <2>1, <2>7, <2>8, <2>9, <2>10, <2>11 DEF KeepsCallbacks
<1>12. CASE StoreName(t)
  <2> DEFINE r == [do EXCEPT !.pc = "unregister", !.cbs = CallbacksAt(entries, do.h, do.slot)]
  <2>1. new = r /\ \A u \in Threads : u # t => th'[u].do = th[u].do
    BY <1>12, <1>g DEF StoreName
  <2>2. new.pc = "unregister" /\ new.h = do.h /\ new.slot = do.slot /\ new.cbs = CallbacksAt(entries, do.h, do.slot)
    BY <1>0, <2>1 DEF OperationOK, Doing
  <2> HIDE DEF r
  <2>3. do.pc = "store_name"
    BY <1>12 DEF StoreName
  <2>4. OperationOK(do) /\ do.h \in Handle \cup {Server, None}
    BY <1>0 DEF OperationOK, Doing
  <2>5. ASSUME NEW e \in Triples, e[1] = do.h PROVE Fits(th[t].do, e)'
    <3>1. Fits(do, e) /\ e[1] \in Handle
      BY <1>f, <2>5
    <3> QED
      BY <1>12, <1>e, TripleIn, <2>1, <2>2, <2>3, <2>4, <2>5, <3>1 DEF StoreName, CallbacksAt,
         Fits, Told, Untold, Dropped, Matches, Real
  <2>6. \A e \in Triples : e[1] # do.h => (e \in held' <=> e \in held) /\ (e \in entries' <=> e \in entries)
    BY <1>12, TripleIn, <1>e DEF StoreName, CallbacksAt, Triples
  <2>7. KeepsMatch(t)
    BY <1>f, <2>1, <2>2, <2>5, <2>6 DEF KeepsMatch
  <2>8. /\ \A e \in entries' : e \in entries \/
             /\ do.pc \in StoringPCs /\ e[3] \in do.cbs
             /\ e[1] = do.h /\ e[2] = do.slot
        /\ \A cb \in new.cbs : cb \in do.cbs \/ \E e \in entries : e[3] = cb /\ e[1] = do.h
    BY <1>12, <2>2, <2>3, <2>4 DEF StoreName, CallbacksAt, StoringPCs, OperationOK
  <2>9. \A e \in entries' : e[3] \in new.cbs => new.pc \in TakingPCs /\ e[1] = new.h /\ e[2] =
     new.slot
    BY <1>12, <1>c, <2>2, <2>3, <2>8 DEF StoreName, CallbacksAt, TakingPCs, StoringPCs
  <2>10. \A cb \in registered \ registered' :
             \/ do.pc = "unregister" /\ cb \in do.cbs
             \/ \E e \in entries \ entries' : e[3] = cb
    BY <1>12, <2>3 DEF StoreName, CallbacksAt
  <2>11. new.pc \in StoringPCs => new.cbs \subseteq registered'
    BY <1>12, <1>c, <2>2, <2>3 DEF StoreName, CallbacksAt, StoringPCs
  <2> QED
    BY <1>k, <2>1, <2>7, <2>8, <2>9, <2>10, <2>11 DEF KeepsCallbacks
<1>13. CASE Unregister(t)
  <2>1. new = Idle /\ \A u \in Threads : u # t => th'[u].do = th[u].do
    BY <1>13, <1>r DEF Unregister
  <2>2. new.pc = "idle" /\ new.h = None /\ new.cbs = {}
    BY <2>1, <1>i
  <2>3. do.pc = "unregister"
    BY <1>13 DEF Unregister
  <2>4. OperationOK(do) /\ do.h \in Handle \cup {Server, None}
    BY <1>0 DEF OperationOK, Doing
  <2>5. ASSUME NEW e \in Triples, e[1] = do.h PROVE Matches(e)'
    <3>1. Fits(do, e) /\ e[1] \in Handle
      BY <1>f, <2>5
    <3> QED
      BY <1>13, <1>e, <2>1, <2>2, <2>3, <2>4, <2>5, <3>1 DEF Unregister, Fits, Told, Untold,
         Dropped, Matches, Real
  <2>6. \A e \in Triples : e[1] # do.h => (e \in held' <=> e \in held) /\ (e \in entries' <=> e \in entries)
    BY <1>13, <1>e DEF Unregister, Triples
  <2>7. KeepsMatch(t)
    BY <1>f, <2>1, <2>2, <2>5, <2>6 DEF KeepsMatch
  <2>8. /\ \A e \in entries' : e \in entries \/
             /\ do.pc \in StoringPCs /\ e[3] \in do.cbs
             /\ e[1] = do.h /\ e[2] = do.slot
        /\ \A cb \in new.cbs : cb \in do.cbs \/ \E e \in entries : e[3] = cb /\ e[1] = do.h
    BY <1>13, <2>2 DEF Unregister
  <2>9. \A e \in entries' : e[3] \in new.cbs => new.pc \in TakingPCs /\ e[1] = new.h /\ e[2] =
     new.slot
    BY <1>13, <1>c, <2>2, <2>3, <2>8 DEF Unregister, TakingPCs, StoringPCs
  <2>10. \A cb \in registered \ registered' :
             \/ do.pc = "unregister" /\ cb \in do.cbs
             \/ \E e \in entries \ entries' : e[3] = cb
    BY <1>13, <2>3 DEF Unregister
  <2>11. new.pc \in StoringPCs => new.cbs \subseteq registered'
    BY <1>13, <1>c, <2>2, <2>3 DEF Unregister, StoringPCs
  <2> QED
    BY <1>k, <2>1, <2>7, <2>8, <2>9, <2>10, <2>11 DEF KeepsCallbacks
<1>14. CASE DeleteName(t)
  <2> DEFINE r == [do EXCEPT !.pc = "unregister"]
  <2>1. new = r /\ \A u \in Threads : u # t => th'[u].do = th[u].do
    BY <1>14, <1>g DEF DeleteName
  <2>2. new.pc = "unregister" /\ new.h = do.h /\ new.slot = do.slot /\ new.cbs = do.cbs
    BY <1>0, <2>1 DEF OperationOK, Doing
  <2> HIDE DEF r
  <2>3. do.pc = "delete_name"
    BY <1>14 DEF DeleteName
  <2>4. OperationOK(do) /\ do.h \in Handle \cup {Server, None}
    BY <1>0 DEF OperationOK, Doing
  <2>5. ASSUME NEW e \in Triples, e[1] = do.h PROVE Fits(th[t].do, e)'
    <3>1. Fits(do, e) /\ e[1] \in Handle
      BY <1>f, <2>5
    <3> QED
      BY <1>14, <1>e, <2>1, <2>2, <2>3, <2>4, <2>5, <3>1 DEF DeleteName, Fits, Told, Untold,
         Dropped, Matches, Real
  <2>6. \A e \in Triples : e[1] # do.h => (e \in held' <=> e \in held) /\ (e \in entries' <=> e \in entries)
    BY <1>14, <1>e DEF DeleteName, Triples
  <2>7. KeepsMatch(t)
    BY <1>f, <2>1, <2>2, <2>5, <2>6 DEF KeepsMatch
  <2>8. /\ \A e \in entries' : e \in entries \/
             /\ do.pc \in StoringPCs /\ e[3] \in do.cbs
             /\ e[1] = do.h /\ e[2] = do.slot
        /\ \A cb \in new.cbs : cb \in do.cbs \/ \E e \in entries : e[3] = cb /\ e[1] = do.h
    BY <1>14, <2>2 DEF DeleteName
  <2>9. \A e \in entries' : e[3] \in new.cbs => new.pc \in TakingPCs /\ e[1] = new.h /\ e[2] =
     new.slot
    BY <1>14, <1>c, <2>2, <2>3, <2>8 DEF DeleteName, TakingPCs, StoringPCs
  <2>10. \A cb \in registered \ registered' :
             \/ do.pc = "unregister" /\ cb \in do.cbs
             \/ \E e \in entries \ entries' : e[3] = cb
    BY <1>14, <2>3 DEF DeleteName
  <2>11. new.pc \in StoringPCs => new.cbs \subseteq registered'
    BY <1>14, <1>c, <2>2, <2>3 DEF DeleteName, StoringPCs
  <2> QED
    BY <1>k, <2>1, <2>7, <2>8, <2>9, <2>10, <2>11 DEF KeepsCallbacks
<1>15. CASE DeleteNames(t)
  <2> DEFINE r == [do EXCEPT !.pc = "unregister", !.cbs = {e[3] : e \in OfSort(entries, do.h, do.slot[1])}]
  <2>1. new = r /\ \A u \in Threads : u # t => th'[u].do = th[u].do
    BY <1>15, <1>g DEF DeleteNames
  <2>2. new.pc = "unregister" /\ new.h = do.h /\ new.slot = do.slot /\ new.cbs = {e[3] : e \in OfSort(entries, do.h, do.slot[1])}
    BY <1>0, <2>1 DEF OperationOK, Doing
  <2> HIDE DEF r
  <2>3. do.pc = "delete_names"
    BY <1>15 DEF DeleteNames
  <2>4. OperationOK(do) /\ do.h \in Handle \cup {Server, None}
    BY <1>0 DEF OperationOK, Doing
  <2>5. ASSUME NEW e \in Triples, e[1] = do.h PROVE Fits(th[t].do, e)'
    <3>1. Fits(do, e) /\ e[1] \in Handle
      BY <1>f, <2>5
    <3> QED
      BY <1>15, <1>e, <2>1, <2>2, <2>3, <2>4, <2>5, <3>1 DEF DeleteNames, OfSort, Fits, Told,
         Untold, Dropped, Matches, Real
  <2>6. \A e \in Triples : e[1] # do.h => (e \in held' <=> e \in held) /\ (e \in entries' <=> e \in entries)
    BY <1>15, <1>e DEF DeleteNames, OfSort, Triples
  <2>7. KeepsMatch(t)
    BY <1>f, <2>1, <2>2, <2>5, <2>6 DEF KeepsMatch
  <2>8. /\ \A e \in entries' : e \in entries \/
             /\ do.pc \in StoringPCs /\ e[3] \in do.cbs
             /\ e[1] = do.h /\ e[2] = do.slot
        /\ \A cb \in new.cbs : cb \in do.cbs \/ \E e \in entries : e[3] = cb /\ e[1] = do.h
    BY <1>15, <2>2 DEF DeleteNames, OfSort
  <2>9. \A e \in entries' : e[3] \in new.cbs => new.pc \in TakingPCs /\ e[1] = new.h /\ e[2] =
     new.slot
    BY <1>15, <1>c, <2>2, <2>3, <2>8 DEF DeleteNames, OfSort, TakingPCs, StoringPCs
  <2>10. \A cb \in registered \ registered' :
             \/ do.pc = "unregister" /\ cb \in do.cbs
             \/ \E e \in entries \ entries' : e[3] = cb
    BY <1>15, <2>3 DEF DeleteNames, OfSort
  <2>11. new.pc \in StoringPCs => new.cbs \subseteq registered'
    BY <1>15, <1>c, <2>2, <2>3 DEF DeleteNames, OfSort, StoringPCs
  <2> QED
    BY <1>k, <2>1, <2>7, <2>8, <2>9, <2>10, <2>11 DEF KeepsCallbacks
<1>16. CASE ServerRefusesName(t)
  <2> DEFINE r == [do EXCEPT !.pc = "unregister"]
  <2>1. new = r /\ \A u \in Threads : u # t => th'[u].do = th[u].do
    BY <1>16, <1>g DEF ServerRefusesName
  <2>2. new.pc = "unregister" /\ new.h = do.h /\ new.slot = do.slot /\ new.cbs = do.cbs
    BY <1>0, <2>1 DEF OperationOK, Doing
  <2> HIDE DEF r
  <2>3. do.pc = "server_name"
    BY <1>16 DEF ServerRefusesName
  <2>4. OperationOK(do) /\ do.h \in Handle \cup {Server, None}
    BY <1>0 DEF OperationOK, Doing
  <2>5. ASSUME NEW e \in Triples, e[1] = do.h PROVE Fits(th[t].do, e)'
    <3>1. Fits(do, e) /\ e[1] \in Handle
      BY <1>f, <2>5
    <3> QED
      BY <1>16, <1>e, <2>1, <2>2, <2>3, <2>4, <2>5, <3>1 DEF ServerRefusesName, Fits, Told,
         Untold, Dropped, Matches, Real
  <2>6. \A e \in Triples : e[1] # do.h => (e \in held' <=> e \in held) /\ (e \in entries' <=> e \in entries)
    BY <1>16, <1>e DEF ServerRefusesName, Triples
  <2>7. KeepsMatch(t)
    BY <1>f, <2>1, <2>2, <2>5, <2>6 DEF KeepsMatch
  <2>8. /\ \A e \in entries' : e \in entries \/
             /\ do.pc \in StoringPCs /\ e[3] \in do.cbs
             /\ e[1] = do.h /\ e[2] = do.slot
        /\ \A cb \in new.cbs : cb \in do.cbs \/ \E e \in entries : e[3] = cb /\ e[1] = do.h
    BY <1>16, <2>2 DEF ServerRefusesName
  <2>9. \A e \in entries' : e[3] \in new.cbs => new.pc \in TakingPCs /\ e[1] = new.h /\ e[2] =
     new.slot
    BY <1>16, <1>c, <2>2, <2>3, <2>8 DEF ServerRefusesName, TakingPCs, StoringPCs
  <2>10. \A cb \in registered \ registered' :
             \/ do.pc = "unregister" /\ cb \in do.cbs
             \/ \E e \in entries \ entries' : e[3] = cb
    BY <1>16, <2>3 DEF ServerRefusesName
  <2>11. new.pc \in StoringPCs => new.cbs \subseteq registered'
    BY <1>16, <1>c, <2>2, <2>3 DEF ServerRefusesName, StoringPCs
  <2> QED
    BY <1>k, <2>1, <2>7, <2>8, <2>9, <2>10, <2>11 DEF KeepsCallbacks
<1>17. CASE ServerRefusesSink(t)
  <2>1. new = Idle /\ \A u \in Threads : u # t => th'[u].do = th[u].do
    BY <1>17, <1>r DEF ServerRefusesSink
  <2>2. new.pc = "idle" /\ new.h = None /\ new.cbs = {}
    BY <2>1, <1>i
  <2>3. do.pc = "server_sink"
    BY <1>17 DEF ServerRefusesSink
  <2>4. OperationOK(do) /\ do.h \in Handle \cup {Server, None}
    BY <1>0 DEF OperationOK, Doing
  <2>5. ASSUME NEW e \in Triples, e[1] = do.h PROVE Matches(e)'
    <3>1. Fits(do, e) /\ e[1] \in Handle
      BY <1>f, <2>5
    <3> QED
      BY <1>17, <1>e, <2>1, <2>2, <2>3, <2>4, <2>5, <3>1 DEF ServerRefusesSink, Fits, Told,
         Untold, Dropped, Matches, Real
  <2>6. \A e \in Triples : e[1] # do.h => (e \in held' <=> e \in held) /\ (e \in entries' <=> e \in entries)
    BY <1>17, <1>e DEF ServerRefusesSink, Triples
  <2>7. KeepsMatch(t)
    BY <1>f, <2>1, <2>2, <2>5, <2>6 DEF KeepsMatch
  <2>8. /\ \A e \in entries' : e \in entries \/
             /\ do.pc \in StoringPCs /\ e[3] \in do.cbs
             /\ e[1] = do.h /\ e[2] = do.slot
        /\ \A cb \in new.cbs : cb \in do.cbs \/ \E e \in entries : e[3] = cb /\ e[1] = do.h
    BY <1>17, <2>2 DEF ServerRefusesSink
  <2>9. \A e \in entries' : e[3] \in new.cbs => new.pc \in TakingPCs /\ e[1] = new.h /\ e[2] =
     new.slot
    BY <1>17, <1>c, <2>2, <2>3, <2>8 DEF ServerRefusesSink, TakingPCs, StoringPCs
  <2>10. \A cb \in registered \ registered' :
             \/ do.pc = "unregister" /\ cb \in do.cbs
             \/ \E e \in entries \ entries' : e[3] = cb
    BY <1>17, <2>3 DEF ServerRefusesSink
  <2>11. new.pc \in StoringPCs => new.cbs \subseteq registered'
    BY <1>17, <1>c, <2>2, <2>3 DEF ServerRefusesSink, StoringPCs
  <2> QED
    BY <1>k, <2>1, <2>7, <2>8, <2>9, <2>10, <2>11 DEF KeepsCallbacks
<1>18. CASE TakeLock(t, "lock_destroy", "drop_entry")
  <2> DEFINE r == [do EXCEPT !.pc = "drop_entry"]
  <2>1. new = r /\ \A u \in Threads : u # t => th'[u].do = th[u].do
    BY <1>18, <1>g DEF TakeLock
  <2>2. new.pc = "drop_entry" /\ new.h = do.h /\ new.slot = do.slot /\ new.cbs = do.cbs
    BY <1>0, <2>1 DEF OperationOK, Doing
  <2> HIDE DEF r
  <2>3. do.pc = "lock_destroy"
    BY <1>18 DEF TakeLock
  <2>4. OperationOK(do) /\ do.h \in Handle \cup {Server, None}
    BY <1>0 DEF OperationOK, Doing
  <2>5. ASSUME NEW e \in Triples, e[1] = do.h PROVE Fits(th[t].do, e)'
    <3>1. Fits(do, e) /\ e[1] \in Handle
      BY <1>f, <2>5
    <3> QED
      BY <1>18, <1>e, <2>1, <2>2, <2>3, <2>4, <2>5, <3>1 DEF TakeLock, Fits, Told, Untold,
         Dropped, Matches, Real
  <2>6. \A e \in Triples : e[1] # do.h => (e \in held' <=> e \in held) /\ (e \in entries' <=> e \in entries)
    BY <1>18, <1>e DEF TakeLock, Triples
  <2>7. KeepsMatch(t)
    BY <1>f, <2>1, <2>2, <2>5, <2>6 DEF KeepsMatch
  <2>8. /\ \A e \in entries' : e \in entries \/
             /\ do.pc \in StoringPCs /\ e[3] \in do.cbs
             /\ e[1] = do.h /\ e[2] = do.slot
        /\ \A cb \in new.cbs : cb \in do.cbs \/ \E e \in entries : e[3] = cb /\ e[1] = do.h
    BY <1>18, <2>2 DEF TakeLock
  <2>9. \A e \in entries' : e[3] \in new.cbs => new.pc \in TakingPCs /\ e[1] = new.h /\ e[2] =
     new.slot
    BY <1>18, <1>c, <2>2, <2>3, <2>8 DEF TakeLock, TakingPCs, StoringPCs
  <2>10. \A cb \in registered \ registered' :
             \/ do.pc = "unregister" /\ cb \in do.cbs
             \/ \E e \in entries \ entries' : e[3] = cb
    BY <1>18, <2>3 DEF TakeLock
  <2>11. new.pc \in StoringPCs => new.cbs \subseteq registered'
    BY <1>18, <1>c, <2>2, <2>3 DEF TakeLock, StoringPCs
  <2> QED
    BY <1>k, <2>1, <2>7, <2>8, <2>9, <2>10, <2>11 DEF KeepsCallbacks
<1>19. CASE DropEntry(t)
  <2> DEFINE r == [do EXCEPT !.pc = "native_destroy"]
  <2>1. new = r /\ \A u \in Threads : u # t => th'[u].do = th[u].do
    BY <1>19, <1>g DEF DropEntry
  <2>2. new.pc = "native_destroy" /\ new.h = do.h /\ new.slot = do.slot /\ new.cbs = do.cbs
    BY <1>0, <2>1 DEF OperationOK, Doing
  <2> HIDE DEF r
  <2>3. do.pc = "drop_entry"
    BY <1>19 DEF DropEntry
  <2>4. OperationOK(do) /\ do.h \in Handle \cup {Server, None}
    BY <1>0 DEF OperationOK, Doing
  <2>5. ASSUME NEW e \in Triples, e[1] = do.h PROVE Fits(th[t].do, e)'
    <3>1. Fits(do, e) /\ e[1] \in Handle
      BY <1>f, <2>5
    <3> QED
      BY <1>19, <1>e, <2>1, <2>2, <2>3, <2>4, <2>5, <3>1 DEF DropEntry, CallbacksOf, Fits,
         Told, Untold, Dropped, Matches, Real
  <2>6. \A e \in Triples : e[1] # do.h => (e \in held' <=> e \in held) /\ (e \in entries' <=> e \in entries)
    BY <1>19, <1>e DEF DropEntry, CallbacksOf, Triples
  <2>7. KeepsMatch(t)
    BY <1>f, <2>1, <2>2, <2>5, <2>6 DEF KeepsMatch
  <2>8. /\ \A e \in entries' : e \in entries \/
             /\ do.pc \in StoringPCs /\ e[3] \in do.cbs
             /\ e[1] = do.h /\ e[2] = do.slot
        /\ \A cb \in new.cbs : cb \in do.cbs \/ \E e \in entries : e[3] = cb /\ e[1] = do.h
    BY <1>19, <2>2 DEF DropEntry, CallbacksOf
  <2>9. \A e \in entries' : e[3] \in new.cbs => new.pc \in TakingPCs /\ e[1] = new.h /\ e[2] =
     new.slot
    BY <1>19, <1>c, <2>2, <2>3, <2>8 DEF DropEntry, CallbacksOf, TakingPCs, StoringPCs
  <2>10. \A cb \in registered \ registered' :
             \/ do.pc = "unregister" /\ cb \in do.cbs
             \/ \E e \in entries \ entries' : e[3] = cb
    BY <1>19, <2>3 DEF DropEntry, CallbacksOf
  <2>11. new.pc \in StoringPCs => new.cbs \subseteq registered'
    BY <1>19, <1>c, <2>2, <2>3 DEF DropEntry, CallbacksOf, StoringPCs
  <2> QED
    BY <1>k, <2>1, <2>7, <2>8, <2>9, <2>10, <2>11 DEF KeepsCallbacks
<1>20. CASE NativeDestroy(t)
  <2>1. new = Idle /\ \A u \in Threads : u # t => th'[u].do = th[u].do
    BY <1>20, <1>r DEF NativeDestroy
  <2>2. new.pc = "idle" /\ new.h = None /\ new.cbs = {}
    BY <2>1, <1>i
  <2>3. do.pc = "native_destroy"
    BY <1>20 DEF NativeDestroy
  <2>4. OperationOK(do) /\ do.h \in Handle \cup {Server, None}
    BY <1>0 DEF OperationOK, Doing
  <2>5. ASSUME NEW e \in Triples, e[1] = do.h PROVE Matches(e)'
    <3>1. Fits(do, e) /\ e[1] \in Handle
      BY <1>f, <2>5
    <3> QED
      BY <1>20, <1>e, EntryStates, <2>1, <2>2, <2>3, <2>4, <2>5, <3>1 DEF NativeDestroy,
         ChangingPCs, EntryInv, Fits, Told, Untold, Dropped, Matches, Real, OperationOK,
         ObjectPCs
  <2>6. \A e \in Triples : e[1] # do.h => (e \in held' <=> e \in held) /\ (e \in entries' <=> e \in entries)
    BY <1>20, <1>e DEF NativeDestroy, ChangingPCs, EntryInv, Triples
  <2>7. KeepsMatch(t)
    BY <1>f, <2>1, <2>2, <2>5, <2>6 DEF KeepsMatch
  <2>8. /\ \A e \in entries' : e \in entries \/
             /\ do.pc \in StoringPCs /\ e[3] \in do.cbs
             /\ e[1] = do.h /\ e[2] = do.slot
        /\ \A cb \in new.cbs : cb \in do.cbs \/ \E e \in entries : e[3] = cb /\ e[1] = do.h
    BY <1>20, <2>2 DEF NativeDestroy, ChangingPCs, EntryInv
  <2>9. \A e \in entries' : e[3] \in new.cbs => new.pc \in TakingPCs /\ e[1] = new.h /\ e[2] =
     new.slot
    BY <1>20, <1>c, <2>2, <2>3, <2>8 DEF NativeDestroy, ChangingPCs, EntryInv, TakingPCs,
       StoringPCs
  <2>10. \A cb \in registered \ registered' :
             \/ do.pc = "unregister" /\ cb \in do.cbs
             \/ \E e \in entries \ entries' : e[3] = cb
    BY <1>20, <2>3 DEF NativeDestroy, ChangingPCs, EntryInv
  <2>11. new.pc \in StoringPCs => new.cbs \subseteq registered'
    BY <1>20, <1>c, <2>2, <2>3 DEF NativeDestroy, ChangingPCs, EntryInv, StoringPCs
  <2> QED
    BY <1>k, <2>1, <2>7, <2>8, <2>9, <2>10, <2>11 DEF KeepsCallbacks
<1>21. CASE /\ At(t, "native_register") /\ Go(t, [do EXCEPT !.pc = "store_name"])
             /\ held' = {e \in held : ~(e[1] = do.h /\ e[2] = do.slot)} \cup {<<do.h, do.slot, cb>> : cb \in do.cbs}
             /\ UNCHANGED <<live, known, entries, registered, lost, lock, readers>>
  <2> DEFINE r == [do EXCEPT !.pc = "store_name"]
  <2>1. new = r /\ \A u \in Threads : u # t => th'[u].do = th[u].do
    BY <1>21, <1>g
  <2>2. new.pc = "store_name" /\ new.h = do.h /\ new.slot = do.slot /\ new.cbs = do.cbs
    BY <1>0, <2>1 DEF OperationOK, Doing
  <2> HIDE DEF r
  <2>3. do.pc = "native_register"
    BY <1>21
  <2>4. OperationOK(do) /\ do.h \in Handle \cup {Server, None}
    BY <1>0 DEF OperationOK, Doing
  <2>5. ASSUME NEW e \in Triples, e[1] = do.h PROVE Fits(th[t].do, e)'
    <3>1. Fits(do, e) /\ e[1] \in Handle
      BY <1>f, <2>5
    <3>2. e \in held' <=> (e \in held /\ e[2] # do.slot) \/ (e[2] = do.slot /\ e[3] \in do.cbs)
      BY <1>21, <2>5, TripleIn
    <3>3. do.slot[1] \notin SinkSorts
      BY <2>3, <2>4 DEF OperationOK, SinkSorts, NameSorts
    <3>4. e \in entries' <=> e \in entries
      BY <1>21
    <3>5. Matches(e)
      BY <2>3, <3>1 DEF Fits, Told, Untold, Dropped
    <3> QED
      BY <2>2, <3>2, <3>3, <3>4, <3>5 DEF Fits, Told, Untold, Dropped, Matches, Real
  <2>6. \A e \in Triples : e[1] # do.h => (e \in held' <=> e \in held) /\ (e \in entries' <=>
     e \in entries)
    BY <1>21, TripleIn, <1>e DEF Triples
  <2>7. KeepsMatch(t)
    BY <1>f, <2>1, <2>2, <2>5, <2>6 DEF KeepsMatch
  <2>8. /\ \A e \in entries' : e \in entries \/
             /\ do.pc \in StoringPCs /\ e[3] \in do.cbs
             /\ e[1] = do.h /\ e[2] = do.slot
        /\ \A cb \in new.cbs : cb \in do.cbs \/ \E e \in entries : e[3] = cb /\ e[1] = do.h
    BY <1>21, <2>2
  <2>9. \A e \in entries' : e[3] \in new.cbs => new.pc \in TakingPCs /\ e[1] = new.h /\ e[2] =
     new.slot
    BY <1>21, <1>c, <2>2, <2>3, <2>8 DEF TakingPCs, StoringPCs
  <2>10. \A cb \in registered \ registered' :
             \/ do.pc = "unregister" /\ cb \in do.cbs
             \/ \E e \in entries \ entries' : e[3] = cb
    BY <1>21, <2>3
  <2>11. new.pc \in StoringPCs => new.cbs \subseteq registered'
    BY <1>21, <1>c, <2>2, <2>3 DEF StoringPCs
  <2> QED
    BY <1>k, <2>1, <2>7, <2>8, <2>9, <2>10, <2>11 DEF KeepsCallbacks
<1>22. CASE /\ At(t, "native_register") /\ Go(t, [do EXCEPT !.pc = "unregister"])
             /\ UNCHANGED <<live, held, known, entries, registered, lost, lock, readers>>
  <2> DEFINE r == [do EXCEPT !.pc = "unregister"]
  <2>1. new = r /\ \A u \in Threads : u # t => th'[u].do = th[u].do
    BY <1>22, <1>g
  <2>2. new.pc = "unregister" /\ new.h = do.h /\ new.slot = do.slot /\ new.cbs = do.cbs
    BY <1>0, <2>1 DEF OperationOK, Doing
  <2> HIDE DEF r
  <2>3. do.pc = "native_register"
    BY <1>22
  <2>4. OperationOK(do) /\ do.h \in Handle \cup {Server, None}
    BY <1>0 DEF OperationOK, Doing
  <2>5. ASSUME NEW e \in Triples, e[1] = do.h PROVE Fits(th[t].do, e)'
    <3>1. Fits(do, e) /\ e[1] \in Handle
      BY <1>f, <2>5
    <3> QED
      BY <1>22, <1>e, <2>1, <2>2, <2>3, <2>4, <2>5, <3>1 DEF Fits, Told, Untold, Dropped,
         Matches, Real
  <2>6. \A e \in Triples : e[1] # do.h => (e \in held' <=> e \in held) /\ (e \in entries' <=> e \in entries)
    BY <1>22, <1>e DEF Triples
  <2>7. KeepsMatch(t)
    BY <1>f, <2>1, <2>2, <2>5, <2>6 DEF KeepsMatch
  <2>8. /\ \A e \in entries' : e \in entries \/
             /\ do.pc \in StoringPCs /\ e[3] \in do.cbs
             /\ e[1] = do.h /\ e[2] = do.slot
        /\ \A cb \in new.cbs : cb \in do.cbs \/ \E e \in entries : e[3] = cb /\ e[1] = do.h
    BY <1>22, <2>2
  <2>9. \A e \in entries' : e[3] \in new.cbs => new.pc \in TakingPCs /\ e[1] = new.h /\ e[2] =
     new.slot
    BY <1>22, <1>c, <2>2, <2>3, <2>8 DEF TakingPCs, StoringPCs
  <2>10. \A cb \in registered \ registered' :
             \/ do.pc = "unregister" /\ cb \in do.cbs
             \/ \E e \in entries \ entries' : e[3] = cb
    BY <1>22, <2>3
  <2>11. new.pc \in StoringPCs => new.cbs \subseteq registered'
    BY <1>22, <1>c, <2>2, <2>3 DEF StoringPCs
  <2> QED
    BY <1>k, <2>1, <2>7, <2>8, <2>9, <2>10, <2>11 DEF KeepsCallbacks
<1>23. CASE /\ At(t, "native_unregister") /\ Go(t, [do EXCEPT !.pc = "delete_name"])
             /\ held' = {e \in held : ~(e[1] = do.h /\ e[2] = do.slot)}
             /\ UNCHANGED <<live, known, entries, registered, lost, lock, readers>>
  <2> DEFINE r == [do EXCEPT !.pc = "delete_name"]
  <2>1. new = r /\ \A u \in Threads : u # t => th'[u].do = th[u].do
    BY <1>23, <1>g
  <2>2. new.pc = "delete_name" /\ new.h = do.h /\ new.slot = do.slot /\ new.cbs = do.cbs
    BY <1>0, <2>1 DEF OperationOK, Doing
  <2> HIDE DEF r
  <2>3. do.pc = "native_unregister"
    BY <1>23
  <2>4. OperationOK(do) /\ do.h \in Handle \cup {Server, None}
    BY <1>0 DEF OperationOK, Doing
  <2>5. ASSUME NEW e \in Triples, e[1] = do.h PROVE Fits(th[t].do, e)'
    <3>1. Fits(do, e) /\ e[1] \in Handle
      BY <1>f, <2>5
    <3> QED
      BY <1>23, <1>e, <2>1, <2>2, <2>3, <2>4, <2>5, <3>1 DEF Fits, Told, Untold, Dropped,
         Matches, Real
  <2>6. \A e \in Triples : e[1] # do.h => (e \in held' <=> e \in held) /\ (e \in entries' <=> e \in entries)
    BY <1>23, <1>e DEF Triples
  <2>7. KeepsMatch(t)
    BY <1>f, <2>1, <2>2, <2>5, <2>6 DEF KeepsMatch
  <2>8. /\ \A e \in entries' : e \in entries \/
             /\ do.pc \in StoringPCs /\ e[3] \in do.cbs
             /\ e[1] = do.h /\ e[2] = do.slot
        /\ \A cb \in new.cbs : cb \in do.cbs \/ \E e \in entries : e[3] = cb /\ e[1] = do.h
    BY <1>23, <2>2
  <2>9. \A e \in entries' : e[3] \in new.cbs => new.pc \in TakingPCs /\ e[1] = new.h /\ e[2] =
     new.slot
    BY <1>23, <1>c, <2>2, <2>3, <2>8 DEF TakingPCs, StoringPCs
  <2>10. \A cb \in registered \ registered' :
             \/ do.pc = "unregister" /\ cb \in do.cbs
             \/ \E e \in entries \ entries' : e[3] = cb
    BY <1>23, <2>3
  <2>11. new.pc \in StoringPCs => new.cbs \subseteq registered'
    BY <1>23, <1>c, <2>2, <2>3 DEF StoringPCs
  <2> QED
    BY <1>k, <2>1, <2>7, <2>8, <2>9, <2>10, <2>11 DEF KeepsCallbacks
<1>24. CASE /\ At(t, "native_unregister") /\ Return(t)
             /\ UNCHANGED <<live, held, known, entries, registered, lost, lock, readers>>
  <2>1. new = Idle /\ \A u \in Threads : u # t => th'[u].do = th[u].do
    BY <1>24, <1>r
  <2>2. new.pc = "idle" /\ new.h = None /\ new.cbs = {}
    BY <2>1, <1>i
  <2>3. do.pc = "native_unregister"
    BY <1>24
  <2>4. OperationOK(do) /\ do.h \in Handle \cup {Server, None}
    BY <1>0 DEF OperationOK, Doing
  <2>5. ASSUME NEW e \in Triples, e[1] = do.h PROVE Matches(e)'
    <3>1. Fits(do, e) /\ e[1] \in Handle
      BY <1>f, <2>5
    <3> QED
      BY <1>24, <1>e, <2>1, <2>2, <2>3, <2>4, <2>5, <3>1 DEF Fits, Told, Untold, Dropped,
         Matches, Real
  <2>6. \A e \in Triples : e[1] # do.h => (e \in held' <=> e \in held) /\ (e \in entries' <=> e \in entries)
    BY <1>24, <1>e DEF Triples
  <2>7. KeepsMatch(t)
    BY <1>f, <2>1, <2>2, <2>5, <2>6 DEF KeepsMatch
  <2>8. /\ \A e \in entries' : e \in entries \/
             /\ do.pc \in StoringPCs /\ e[3] \in do.cbs
             /\ e[1] = do.h /\ e[2] = do.slot
        /\ \A cb \in new.cbs : cb \in do.cbs \/ \E e \in entries : e[3] = cb /\ e[1] = do.h
    BY <1>24, <2>2
  <2>9. \A e \in entries' : e[3] \in new.cbs => new.pc \in TakingPCs /\ e[1] = new.h /\ e[2] =
     new.slot
    BY <1>24, <1>c, <2>2, <2>3, <2>8 DEF TakingPCs, StoringPCs
  <2>10. \A cb \in registered \ registered' :
             \/ do.pc = "unregister" /\ cb \in do.cbs
             \/ \E e \in entries \ entries' : e[3] = cb
    BY <1>24, <2>3
  <2>11. new.pc \in StoringPCs => new.cbs \subseteq registered'
    BY <1>24, <1>c, <2>2, <2>3 DEF StoringPCs
  <2> QED
    BY <1>k, <2>1, <2>7, <2>8, <2>9, <2>10, <2>11 DEF KeepsCallbacks
<1>25. CASE /\ At(t, "native_clear_names") /\ Go(t, [do EXCEPT !.pc = "delete_names"])
             /\ held' = held \ OfSort(held, do.h, do.slot[1])
             /\ UNCHANGED <<live, known, entries, registered, lost, lock, readers>>
  <2> DEFINE r == [do EXCEPT !.pc = "delete_names"]
  <2>1. new = r /\ \A u \in Threads : u # t => th'[u].do = th[u].do
    BY <1>25, <1>g
  <2>2. new.pc = "delete_names" /\ new.h = do.h /\ new.slot = do.slot /\ new.cbs = do.cbs
    BY <1>0, <2>1 DEF OperationOK, Doing
  <2> HIDE DEF r
  <2>3. do.pc = "native_clear_names"
    BY <1>25
  <2>4. OperationOK(do) /\ do.h \in Handle \cup {Server, None}
    BY <1>0 DEF OperationOK, Doing
  <2>5. ASSUME NEW e \in Triples, e[1] = do.h PROVE Fits(th[t].do, e)'
    <3>1. Fits(do, e) /\ e[1] \in Handle
      BY <1>f, <2>5
    <3> QED
      BY <1>25, <1>e, <2>1, <2>2, <2>3, <2>4, <2>5, <3>1 DEF OfSort, Fits, Told, Untold,
         Dropped, Matches, Real
  <2>6. \A e \in Triples : e[1] # do.h => (e \in held' <=> e \in held) /\ (e \in entries' <=> e \in entries)
    BY <1>25, <1>e DEF OfSort, Triples
  <2>7. KeepsMatch(t)
    BY <1>f, <2>1, <2>2, <2>5, <2>6 DEF KeepsMatch
  <2>8. /\ \A e \in entries' : e \in entries \/
             /\ do.pc \in StoringPCs /\ e[3] \in do.cbs
             /\ e[1] = do.h /\ e[2] = do.slot
        /\ \A cb \in new.cbs : cb \in do.cbs \/ \E e \in entries : e[3] = cb /\ e[1] = do.h
    BY <1>25, <2>2 DEF OfSort
  <2>9. \A e \in entries' : e[3] \in new.cbs => new.pc \in TakingPCs /\ e[1] = new.h /\ e[2] =
     new.slot
    BY <1>25, <1>c, <2>2, <2>3, <2>8 DEF OfSort, TakingPCs, StoringPCs
  <2>10. \A cb \in registered \ registered' :
             \/ do.pc = "unregister" /\ cb \in do.cbs
             \/ \E e \in entries \ entries' : e[3] = cb
    BY <1>25, <2>3 DEF OfSort
  <2>11. new.pc \in StoringPCs => new.cbs \subseteq registered'
    BY <1>25, <1>c, <2>2, <2>3 DEF OfSort, StoringPCs
  <2> QED
    BY <1>k, <2>1, <2>7, <2>8, <2>9, <2>10, <2>11 DEF KeepsCallbacks
<1>26. CASE /\ At(t, "native_clear_names") /\ Return(t)
             /\ UNCHANGED <<live, held, known, entries, registered, lost, lock, readers>>
  <2>1. new = Idle /\ \A u \in Threads : u # t => th'[u].do = th[u].do
    BY <1>26, <1>r
  <2>2. new.pc = "idle" /\ new.h = None /\ new.cbs = {}
    BY <2>1, <1>i
  <2>3. do.pc = "native_clear_names"
    BY <1>26
  <2>4. OperationOK(do) /\ do.h \in Handle \cup {Server, None}
    BY <1>0 DEF OperationOK, Doing
  <2>5. ASSUME NEW e \in Triples, e[1] = do.h PROVE Matches(e)'
    <3>1. Fits(do, e) /\ e[1] \in Handle
      BY <1>f, <2>5
    <3> QED
      BY <1>26, <1>e, <2>1, <2>2, <2>3, <2>4, <2>5, <3>1 DEF Fits, Told, Untold, Dropped,
         Matches, Real
  <2>6. \A e \in Triples : e[1] # do.h => (e \in held' <=> e \in held) /\ (e \in entries' <=> e \in entries)
    BY <1>26, <1>e DEF Triples
  <2>7. KeepsMatch(t)
    BY <1>f, <2>1, <2>2, <2>5, <2>6 DEF KeepsMatch
  <2>8. /\ \A e \in entries' : e \in entries \/
             /\ do.pc \in StoringPCs /\ e[3] \in do.cbs
             /\ e[1] = do.h /\ e[2] = do.slot
        /\ \A cb \in new.cbs : cb \in do.cbs \/ \E e \in entries : e[3] = cb /\ e[1] = do.h
    BY <1>26, <2>2
  <2>9. \A e \in entries' : e[3] \in new.cbs => new.pc \in TakingPCs /\ e[1] = new.h /\ e[2] =
     new.slot
    BY <1>26, <1>c, <2>2, <2>3, <2>8 DEF TakingPCs, StoringPCs
  <2>10. \A cb \in registered \ registered' :
             \/ do.pc = "unregister" /\ cb \in do.cbs
             \/ \E e \in entries \ entries' : e[3] = cb
    BY <1>26, <2>3
  <2>11. new.pc \in StoringPCs => new.cbs \subseteq registered'
    BY <1>26, <1>c, <2>2, <2>3 DEF StoringPCs
  <2> QED
    BY <1>k, <2>1, <2>7, <2>8, <2>9, <2>10, <2>11 DEF KeepsCallbacks
<1>27. ASSUME NEW h \in Controllers, CreateCustom(t, h) PROVE MatchInv' /\ CallbackInv'
  <2> DEFINE r == [do EXCEPT !.pc = "set_custom", !.h = h]
  <2>1. new = r /\ \A u \in Threads : u # t => th'[u].do = th[u].do
    BY <1>27, <1>g DEF CreateCustom
  <2>2. new.pc = "set_custom" /\ new.h = h /\ new.slot = do.slot /\ new.cbs = do.cbs
    BY <1>0, <2>1 DEF OperationOK, Doing
  <2> HIDE DEF r
  <2>3. do.pc = "create_custom" /\ do.h = None /\ do.slot = Own /\ h \in Handle
    BY <1>0, <1>27 DEF CreateCustom, OperationOK, NoPCs, Handle
  <2>4. h \notin live /\ h \notin known
    BY <1>27, EntryStates DEF CreateCustom
  <2>5. ASSUME NEW e \in Triples, e[1] = h PROVE Fits(th[t].do, e)'
    <3>1. \A u \in Threads : th[u].do.h # h
      BY <2>3, <2>4 DEF EntryInv, WorkedOnLives
    <3>2. Matches(e) /\ e \notin entries
      BY <2>4, <2>5, <3>1 DEF MatchInv, EntryInv
    <3>3. e \in held' <=> e[2] = Own /\ e[3] \in do.cbs
      BY <1>27, <2>5, <3>2, TripleIn DEF CreateCustom, Matches
    <3>4. e \notin entries'
      BY <1>27, <3>2 DEF CreateCustom
    <3> QED
      BY <2>2, <2>3, <3>3, <3>4 DEF Fits, Told, Untold, Dropped, Matches, Real, Own, SinkSorts
  <2>6. \A e \in Triples : e[1] # h => (e \in held' <=> e \in held) /\ (e \in entries' <=> e
     \in entries)
    BY <1>27, TripleIn DEF CreateCustom
  <2>7. KeepsMatch(t)
    BY <1>f, <2>1, <2>2, <2>3, <2>5, <2>6 DEF KeepsMatch
  <2>8. KeepsCallbacks(t)
    BY <1>27, <1>c, <2>1, <2>2, <2>3 DEF CreateCustom, KeepsCallbacks, StoringPCs, TakingPCs
  <2> QED
    BY <1>k, <2>7, <2>8
<1>28. ASSUME NEW s \in SinkIds \cup {Zero}, NativeAdd(t, s) PROVE MatchInv' /\ CallbackInv'
  <2> DEFINE slot == <<do.slot[1], s>>
             r == [do EXCEPT !.pc = "store_sink", !.slot = slot]
  <2>1. new = r /\ \A u \in Threads : u # t => th'[u].do = th[u].do
    BY <1>28, <1>g DEF NativeAdd
  <2>2. new.pc = "store_sink" /\ new.h = do.h /\ new.slot = slot /\ new.cbs = do.cbs
    BY <1>0, <2>1 DEF OperationOK, Doing
  <2>3. do.pc = "native_add" /\ do.h \in Handle /\ slot[1] \in SinkSorts /\ slot[2] = s
    BY <1>0, <1>28 DEF NativeAdd, OperationOK, ObjectPCs
  <2>4. /\ s # Zero => \A e \in held : ~(e[1] = do.h /\ e[2] = slot)
        /\ held' = held \cup {<<do.h, slot, cb>> : cb \in IF s = Zero THEN {} ELSE do.cbs}
        /\ entries' = entries /\ registered' = registered
    BY <1>28 DEF NativeAdd
  <2> HIDE DEF r, slot
  <2>5. ASSUME NEW e \in Triples, e[1] = do.h PROVE Fits(th[t].do, e)'
    <3>1. Matches(e)
      BY <1>f, <2>3, <2>5 DEF Fits, Told, Untold, Dropped
    <3>2. e \in held' <=> e \in held \/ (e[2] = slot /\ s # Zero /\ e[3] \in do.cbs)
      BY <2>4, <2>5, TripleIn
    <3>3. CASE e[2] = slot
      BY <2>2, <2>3, <2>4, <2>5, <3>1, <3>2, <3>3 DEF Fits, Told, Untold, Dropped, Matches, Real
    <3>4. CASE e[2] # slot
      BY <2>2, <2>4, <3>1, <3>2, <3>4 DEF Fits, Told, Untold, Dropped, Matches, Real
    <3> QED
      BY <3>3, <3>4
  <2>6. \A e \in Triples : e[1] # do.h => (e \in held' <=> e \in held) /\ (e \in entries' <=>
     e \in entries)
    BY <2>4, TripleIn
  <2>7. KeepsMatch(t)
    BY <2>1, <2>2, <2>5, <2>6 DEF KeepsMatch
  <2>8. KeepsCallbacks(t)
    BY <1>c, <2>1, <2>2, <2>3, <2>4 DEF KeepsCallbacks, StoringPCs, TakingPCs
  <2> QED
    BY <1>k, <2>7, <2>8
<1>29. CASE ServerAccepts(t)
  <2>1. new.pc = "idle" /\ new.h = None /\ new.cbs = {} /\ \A u \in Threads : u # t => th'[u].do = th[u].do
    BY <1>29, <1>r, <1>i DEF ServerAccepts
  <2>2. do.h = Server /\ do.pc \notin StoringPCs \cup {"unregister"}
    BY <1>0, <1>29 DEF ServerAccepts, OperationOK, ServerPCs, StoringPCs
  <2>3. \A e \in Triples : (e \in held' <=> e \in held) /\ (e \in entries' <=> e \in entries)
    BY <1>29, <1>f, <2>2, TripleIn DEF ServerAccepts
  <2>4. KeepsMatch(t)
    BY <1>f, <2>1, <2>2, <2>3 DEF KeepsMatch
  <2>5. KeepsCallbacks(t)
    BY <1>29, <2>1 DEF ServerAccepts, KeepsCallbacks, StoringPCs
  <2> QED
    BY <1>k, <2>4, <2>5
<1>30. CASE EndLookup(t) \/ AnswerZero(t) \/ HandlerReturns(t)
  <2>1. do.pc \in {"idle", "found", "missing"} /\ do.h = None /\ do.cbs = {}
    BY <1>0, <1>30 DEF EndLookup, AnswerZero, HandlerReturns, OperationOK, NoPCs, HoldingPCs,
       ServerPCs
  <2>2. /\ new.pc \in {"idle", "found", "missing"} /\ new.h = None /\ new.cbs = {}
        /\ \A u \in Threads : u # t => th'[u].do = th[u].do
    BY <1>0, <1>30, <1>r, <1>i, <2>1 DEF EndLookup, AnswerZero, HandlerReturns
  <2>3. UNCHANGED <<held, entries, registered>>
    BY <1>30 DEF EndLookup, AnswerZero, HandlerReturns
  <2>4. KeepsMatch(t)
    BY <1>f, <2>1, <2>2, <2>3 DEF KeepsMatch
  <2>5. KeepsCallbacks(t)
    BY <2>1, <2>2, <2>3 DEF KeepsCallbacks, StoringPCs
  <2> QED
    BY <1>k, <2>4, <2>5
<1> QED
  BY <1>1, <1>2, <1>3, <1>4, <1>5, <1>6, <1>7, <1>8, <1>9, <1>10, <1>11, <1>12, <1>13, <1>14,
     <1>15, <1>16, <1>17, <1>18, <1>19, <1>20, <1>21, <1>22, <1>23, <1>24, <1>25, <1>26,
     <1>27, <1>28, <1>29, <1>30
  DEF Continue, NativeRegister, NativeUnregister, NativeClearNames

-----------------------------------------------------------------------------
(* The theorem                                                              *)

\* Nothing is held at first,
LEMMA MatchInit == HandlesInit => MatchInv /\ CallbackInv
<1> SUFFICES ASSUME HandlesInit PROVE MatchInv /\ CallbackInv
  OBVIOUS
<1>1. \A t \in Threads : th[t].do.pc = "idle" /\ th[t].do.cbs = {} /\ th[t].do.h = None
  BY DEF HandlesInit, Idle
<1>2. MatchInv
  BY <1>1, AddressAssumption DEF HandlesInit, MatchInv, Matches, Triples
<1>3. CallbackInv
  BY <1>1 DEF HandlesInit, CallbackInv, StoringPCs
<1> QED
  BY <1>2, <1>3

\* every step keeps both invariants,
LEMMA MatchStep ==
  TypeInv /\ EntryInv /\ MatchInv /\ CallbackInv /\ [Next]_vars => MatchInv' /\ CallbackInv'
<1> SUFFICES ASSUME TypeInv, EntryInv, MatchInv, CallbackInv, [Next]_vars
             PROVE  MatchInv' /\ CallbackInv'
  OBVIOUS
<1>1. TypeInv' /\ EntryInv'
  BY StepTyped, EntryStep
<1>2. CASE UNCHANGED handleVars
  <2>1. UNCHANGED <<held, entries, registered, th>>
    BY <1>2 DEF handleVars
  <2>2. MatchInv'
    BY <2>1 DEF MatchInv, Fits, Told, Untold, Dropped, Matches, Real
  <2>3. CallbackInv'
    BY <2>1 DEF CallbackInv
  <2> QED
    BY <2>2, <2>3
<1> QED
  BY <1>1, <1>2, HandlesPart, BeginMatches, ContinueMatches

\* and between operations the entry is what the framework holds.
LEMMA BetweenOperations == TypeInv /\ MatchInv /\ CallbackInv => EntryMatchesFramework
<1> SUFFICES ASSUME TypeInv, MatchInv, CallbackInv,
                    NEW h \in known, \A t \in Threads : th[t].do.h # h
             PROVE  /\ {e \in held : e[1] = h} =
                         {e \in entries : e[1] = h /\ (e[2][1] \in SinkSorts => e[2][2] # Zero)}
                    /\ CallbacksOf(entries, h) \subseteq registered
  BY DEF EntryMatchesFramework
<1>1. h \in Handle /\ entries \subseteq Triples
  BY DEF TypeInv, HandlesTypeOK, Triples
<1>2. \A e \in held : e[1] = h => e \in Triples
  BY <1>1 DEF TypeInv, HandlesTypeOK, Triples
<1>3. \A e \in Triples : e[1] = h => (e \in held <=> e \in entries /\ Real(e))
  BY DEF MatchInv, Matches
<1>4. {e \in held : e[1] = h} =
        {e \in entries : e[1] = h /\ (e[2][1] \in SinkSorts => e[2][2] # Zero)}
  BY <1>1, <1>2, <1>3 DEF Real
<1> QED
  BY <1>4 DEF CallbackInv, CallbacksOf

\* Whatever adds, removes, replaces or clears sinks, recognitions and actions (tasker.go,
\* resource.go, controller.go), refused or not, from any number of threads and handlers:
\* an object no operation is on has in its entry what the framework holds, and every
\* callback of it in its table.
THEOREM EntriesMatch == Spec => []EntryMatchesFramework
<1> DEFINE Inv == TypeInv /\ EntryInv /\ MatchInv /\ CallbackInv
<1>1. Init => Inv
  BY TypeInit, EntryInit, MatchInit DEF Init
<1>2. Inv /\ [Next]_vars => Inv'
  BY StepTyped, EntryStep, MatchStep
<1>3. Inv => EntryMatchesFramework
  BY BetweenOperations
<1> QED
  BY <1>1, <1>2, <1>3, PTL DEF Spec
=============================================================================
