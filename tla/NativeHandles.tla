---------------------------- MODULE NativeHandles ----------------------------
(***************************************************************************)
(* The Go binding's bookkeeping of native objects.  The framework keeps    *)
(* callbacks by an integer, the binding keeps what the integer stands for: *)
(* a table per kind of callback, and per object a store entry that says    *)
(* which callbacks are the object's.  Every table and every store has a    *)
(* lock of its own; an operation visits the framework, the store and the   *)
(* table in its own order, and callbacks arrive on the framework's threads *)
(* while that goes on and may call the binding themselves.                 *)
(*                                                                         *)
(* A section under a lock in which nothing can block is one step.  The     *)
(* sections of a store that drop callbacks wait for a table's lock inside  *)
(* and are two.                                                            *)
(***************************************************************************)
EXTENDS Naturals, FiniteSets

CONSTANTS
  Taskers, Resources, Controllers,  \* addresses the framework gives to its objects
  Server,      \* the agent server, which is not an object of a store
  SinkIds,     \* identifiers the framework gives to event sinks
  Zero,        \* MaaInvalidId, the result of a refused AddSink
  Names,       \* names of custom actions and recognitions
  Ids,         \* callback numbers, per kind
  MaxCallbacks,  \* bound of an instance: callbacks in the tables at a time
  MaxObjects,    \* bound of an instance: objects at a time
  Sorts,         \* bound of an instance: the sorts of callback in use
  Threads,
  None

VARIABLES
  live,        \* the native objects that exist
  held,        \* <<object, slot, callback>>: what the framework will call
  known,       \* the objects with an entry in their store
  entries,     \* <<object, slot, callback>>: the callbacks of the entries
  registered,  \* the callbacks in the tables
  lost,        \* callbacks in the tables that no entry leads to any more
  lock,        \* the holder of each store's lock
  readers,     \* the threads inside a look-up, per table
  th           \* the operation each thread is in, and the callback it runs

handleVars == <<live, held, known, entries, registered, lost, lock, readers, th>>

Handle == Taskers \cup Resources \cup Controllers

\* An address is neither the agent server nor nothing.
ASSUME AddressAssumption == Server \notin Handle /\ None \notin Handle \cup {Server}

Kinds == {"event", "recognition", "action", "controller"}
Callback == Kinds \X Ids

\* The three stores
Stores == {"TaskerStore", "ResStore", "CtrlStore"}
StoreOf(h) ==
  CASE h \in Taskers -> "TaskerStore" [] h \in Resources -> "ResStore" [] OTHER -> "CtrlStore"

\* A slot is a key of one of the maps in a store's value.
SinkSorts == {"sink", "context"}
NameSorts == {"recognition", "action"}
SortsOf(h) == Sorts \cap
  CASE h \in Taskers -> {"sink", "context"}
    [] h \in Resources -> {"sink", "recognition", "action"}
    [] h \in Controllers -> {"sink", "controller"}
    [] OTHER -> {"sink", "recognition", "action"}
Own == <<"controller", Zero>>
Slot == (SinkSorts \X (SinkIds \cup {Zero})) \cup (NameSorts \X Names) \cup {Own}
KindOf(sort) == IF sort \in SinkSorts THEN "event" ELSE sort

\* Callbacks of an object, or of one of its slots or sorts of slot
CallbacksOf(E, h) == {e[3] : e \in {x \in E : x[1] = h}}
CallbacksAt(E, h, slot) == {e[3] : e \in {x \in E : x[1] = h /\ x[2] = slot}}
OfSort(E, h, sort) == {x \in E : x[1] = h /\ x[2][1] = sort}

PCs == {"idle", "set", "set_custom", "store_custom", "create_custom",
        "native_add", "store_sink", "lock_remove", "drop_sink", "native_remove",
        "lock_clear", "drop_sinks", "native_clear",
        "native_register", "store_name", "native_unregister", "delete_name",
        "native_clear_names", "delete_names", "unregister",
        "server_sink", "server_name", "lock_destroy", "drop_entry", "native_destroy",
        "found", "missing"}

Doing == [pc : PCs, h : Handle \cup {Server, None},
          slot : Slot \cup (NameSorts \X {None}) \cup {None}, cbs : SUBSET Callback]
Idle == [pc |-> "idle", h |-> None, slot |-> None, cbs |-> {}]
Go(t, r) == th' = [th EXCEPT ![t].do = r]
Return(t) == Go(t, Idle)
At(t, pc) == th[t].do.pc = pc

HandlesInit ==
  /\ live = {} /\ held = {} /\ known = {} /\ entries = {} /\ registered = {} /\ lost = {}
  /\ lock = [s \in Stores |-> None]
  /\ readers = [k \in Kinds |-> {}]
  /\ th = [t \in Threads |-> [do |-> Idle, from |-> None]]

\* A callback number that nothing refers to.  The code counts up and never reuses
\* one; one that nothing refers to any more is as good as new.
Fresh(cb) ==
  /\ Cardinality(registered) < MaxCallbacks
  /\ cb \notin registered /\ cb \notin lost
  /\ \A e \in held \cup entries : e[3] # cb
  /\ \A t \in Threads : cb \notin th[t].do.cbs

\* Callers leave an object to one operation at a time, and to none after Destroy.
Usable(h) == h \in known /\ \A t \in Threads : th[t].do.h # h

\* The write lock of a table, which waits for the threads that look something up
CanWrite(k) == readers[k] = {}
-----------------------------------------------------------------------------
(* Creation *)

\* MaaXxxCreate; a refusal changes nothing.
Create(t, h) ==
  /\ At(t, "idle") /\ h \notin live /\ Cardinality(live) < MaxObjects
  /\ live' = live \cup {h}
  /\ Go(t, [pc |-> "set", h |-> h, slot |-> None, cbs |-> {}])
  /\ UNCHANGED <<held, known, entries, registered, lost, lock, readers>>

NewTasker(t, h) == Create(t, h)
NewResource(t, h) == Create(t, h)
NewController(t, h) == Create(t, h)

\* Store.Set replaces what the address had before.
SetEntry(h) ==
  /\ lock[StoreOf(h)] = None
  /\ known' = known \cup {h}
  /\ entries' = {e \in entries : e[1] # h}

InitStore(t) ==
  /\ At(t, "set") /\ SetEntry(th[t].do.h)
  /\ Return(t)
  /\ UNCHANGED <<live, held, registered, lost, lock, readers>>

\* NewCustomController registers its callbacks before there is an object.
RegisterController(t, cb) ==
  /\ At(t, "idle") /\ cb[1] = "controller" /\ Fresh(cb) /\ CanWrite("controller")
  /\ registered' = registered \cup {cb}
  /\ Go(t, [pc |-> "create_custom", h |-> None, slot |-> Own, cbs |-> {cb}])
  /\ UNCHANGED <<live, held, known, entries, lost, lock, readers>>

CreateCustom(t, h) ==
  /\ At(t, "create_custom") /\ h \notin live /\ Cardinality(live) < MaxObjects
  /\ live' = live \cup {h}
  /\ held' = held \cup {<<h, Own, cb>> : cb \in th[t].do.cbs}
  /\ Go(t, [th[t].do EXCEPT !.pc = "set_custom", !.h = h])
  /\ UNCHANGED <<known, entries, registered, lost, lock, readers>>

\* A refused creation leaves the callbacks in the table.
CreateCustomFails(t) ==
  /\ At(t, "create_custom")
  /\ lost' = lost \cup th[t].do.cbs
  /\ Return(t)
  /\ UNCHANGED <<live, held, known, entries, registered, lock, readers>>

InitCustomStore(t) ==
  /\ At(t, "set_custom") /\ SetEntry(th[t].do.h)
  /\ Go(t, [th[t].do EXCEPT !.pc = "store_custom"])
  /\ UNCHANGED <<live, held, registered, lost, lock, readers>>

StoreCustom(t) ==
  /\ At(t, "store_custom") /\ lock["CtrlStore"] = None
  /\ entries' = entries \cup {<<th[t].do.h, Own, cb>> : cb \in th[t].do.cbs}
  /\ Return(t)
  /\ UNCHANGED <<live, held, known, registered, lost, lock, readers>>
-----------------------------------------------------------------------------
(* Event sinks *)

\* AddSink and AddContextSink register the callback first ...
AddSink(t, h, sort, cb) ==
  /\ At(t, "idle") /\ Usable(h) /\ sort \in SortsOf(h) \cap SinkSorts
  /\ cb[1] = "event" /\ Fresh(cb) /\ CanWrite("event")
  /\ registered' = registered \cup {cb}
  /\ Go(t, [pc |-> "native_add", h |-> h, slot |-> <<sort, Zero>>, cbs |-> {cb}])
  /\ UNCHANGED <<live, held, known, entries, lost, lock, readers>>

\* ... then tell the framework, which answers with a new sink id or with 0 ...
NativeAdd(t, s) ==
  LET do == th[t].do slot == <<do.slot[1], s>> IN
  /\ At(t, "native_add")
  /\ s # Zero => \A e \in held : ~(e[1] = do.h /\ e[2] = slot)
  /\ held' = held \cup {<<do.h, slot, cb>> : cb \in IF s = Zero THEN {} ELSE do.cbs}
  /\ Go(t, [do EXCEPT !.pc = "store_sink", !.slot = slot])
  /\ UNCHANGED <<live, known, entries, registered, lost, lock, readers>>

\* ... and store the callback under that id, whatever it is.
StoreSink(t) ==
  LET do == th[t].do IN
  /\ At(t, "store_sink") /\ lock[StoreOf(do.h)] = None
  /\ entries' = {e \in entries : ~(e[1] = do.h /\ e[2] = do.slot)}
                  \cup {<<do.h, do.slot, cb>> : cb \in do.cbs}
  /\ lost' = lost \cup CallbacksAt(entries, do.h, do.slot)
  /\ Return(t)
  /\ UNCHANGED <<live, held, known, registered, lock, readers>>

\* Taking a store's lock for a section that will wait for a table's
TakeLock(t, from, to) ==
  LET do == th[t].do IN
  /\ At(t, from) /\ lock[StoreOf(do.h)] = None
  /\ lock' = [lock EXCEPT ![StoreOf(do.h)] = t]
  /\ Go(t, [do EXCEPT !.pc = to])
  /\ UNCHANGED <<live, held, known, entries, registered, lost, readers>>

RemoveSink(t, h, slot) ==
  /\ At(t, "idle") /\ Usable(h) /\ slot[1] \in SortsOf(h) \cap SinkSorts
  /\ CallbacksAt(entries, h, slot) # {}
  /\ Go(t, [pc |-> "lock_remove", h |-> h, slot |-> slot, cbs |-> {}])
  /\ UNCHANGED <<live, held, known, entries, registered, lost, lock, readers>>

\* The callback goes first, so that an event on its way finds nothing.
DropSink(t) ==
  LET do == th[t].do IN
  /\ At(t, "drop_sink") /\ CanWrite("event")
  /\ registered' = registered \ CallbacksAt(entries, do.h, do.slot)
  /\ entries' = {e \in entries : ~(e[1] = do.h /\ e[2] = do.slot)}
  /\ lock' = [lock EXCEPT ![StoreOf(do.h)] = None]
  /\ Go(t, [do EXCEPT !.pc = "native_remove"])
  /\ UNCHANGED <<live, held, known, lost, readers>>

NativeRemove(t) ==
  LET do == th[t].do IN
  /\ At(t, "native_remove")
  /\ held' = {e \in held : ~(e[1] = do.h /\ e[2] = do.slot)}
  /\ Return(t)
  /\ UNCHANGED <<live, known, entries, registered, lost, lock, readers>>

ClearSinks(t, h, sort) ==
  /\ At(t, "idle") /\ Usable(h) /\ sort \in SortsOf(h) \cap SinkSorts
  /\ Go(t, [pc |-> "lock_clear", h |-> h, slot |-> <<sort, Zero>>, cbs |-> {}])
  /\ UNCHANGED <<live, held, known, entries, registered, lost, lock, readers>>

DropSinks(t) ==
  LET do == th[t].do mine == OfSort(entries, do.h, do.slot[1]) IN
  /\ At(t, "drop_sinks") /\ CanWrite("event")
  /\ registered' = registered \ {e[3] : e \in mine}
  /\ entries' = entries \ mine
  /\ lock' = [lock EXCEPT ![StoreOf(do.h)] = None]
  /\ Go(t, [do EXCEPT !.pc = "native_clear"])
  /\ UNCHANGED <<live, held, known, lost, readers>>

NativeClear(t) ==
  LET do == th[t].do IN
  /\ At(t, "native_clear")
  /\ held' = held \ OfSort(held, do.h, do.slot[1])
  /\ Return(t)
  /\ UNCHANGED <<live, known, entries, registered, lost, lock, readers>>
-----------------------------------------------------------------------------
(* Custom recognitions and actions of a resource *)

RegisterName(t, h, slot, cb) ==
  /\ At(t, "idle") /\ Usable(h) /\ slot[1] \in SortsOf(h) \cap NameSorts
  /\ cb[1] = slot[1] /\ Fresh(cb) /\ CanWrite(cb[1])
  /\ registered' = registered \cup {cb}
  /\ Go(t, [pc |-> "native_register", h |-> h, slot |-> slot, cbs |-> {cb}])
  /\ UNCHANGED <<live, held, known, entries, lost, lock, readers>>

\* The framework replaces what it held for the name, or refuses.
NativeRegister(t) ==
  LET do == th[t].do IN
  /\ At(t, "native_register")
  /\ \/ /\ held' = {e \in held : ~(e[1] = do.h /\ e[2] = do.slot)}
                     \cup {<<do.h, do.slot, cb>> : cb \in do.cbs}
        /\ Go(t, [do EXCEPT !.pc = "store_name"])
     \/ held' = held /\ Go(t, [do EXCEPT !.pc = "unregister"])
  /\ UNCHANGED <<live, known, entries, registered, lost, lock, readers>>

\* A bug: the callback of the entry that is replaced is forgotten.
BugStoreName(t) ==
  LET do == th[t].do IN
  /\ At(t, "store_name") /\ lock[StoreOf(do.h)] = None
  /\ entries' = {e \in entries : ~(e[1] = do.h /\ e[2] = do.slot)}
                  \cup {<<do.h, do.slot, cb>> : cb \in do.cbs}
  /\ Return(t)
  /\ UNCHANGED <<live, held, known, registered, lost, lock, readers>>

\* The entry changes hands; the callback it had is dropped next.
StoreName(t) ==
  LET do == th[t].do IN
  /\ At(t, "store_name") /\ lock[StoreOf(do.h)] = None
  /\ entries' = {e \in entries : ~(e[1] = do.h /\ e[2] = do.slot)}
                  \cup {<<do.h, do.slot, cb>> : cb \in do.cbs}
  /\ Go(t, [do EXCEPT !.pc = "unregister", !.cbs = CallbacksAt(entries, do.h, do.slot)])
  /\ UNCHANGED <<live, held, known, registered, lost, lock, readers>>

\* unregisterCustomAction / unregisterCustomRecognition of what the operation holds
Unregister(t) ==
  LET do == th[t].do IN
  /\ At(t, "unregister") /\ CanWrite(KindOf(do.slot[1]))
  /\ registered' = registered \ do.cbs
  /\ Return(t)
  /\ UNCHANGED <<live, held, known, entries, lost, lock, readers>>

UnregisterName(t, h, slot) ==
  /\ At(t, "idle") /\ Usable(h) /\ slot[1] \in SortsOf(h) \cap NameSorts
  /\ lock[StoreOf(h)] = None
  /\ CallbacksAt(entries, h, slot) # {}
  /\ Go(t, [pc |-> "native_unregister", h |-> h, slot |-> slot,
            cbs |-> CallbacksAt(entries, h, slot)])
  /\ UNCHANGED <<live, held, known, entries, registered, lost, lock, readers>>

\* A bug: a refusal is not noticed.
BugNativeUnregister(t) ==
  LET do == th[t].do IN
  /\ At(t, "native_unregister")
  /\ \/ held' = {e \in held : ~(e[1] = do.h /\ e[2] = do.slot)}
     \/ held' = held
  /\ Go(t, [do EXCEPT !.pc = "delete_name"])
  /\ UNCHANGED <<live, known, entries, registered, lost, lock, readers>>

NativeUnregister(t) ==
  LET do == th[t].do IN
  /\ At(t, "native_unregister")
  /\ \/ /\ held' = {e \in held : ~(e[1] = do.h /\ e[2] = do.slot)}
        /\ Go(t, [do EXCEPT !.pc = "delete_name"])
     \/ held' = held /\ Return(t)
  /\ UNCHANGED <<live, known, entries, registered, lost, lock, readers>>

DeleteName(t) ==
  LET do == th[t].do IN
  /\ At(t, "delete_name") /\ lock[StoreOf(do.h)] = None
  /\ entries' = {e \in entries : ~(e[1] = do.h /\ e[2] = do.slot)}
  /\ Go(t, [do EXCEPT !.pc = "unregister"])
  /\ UNCHANGED <<live, held, known, registered, lost, lock, readers>>

ClearNames(t, h, sort) ==
  /\ At(t, "idle") /\ Usable(h) /\ sort \in SortsOf(h) \cap NameSorts
  /\ Go(t, [pc |-> "native_clear_names", h |-> h, slot |-> <<sort, None>>, cbs |-> {}])
  /\ UNCHANGED <<live, held, known, entries, registered, lost, lock, readers>>

NativeClearNames(t) ==
  LET do == th[t].do IN
  /\ At(t, "native_clear_names")
  /\ \/ /\ held' = held \ OfSort(held, do.h, do.slot[1])
        /\ Go(t, [do EXCEPT !.pc = "delete_names"])
     \/ held' = held /\ Return(t)
  /\ UNCHANGED <<live, known, entries, registered, lost, lock, readers>>

DeleteNames(t) ==
  LET do == th[t].do mine == OfSort(entries, do.h, do.slot[1]) IN
  /\ At(t, "delete_names") /\ lock[StoreOf(do.h)] = None
  /\ entries' = entries \ mine
  /\ Go(t, [do EXCEPT !.pc = "unregister", !.cbs = {e[3] : e \in mine}])
  /\ UNCHANGED <<live, held, known, registered, lost, lock, readers>>
-----------------------------------------------------------------------------
(* The agent server has no store: its callbacks stay for the process's life. *)

\* A name is registered there once.
ServerRegister(t, slot, cb) ==
  /\ At(t, "idle") /\ slot[1] \in SortsOf(Server) /\ cb[1] = KindOf(slot[1])
  /\ slot[2] # Zero
  /\ \A u \in Threads : th[u].do.h # Server
  /\ \A e \in held : ~(e[1] = Server /\ e[2] = slot)
  /\ Fresh(cb) /\ CanWrite(cb[1])
  /\ registered' = registered \cup {cb}
  /\ Go(t, [pc |-> IF slot[1] = "sink" THEN "server_sink" ELSE "server_name",
            h |-> Server, slot |-> slot, cbs |-> {cb}])
  /\ UNCHANGED <<live, held, known, entries, lost, lock, readers>>

ServerAccepts(t) ==
  LET do == th[t].do IN
  /\ At(t, "server_sink") \/ At(t, "server_name")
  /\ held' = held \cup {<<Server, do.slot, cb>> : cb \in do.cbs}
  /\ Return(t)
  /\ UNCHANGED <<live, known, entries, registered, lost, lock, readers>>

\* A refused name is unregistered again, a refused sink is not.
ServerRefusesName(t) ==
  /\ At(t, "server_name")
  /\ Go(t, [th[t].do EXCEPT !.pc = "unregister"])
  /\ UNCHANGED <<live, held, known, entries, registered, lost, lock, readers>>

ServerRefusesSink(t) ==
  /\ At(t, "server_sink")
  /\ lost' = lost \cup th[t].do.cbs
  /\ Return(t)
  /\ UNCHANGED <<live, held, known, entries, registered, lock, readers>>
-----------------------------------------------------------------------------
(* Destruction *)

\* A bug: the object is freed with its entry still there.
BugDestroy(t, h) ==
  /\ At(t, "idle") /\ th[t].from = None /\ Usable(h)
  /\ Go(t, [pc |-> "native_destroy", h |-> h, slot |-> None, cbs |-> {}])
  /\ UNCHANGED <<live, held, known, entries, registered, lost, lock, readers>>

\* Handlers do not destroy objects: the framework would wait for the handler.
Destroy(t, h) ==
  /\ At(t, "idle") /\ th[t].from = None /\ Usable(h)
  /\ Go(t, [pc |-> "lock_destroy", h |-> h, slot |-> None, cbs |-> {}])
  /\ UNCHANGED <<live, held, known, entries, registered, lost, lock, readers>>

\* The tables that Destroy visits: a controller's is visited for any controller.
Visits(h) ==
  {cb[1] : cb \in CallbacksOf(entries, h)} \cup (IF h \in Controllers THEN {"controller"} ELSE {})

\* The callbacks and the entry go while the framework still has the object, so
\* that the address cannot belong to a successor.
DropEntry(t) ==
  LET do == th[t].do IN
  /\ At(t, "drop_entry") /\ \A k \in Visits(do.h) : CanWrite(k)
  /\ registered' = registered \ CallbacksOf(entries, do.h)
  /\ entries' = {e \in entries : e[1] # do.h}
  /\ known' = known \ {do.h}
  /\ lock' = [lock EXCEPT ![StoreOf(do.h)] = None]
  /\ Go(t, [do EXCEPT !.pc = "native_destroy"])
  /\ UNCHANGED <<live, held, lost, readers>>

\* The threads that are delivering a callback for an object
Delivering(h) == {t \in Threads : th[t].from = h}

\* The framework joins the object's threads, then frees it.
NativeDestroy(t) ==
  LET h == th[t].do.h IN
  /\ At(t, "native_destroy") /\ Delivering(h) = {}
  /\ live' = live \ {h}
  /\ held' = {e \in held : e[1] # h}
  /\ Return(t)
  /\ UNCHANGED <<known, entries, registered, lost, lock, readers>>
-----------------------------------------------------------------------------
(* Callbacks: what the framework holds, it may call on a thread of its own *)

\* The look-up, under the read lock of the table
Deliver(t, e) ==
  /\ At(t, "idle") /\ th[t].from = None /\ e \in held
  /\ readers' = [readers EXCEPT ![e[3][1]] = @ \cup {t}]
  /\ th' = [th EXCEPT ![t] =
       [do |-> [Idle EXCEPT !.pc = IF e[3] \in registered THEN "found" ELSE "missing",
                            !.slot = e[2]],
        from |-> e[1]]]
  /\ UNCHANGED <<live, held, known, entries, registered, lost, lock>>

\* A bug: the read lock is kept while the handler runs.
BugEndLookup(t) ==
  /\ At(t, "found")
  /\ Return(t)
  /\ UNCHANGED <<live, held, known, entries, registered, lost, lock, readers>>

\* The read lock is released before the handler runs ...
EndLookup(t) ==
  /\ At(t, "found")
  /\ readers' = [readers EXCEPT ![KindOf(th[t].do.slot[1])] = @ \ {t}]
  /\ Return(t)
  /\ UNCHANGED <<live, held, known, entries, registered, lost, lock>>

\* ... and without a handler, or without the recognition an action was called
\* for, the answer is 0.
AnswerZero(t) ==
  /\ At(t, "missing") \/ (At(t, "found") /\ th[t].do.slot[1] = "action")
  /\ readers' = [readers EXCEPT ![KindOf(th[t].do.slot[1])] = @ \ {t}]
  /\ th' = [th EXCEPT ![t] = [do |-> Idle, from |-> None]]
  /\ UNCHANGED <<live, held, known, entries, registered, lost, lock>>

\* The handler: an event's sink gets the details it can decode, an action or a
\* recognition its arguments.  What it calls are operations of this thread.
HandlerReturns(t) ==
  /\ At(t, "idle") /\ th[t].from # None
  /\ th' = [th EXCEPT ![t].from = None]
  /\ UNCHANGED <<live, held, known, entries, registered, lost, lock, readers>>
-----------------------------------------------------------------------------
(* Which operation an API has for which object *)

SinkOperation(t, h) ==
  \/ \E sort \in SinkSorts, cb \in Callback : AddSink(t, h, sort, cb)
  \/ \E slot \in Slot : RemoveSink(t, h, slot)
  \/ \E sort \in SinkSorts : ClearSinks(t, h, sort)
TaskerSinks(t) == \E h \in Taskers : SinkOperation(t, h)
ResourceSinks(t) == \E h \in Resources : SinkOperation(t, h)
ControllerSinks(t) == \E h \in Controllers : SinkOperation(t, h)

NameOperation(t, sort) ==
  \E h \in Resources :
    \/ \E n \in Names, i \in Ids : RegisterName(t, h, <<sort, n>>, <<sort, i>>)
    \/ \E n \in Names : UnregisterName(t, h, <<sort, n>>)
    \/ ClearNames(t, h, sort)
CustomRecognitions(t) == NameOperation(t, "recognition")
CustomActions(t) == NameOperation(t, "action")

DestroyTasker(t) == \E h \in Taskers : Destroy(t, h)
DestroyResource(t) == \E h \in Resources : Destroy(t, h)
DestroyController(t) == \E h \in Controllers : Destroy(t, h)

EventCallbackAgent(t) == \E e \in held : e[3][1] = "event" /\ Deliver(t, e)
CustomRecognitionCallbackAgent(t) == \E e \in held : e[3][1] = "recognition" /\ Deliver(t, e)
CustomActionCallbackAgent(t) == \E e \in held : e[3][1] = "action" /\ Deliver(t, e)
CustomControllerAgents(t) == \E e \in held : e[3][1] = "controller" /\ Deliver(t, e)

Begin(t) ==
  \/ \E h \in Taskers : NewTasker(t, h)
  \/ \E h \in Resources : NewResource(t, h)
  \/ \E h \in Controllers : NewController(t, h)
  \/ \E cb \in Callback : RegisterController(t, cb)
  \/ TaskerSinks(t) \/ ResourceSinks(t) \/ ControllerSinks(t)
  \/ CustomRecognitions(t) \/ CustomActions(t)
  \/ \E slot \in Slot, cb \in Callback : ServerRegister(t, slot, cb)
  \/ DestroyTasker(t) \/ DestroyResource(t) \/ DestroyController(t)
  \/ EventCallbackAgent(t) \/ CustomRecognitionCallbackAgent(t)
  \/ CustomActionCallbackAgent(t) \/ CustomControllerAgents(t)

Continue(t) ==
  \/ InitStore(t) \/ (\E h \in Controllers : CreateCustom(t, h)) \/ CreateCustomFails(t)
  \/ InitCustomStore(t) \/ StoreCustom(t)
  \/ (\E s \in SinkIds \cup {Zero} : NativeAdd(t, s)) \/ StoreSink(t)
  \/ TakeLock(t, "lock_remove", "drop_sink") \/ DropSink(t) \/ NativeRemove(t)
  \/ TakeLock(t, "lock_clear", "drop_sinks") \/ DropSinks(t) \/ NativeClear(t)
  \/ NativeRegister(t) \/ StoreName(t) \/ Unregister(t)
  \/ NativeUnregister(t) \/ DeleteName(t) \/ NativeClearNames(t) \/ DeleteNames(t)
  \/ ServerAccepts(t) \/ ServerRefusesName(t) \/ ServerRefusesSink(t)
  \/ TakeLock(t, "lock_destroy", "drop_entry") \/ DropEntry(t) \/ NativeDestroy(t)
  \/ EndLookup(t) \/ AnswerZero(t) \/ HandlerReturns(t)

HandlesNext == \E t \in Threads : Begin(t) \/ Continue(t)
-----------------------------------------------------------------------------
(* Properties *)

HandlesTypeOK ==
  /\ live \subseteq Handle /\ known \subseteq Handle
  /\ held \subseteq (Handle \cup {Server}) \X Slot \X Callback
  /\ entries \subseteq Handle \X Slot \X Callback
  /\ registered \subseteq Callback /\ lost \subseteq Callback
  /\ lock \in [Stores -> Threads \cup {None}]
  /\ readers \in [Kinds -> SUBSET Threads]
  /\ th \in [Threads -> [do : Doing, from : Handle \cup {Server, None}]]

\* An address that the framework reuses for a new object keeps the new object's
\* entry: destroying the previous owner never takes it away, and no entry outlives
\* its object.
Creating == {h \in Handle : \E t \in Threads : th[t].do.h = h /\ th[t].do.pc \in {"set", "set_custom"}}
Dying == {h \in Handle : \E t \in Threads : th[t].do.h = h /\ At(t, "native_destroy")}
EntryFollowsObject == known = (live \ Creating) \ Dying

\* Between operations on it, an object's entry lists exactly what the framework
\* holds (but for refused sinks, which are kept under 0), and every callback the
\* framework may call is in its table.
EntryMatchesFramework ==
  \A h \in known : (\A t \in Threads : th[t].do.h # h) =>
    /\ {e \in held : e[1] = h} = {e \in entries : e[1] = h /\ (e[2][1] \in SinkSorts => e[2][2] # Zero)}
    /\ CallbacksOf(entries, h) \subseteq registered

\* A callback in a table belongs to an object, to the agent server or to a running
\* operation, or it was lost when the framework refused something.
NoCallbackLeak ==
  registered \subseteq {e[3] : e \in entries} \cup CallbacksOf(held, Server) \cup lost
                         \cup UNION {th[t].do.cbs : t \in Threads}

\* Whom a thread waits for: holders of a store's lock, readers of a table, or the
\* deliveries of an object that is being freed
WaitsFor(t) ==
  LET do == th[t].do IN
  CASE do.pc \in {"set", "set_custom", "store_custom", "store_sink", "store_name", "delete_name",
                  "delete_names", "lock_remove", "lock_clear", "lock_destroy"} ->
         {lock[StoreOf(do.h)]} \ {None}
    [] do.pc \in {"drop_sink", "drop_sinks"} -> readers["event"]
    [] do.pc = "drop_entry" -> UNION {readers[k] : k \in Visits(do.h)}
    [] do.pc = "unregister" -> readers[KindOf(do.slot[1])]
    [] do.pc = "native_destroy" -> Delivering(do.h)
    [] do.pc = "idle" /\ th[t].from # None -> UNION {readers[k] : k \in Kinds}
    [] OTHER -> {}

\* No set of threads waits for each other, whatever a handler calls while another
\* thread destroys or removes: no lock is held across a handler or a call that waits.
NoCircularWait == \A S \in SUBSET Threads : S # {} => \E t \in S : WaitsFor(t) \cap S = {}
=============================================================================
