------------------------------ MODULE GoBinding ------------------------------
(***************************************************************************)
(* The Go binding as its users drive it: the libraries are loaded before   *)
(* the first object and released after the last one.                       *)
(***************************************************************************)
EXTENDS NativeHandles, NativeLibrary

vars == <<handleVars, libraryVars>>

Init == HandlesInit /\ LibraryInit

\* The binding does not check it: calling it before Init panics, and Release pulls
\* the code from under objects that exist.
Quiet == live = {} /\ \A t \in Threads : th[t].do = Idle /\ th[t].from = None

\* Callers give up (the agent's main exits) when a library could not be loaded.
UseObjects == inited /\ task = Free /\ ~failed /\ HandlesNext /\ UNCHANGED libraryVars
UseLibrary == Quiet /\ LibraryNext /\ UNCHANGED handleVars

Next == UseObjects \/ UseLibrary

Spec == Init /\ [][Next]_vars

TypeOK == HandlesTypeOK /\ LibraryTypeOK
=============================================================================
