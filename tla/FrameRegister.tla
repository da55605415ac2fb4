---------------------------- MODULE FrameRegister ----------------------------
(***************************************************************************)
(* What the frame buffers promise: a register that holds the latest        *)
(* captured frame.  A screenshot is one whole frame, the one that was the  *)
(* latest at some moment during the call.  FrameBuffer implements this     *)
(* with three buffers, reader counts and no lock.                          *)
(***************************************************************************)
EXTENDS Naturals

CONSTANT Readers

VARIABLES
  latest,   \* number of the latest frame, 0 before the first
  taken     \* the frame each reader has in hand, 0 for none

rvars == <<latest, taken>>

RegisterInit == latest = 0 /\ taken = [r \in Readers |-> 0]

\* The capture callback completes a frame.
Publish == latest' = latest + 1 /\ UNCHANGED taken

\* A screenshot.
Take(r) == latest # 0 /\ taken' = [taken EXCEPT ![r] = latest] /\ UNCHANGED latest

\* The call is over.
Return(r) == taken' = [taken EXCEPT ![r] = 0] /\ UNCHANGED latest

\* The capturer is torn down.
Clear == latest' = 0 /\ UNCHANGED taken

RegisterNext == Publish \/ Clear \/ \E r \in Readers : Take(r) \/ Return(r)

RegisterSpec == RegisterInit /\ [][RegisterNext]_rvars
=============================================================================
