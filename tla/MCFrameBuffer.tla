--------------------------- MODULE MCFrameBuffer ---------------------------
(***************************************************************************)
(* FrameBuffer for TLC: the three buffers of the code, two binder threads, *)
(* and frames enough for the writer to come back to a buffer it filled.    *)
(***************************************************************************)
EXTENDS FrameBuffer

CONSTANTS r1, r2

MCReaders == {r1, r2}
=============================================================================
