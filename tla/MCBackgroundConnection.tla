----------------------- MODULE MCBackgroundConnection -----------------------
(***************************************************************************)
(* BackgroundConnection for TLC: two threads that call, say the session's  *)
(* and the screen's.                                                       *)
(***************************************************************************)
EXTENDS BackgroundConnection

MCCallers == {"session", "screen"}
=============================================================================
