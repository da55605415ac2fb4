----------------------------- MODULE MCGoBinding -----------------------------
(***************************************************************************)
(* One object of each class, two threads, two callbacks at a time.         *)
(***************************************************************************)
EXTENDS GoBinding, TLC

Symmetry == Permutations(Threads) \cup Permutations(Ids)
=============================================================================
