---------------------------- MODULE MCUpdateStore ----------------------------
(***************************************************************************)
(* Two APKs, a release of the network that is newer than both, two updates *)
(* of the core at once, and a core the device cannot load beside one it    *)
(* can.                                                                    *)
(***************************************************************************)
EXTENDS UpdateStore, TLC

\* The updates of the core differ in nothing but their names.
Symmetry == Permutations(Stagers)
=============================================================================
