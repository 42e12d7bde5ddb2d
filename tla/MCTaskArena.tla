---------------------------- MODULE MCTaskArena ----------------------------
(* A small arena for TLC: three classes, one top block on each side.       *)
EXTENDS TaskArena, TLC
CONSTANTS t1, t2, t3
Symmetry == Permutations(Futures)
=============================================================================
