---------------------------- MODULE MCStatusRace ----------------------------
(***************************************************************************)
(* Instances of StatusRace: two threads.                                   *)
(***************************************************************************)
EXTENDS StatusRace, TLC

CONSTANTS t1, t2, u1

ThreadSymmetry == Permutations(Threads)
=============================================================================
