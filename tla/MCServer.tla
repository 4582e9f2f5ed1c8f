------------------------------ MODULE MCServer ------------------------------
(***************************************************************************)
(* Instances of Server: two threads, one of which a stuck client may hold. *)
(***************************************************************************)
EXTENDS Server

CONSTANTS t1, t2, c1, c2, c3
=============================================================================
