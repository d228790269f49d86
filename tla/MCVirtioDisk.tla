---------------------------- MODULE MCVirtioDisk ----------------------------
(* Instances of VirtioDisk for TLC. *)
EXTENDS VirtioDisk, TLC
CONSTANTS P1, P2, P3
Procs2 == {P1, P2}
Procs3 == {P1, P2, P3}
Perms == Permutations(Procs3)
=============================================================================
