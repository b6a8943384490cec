-------------------------------- MODULE MCWal --------------------------------
(* Instances of Wal for TLC. *)
EXTENDS Wal, TLC

CONSTANTS c1, c2, c3

Symmetry == Permutations(Conns)
=============================================================================
