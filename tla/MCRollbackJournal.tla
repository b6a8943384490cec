-------------------------- MODULE MCRollbackJournal --------------------------
(* Instances of RollbackJournal for TLC. *)
EXTENDS RollbackJournal, TLC

Symmetry == Permutations(Pagers)
=============================================================================
