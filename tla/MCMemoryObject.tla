--------------------------- MODULE MCMemoryObject ---------------------------
(* Instances of MemoryObject for TLC. *)
EXTENDS MemoryObject, TLC

Symmetry == Permutations(Procs)
=============================================================================
