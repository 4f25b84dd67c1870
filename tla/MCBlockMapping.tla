--------------------------- MODULE MCBlockMapping ---------------------------
(* Instances of BlockMapping for TLC. *)
EXTENDS BlockMapping, TLC

Symmetry == Permutations(Handles)
=============================================================================
