--------------------------- MODULE MCClaimRegions ---------------------------
(* Instances of ClaimRegions for TLC. *)
EXTENDS ClaimRegions, TLC

TwoRegions == {[offset |-> 0, size |-> 1], [offset |-> 1, size |-> 2]}

OneRegion == {[offset |-> 0, size |-> 1]}

Symmetry == Permutations(Handles \ ReadOnly)
=============================================================================
