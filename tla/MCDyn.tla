-------------------------------- MODULE MCDyn --------------------------------
(* Instances of Dyn for TLC. *)
EXTENDS Dyn

BlockSymmetry == Permutations(Blocks)
=============================================================================
