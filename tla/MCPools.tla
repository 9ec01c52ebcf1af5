------------------------------ MODULE MCPools ------------------------------
(* Instances of Pools for TLC. *)
EXTENDS Pools

BlockSymmetry == Permutations(Blocks)
=============================================================================
