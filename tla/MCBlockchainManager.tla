------------------------ MODULE MCBlockchainManager ------------------------
(* Instances of BlockchainManager for TLC. *)
EXTENDS BlockchainManager, TLC

Symmetry == Permutations(Node)
=============================================================================
