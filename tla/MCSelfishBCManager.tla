------------------------- MODULE MCSelfishBCManager -------------------------
(* Instances of SelfishBCManager for TLC. *)
EXTENDS SelfishBCManager, TLC

Symmetry == Permutations(Node \ Selfish)
=============================================================================
