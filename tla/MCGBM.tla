------------------------------- MODULE MCGBM -------------------------------
(* Instances of GBM for TLC. *)
EXTENDS GBM, TLC

Symmetry == Permutations(Node)
=============================================================================
