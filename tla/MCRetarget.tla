----------------------------- MODULE MCRetarget -----------------------------
(***************************************************************************)
(* Instances of Retarget for TLC.                                          *)
(***************************************************************************)
EXTENDS Retarget
=============================================================================
