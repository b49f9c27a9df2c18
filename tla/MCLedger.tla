------------------------------ MODULE MCLedger ------------------------------
(* Instances of Ledger for TLC. *)
EXTENDS Ledger

(* minConfirmations has its default at every generator. *)
MCMinConfirmations == [n \in Generator |-> 0]
=============================================================================
