------------------------ MODULE MCConnectionManager ------------------------
(* Instances of ConnectionManager for TLC. *)
EXTENDS ConnectionManager

(* Two nodes and the two channels between them. *)
MCPair == {<<1, 2>>, <<2, 1>>}
=============================================================================
