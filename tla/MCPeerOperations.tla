-------------------------- MODULE MCPeerOperations --------------------------
(* PeerOperations with model values for TLC. *)
EXTENDS PeerOperations

CONSTANTS c1, c2
=============================================================================
