----------------------------- MODULE MCOtaUpdate -----------------------------
(* OtaUpdate for TLC: its constants are numbers. *)
EXTENDS OtaUpdate
=============================================================================
