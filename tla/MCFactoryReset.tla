---------------------------- MODULE MCFactoryReset ----------------------------
(* FactoryReset for TLC: its constants are numbers. *)
EXTENDS FactoryReset
=============================================================================
