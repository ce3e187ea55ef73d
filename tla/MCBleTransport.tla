---------------------------- MODULE MCBleTransport ----------------------------
(* BleTransport for TLC: its constants are numbers. *)
EXTENDS BleTransport
=============================================================================
