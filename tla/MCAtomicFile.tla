---------------------------- MODULE MCAtomicFile ----------------------------
(* AtomicFile with three values for TLC. *)
EXTENDS AtomicFile

CONSTANTS d1, d2, d3

MCData == {d1, d2, d3}

\* Every call fails now and then, except that a complete temp is readable.
FaultsRecoverable == AllFaults \ {"RecoverRead"}
=============================================================================
