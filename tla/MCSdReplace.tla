----------------------------- MODULE MCSdReplace -----------------------------
(* SdReplace with two file contents for TLC. *)
EXTENDS SdReplace

CONSTANTS d1, d2

MCData == {d1, d2}

\* Every call to the card may fail, except that a complete ready file is readable
\* when it is the only copy.
FaultsRecoverable == AllFaults \ {"RecoverRead"}
=============================================================================
