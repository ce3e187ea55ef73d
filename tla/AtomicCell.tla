----------------------------- MODULE AtomicCell -----------------------------
(***************************************************************************)
(* What a crash-safe file replacement promises its callers: a cell holding *)
(* one validated value, and at most one staged value that may still be     *)
(* committed.  A power cut or an I/O error may abort the staged value or   *)
(* commit it, but never leaves the cell without the value it had.          *)
(***************************************************************************)
CONSTANTS Data,     \* the validated contents a file may have
          None      \* no value

VARIABLES cell,     \* the value a reader finds
          staged    \* a validated replacement that may still be committed

cellVars == <<cell, staged>>

CellInit == /\ cell \in Data \cup {None}
            /\ staged = None

Stage(d) == /\ staged = None
            /\ staged' = d
            /\ UNCHANGED cell

Commit == /\ staged # None
          /\ cell' = staged
          /\ staged' = None

Abort == /\ staged # None
         /\ staged' = None
         /\ UNCHANGED cell

CellNext == (\E d \in Data : Stage(d)) \/ Commit \/ Abort

CellSpec == CellInit /\ [][CellNext]_cellVars
=============================================================================
