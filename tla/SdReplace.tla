------------------------------ MODULE SdReplace ------------------------------
(***************************************************************************)
(* The SD-card file replacement of hal/sdcard_replace.h, with the two      *)
(* recoveries that run on its files: recoverPending, which every read,     *)
(* append and write of hal/sdcard.cpp performs first, and the validating   *)
(* backendRecover of mesh/sd_message_store.cpp.  A replacement is written  *)
(* to .tmp, synced, size-checked and renamed to .ready; only a .ready file *)
(* is ever promoted.  One call to the card is one step; the shared SPI bus *)
(* guard keeps two operations from interleaving.                           *)
(***************************************************************************)
EXTENDS Naturals

CONSTANTS Data,             \* complete file contents
          None,             \* no such file
          Torn,             \* incomplete file contents
          Faults,           \* the card calls that may fail
          OverwriteRename   \* the file system renames over an existing name

AllFaults == {"Open", "Write", "Sync", "Close", "Rename", "Remove", "SpareRead",
              "RecoverRead"}

ASSUME SdReplaceConstants == /\ None \notin Data
                             /\ Torn \notin Data
                             /\ None # Torn
                             /\ Faults \subseteq AllFaults
                             /\ OverwriteRename \in BOOLEAN

VARIABLES live, temp, ready,  \* <path>, <path>.tmp, <path>.ready
          cache,    \* "dirty" while the newest file holds data the card has not flushed
          pc, op,   \* next card call, running operation
          arg,      \* contents being written, or None for a recovery
          result,   \* what the last operation returned
          saved     \* history: a live file has existed

files == <<live, temp, ready>>

vars == <<live, temp, ready, cache, pc, op, arg, result, saved>>

Fails(f) == f \in Faults

TypeOK == /\ live \in Data \cup {None}
          /\ temp \in Data \cup {None, Torn}
          /\ ready \in Data \cup {None}
          /\ cache \in {"clean", "dirty"}
          /\ pc \in {"idle", "promote", "removeLive", "rename", "dropTemp", "open", "write",
                     "sync", "close", "discard", "publish", "check", "dropReady"}
          /\ op \in {"none", "recover", "storeRecover", "replace", "commit"}
          /\ arg \in Data \cup {None}
          /\ result \in {"none", "ok", "fail"}
          /\ saved \in BOOLEAN

Init == /\ live \in Data \cup {None}
        /\ temp = None
        /\ ready = None
        /\ cache = "clean"
        /\ pc = "idle"
        /\ op = "none"
        /\ arg = None
        /\ result = "none"
        /\ saved = (live # None)

-----------------------------------------------------------------------------
Return(r) == /\ pc' = "idle"
             /\ op' = "none"
             /\ result' = r
             /\ UNCHANGED <<arg, cache, saved>>

ReturnTrue == Return("ok")

ReturnFalse == Return("fail")

Goto(label) == /\ pc' = label
               /\ UNCHANGED <<op, arg, result, cache, saved>>

Begin(o, d, label) == /\ pc = "idle"
                      /\ pc' = label
                      /\ op' = o
                      /\ arg' = d
                      /\ result' = "none"
                      /\ UNCHANGED <<files, cache, saved>>

PendingLabel == IF ready # None THEN "promote" ELSE "dropTemp"

BeginReplace(d) == Begin("replace", d, PendingLabel)

BeginRecover == Begin("recover", None, PendingLabel)

BeginStoreRecover ==
    Begin("storeRecover", None, IF ready # None THEN "check" ELSE "dropTemp")

\* The ready file has become the live file.
Promoted == /\ live' = ready
            /\ ready' = None
            /\ UNCHANGED temp
            /\ saved' = TRUE
            /\ UNCHANGED <<arg, cache>>
            /\ IF op = "commit"
               THEN pc' = "idle" /\ op' = "none" /\ result' = "ok"
               ELSE pc' = "dropTemp" /\ UNCHANGED <<op, result>>

\* promoteValidated: the first rename.  FAT reports a destination conflict.
Promote ==
    /\ pc = "promote"
    /\ \/ (live = None \/ OverwriteRename) /\ Promoted
       \/ live # None /\ ~OverwriteRename /\ UNCHANGED files /\ Goto("removeLive")
       \/ Fails("Rename") /\ UNCHANGED files /\ ReturnFalse

RemoveLive ==
    /\ pc = "removeLive"
    /\ UNCHANGED <<temp, ready>>
    /\ \/ live' = None /\ Goto("rename")
       \/ Fails("Remove") /\ UNCHANGED live /\ ReturnFalse

RenameReady ==
    /\ pc = "rename"
    /\ \/ Promoted
       \/ Fails("Rename") /\ UNCHANGED files /\ ReturnFalse

\* recoverPending and backendRecover end by removing a raw temp; replaceFile goes on.
DropTemp ==
    /\ pc = "dropTemp"
    /\ UNCHANGED <<live, ready>>
    /\ \/ temp' = None /\ IF op = "replace" THEN Goto("open") ELSE ReturnTrue
       \/ Fails("Remove") /\ temp # None /\ UNCHANGED temp /\ ReturnFalse

\* Mutant: the replacement is opened on the live path.
OpenTempOnLive ==
    /\ pc = "open"
    /\ temp' = Torn /\ live' = None /\ UNCHANGED ready /\ Goto("write")

OpenTemp ==
    /\ pc = "open"
    /\ UNCHANGED <<live, ready>>
    /\ \/ temp' = Torn /\ Goto("write")
       \/ Fails("Open") /\ UNCHANGED temp /\ ReturnFalse

WriteTemp ==
    /\ pc = "write"
    /\ UNCHANGED <<live, ready>>
    /\ \/ /\ temp' = arg
          /\ cache' = "dirty"
          /\ pc' = "sync"
          /\ UNCHANGED <<op, arg, result, saved>>
       \/ Fails("Write") /\ UNCHANGED temp /\ Goto("discard")

\* Mutant: the temp is renamed to .ready without having been synced.
SyncTempSkipped ==
    /\ pc = "sync"
    /\ UNCHANGED files
    /\ Goto("publish")

\* fsync and the size check.
SyncTemp ==
    /\ pc = "sync"
    /\ UNCHANGED files
    /\ \/ /\ cache' = "clean"
          /\ pc' = "close"
          /\ UNCHANGED <<op, arg, result, saved>>
       \/ Fails("Sync") /\ Goto("discard")

CloseTemp ==
    /\ pc = "close"
    /\ UNCHANGED files
    /\ \/ Goto("publish")
       \/ Fails("Close") /\ Goto("discard")

\* The result of this remove is ignored.
Discard ==
    /\ pc = "discard"
    /\ UNCHANGED <<live, ready>>
    /\ \/ temp' = None
       \/ Fails("Remove") /\ UNCHANGED temp
    /\ pc' = "idle"
    /\ op' = "none"
    /\ result' = "fail"
    /\ cache' = "clean"
    /\ UNCHANGED <<arg, saved>>

\* The temp passed its checks and becomes .ready.
Publish ==
    /\ pc = "publish"
    /\ UNCHANGED live
    /\ \/ /\ ready' = temp
          /\ temp' = None
          /\ pc' = "promote"
          /\ op' = "commit"
          /\ UNCHANGED <<arg, result, cache, saved>>
       \/ Fails("Rename") /\ UNCHANGED <<temp, ready>> /\ ReturnFalse

\* Mutant: a ready file without a live file is left alone.
CheckReadyNeedsLive ==
    /\ pc = "check"
    /\ UNCHANGED files
    /\ IF live = None THEN ReturnFalse ELSE Goto("removeLive")

\* backendRecover reads the ready file into memory and validates it.  SpareRead is
\* the failure to do so while the live file is still in place.
CheckReady ==
    /\ pc = "check"
    /\ UNCHANGED files
    /\ \/ ready \in Data /\ Goto("removeLive")
       \/ (Fails("RecoverRead") \/ (Fails("SpareRead") /\ live # None)) /\ Goto("dropReady")

\* ... and removes one it takes for invalid before it looks for the live file.
DropReady ==
    /\ pc = "dropReady"
    /\ UNCHANGED <<live, temp>>
    /\ \/ ready' = None /\ IF live = None THEN ReturnFalse ELSE Goto("dropTemp")
       \/ Fails("Remove") /\ UNCHANGED ready /\ ReturnFalse

\* The newest file loses data that was not flushed.
Tear(f) == IF cache = "dirty" /\ f \in Data THEN Torn ELSE f

\* Power cut, or the card is pulled.
Crash == /\ temp' = Tear(temp)
         /\ ready' = IF temp = None THEN Tear(ready) ELSE ready
         /\ live' = IF temp = None /\ ready = None THEN Tear(live) ELSE live
         /\ cache' = "clean"
         /\ pc' = "idle"
         /\ op' = "none"
         /\ arg' = None
         /\ result' = "none"
         /\ UNCHANGED saved

Step == \/ Promote \/ RemoveLive \/ RenameReady \/ DropTemp
        \/ OpenTemp \/ WriteTemp \/ SyncTemp \/ CloseTemp \/ Discard \/ Publish
        \/ CheckReady \/ DropReady

Next == \/ \E d \in Data : BeginReplace(d)
        \/ BeginRecover \/ BeginStoreRecover
        \/ Step
        \/ Crash

Spec == Init /\ [][Next]_vars

\* A started operation runs on.
FairSpec == Spec /\ WF_vars(Step)

-----------------------------------------------------------------------------
\* Once a file has been saved it is on the card complete, as the live file or
\* as a ready file that recovery promotes, at every step of a replacement and
\* of either recovery.
CopySurvives == saved => live # None \/ ready \in Data

\* An operation that returned true left the file in place, with nothing pending
\* that a later recovery would promote over it; a write left what it wrote.
SuccessMeansSettled == result = "ok" => /\ saved => live # None
                                        /\ ready = None
                                        /\ arg # None => live = arg

\* The card refuses a remove or a rename.
CallFails == pc \in {"promote", "removeLive", "rename"} /\ pc' = "idle" /\ UNCHANGED ready

\* When the card stays in and its removes and renames work, an operation started on
\* a pending replacement returns, and the pending file is promoted.
PendingIsPromoted == <>[][~Crash /\ ~CallFails]_vars =>
                        <>[](op # "none" => <>(pc = "idle" /\ (saved => live # None)))

Current == IF live # None THEN live ELSE IF saved THEN ready ELSE None

Pending == IF live # None \/ ~saved THEN ready ELSE None

Cell == INSTANCE AtomicCell WITH cell <- Current, staged <- Pending

\* The three files with their crashes and faults behave as one atomic cell.
ImplementsCell == Cell!CellSpec

\* The one fault that breaks the promise: a validating recovery that cannot
\* read a complete ready file.
ToleratedFaults == "RecoverRead" \notin Faults
=============================================================================
