----------------------------- MODULE AtomicFile -----------------------------
(***************************************************************************)
(* The SPIFFS file replacement of hal/atomic_file.cpp: atomicFileReplace   *)
(* streams a new file to <path>.tmp, validates it, removes the live file   *)
(* and renames the temp into place; atomicFileRecover finishes or discards *)
(* what a power cut left behind.  Every file-system call is one step, so a *)
(* crash falls between any two of them, and any call may fail.             *)
(***************************************************************************)
EXTENDS Naturals

CONSTANTS Data,            \* the complete contents a validator accepts
          None,            \* no such file
          Torn,            \* a file whose contents do not validate
          Faults,          \* the I/O calls that may fail
          CallerRecovers   \* the caller runs atomicFileRecover before each replace

\* The faults of AtomicFileNativeFault, a failing remove, and a recovery that
\* cannot read a complete temp.
AllFaults == {"TempOpen", "Write", "Close", "Validate", "Rename", "Remove", "RecoverRead"}

ASSUME AtomicFileConstants == /\ None \notin Data
                              /\ Torn \notin Data
                              /\ None # Torn
                              /\ Faults \subseteq AllFaults
                              /\ CallerRecovers \in BOOLEAN

VARIABLES live,     \* contents of <path>
          temp,     \* contents of <path>.tmp
          pc,       \* the next file-system call of the running operation
          op,       \* the running operation
          arg,      \* the contents being written
          status,   \* what the caller knows: not recovered since boot, recovered, ...
          saved     \* history: a live file has existed

vars == <<live, temp, pc, op, arg, status, saved>>

Fails(f) == f \in Faults

TypeOK == /\ live \in Data \cup {None}
          /\ temp \in Data \cup {None, Torn}
          /\ pc \in {"idle", "open", "write", "validate", "discard", "removeLive", "rename"}
          /\ op \in {"none", "replace", "recover"}
          /\ arg \in Data \cup {None}
          /\ status \in {"boot", "recovered", "unrecovered"}
          /\ saved \in BOOLEAN

Init == /\ live \in Data \cup {None}
        /\ temp = None
        /\ pc = "idle"
        /\ op = "none"
        /\ arg = None
        /\ status = "boot"
        /\ saved = (live # None)

-----------------------------------------------------------------------------
\* The running operation returns to its caller.
Return(s) == /\ pc' = "idle"
             /\ op' = "none"
             /\ arg' = None
             /\ status' = s

\* The caller of a failed replace still owes a recovery; so does the caller of
\* a failed recovery.
ReturnFalse == Return("unrecovered")

ReturnTrue == Return(IF op = "recover" THEN "recovered" ELSE "unrecovered")

Goto(label) == /\ pc' = label
               /\ UNCHANGED <<op, arg, status>>

\* All callers recover once when they load the file; some recover again before
\* every replace and give up when that fails.
MayReplace == /\ pc = "idle"
              /\ IF CallerRecovers THEN status = "recovered" ELSE status # "boot"

\* atomicFileReplace enters and removes a leftover temp.
BeginReplace(d) ==
    /\ MayReplace
    /\ UNCHANGED <<live, saved>>
    /\ \/ /\ temp' = None
          /\ pc' = "open"
          /\ op' = "replace"
          /\ arg' = d
          /\ status' = "unrecovered"
       \/ /\ Fails("Remove") /\ temp # None
          /\ UNCHANGED temp
          /\ ReturnFalse

\* Mutant: the live file is removed before the replacement has been written.
OpenTempLiveFirst ==
    /\ pc = "open"
    /\ temp' = Torn /\ live' = None /\ Goto("write")
    /\ UNCHANGED saved

OpenTemp ==
    /\ pc = "open"
    /\ UNCHANGED <<live, saved>>
    /\ \/ temp' = Torn /\ Goto("write")
       \/ Fails("TempOpen") /\ UNCHANGED temp /\ ReturnFalse

\* write_fn and close: a failed write leaves a torn temp, a failed close may
\* leave a complete one.
WriteTemp ==
    /\ pc = "write"
    /\ UNCHANGED <<live, saved>>
    /\ \/ temp' = arg /\ Goto("validate")
       \/ Fails("Write") /\ UNCHANGED temp /\ Goto("discard")
       \/ Fails("Close") /\ temp' \in {Torn, arg} /\ Goto("discard")

ValidateTemp ==
    /\ pc = "validate"
    /\ UNCHANGED <<live, temp, saved>>
    /\ \/ Goto("removeLive")
       \/ Fails("Validate") /\ Goto("discard")

\* The result of this remove is ignored; recovery succeeds if the live file is
\* there and validates.
Discard ==
    /\ pc = "discard"
    /\ UNCHANGED <<live, saved>>
    /\ \/ temp' = None
       \/ Fails("Remove") /\ UNCHANGED temp
    /\ \/ op = "recover" /\ live # None /\ ReturnTrue
       \/ (op = "replace" \/ live = None \/ Fails("RecoverRead")) /\ ReturnFalse

\* Mutant: removing a file that is not there is an error.
RemoveLiveStrict ==
    /\ pc = "removeLive"
    /\ UNCHANGED <<temp, saved>>
    /\ \/ live # None /\ live' = None /\ Goto("rename")
       \/ live = None /\ UNCHANGED live /\ ReturnFalse

RemoveLive ==
    /\ pc = "removeLive"
    /\ UNCHANGED <<temp, saved>>
    /\ \/ live' = None /\ Goto("rename")
       \/ Fails("Remove") /\ live # None /\ UNCHANGED live /\ ReturnFalse

\* SPIFFS renames only onto a name that is free.
RenameTemp ==
    /\ pc = "rename"
    /\ \/ /\ live = None
          /\ live' = temp
          /\ temp' = None
          /\ saved' = TRUE
          /\ ReturnTrue
       \/ /\ Fails("Rename")
          /\ UNCHANGED <<live, temp, saved>>
          /\ ReturnFalse

\* Mutant: recovery promotes whatever temp it finds.
BeginRecoverUnvalidated ==
    /\ pc = "idle"
    /\ UNCHANGED <<live, temp, saved>>
    /\ \/ temp = None /\ Return("recovered")
       \/ temp # None /\ op' = "recover" /\ pc' = "removeLive" /\ UNCHANGED <<arg, status>>

\* atomicFileRecover up to its first change of the file system.
BeginRecover ==
    /\ pc = "idle"
    /\ UNCHANGED <<live, temp, saved>>
    /\ \/ temp = None /\ Return("recovered")
       \/ /\ temp # None
          /\ op' = "recover"
          /\ UNCHANGED <<arg, status>>
          /\ \/ temp \in Data /\ pc' = "removeLive"
             \/ (temp = Torn \/ Fails("RecoverRead")) /\ pc' = "discard"

\* Power cut or reset: the files stay as the last completed call left them.
Crash ==
    /\ pc' = "idle"
    /\ op' = "none"
    /\ arg' = None
    /\ status' = "boot"
    /\ UNCHANGED <<live, temp, saved>>

\* The running operation takes its next step.
Step == OpenTemp \/ WriteTemp \/ ValidateTemp \/ Discard \/ RemoveLive \/ RenameTemp

Next == (\E d \in Data : BeginReplace(d)) \/ BeginRecover \/ Step \/ Crash

Spec == Init /\ [][Next]_vars

\* A started operation runs on, and the owner comes back to a file that is not known
\* to be settled: every load, and every replace of a caller that recovers, calls
\* atomicFileRecover first (getBlobByKey, putBlobByKey).
Fairness == WF_vars(Step) /\ WF_vars(status # "recovered" /\ BeginRecover)

FairSpec == Spec /\ Fairness

-----------------------------------------------------------------------------
(***************************************************************************)
(* The promise.                                                            *)
(***************************************************************************)

\* Once a file has been saved, at every step a validated copy of it is in the
\* live file or in the temp: the removes of atomicFileReplace and
\* atomicFileRecover never take the last one.
CopySurvives == saved => live # None \/ temp \in Data

\* A caller told that recovery succeeded finds the live file in place and no
\* complete temp left that a later recovery would promote over newer contents.
RecoveredMeansSettled == status = "recovered" /\ pc = "idle" =>
                            /\ saved => live # None
                            /\ temp \notin Data

\* The file system refuses to remove or rename a file that is there.
CallFails == \/ pc = "removeLive" /\ live # None /\ UNCHANGED live
             \/ pc = "rename" /\ UNCHANGED live

\* When the device stops crashing and its removes and renames work, the saved file
\* becomes readable for good: every later call of atomicFileRecover or
\* atomicFileReplace returns with the live file in place.
RecoveryFinishes == <>[][~Crash /\ ~CallFails]_vars =>
                       <>[](pc = "idle" => (saved => live # None))

\* The value the pair of files stands for, and a validated value waiting behind it.
Current == IF live # None THEN live ELSE IF saved THEN temp ELSE None

Pending == IF temp \in Data /\ (live # None \/ ~saved) THEN temp ELSE None

Cell == INSTANCE AtomicCell WITH cell <- Current, staged <- Pending

\* Seen from outside, replace and recover only stage, commit or abort whole
\* values of one cell, whatever crashes and faults happen.
ImplementsCell == Cell!CellSpec

\* The faults under which the promise is kept: a failed rename must be recovered
\* before the next replace, and recovery must be able to read a complete temp.
ToleratedFaults == /\ "RecoverRead" \notin Faults
                   /\ CallerRecovers \/ "Rename" \notin Faults
=============================================================================
