------------------------- MODULE AtomicFile_proofs -------------------------
(***************************************************************************)
(* Proofs about AtomicFile for every set of values and every set of        *)
(* tolerated faults: type correctness, the survival of a validated copy,   *)
(* and the refinement of AtomicCell.                                       *)
(***************************************************************************)
EXTENDS AtomicFile, TLAPS

\* While a replacement is written to the temp, the live file is untouched.
Writing == pc \in {"open", "write", "validate"} \/ (pc = "discard" /\ op = "replace")

LiveWhileWriting == Writing => (saved => live # None)

\* What the running operation knows of the temp it is about to use.
TempWhileRunning == /\ pc = "write" => temp = Torn
                    /\ pc = "validate" => temp = arg
                    /\ pc \in {"removeLive", "rename"} => temp \in Data
                    /\ pc = "discard" /\ op = "recover" => temp = Torn

OperationRuns == /\ pc = "idle" <=> op = "none"
                 /\ pc \in {"open", "write", "validate"} => op = "replace"
                 /\ op = "replace" => arg \in Data

\* A caller that replaces without recovering finds the live file in place.
LiveBetweenReplaces == ~CallerRecovers /\ pc = "idle" /\ status # "boot"
                          => (saved => live # None)

LiveWasSaved == live # None => saved

\* The inductive invariant.
IInv == /\ TypeOK
        /\ CopySurvives
        /\ RecoveredMeansSettled
        /\ LiveWhileWriting
        /\ TempWhileRunning
        /\ OperationRuns
        /\ LiveBetweenReplaces
        /\ LiveWasSaved

USE DEF Fails, Return, ReturnTrue, ReturnFalse, Goto

-----------------------------------------------------------------------------
\* A power-on state has no temp and no running operation.
LEMMA InitIInv == Init => IInv
  BY AtomicFileConstants
  DEF Init, IInv, TypeOK, CopySurvives, RecoveredMeansSettled, LiveWhileWriting,
      Writing, TempWhileRunning, OperationRuns, LiveBetweenReplaces, LiveWasSaved

\* Every file-system call of replace and recover, failing or not, and every
\* crash keeps the invariant.
LEMMA NextIInv == ASSUME ToleratedFaults, IInv, [Next]_vars
                  PROVE  IInv'
<1> USE AtomicFileConstants
    DEF ToleratedFaults, IInv, TypeOK, CopySurvives, RecoveredMeansSettled,
        LiveWhileWriting, Writing, TempWhileRunning, OperationRuns,
        LiveBetweenReplaces, LiveWasSaved
<1>1. ASSUME NEW d \in Data, BeginReplace(d) PROVE IInv'
  BY <1>1 DEF BeginReplace, MayReplace
<1>2. CASE BeginRecover
  BY <1>2 DEF BeginRecover
<1>3. CASE OpenTemp
  BY <1>3 DEF OpenTemp
<1>4. CASE WriteTemp
  BY <1>4 DEF WriteTemp
<1>5. CASE ValidateTemp
  BY <1>5 DEF ValidateTemp
<1>6. CASE Discard
  BY <1>6 DEF Discard
<1>7. CASE RemoveLive
  BY <1>7 DEF RemoveLive
<1>8. CASE RenameTemp
  BY <1>8 DEF RenameTemp
<1>9. CASE Crash
  BY <1>9 DEF Crash
<1>10. CASE UNCHANGED vars
  BY <1>10 DEF vars
<1> QED
  BY <1>1, <1>2, <1>3, <1>4, <1>5, <1>6, <1>7, <1>8, <1>9, <1>10 DEF Next, Step

\* The invariant holds in every reachable state.
THEOREM Invariance == ToleratedFaults /\ Spec => []IInv
<1> SUFFICES ASSUME ToleratedFaults PROVE Spec => []IInv
  OBVIOUS
<1>1. Init => IInv
  BY InitIInv
<1>2. IInv /\ [Next]_vars => IInv'
  BY NextIInv
<1> QED
  BY <1>1, <1>2, PTL DEF Spec

\* Type correctness of the files and of the running operation.
THEOREM TypeCorrect == ToleratedFaults /\ Spec => []TypeOK
<1>1. IInv => TypeOK
  BY DEF IInv
<1> QED
  BY <1>1, Invariance, PTL

\* atomicFileReplace and atomicFileRecover never take the last validated copy
\* of a saved file.
THEOREM CopySurvivesAlways == ToleratedFaults /\ Spec => []CopySurvives
<1>1. IInv => CopySurvives
  BY DEF IInv
<1> QED
  BY <1>1, Invariance, PTL

\* atomicFileRecover returns true only with the file in place and nothing left
\* to promote.
THEOREM RecoveredMeansSettledAlways == ToleratedFaults /\ Spec => []RecoveredMeansSettled
<1>1. IInv => RecoveredMeansSettled
  BY DEF IInv
<1> QED
  BY <1>1, Invariance, PTL

-----------------------------------------------------------------------------
\* A power-on state is an initial state of the cell.
LEMMA InitCell == Init => Cell!CellInit
  BY AtomicFileConstants DEF Init, Cell!CellInit, Current, Pending

\* Each step stages, commits or aborts one whole value, or is invisible.
LEMMA NextCell == ASSUME ToleratedFaults, IInv, [Next]_vars
                  PROVE  [Cell!CellNext]_(Cell!cellVars)
<1> USE AtomicFileConstants
    DEF ToleratedFaults, IInv, TypeOK, CopySurvives, RecoveredMeansSettled,
        LiveWhileWriting, Writing, TempWhileRunning, OperationRuns,
        LiveBetweenReplaces, LiveWasSaved, Current, Pending,
        Cell!CellNext, Cell!cellVars, Cell!Stage, Cell!Commit, Cell!Abort
<1>1. ASSUME NEW d \in Data, BeginReplace(d) PROVE [Cell!CellNext]_(Cell!cellVars)
  BY <1>1 DEF BeginReplace, MayReplace
<1>2. CASE BeginRecover
  BY <1>2 DEF BeginRecover
<1>3. CASE OpenTemp
  BY <1>3 DEF OpenTemp
<1>4. CASE WriteTemp
  BY <1>4 DEF WriteTemp
<1>5. CASE ValidateTemp
  BY <1>5 DEF ValidateTemp
<1>6. CASE Discard
  BY <1>6 DEF Discard
<1>7. CASE RemoveLive
  BY <1>7 DEF RemoveLive
<1>8. CASE RenameTemp
  BY <1>8 DEF RenameTemp
<1>9. CASE Crash
  BY <1>9 DEF Crash
<1>10. CASE UNCHANGED vars
  BY <1>10 DEF vars
<1> QED
  BY <1>1, <1>2, <1>3, <1>4, <1>5, <1>6, <1>7, <1>8, <1>9, <1>10 DEF Next, Step

\* The two files with their steps, crashes and faults implement one atomic cell.
THEOREM Refinement == ToleratedFaults /\ Spec => ImplementsCell
<1> SUFFICES ASSUME ToleratedFaults PROVE Spec => ImplementsCell
  OBVIOUS
<1>1. Init => Cell!CellInit
  BY InitCell
<1>2. IInv /\ [Next]_vars => [Cell!CellNext]_(Cell!cellVars)
  BY NextCell
<1>3. Spec => []IInv
  BY Invariance
<1> QED
  BY <1>1, <1>2, <1>3, PTL DEF Spec, ImplementsCell, Cell!CellSpec
=============================================================================
