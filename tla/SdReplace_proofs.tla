-------------------------- MODULE SdReplace_proofs --------------------------
(***************************************************************************)
(* Proofs about SdReplace for every set of file contents, both kinds of    *)
(* rename and every set of tolerated faults.                               *)
(***************************************************************************)
EXTENDS SdReplace, TLAPS

\* Without a ready file, the live file is in place.
LiveOrReady == ready = None => (saved => live # None)

\* Steps that remove or rename over the live file hold a ready file; steps that
\* write the temp have none.
ReadyWhilePromoting == pc \in {"promote", "removeLive", "rename", "check"} => ready \in Data

NoReadyWhileWriting ==
    pc \in {"dropTemp", "open", "write", "sync", "close", "discard", "publish"} => ready = None

TempWhileWriting == pc \in {"sync", "close", "publish"} => temp = arg

\* What was not flushed is the temp.
OnlyTempIsDirty == cache = "dirty" => pc \in {"sync", "discard"} /\ temp = arg

OperationRuns == /\ pc = "idle" <=> op = "none"
                 /\ op \in {"replace", "commit"} => arg \in Data
                 /\ pc \in {"open", "write", "sync", "close", "discard", "publish"} => op = "replace"
                 /\ op = "commit" => ready = arg /\ pc \in {"promote", "removeLive", "rename"}
                 /\ op \in {"recover", "storeRecover"} => arg = None
                 /\ pc = "dropReady" => live # None
                 /\ pc \in {"check", "dropReady"} => op = "storeRecover"
                 /\ pc # "idle" => result = "none"

LiveWasSaved == live # None => saved

\* The inductive invariant.
IInv == /\ TypeOK
        /\ LiveOrReady
        /\ ReadyWhilePromoting
        /\ NoReadyWhileWriting
        /\ TempWhileWriting
        /\ OnlyTempIsDirty
        /\ OperationRuns
        /\ LiveWasSaved
        /\ SuccessMeansSettled

USE DEF Fails, Return, ReturnTrue, ReturnFalse, Goto, files

-----------------------------------------------------------------------------
\* A mounted card with no replacement pending.
LEMMA InitIInv == Init => IInv
  BY SdReplaceConstants
  DEF Init, IInv, TypeOK, LiveOrReady, ReadyWhilePromoting, NoReadyWhileWriting,
      TempWhileWriting, OnlyTempIsDirty, OperationRuns, LiveWasSaved, SuccessMeansSettled

\* Every call to the card, failing or not, and every crash keeps the invariant.
LEMMA NextIInv == ASSUME ToleratedFaults, IInv, [Next]_vars
                  PROVE  IInv'
<1> USE SdReplaceConstants
    DEF ToleratedFaults, IInv, TypeOK, LiveOrReady, ReadyWhilePromoting,
        NoReadyWhileWriting, TempWhileWriting, OnlyTempIsDirty, OperationRuns,
        LiveWasSaved, SuccessMeansSettled
<1>1. ASSUME NEW d \in Data, BeginReplace(d) PROVE IInv'
  BY <1>1 DEF BeginReplace, Begin, PendingLabel
<1>2. CASE BeginRecover
  BY <1>2 DEF BeginRecover, Begin, PendingLabel
<1>3. CASE BeginStoreRecover
  BY <1>3 DEF BeginStoreRecover, Begin
<1>4. CASE RemoveLive
  BY <1>4 DEF RemoveLive
<1>. HIDE DEF IInv
<1>5. ASSUME pc \in {"promote", "rename"}, Promoted PROVE IInv'
  <2>1. CASE op = "commit"
    BY <1>5, <2>1 DEF Promoted, IInv
  <2>2. CASE op # "commit"
    BY <1>5, <2>2 DEF Promoted, IInv
  <2> QED
    BY <2>1, <2>2
<1>6. CASE Promote
  <2>1. ASSUME UNCHANGED files, Goto("removeLive") PROVE IInv'
    BY <1>6, <2>1 DEF Promote, IInv
  <2>2. ASSUME UNCHANGED files, ReturnFalse PROVE IInv'
    BY <1>6, <2>2 DEF Promote, IInv
  <2> QED
    BY <1>5, <1>6, <2>1, <2>2 DEF Promote
<1>18. CASE RenameReady
  <2>1. ASSUME UNCHANGED files, ReturnFalse PROVE IInv'
    BY <1>18, <2>1 DEF RenameReady, IInv
  <2> QED
    BY <1>5, <1>18, <2>1 DEF RenameReady
<1>. USE DEF IInv
<1>7. CASE DropTemp
  BY <1>7 DEF DropTemp
<1>8. CASE OpenTemp
  BY <1>8 DEF OpenTemp
<1>9. CASE WriteTemp
  BY <1>9 DEF WriteTemp
<1>10. CASE SyncTemp
  BY <1>10 DEF SyncTemp
<1>11. CASE CloseTemp
  BY <1>11 DEF CloseTemp
<1>12. CASE Discard
  BY <1>12 DEF Discard
<1>13. CASE Publish
  BY <1>13 DEF Publish
<1>14. CASE CheckReady
  BY <1>14 DEF CheckReady
<1>15. CASE DropReady
  BY <1>15 DEF DropReady
<1>16. CASE Crash
  BY <1>16 DEF Crash, Tear
<1>17. CASE UNCHANGED vars
  BY <1>17 DEF vars
<1> QED
  BY <1>1, <1>2, <1>3, <1>4, <1>6, <1>7, <1>8, <1>9, <1>10, <1>11, <1>12,
     <1>13, <1>14, <1>15, <1>16, <1>17, <1>18 DEF Next, Step

\* The invariant holds in every reachable state.
THEOREM Invariance == ToleratedFaults /\ Spec => []IInv
<1> SUFFICES ASSUME ToleratedFaults PROVE Spec => []IInv
  OBVIOUS
<1>1. Init => IInv
  BY InitIInv
<1>2. IInv /\ [Next]_vars => IInv'
  BY NextIInv
<1> QED
  BY <1>1, <1>2, PTL DEF Spec

\* Type correctness: in particular neither the live file nor a ready file is
\* ever incomplete.
THEOREM TypeCorrect == ToleratedFaults /\ Spec => []TypeOK
<1>1. IInv => TypeOK
  BY DEF IInv
<1> QED
  BY <1>1, Invariance, PTL

\* replaceFile, recoverPending and backendRecover never take the last complete
\* copy of a saved file.
THEOREM CopySurvivesAlways == ToleratedFaults /\ Spec => []CopySurvives
<1>1. IInv => CopySurvives
  BY DEF IInv, TypeOK, LiveOrReady, CopySurvives
<1> QED
  BY <1>1, Invariance, PTL

\* An operation returns true only with its file in place and nothing pending.
THEOREM SuccessMeansSettledAlways == ToleratedFaults /\ Spec => []SuccessMeansSettled
<1>1. IInv => SuccessMeansSettled
  BY DEF IInv
<1> QED
  BY <1>1, Invariance, PTL

-----------------------------------------------------------------------------
\* A mounted card with no replacement pending is an initial state of the cell.
LEMMA InitCell == Init => Cell!CellInit
  BY SdReplaceConstants DEF Init, Cell!CellInit, Current, Pending

\* Each step stages or commits one whole value, or is invisible.
LEMMA NextCell == ASSUME ToleratedFaults, IInv, [Next]_vars
                  PROVE  [Cell!CellNext]_(Cell!cellVars)
<1> USE SdReplaceConstants
    DEF ToleratedFaults, IInv, TypeOK, LiveOrReady, ReadyWhilePromoting,
        NoReadyWhileWriting, OnlyTempIsDirty, TempWhileWriting, OperationRuns, LiveWasSaved,
        Current, Pending, Cell!CellNext, Cell!cellVars, Cell!Stage, Cell!Commit, Cell!Abort
<1>1. ASSUME NEW d \in Data, BeginReplace(d) PROVE [Cell!CellNext]_(Cell!cellVars)
  BY <1>1 DEF BeginReplace, Begin, PendingLabel
<1>2. CASE BeginRecover
  BY <1>2 DEF BeginRecover, Begin, PendingLabel
<1>3. CASE BeginStoreRecover
  BY <1>3 DEF BeginStoreRecover, Begin
<1>4. CASE Promote
  BY <1>4 DEF Promote, Promoted
<1>5. CASE RemoveLive
  BY <1>5 DEF RemoveLive
<1>6. CASE RenameReady
  BY <1>6 DEF RenameReady, Promoted
<1>7. CASE DropTemp
  BY <1>7 DEF DropTemp
<1>8. CASE OpenTemp
  BY <1>8 DEF OpenTemp
<1>9. CASE WriteTemp
  BY <1>9 DEF WriteTemp
<1>10. CASE SyncTemp
  BY <1>10 DEF SyncTemp
<1>11. CASE CloseTemp
  BY <1>11 DEF CloseTemp
<1>12. CASE Discard
  BY <1>12 DEF Discard
<1>13. CASE Publish
  BY <1>13 DEF Publish
<1>14. CASE CheckReady
  BY <1>14 DEF CheckReady
<1>15. CASE DropReady
  BY <1>15 DEF DropReady
<1>16. CASE Crash
  BY <1>16 DEF Crash, Tear
<1>17. CASE UNCHANGED vars
  BY <1>17 DEF vars
<1> QED
  BY <1>1, <1>2, <1>3, <1>4, <1>5, <1>6, <1>7, <1>8, <1>9, <1>10, <1>11, <1>12,
     <1>13, <1>14, <1>15, <1>16, <1>17 DEF Next, Step

\* The live, temp and ready files implement one atomic cell.
THEOREM Refinement == ToleratedFaults /\ Spec => ImplementsCell
<1> SUFFICES ASSUME ToleratedFaults PROVE Spec => ImplementsCell
  OBVIOUS
<1>1. Init => Cell!CellInit
  BY InitCell
<1>2. IInv /\ [Next]_vars => [Cell!CellNext]_(Cell!cellVars)
  BY NextCell
<1>3. Spec => []IInv
  BY Invariance
<1> QED
  BY <1>1, <1>2, <1>3, PTL DEF Spec, ImplementsCell, Cell!CellSpec
=============================================================================
