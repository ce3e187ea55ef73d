--------------------------- MODULE OtaUpdate_proofs ---------------------------
(***************************************************************************)
(* Proofs about OtaUpdate for every number of sessions, of refused mode    *)
(* changes and of attempts to save: when the worker of a local update is   *)
(* gone.                                                                   *)
(***************************************************************************)
EXTENDS OtaUpdate, TLAPS

\* The record of the flags has its fields, and every worker is at one of its steps.
Shapes ==
    /\ {"active", "stop", "exited", "parked", "releasing", "reboot", "retries"} \subseteq DOMAIN ap
    /\ apw \in [Workers -> ApSteps]

\* Unless a session began too early there is one worker, which has nothing left to do
\* but to acknowledge its exit once it has cleared active, and nothing at all after.
OneWorker ==
    "exit" \notin races =>
        /\ \A i, j \in Workers : apw[i] # "none" /\ apw[j] # "none" => i = j
        /\ ap.exited \/ ~ap.active => \A i \in Workers : apw[i] \in {"none", "ack"}

\* The inductive invariant.
IInv == Shapes /\ OneWorker

USE DEF Workers, ApSteps

-----------------------------------------------------------------------------
LEMMA InitIInv == Init => IInv
  BY DEF Init, IInv, Shapes, OneWorker, ApIdle, NoWorkers

\* What most steps leave alone.
Apart ==
    /\ apw' = apw
    /\ \/ DOMAIN ap' = DOMAIN ap /\ ap'.active = ap.active /\ ap'.exited = ap.exited
       \/ ap' = ap
    /\ "exit" \in races => "exit" \in races'

LEMMA ApartIInv == ASSUME IInv, Apart PROVE IInv'
  BY DEF IInv, Shapes, OneWorker, Apart

LEMMA PowerDownIInv == ASSUME PowerDown PROVE IInv'
  BY DEF PowerDown, IInv, Shapes, OneWorker, ApIdle, NoWorkers

LEMMA Finalized ==
    ASSUME Shapes, NEW a, a = finalizePendingApRelease(ap)
    PROVE  DOMAIN a = DOMAIN ap /\ a.active = ap.active /\ a.exited = ap.exited
  BY DEF finalizePendingApRelease, Shapes

\* A session begins: the worker before it is gone, or the race is on record.
LEMMA StartIInv == ASSUME IInv, start PROVE IInv'
<1> DEFINE a == finalizePendingApRelease(ap)
<1>1. DOMAIN a = DOMAIN ap /\ a.active = ap.active /\ a.exited = ap.exited
  BY Finalized DEF IInv
<1>2. CASE startRefused
  <2>1. Apart
    BY <1>1, <1>2 DEF startRefused, Apart
  <2> QED
    BY <2>1, ApartIInv
<1>3. CASE startReserved /\ apw' = apw /\ races' = races
  <2>1. ~a.active /\ ~ap.active
    BY <1>1, <1>3 DEF startReserved
  <2> HIDE DEF a
  <2>2. ap' = a \/ ap' = [a EXCEPT !.stop = FALSE, !.exited = TRUE, !.parked = FALSE]
                \/ ap' = [a EXCEPT !.active = TRUE, !.stop = FALSE, !.exited = FALSE, !.parked = ~link]
    BY <1>3 DEF startReserved, a
  <2>3. DOMAIN ap' = DOMAIN ap
    BY <1>1, <2>2
  <2> QED
    BY <1>3, <2>1, <2>3 DEF IInv, Shapes, OneWorker
<1>4. CASE /\ startReserved
           /\ ap' = [a EXCEPT !.active = TRUE, !.stop = FALSE, !.exited = FALSE, !.parked = ~link]
           /\ apw' = [apw EXCEPT ![Free(apw)] = "start"]
           /\ races' = Inherit("ApOta") \cup
                       (IF \E i \in Workers : apw[i] # "none" THEN {"exit"} ELSE {})
  <2> HIDE DEF a
  <2>1. /\ DOMAIN ap' = DOMAIN ap /\ ap'.active = TRUE /\ ap'.exited = FALSE
    BY <1>1, <1>4 DEF IInv, Shapes
  <2>2. apw' \in [Workers -> ApSteps]
    BY <1>4 DEF IInv, Shapes
  <2>3. "exit" \notin races' => \A i \in Workers : apw[i] = "none"
    BY <1>4
  <2>4. "exit" \notin races' =>
            \A i, j \in Workers : apw'[i] # "none" /\ apw'[j] # "none" => i = j
    BY <1>4, <2>3 DEF IInv, Shapes
  <2> QED
    BY <2>1, <2>2, <2>4 DEF IInv, Shapes, OneWorker
<1> QED
  BY <1>2, <1>3, <1>4 DEF start, startReserved

\* A step of the worker.
LEMMA WorkerIInv == ASSUME IInv, NEW i \in Workers, otaServerWorker(i) PROVE IInv'
<1> USE DEF IInv, Shapes, OneWorker, otaServerWorker, ApGoes
<1>1. CASE ApStart(i)
  BY <1>1 DEF ApStart
<1>2. CASE ApUpload(i)
  BY <1>2 DEF ApUpload, Begin
<1>3. CASE ApCleanup(i)
  BY <1>3 DEF ApCleanup
<1>4. CASE ApLeave(i)
  BY <1>4 DEF ApLeave
<1> QED
  BY <1>1, <1>2, <1>3, <1>4

\* The loop task, apart from its restarts.
LEMMA LoopIInv ==
    ASSUME IInv, servicePendingReleases \/ OtaLoop \/ OtaSaved \/ GitHubLoop \/ StaLoop
    PROVE  IInv'
<1>1. CASE servicePendingReleases \/ GitHubLoop \/ StaLoop
  BY <1>1, ApartIInv DEF servicePendingReleases, GitHubLoop, StaLoop, Apart
<1>2. CASE OtaLoop
  <2> DEFINE a == finalizePendingApRelease(ap)
  <2>1. DOMAIN a = DOMAIN ap /\ a.active = ap.active /\ a.exited = ap.exited
    BY Finalized DEF IInv
  <2>2. ap' \in {a, [a EXCEPT !.stop = TRUE], [a EXCEPT !.reboot = FALSE]} /\ apw' = apw /\ races' = races
    BY <1>2 DEF OtaLoop
  <2> HIDE DEF a
  <2>3. Apart
    BY <2>1, <2>2 DEF Apart, IInv, Shapes
  <2> QED
    BY <2>3, ApartIInv
<1>3. CASE OtaSaved
  <2>1. CASE PowerDown
    BY <2>1, PowerDownIInv
  <2>2. CASE /\ ap' = [ap EXCEPT !.reboot = TRUE, !.retries = @ + 1]
             /\ UNCHANGED <<apw, races>>
    BY <2>2, ApartIInv DEF Apart, IInv, Shapes
  <2> QED
    BY <1>3, <2>1, <2>2 DEF OtaSaved
<1> QED
  BY <1>1, <1>2, <1>3

LEMMA NextIInv == ASSUME IInv, [Next]_vars PROVE IInv'
<1>1. CASE LoopTask
  BY <1>1, LoopIInv, PowerDownIInv DEF LoopTask, GitHubRestart, Joined
<1>2. CASE NetworkScreen \/ cancel \/ Boot \/ WarmTask \/ LinkChanges
  BY <1>2, ApartIInv DEF NetworkScreen, cancel, Boot, WarmTask, LinkChanges, Apart
<1>3. CASE startGitHubUpdate
  BY <1>3, ApartIInv DEF startGitHubUpdate, Inherit, Apart
<1>4. CASE start
  BY <1>4, StartIInv
<1>5. CASE Shutdown
  <2>1. ap' = [ap EXCEPT !.stop = TRUE] /\ UNCHANGED <<apw, races>>
    BY <1>5 DEF Shutdown
  <2> QED
    BY <2>1, ApartIInv DEF Apart, IInv, Shapes
<1>6. CASE ShutdownIdle
  BY <1>6, PowerDownIInv DEF ShutdownIdle
<1>7. ASSUME NEW i \in Workers, GhWorker(i) PROVE IInv'
  BY <1>7, ApartIInv DEF GhWorker, serviceWorker, GhTransfer, GhFail, Begin, Apart
<1>8. ASSUME NEW i \in Workers, otaServerWorker(i) PROVE IInv'
  BY <1>8, WorkerIInv
<1>9. CASE UNCHANGED vars
  BY <1>9, ApartIInv DEF vars, Apart
<1> QED
  BY <1>1, <1>2, <1>3, <1>4, <1>5, <1>6, <1>7, <1>8, <1>9 DEF Next

\* The invariant holds in every reachable state.
THEOREM Invariance == Spec => []IInv
<1>1. Init => IInv
  BY InitIInv
<1>2. IInv /\ [Next]_vars => IInv'
  BY NextIInv
<1> QED
  BY <1>1, <1>2, PTL DEF Spec

\* With any number of sessions, when worker_exited is set the worker has left the
\* server, so that stop() and the shutdown may go on, unless a session began before
\* the last worker's acknowledgement had landed.
THEOREM AckMeansGoneAlways == Spec => []AckMeansGone
<1>1. IInv => AckMeansGone
  BY DEF IInv, OneWorker, AckMeansGone, ApRunning
<1> QED
  BY <1>1, Invariance, PTL
=============================================================================
