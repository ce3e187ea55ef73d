-------------------------- MODULE FactoryReset_proofs --------------------------
(***************************************************************************)
(* Proofs about FactoryReset for every number of messages, failures and    *)
(* power cuts and every capacity of the queue: the control of a reset, and *)
(* which of the user's data is there at each of its stages.  The messages  *)
(* on the two media are in MessageFailover_proofs.                         *)
(***************************************************************************)
EXTENDS FactoryReset, TLAPS

Targets == {"sigurdos_pw", "chat_scopes", "sigurdos"}

\* The steps of a reset between the erasure of the card and the end.
Erased == {"save", "stopwarm", "nvsmark", "format", "clear"} \cup Targets

Running == {"run"} \cup AppendSteps

Shapes ==
    /\ DOMAIN store = Media /\ marker \in Stages \cup {"Absent"}
    /\ nvs \in [Targets -> {"user", "armed", "safe"}] /\ ident \in {"user", "none", "fresh"}

CardErased == pc \in Erased /\ ~spared => store["sd"] = <<>>

\* Past the first stage nothing but the reset runs: no selection, no append, and no
\* step of a reset that has still to erase the card.
PastTheCard ==
    marker \in {"Nvs", "Spiffs"} => pc \in {"off", "reset"} \cup (Erased \ {"save"})

\* A step that erases has a marker behind it.
Marked == pc \in {"wipe"} \cup Erased => marker # "Absent"

\* The namespaces go in their order, and none is left when SPIFFS goes.
InOrder ==
    /\ pc \in {"chat_scopes", "sigurdos"} => nvs["sigurdos_pw"] # "user"
    /\ pc = "sigurdos" => nvs["chat_scopes"] # "user"
    /\ pc \in {"format", "clear"} \/ marker = "Spiffs" => \A t \in Targets : nvs[t] # "user"

\* All of the user's data or none of it.
Whole ==
    \/ ident = "user" /\ ~sdWiped /\ nvs["sigurdos_pw"] = "user" /\ nvs["chat_scopes"] = "user"
    \/ ident # "user" /\ \A t \in Targets : nvs[t] # "user"

\* It is whole without a marker, and up to the first erasure with one.
WholeUntilErased ==
    marker = "Absent" \/ pc \in Running \cup {"arm", "mark"} \/ (pc = "wipe" /\ ~resuming)
        => Whole

\* The mesh has made an identity once it runs.
Named ==
    /\ pc \in SelectSteps \cup {"selected"} => booting
    /\ pc \in Running \/ (~booting /\ pc \in {"reset", "arm", "mark", "wipe"}) => ident # "none"
    /\ pc = "clear" => ident = "none"

\* The inductive invariant of the control.
Control == /\ Shapes /\ CardErased /\ PastTheCard /\ WipedStaysWiped
           /\ Marked /\ InOrder /\ WholeUntilErased /\ Named

USE DEF resetVars, media, ram, hist, Media, Stages, Targets, Erased, Running, AppendSteps,
        SelectSteps, Goes, Errs, Works, Fails, Restart, factoryResetTerminalFailure,
        MarkerWritten, MarkerFails, ReturnsFalse

-----------------------------------------------------------------------------
LEMMA TargetNames ==
    /\ NVS_TARGETS[1] = "sigurdos_pw" /\ NVS_TARGETS[2] = "chat_scopes"
    /\ NVS_TARGETS[3] = "sigurdos" /\ Range(NVS_TARGETS) = Targets
<1>1. DOMAIN NVS_TARGETS = {1, 2, 3}
  BY DEF NVS_TARGETS
<1>2. NVS_TARGETS[1] = "sigurdos_pw" /\ NVS_TARGETS[2] = "chat_scopes" /\ NVS_TARGETS[3] = "sigurdos"
  BY DEF NVS_TARGETS
<1> QED
  BY <1>1, <1>2 DEF Range

LEMMA InitControl == Init => Control
  BY TargetNames DEF Init, Control, Shapes, CardErased, PastTheCard, WipedStaysWiped, Marked, InOrder,
     WholeUntilErased, Whole, Named

\* Selection and append run while the marker is absent or only armed.
LEMMA StoreControl == ASSUME Control, StoreStep PROVE Control'
<1> USE DEF Control, Shapes, CardErased, PastTheCard, WipedStaysWiped, Marked, InOrder,
            WholeUntilErased, Whole, Named, StoreStep
<1>1. CASE sdMessageStoreSelect
  <2>1. pc \in SelectSteps /\ pc' \in SelectSteps \cup {"selected"} /\ DOMAIN store' = DOMAIN store
    BY <1>1 DEF sdMessageStoreSelect, selectDefaultStore, OpenSd, Copy, Verify,
       retireDefaultStore, Reopen, restoreDefaultStoreWithMigration, appendOnce,
       messageStoreClear, fallBackToDefault, Selected
  <2> QED
    BY <2>1
<1>2. CASE messageStoreAppend
  <2>1. pc \in Running /\ pc' \in Running /\ DOMAIN store' = DOMAIN store
    BY <1>2 DEF messageStoreAppend, Arrive, retryQueuedOnDefaultBackend, Attempt, Failover,
       appendOnce
  <2> QED
    BY <2>1
<1>3. CASE CardChanges
  BY <1>3 DEF CardChanges
<1> QED
  BY <1>1, <1>2, <1>3

\* Every step of boot and of factoryReset keeps the invariant.
LEMMA DeviceControl == ASSUME Control, Device PROVE Control'
<1> USE DEF Control, Shapes, CardErased, PastTheCard, WipedStaysWiped, Marked, InOrder,
            WholeUntilErased, Whole, Named
<1>1. CASE Setup
  BY <1>1 DEF Setup
<1>2. CASE Run
  BY <1>2 DEF Run
<1>3. CASE Ask
  BY <1>3 DEF Ask
<1>4. CASE Begin
  BY <1>4 DEF Begin
<1>5. CASE Arm
  BY <1>5 DEF Arm
<1>6. CASE Mark
  BY <1>6 DEF Mark
<1>7. CASE sdMessageStoreReset
  BY <1>7 DEF sdMessageStoreReset, preflightFails
<1>8. CASE SaveAndStop
  BY <1>8 DEF SaveAndStop, Step
<1>9. CASE NvsMark
  BY <1>9, TargetNames DEF NvsMark
<1>10. CASE applyNvsTargets
  BY <1>10, TargetNames DEF applyNvsTargets
<1>11. CASE Format
  BY <1>11 DEF Format
<1>12. CASE Clear
  BY <1>12 DEF Clear
<1> QED
  BY <1>1, <1>2, <1>3, <1>4, <1>5, <1>6, <1>7, <1>8, <1>9, <1>10, <1>11, <1>12
  DEF Device, factoryReset

LEMMA NextControl == ASSUME Control, [Next]_vars PROVE Control'
<1> USE DEF Control, Shapes, CardErased, PastTheCard, WipedStaysWiped, Marked, InOrder,
            WholeUntilErased, Whole, Named
<1>1. CASE PowerCut
  BY <1>1 DEF PowerCut
<1>2. CASE UNCHANGED vars
  BY <1>2 DEF vars
<1> QED
  BY <1>1, <1>2, DeviceControl, StoreControl DEF Next

\* The invariant of the control holds in every reachable state.
THEOREM ControlAlways == Spec => []Control
<1>1. Init => Control
  BY InitControl
<1>2. Control /\ [Next]_vars => Control'
  BY NextControl
<1> QED
  BY <1>1, <1>2, PTL DEF Spec

\* However often a reset fails, is cut and goes on, and whatever the card does
\* meanwhile, no message comes back to a card that this reset has erased.
THEOREM WipedStaysWipedAlways == Spec => []WipedStaysWiped
<1>1. Control => WipedStaysWiped
  BY DEF Control
<1> QED
  BY <1>1, ControlAlways, PTL
=============================================================================
