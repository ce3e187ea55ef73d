-------------------------- MODULE BleTransport_proofs --------------------------
(***************************************************************************)
(* Proofs about BleTransport for every queue size and every number of      *)
(* links, writes, undelivered events, PINs and faults.                     *)
(***************************************************************************)
EXTENDS BleTransport, TLAPS

\* The preferences, and the one history variable the argument looks at.
Shapes == /\ nvs \in [pin : 1..MaxPins, pending : BOOLEAN, enabled : BOOLEAN]
          /\ slipped \in BOOLEAN

\* Before companionAdapterInit nothing can pair.
SilentWhileOff == pc = "off" => link = 0 /\ adv = FALSE /\ events = <<>>

\* The stack pairs with the stored PIN, unless that PIN has just been set.
PinInForce == pc # "off" /\ ~nvs.pending => pin = nvs.pin

\* The loop clears the marker only after it has counted no bonds.
CountedNone == pc = "empty" /\ ~slipped => bond = 0

\* The inductive invariant.
IInv == Shapes /\ SilentWhileOff /\ PinInForce /\ CountedNone /\ BondsMatchPin

USE DEF air, bonds, auth, throttle, loop, rotating, hist, quiet, Fault

-----------------------------------------------------------------------------
\* The device boots with a bond of the stored PIN, or in the middle of a rotation.
LEMMA InitIInv == Init => IInv
<1> SUFFICES ASSUME Init PROVE IInv
  OBVIOUS
<1>1. MaxPins \in Nat \ {0}
  BY BleTransportConstants
<1>2. \/ nvs = [pin |-> 1, pending |-> FALSE, enabled |-> TRUE] /\ bond \in {0, 1}
      \/ nvs = [pin |-> MaxPins, pending |-> TRUE, enabled |-> TRUE]
  BY DEF Init
<1>3. link = 0 /\ adv = FALSE /\ events = <<>> /\ pc = "off" /\ slipped = FALSE
  BY DEF Init
<1>4. nvs \in [pin : 1..MaxPins, pending : BOOLEAN, enabled : BOOLEAN]
  <2>1. 1 \in 1..MaxPins /\ MaxPins \in 1..MaxPins
    BY <1>1
  <2>2. CASE nvs = [pin |-> 1, pending |-> FALSE, enabled |-> TRUE]
    BY <2>1, <2>2, Zenon
  <2>3. CASE nvs = [pin |-> MaxPins, pending |-> TRUE, enabled |-> TRUE]
    BY <2>1, <2>3, Zenon
  <2> QED
    BY <1>2, <2>2, <2>3
<1>5. BondsMatchPin
  BY <1>2 DEF BondsMatchPin
<1> QED
  BY <1>3, <1>4, <1>5 DEF IInv, Shapes, SilentWhileOff, PinInForce, CountedNone

\* Only a pairing makes a bond, and it takes the PIN in force.
LEMMA PairingIInv == ASSUME IInv, onSecurityRequest PROVE IInv'
<1> USE DEF IInv, Shapes, SilentWhileOff, PinInForce, CountedNone, BondsMatchPin
<1>1. /\ pc # "off" /\ pc' = pc /\ pin' = pin /\ nvs' = nvs
      /\ \/ bond' = bond /\ slipped' = slipped
         \/ /\ bond' = IF bond = 0 THEN pin ELSE bond
            /\ slipped' = (slipped \/ (bond = 0 /\ pc = "empty"))
  BY DEF onSecurityRequest, Delivers
<1>2. Shapes' /\ SilentWhileOff' /\ PinInForce'
  BY <1>1
<1>3. CASE bond' = bond /\ slipped' = slipped
  BY <1>1, <1>2, <1>3
<1>4. CASE /\ bond' = IF bond = 0 THEN pin ELSE bond
           /\ slipped' = (slipped \/ (bond = 0 /\ pc = "empty"))
  <2>1. CASE bond = 0 /\ pc = "empty"
    BY <1>1, <1>2, <1>4, <2>1
  <2>2. CASE bond = 0 /\ pc # "empty"
    BY <1>1, <1>2, <1>4, <2>2
  <2>3. CASE bond # 0
    BY <1>1, <1>2, <1>4, <2>3
  <2> QED
    BY <2>1, <2>2, <2>3
<1> QED
  BY <1>1, <1>3, <1>4

\* Every step of the two tasks, the phone, the user and time keeps the invariant.
LEMMA NextIInv == ASSUME IInv, [Next]_vars PROVE IInv'
<1> USE BleTransportConstants
    DEF IInv, Shapes, SilentWhileOff, PinInForce, CountedNone, BondsMatchPin
<1>1. CASE Host
  <2>1. CASE onConnect
    BY <2>1 DEF onConnect, Delivers
  <2>2. CASE onSecurityRequest
    BY <2>2, PairingIInv
  <2>3. CASE AuthenticationSucceeded
    BY <2>3 DEF AuthenticationSucceeded, Delivers
  <2>4. CASE AuthenticationFailed
    BY <2>4 DEF AuthenticationFailed, Delivers
  <2>5. CASE onWrite
    BY <2>5 DEF onWrite, Delivers
  <2>6. CASE onDisconnect
    BY <2>6 DEF onDisconnect, Delivers
  <2> QED
    BY <1>1, <2>1, <2>2, <2>3, <2>4, <2>5, <2>6 DEF Host
<1>2. CASE Loop
  <2>1. CASE companionAdapterInit
    BY <2>1 DEF companionAdapterInit
  <2>2. CASE checkRecvFrame
    BY <2>2 DEF checkRecvFrame
  <2>3. CASE dispatchFrame
    BY <2>3 DEF dispatchFrame
  <2>4. CASE Handle
    <3>1. MaxPins \in Nat
      BY BleTransportConstants
    <3>2. CASE setBlePin
      <4>1. nvs.pin + 1 \in 1..MaxPins
        BY <3>1, <3>2 DEF setBlePin
      <4>3. nvs' = [pin |-> nvs.pin + 1, pending |-> TRUE, enabled |-> nvs.enabled]
        BY <3>2 DEF setBlePin
      <4>4. nvs' \in [pin : 1..MaxPins, pending : BOOLEAN, enabled : BOOLEAN]
        BY <4>1, <4>3, Zenon
      <4>5. nvs'.pending
        BY <4>3
      <4>2. /\ pc = "handle" /\ pc' = "top" /\ slipped' = slipped /\ bond' = bond
        BY <2>4 DEF Handle
      <4> QED
        BY <4>2, <4>4, <4>5
    <3>3. CASE UNCHANGED <<rotation, nvs>>
      BY <2>4, <3>3 DEF Handle
    <3> QED
      BY <2>4, <3>2, <3>3 DEF Handle
  <2>5. CASE Rotated
    BY <2>5 DEF Rotated, Restart
  <2> QED
    BY <1>2, <2>1, <2>2, <2>3, <2>4, <2>5 DEF Loop
<1>3. CASE serviceBleBondRotation
  BY <1>3 DEF serviceBleBondRotation, removeAllBonds, BaseDisable
<1>4. CASE User
  <2>1. ASSUME NEW on \in BOOLEAN, companionBleSetEnabled(on) PROVE IInv'
    BY <2>1 DEF companionBleSetEnabled
  <2>2. CASE SwitchedBack
    BY <2>2 DEF SwitchedBack
  <2>3. CASE openPairingWindow
    BY <2>3 DEF openPairingWindow
  <2> QED
    BY <1>4, <2>1, <2>2, <2>3 DEF User
<1>5. CASE Phone
  BY <1>5 DEF Phone, Connect, AsksToSecure, Writes, Disconnected
<1>6. CASE BondRemoved
  BY <1>6 DEF BondRemoved
<1>7. CASE Time
  BY <1>7 DEF Time, Late, Unblocked, WindowCloses
<1>8. CASE PowerCut
  BY <1>8 DEF PowerCut, Restart
<1>9. CASE UNCHANGED vars
  BY <1>9 DEF vars
<1> QED
  BY <1>1, <1>2, <1>3, <1>4, <1>5, <1>6, <1>7, <1>8, <1>9 DEF Next

\* The invariant holds in every reachable state.
THEOREM Invariance == Spec => []IInv
<1>1. Init => IInv
  BY InitIInv
<1>2. IInv /\ [Next]_vars => IInv'
  BY NextIInv
<1> QED
  BY <1>1, <1>2, PTL DEF Spec

\* A rotation that cleared its marker has left no bond of an earlier PIN, however
\* removals, pairings, failures and power cuts interleave with it.
THEOREM BondsMatchPinAlways == Spec => []BondsMatchPin
<1>1. IInv => BondsMatchPin
  BY DEF IInv
<1> QED
  BY <1>1, Invariance, PTL
=============================================================================
