----------------------------- MODULE BleTransport -----------------------------
(***************************************************************************)
(* The BLE companion transport (comms/observed_ble_interface.cpp with its  *)
(* queue, authentication watchdog, throttle, bond cache and init gate; the *)
(* BLE part of comms/transports.cpp), and the rotation of the bonds after  *)
(* a change of PIN (mesh/companion_adapter.cpp).                           *)
(*                                                                         *)
(* The host task delivers the controller's events in order, the loop task  *)
(* polls; every callback and every call holds the transport's mutex, but   *)
(* the loop takes a frame and reads the generation of its session under    *)
(* two locks.  One phone connects, leaves, authenticates or does not, and  *)
(* writes.  Time is the end of a deadline.  Transmission is left out.      *)
(***************************************************************************)
EXTENDS Naturals, Sequences

CONSTANTS FRAME_QUEUE_SIZE,
          MaxLinks,      \* bound: connections
          MaxWrites,     \* bound: frames written on one connection
          MaxEvents,     \* bound: events the host has not delivered
          MaxPins,       \* bound: PINs
          MaxFaults      \* bound: failed calls, failed authentications, power cuts

ASSUME BleTransportConstants ==
    /\ {FRAME_QUEUE_SIZE, MaxLinks, MaxPins} \subseteq Nat \ {0}
    /\ {MaxWrites, MaxEvents, MaxFaults} \subseteq Nat

VARIABLES link, links,           \* the controller: the link that is up, links so far
          secured,               \* its encryption: "no", "asked", "yes"
          written, closing,      \* frames written on it; its end was asked for
          bond, removing,        \* the PIN of the phone's bond, or 0; it is to be removed
          adv,                   \* advertising
          events,                \* events that the host task has not delivered
          gate, enabled, connected, restart,  \* _init_gate; the base class: it will advertise
          rx,                    \* _rx_queue
          watchdog, overdue,     \* _auth_watchdog: the link it guards; it is late
          completed,             \* _authentication_completed
          blocked, window,       \* _auth_throttle
          suppressed,            \* _advertising_suppressed
          cache, known,          \* the phone is in _bond_cache; _connecting_peer_bonded
          generation,            \* _stats.connection_generation
          pc, taken,             \* the loop task, and the frame it has in hand
          rotation,              \* g_ble_bond_rotation
          pin,                   \* _configured_pin
          nvs,                   \* ble_pin, ble_bond_reset_pending and ble_enabled
          faults,
          sessions,              \* history: the generation each link was given
          handed,                \* history: the last frame of each link that was handled
          raced,                 \* history: a session began while a frame was in hand
          slipped                \* history: a bond was made after the bonds were counted

air      == <<link, links, secured, written>>
bonds    == <<bond, removing, cache>>
auth     == <<watchdog, overdue, completed, known>>
throttle == <<blocked, window>>
loop     == <<pc, taken>>
rotating == <<rotation, pin, nvs>>
hist     == <<sessions, handed, raced, slipped>>
vars == <<air, closing, bonds, adv, events, gate, enabled, connected, restart, rx, auth,
          throttle, suppressed, generation, loop, rotating, faults, hist>>

Links == 1..MaxLinks
Frames == [link : Links, n : 1..MaxWrites, gen : 0..MaxLinks]
NoFrame == [link |-> 0, n |-> 0, gen |-> 0]
Event(k, l, n) == [kind |-> k, link |-> l, n |-> n]
Kinds == {"connect", "security", "success", "failure", "write", "disconnect"}

\* The queue holds at most FRAME_QUEUE_SIZE frames and the watchdog guards one link.
TypeOK ==
    /\ {link, links, watchdog, generation} \subseteq 0..MaxLinks
    /\ secured \in {"no", "asked", "yes"} /\ written \in 0..MaxWrites
    /\ {closing, removing, adv, enabled, connected, restart, overdue, completed, blocked,
        window, suppressed, cache, known, raced, slipped} \subseteq BOOLEAN
    /\ \A i \in DOMAIN events : events[i].kind \in Kinds /\ events[i].link \in Links
    /\ gate \in {"Unconfigured", "Ready", "Initialized", "Failed"}
    /\ Len(rx) <= FRAME_QUEUE_SIZE /\ \A i \in DOMAIN rx : rx[i] \in Frames
    /\ pc \in {"off", "top", "taken", "handle", "empty"} /\ taken \in Frames \cup {NoFrame}
    /\ rotation \in {"none", "asked", "started"} /\ {pin, bond} \subseteq 0..MaxPins
    /\ nvs \in [pin : 1..MaxPins, pending : BOOLEAN, enabled : BOOLEAN]
    /\ faults \in 0..MaxFaults
    /\ sessions \in [Links -> 0..MaxLinks] /\ handed \in [Links -> 0..MaxWrites]

\* The device boots, after a shutdown or after a power cut during a
\* rotation that the first link asked for.
Init ==
    /\ link = 0 /\ secured = "no" /\ written = 0 /\ closing = FALSE /\ removing = FALSE
    /\ adv = FALSE /\ events = <<>> /\ gate = "Unconfigured" /\ enabled = FALSE
    /\ connected = FALSE /\ restart = FALSE /\ rx = <<>> /\ watchdog = 0
    /\ overdue = FALSE /\ completed = FALSE /\ blocked = FALSE /\ window = FALSE
    /\ suppressed = FALSE /\ cache = FALSE /\ known = FALSE /\ pc = "off"
    /\ taken = NoFrame /\ rotation = "none" /\ generation = 0
    /\ pin = 0
    /\ \/ /\ bond \in {0, 1} /\ links = 0
          /\ nvs = [pin |-> 1, pending |-> FALSE, enabled |-> TRUE]
       \/ /\ bond = 1 /\ links = 1
          /\ nvs = [pin |-> MaxPins, pending |-> TRUE, enabled |-> TRUE]
    /\ faults = 0 /\ sessions = [l \in Links |-> 0] /\ handed = [l \in Links |-> 0]
    /\ raced = FALSE /\ slipped = FALSE

Fault == faults < MaxFaults /\ faults' = faults + 1

-----------------------------------------------------------------------------
(* Calls of the loop task. *)

\* Mutant: advertising that was stopped is not started again.
applyAdvertisingThrottleOnce(a, isBlocked, isSuppressed) ==
    IF isBlocked THEN /\ adv' = (a /\ isSuppressed) /\ suppressed' = TRUE
                 ELSE /\ adv' = a /\ suppressed' = isSuppressed

\* applyAdvertisingThrottle, with the values the caller has reached.
applyAdvertisingThrottle(a, isBlocked, isSuppressed) ==
    IF isBlocked THEN /\ adv' = (a /\ isSuppressed) /\ suppressed' = TRUE
                 ELSE /\ adv' = (a \/ isSuppressed) /\ suppressed' = FALSE

\* initializeConfigured: the stack comes up with its bonds in the cache, or
\* without them, or not at all.
initializeConfigured ==
    /\ gate' = "Initialized"
    /\ \/ gate = "Initialized" /\ UNCHANGED <<cache, faults>>
       \/ gate # "Initialized" /\ cache' = (bond # 0) /\ UNCHANGED faults
       \/ gate # "Initialized" /\ cache' = FALSE /\ Fault

InitializeFails == gate # "Initialized" /\ gate' = "Failed" /\ cache' = FALSE /\ Fault

enable ==
    \/ /\ initializeConfigured /\ enabled' = TRUE /\ rx' = <<>>
       /\ applyAdvertisingThrottle(TRUE, blocked, FALSE)
    \/ InitializeFails /\ UNCHANGED <<enabled, rx, adv, suppressed>>

\* The base class drops the link and stops advertising.
BaseDisable ==
    /\ enabled' = FALSE /\ connected' = FALSE /\ restart' = FALSE
    /\ adv' = FALSE /\ closing' = (link # 0) /\ completed' = TRUE

disable ==
    /\ BaseDisable /\ rx' = <<>> /\ watchdog' = 0 /\ overdue' = FALSE
    /\ UNCHANGED known

\* companionBleSetEnabled.
companionBleSetEnabled(on) ==
    /\ pc = "top" /\ enabled = ~on
    /\ IF on THEN enable /\ UNCHANGED <<connected, restart, closing, auth>>
             ELSE disable /\ UNCHANGED <<gate, cache, faults, suppressed>>
    /\ nvs' = IF enabled' = on THEN [nvs EXCEPT !.enabled = on] ELSE nvs
    /\ UNCHANGED <<air, bond, removing, events, throttle, generation, loop, rotation, pin,
                   hist>>

\* The preference cannot be stored: the transport is switched back, without its link.
SwitchedBack ==
    /\ pc = "top" /\ Fault
    /\ connected' = FALSE /\ restart' = FALSE /\ closing' = (link # 0) /\ rx' = <<>>
    /\ watchdog' = 0 /\ overdue' = FALSE /\ completed' = TRUE
    /\ \/ /\ enabled /\ applyAdvertisingThrottle(TRUE, blocked, FALSE)
          /\ UNCHANGED <<gate, cache>>
       \/ /\ ~enabled /\ adv' = FALSE /\ suppressed' = blocked /\ gate' = "Initialized"
          /\ cache' = IF gate = "Initialized" THEN cache ELSE bond # 0
    /\ UNCHANGED <<air, bond, removing, events, enabled, known, throttle, generation, loop,
                   rotating, hist>>

openPairingWindow ==
    /\ pc = "top" /\ enabled
    /\ blocked' = FALSE /\ window' = TRUE /\ suppressed' = FALSE
    /\ adv' = (adv \/ ~connected)
    /\ UNCHANGED <<air, closing, bonds, events, gate, enabled, connected, restart, rx, auth,
                   generation, loop, rotating, faults, hist>>

\* checkRecvFrame: the base class advertises again when that is due, a late
\* authentication ends its link, and the oldest frame is taken.
checkRecvFrame ==
    /\ pc = "top" /\ enabled
    /\ LET late == watchdog # 0 /\ overdue IN
       /\ blocked' = (blocked \/ late)
       /\ closing' = (closing \/ (late /\ link = watchdog))
       /\ watchdog' = IF late THEN 0 ELSE watchdog
       /\ overdue' = FALSE /\ completed' = (completed \/ late)
       /\ LET a == adv \/ (restart /\ link = 0) IN
          IF connected THEN adv' = a /\ suppressed' = (suppressed \/ late)
          ELSE applyAdvertisingThrottle(a, blocked', suppressed \/ late)
    /\ restart' = (restart /\ link # 0)
    /\ IF rx = <<>> THEN UNCHANGED <<rx, loop>>
       ELSE pc' = "taken" /\ taken' = Head(rx) /\ rx' = Tail(rx)
    /\ UNCHANGED <<air, bonds, events, gate, enabled, connected, known, window, generation,
                   rotating, faults, hist>>

\* transports_loop reads the generation of the session it takes the frame to
\* belong to.
dispatchFrame ==
    /\ pc = "taken" /\ pc' = "handle"
    /\ taken' = [taken EXCEPT !.gen = IF connected THEN generation ELSE 0]
    /\ UNCHANGED <<air, closing, bonds, adv, events, gate, enabled, connected, restart, rx,
                   auth, throttle, suppressed, generation, rotating, faults, hist>>

\* The frame is handled; it may be CMD_SET_DEVICE_PIN.
setBlePin == /\ nvs.pin < MaxPins
             /\ nvs' = [nvs EXCEPT !.pin = @ + 1, !.pending = TRUE]
             /\ rotation' = "asked"

Handle ==
    /\ pc = "handle" /\ pc' = "top" /\ taken' = NoFrame /\ raced' = FALSE
    /\ handed' = [handed EXCEPT ![taken.link] = taken.n]
    /\ setBlePin \/ UNCHANGED <<rotation, nvs>>
    /\ UNCHANGED <<air, closing, bonds, adv, events, gate, enabled, connected, restart, rx,
                   auth, throttle, suppressed, generation, pin, faults, sessions, slipped>>

-----------------------------------------------------------------------------
(* The rotation of the bonds. *)

\* BLE stays off from here on, whether the removal is accepted or not.
removeAllBonds(ok) ==
    /\ IF enabled THEN BaseDisable
       ELSE UNCHANGED <<enabled, connected, restart, adv, closing, completed>>
    /\ gate' = "Initialized"
    /\ \/ ok /\ cache' = FALSE /\ removing' = (bond # 0) /\ UNCHANGED faults
       \/ ~ok /\ Fault /\ UNCHANGED removing
          /\ cache' = IF gate = "Initialized" THEN cache ELSE bond # 0

\* Mutant: a removal that was accepted is taken for done.
serviceBleBondRotationTrusting ==
    /\ pc = "top"
    /\ \/ /\ rotation = "asked" /\ UNCHANGED pc
          /\ \E ok \in BOOLEAN : /\ removeAllBonds(ok)
                                 /\ rotation' = IF ok THEN "started" ELSE "asked"
       \/ /\ rotation = "started" /\ pc' = "empty" /\ cache' = FALSE
          /\ UNCHANGED <<enabled, connected, restart, adv, closing, completed, gate,
                         removing, rotation, faults>>
    /\ UNCHANGED <<air, bond, events, rx, watchdog, overdue, known, throttle, suppressed,
                   generation, taken, pin, nvs, hist>>

serviceBleBondRotation ==
    /\ pc = "top"
    /\ \/ /\ rotation = "asked" /\ UNCHANGED pc
          /\ \E ok \in BOOLEAN : /\ removeAllBonds(ok)
                                 /\ rotation' = IF ok THEN "started" ELSE "asked"
       \/ /\ rotation = "asked" /\ InitializeFails
          /\ UNCHANGED <<enabled, connected, restart, adv, closing, completed, removing,
                         pc, rotation>>
       \/ /\ rotation = "started" /\ bond # 0 /\ UNCHANGED <<pc, rotation>>
          /\ \E ok \in BOOLEAN : removeAllBonds(ok)
       \/ /\ rotation = "started" /\ bond = 0 /\ pc' = "empty" /\ cache' = FALSE
          /\ UNCHANGED <<enabled, connected, restart, adv, closing, completed, gate,
                         removing, rotation, faults>>
    /\ UNCHANGED <<air, bond, events, rx, watchdog, overdue, known, throttle, suppressed,
                   generation, taken, pin, nvs, hist>>

\* A restart ends the link and loses what is in RAM.
Restart ==
    /\ link' = 0 /\ secured' = "no" /\ written' = 0 /\ closing' = FALSE /\ removing' = FALSE
    /\ adv' = FALSE /\ events' = <<>> /\ gate' = "Unconfigured" /\ enabled' = FALSE
    /\ connected' = FALSE /\ restart' = FALSE /\ rx' = <<>> /\ watchdog' = 0
    /\ overdue' = FALSE /\ completed' = FALSE /\ blocked' = FALSE /\ window' = FALSE
    /\ suppressed' = FALSE /\ cache' = FALSE /\ known' = FALSE /\ pc' = "off"
    /\ taken' = NoFrame /\ rotation' = "none" /\ generation' = 0
    /\ raced' = FALSE /\ UNCHANGED <<links, bond, pin, sessions, handed, slipped>>

\* The bonds are gone: the marker is cleared and the device restarts.
Rotated ==
    /\ pc = "empty"
    /\ \/ nvs' = [nvs EXCEPT !.pending = FALSE] /\ Restart /\ UNCHANGED faults
       \/ /\ Fault /\ pc' = "top"
          /\ UNCHANGED <<air, closing, bonds, adv, events, gate, enabled, connected,
                         restart, rx, auth, throttle, suppressed, generation, taken,
                         rotating, hist>>

PowerCut == pc # "off" /\ Fault /\ Restart /\ UNCHANGED nvs

\* Mutant: a rotation that was interrupted is forgotten.
companionAdapterInitForgets ==
    /\ pc = "off" /\ pc' = "top" /\ pin' = nvs.pin /\ rotation' = "none"
    /\ IF nvs.enabled THEN enable
       ELSE gate' = "Ready" /\ UNCHANGED <<cache, faults, enabled, rx, adv, suppressed>>
    /\ UNCHANGED <<air, closing, bond, removing, events, connected, restart, auth, throttle,
                   generation, taken, nvs, hist>>

\* A rotation that was interrupted goes on before anything is advertised.
companionAdapterInit ==
    /\ pc = "off" /\ pc' = "top" /\ pin' = nvs.pin
    /\ rotation' = IF nvs.pending THEN "asked" ELSE "none"
    /\ IF ~nvs.pending /\ nvs.enabled THEN enable
       ELSE gate' = "Ready" /\ UNCHANGED <<cache, faults, enabled, rx, adv, suppressed>>
    /\ UNCHANGED <<air, closing, bond, removing, events, connected, restart, auth, throttle,
                   generation, taken, nvs, hist>>
-----------------------------------------------------------------------------
(* Callbacks of the host task. *)

Delivers(k) == events # <<>> /\ Head(events).kind = k

onConnect ==
    /\ Delivers("connect") /\ events' = Tail(events)
    /\ known' = cache /\ completed' = FALSE
    /\ watchdog' = Head(events).link /\ overdue' = FALSE
    /\ UNCHANGED <<air, closing, bonds, adv, gate, enabled, connected, restart, rx,
                   throttle, suppressed, generation, loop, rotating, faults, hist>>

\* A phone that is not known needs the pairing window.  The stack goes on to
\* pair, or to use the bond, and reports the outcome.
attemptAllowed == ~blocked /\ (known \/ window)

onSecurityRequest ==
    /\ Delivers("security")
    /\ LET l == Head(events).link IN
       \/ /\ l # link /\ events' = Tail(events)
          /\ UNCHANGED <<secured, bond, faults, slipped>>
       \/ /\ l = link /\ attemptAllowed
          /\ secured' = "yes" /\ bond' = IF bond = 0 THEN pin ELSE bond
          /\ slipped' = (slipped \/ (bond = 0 /\ pc = "empty"))
          /\ events' = Append(Tail(events), Event("success", l, 0)) /\ UNCHANGED faults
       \/ /\ l = link /\ (IF attemptAllowed THEN Fault ELSE UNCHANGED faults)
          /\ events' = Append(Tail(events), Event("failure", l, 0))
          /\ UNCHANGED <<secured, bond, slipped>>
    /\ UNCHANGED <<link, links, written, closing, removing, cache, adv, gate, enabled,
                   connected, restart, rx, auth, throttle, suppressed, generation, loop,
                   rotating, sessions, handed, raced>>

\* onAuthenticationComplete.  The base class ends a link that failed.
AuthenticationSucceeded ==
    /\ Delivers("success") /\ events' = Tail(events)
    /\ watchdog' = 0 /\ overdue' = FALSE /\ completed' = TRUE
    /\ generation' = generation + 1 /\ connected' = TRUE
    /\ blocked' = FALSE /\ window' = FALSE /\ cache' = TRUE
    /\ sessions' = [sessions EXCEPT ![Head(events).link] = generation']
    /\ raced' = (raced \/ pc = "taken")
    /\ UNCHANGED <<air, closing, bond, removing, adv, gate, enabled, restart, rx, known,
                   suppressed, loop, rotating, faults, handed, slipped>>

AuthenticationFailed ==
    /\ Delivers("failure") /\ events' = Tail(events)
    /\ watchdog' = 0 /\ overdue' = FALSE /\ completed' = TRUE
    /\ blocked' = TRUE /\ suppressed' = TRUE
    /\ closing' = (closing \/ link = Head(events).link)
    /\ UNCHANGED <<air, bonds, adv, gate, enabled, connected, restart, rx, known, window,
                   generation, loop, rotating, faults, hist>>

\* Mutant: a frame that finds the queue full is only dropped.
onWriteDrops ==
    /\ Delivers("write") /\ events' = Tail(events)
    /\ rx' = IF Len(rx) < FRAME_QUEUE_SIZE
             THEN Append(rx, [link |-> Head(events).link, n |-> Head(events).n, gen |-> 0])
             ELSE rx
    /\ UNCHANGED <<air, closing, bonds, adv, gate, enabled, connected, restart, auth,
                   throttle, suppressed, generation, loop, rotating, faults, hist>>

\* A frame that finds the queue full has been acknowledged already: all that
\* waits is dropped and the link is ended.
onWrite ==
    /\ Delivers("write") /\ events' = Tail(events)
    /\ LET e == Head(events) IN
       IF Len(rx) < FRAME_QUEUE_SIZE
       THEN /\ rx' = Append(rx, [link |-> e.link, n |-> e.n, gen |-> 0])
            /\ UNCHANGED closing
       ELSE rx' = <<>> /\ closing' = (closing \/ link = e.link)
    /\ UNCHANGED <<air, bonds, adv, gate, enabled, connected, restart, auth, throttle,
                   suppressed, generation, loop, rotating, faults, hist>>

\* Mutant: frames of the link stay queued.
onDisconnectKeeps ==
    /\ Delivers("disconnect") /\ events' = Tail(events)
    /\ watchdog' = 0 /\ overdue' = FALSE /\ completed' = FALSE
    /\ connected' = FALSE /\ restart' = enabled
    /\ LET abandoned == watchdog # 0 /\ ~completed IN
       /\ blocked' = (blocked \/ abandoned)
       /\ IF enabled THEN applyAdvertisingThrottle(adv, blocked', suppressed \/ abandoned)
          ELSE suppressed' = (suppressed \/ abandoned) /\ UNCHANGED adv
    /\ UNCHANGED <<air, closing, bonds, rx, gate, enabled, known, window, generation, loop,
                   rotating, faults, hist>>

onDisconnect ==
    /\ Delivers("disconnect") /\ events' = Tail(events)
    /\ watchdog' = 0 /\ overdue' = FALSE /\ completed' = FALSE
    /\ connected' = FALSE /\ restart' = enabled /\ rx' = <<>>
    /\ LET abandoned == watchdog # 0 /\ ~completed IN
       /\ blocked' = (blocked \/ abandoned)
       /\ IF enabled THEN applyAdvertisingThrottle(adv, blocked', suppressed \/ abandoned)
          ELSE suppressed' = (suppressed \/ abandoned) /\ UNCHANGED adv
    /\ UNCHANGED <<air, closing, bonds, gate, enabled, known, window, generation, loop,
                   rotating, faults, hist>>

-----------------------------------------------------------------------------
(* The phone, the controller and time. *)

quiet == <<bonds, gate, enabled, connected, restart, rx, suppressed, generation, loop,
           rotating, faults, hist>>

Connect ==
    /\ adv /\ link = 0 /\ links < MaxLinks /\ Len(events) < MaxEvents
    /\ links' = links + 1 /\ link' = links' /\ secured' = "no" /\ written' = 0
    /\ closing' = FALSE /\ adv' = FALSE
    /\ events' = Append(events, Event("connect", link', 0))
    /\ UNCHANGED <<auth, throttle, quiet>>

AsksToSecure ==
    /\ link # 0 /\ secured = "no" /\ secured' = "asked" /\ Len(events) < MaxEvents
    /\ events' = Append(events, Event("security", link, 0))
    /\ UNCHANGED <<link, links, written, closing, adv, auth, throttle, quiet>>

\* The characteristic takes writes on an encrypted link only, and acknowledges them.
Writes ==
    /\ link # 0 /\ secured = "yes" /\ written < MaxWrites /\ Len(events) < MaxEvents
    /\ written' = written + 1
    /\ events' = Append(events, Event("write", link, written'))
    /\ UNCHANGED <<link, links, secured, closing, adv, auth, throttle, quiet>>

\* The phone leaves, or the end that was asked for takes place.
Disconnected ==
    /\ link # 0 /\ link' = 0 /\ closing' = FALSE
    /\ secured' = "no" /\ written' = 0
    /\ events' = Append(events, Event("disconnect", link, 0))
    /\ UNCHANGED <<links, adv, auth, throttle, quiet>>

BondRemoved ==
    /\ removing /\ removing' = FALSE /\ bond' = 0
    /\ UNCHANGED <<air, closing, cache, adv, events, gate, enabled, connected, restart, rx,
                   auth, throttle, suppressed, generation, loop, rotating, faults, hist>>

Late ==
    /\ watchdog # 0 /\ ~overdue /\ overdue' = TRUE
    /\ UNCHANGED <<air, closing, adv, events, watchdog, completed, known, throttle, quiet>>

Unblocked ==
    /\ blocked /\ blocked' = FALSE
    /\ UNCHANGED <<air, closing, adv, events, auth, window, quiet>>

WindowCloses ==
    /\ window /\ window' = FALSE
    /\ UNCHANGED <<air, closing, adv, events, auth, blocked, quiet>>

-----------------------------------------------------------------------------

Host == onConnect \/ onSecurityRequest \/ AuthenticationSucceeded
            \/ AuthenticationFailed \/ onWrite \/ onDisconnect

Loop == companionAdapterInit \/ checkRecvFrame \/ dispatchFrame \/ Handle \/ Rotated

User == \/ \E on \in BOOLEAN : companionBleSetEnabled(on)
        \/ SwitchedBack \/ openPairingWindow

Phone == Connect \/ AsksToSecure \/ Writes \/ Disconnected

Time == Late \/ Unblocked \/ WindowCloses

Next == Host \/ Loop \/ serviceBleBondRotation \/ User \/ Phone \/ BondRemoved \/ Time
            \/ PowerCut

\* The two tasks run, time passes and the controller does what it was asked;
\* the phone and the user do as they like.
Fairness ==
    /\ WF_vars(Host) /\ WF_vars(Loop) /\ WF_vars(serviceBleBondRotation)
    /\ WF_vars(closing /\ Disconnected) /\ WF_vars(BondRemoved)
    /\ WF_vars(Late) /\ WF_vars(Unblocked)

Spec == Init /\ [][Next]_vars /\ Fairness

-----------------------------------------------------------------------------
(* Properties *)

\* A frame is handled in the session of the link it was written on, or in none,
\* unless another session began between the two locks of transports_loop.
HandledInItsSession ==
    pc = "handle" /\ ~raced => taken.gen \in {0, sessions[taken.link]}

\* The frames of a link are handled in the order they were written and without
\* a gap, as long as nothing has asked for the end of the link: a queue that
\* overflows and a transport that is switched off lose frames only of a link
\* that is on its way out.
NoSilentLoss ==
    pc = "handle" /\ taken.link = link /\ ~closing => taken.n = handed[link] + 1

\* Once a rotation is over, and its marker cleared, no bond made with an
\* earlier PIN is left, unless a pairing that was under way came to its end
\* between the count of the bonds and the restart.
BondsMatchPin == ~nvs.pending /\ ~slipped => bond \in {0, nvs.pin}

\* A transport that is switched on comes to advertise or to have an authenticated
\* link, whatever failures, cooldowns and switches came before: no silent radio,
\* and no peer that connects and never authenticates, keeps the app out for good.
ServiceReturns == []<>(~enabled \/ adv \/ (link # 0 /\ secured = "yes"))

\* A rotation comes to its end over failed calls, power cuts and switches.
RotationEnds == []<>~nvs.pending
=============================================================================
