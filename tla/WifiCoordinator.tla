--------------------------- MODULE WifiCoordinator ---------------------------
(***************************************************************************)
(* Who owns the WiFi radio (hal/wifi_coordinator.h, wifi_coordinator.cpp). *)
(* The owners form a stack of at most two leases: a station lease may be   *)
(* suspended by one scan or update.  Each lease remembers the mode of the  *)
(* radio before it, and releasing it restores that mode through a driver   *)
(* that may refuse.  Only the loop task moves leases; a worker task asks   *)
(* for its release by a bit in pending, which the loop serves later.       *)
(***************************************************************************)
EXTENDS Naturals, Sequences, SequencesExt

CONSTANT MaxFaults   \* bound: mode changes the driver refuses

ASSUME WifiCoordinatorConstants == MaxFaults \in Nat

VARIABLES frames,    \* frames_[0 .. depth_ - 1]
          pending,   \* release_requests
          taken,     \* requests taken by the pass of the loop that is serving
          radio,     \* WiFi.getMode()
          link,      \* WiFi.status() = WL_CONNECTED
          faults

wifiVars == <<frames, pending, taken, radio, link, faults>>

Owners == {"Sta", "Scan", "ApOta", "GitHubOta"}
Modes  == {"Off", "Sta", "Ap"}
MAX_DEPTH == 2

Frame == [owner : Owners, requested : Modes, observed : Modes]

topOwner(fs) == IF fs = <<>> THEN "None" ELSE Last(fs).owner
currentOwner == topOwner(frames)
currentMode  == Last(frames).requested      \* only asked of the current owner
hasOwner(o)  == \E i \in DOMAIN frames : frames[i].owner = o

\* Mutant: a scan or an update is granted over any other.
canAcquireOverAny(o) == currentOwner = "None" \/ o # "Sta"

canAcquire(o) ==
    \/ currentOwner \in {"None", o}
    \/ currentOwner = "Sta" /\ o # "Sta"

\* The mode to restore when the top lease goes.
restoredMode(fs) ==
    IF Len(fs) = 1 THEN fs[1].observed ELSE fs[Len(fs) - 1].requested

\* WiFi.mode: nothing to do, done, or refused.
applyRadioMode(mode, done) ==
    \/ radio = mode /\ done /\ UNCHANGED <<radio, faults>>
    \/ radio # mode /\ done /\ radio' = mode /\ UNCHANGED faults
    \/ radio # mode /\ ~done /\ faults < MaxFaults /\ faults' = faults + 1
       /\ UNCHANGED radio

\* A mode change drops the association.
LinkFollows == link' = (link /\ radio' = radio)

Pushed(o, mode) ==
    Append(frames, [owner |-> o, requested |-> mode, observed |-> radio])

\* Mutant: the lease is dropped before the driver has answered.
releaseUnchecked(fs, o, done) ==
    \/ /\ topOwner(fs) # o /\ ~done
       /\ frames' = fs /\ UNCHANGED <<radio, faults>>
    \/ /\ topOwner(fs) = o
       /\ applyRadioMode(restoredMode(fs), done)
       /\ frames' = Front(fs)

\* The lease on top of fs is dropped only once the driver has restored the mode.
releaseWith(fs, o, done) ==
    \/ /\ topOwner(fs) # o /\ ~done
       /\ frames' = fs /\ UNCHANGED <<radio, faults>>
    \/ /\ topOwner(fs) = o
       /\ applyRadioMode(restoredMode(fs), done)
       /\ frames' = IF done THEN Front(fs) ELSE fs

\* Mutant: whoever releases, the top lease goes.
releaseTop(o, done) ==
    IF frames = <<>> THEN ~done /\ UNCHANGED <<frames, radio, faults>>
    ELSE releaseWith(frames, topOwner(frames), done)

release(o, done) == releaseWith(frames, o, done)

\* requestRelease, when asked.
Asked(o, asked) == IF asked THEN pending \cup {o} ELSE pending

\* A release, and a request to be served later when it fails.
ReleaseOrRequest(o, done) ==
    release(o, done) /\ pending' = Asked(o, ~done)

\* A lease whose mode the driver refuses is dropped at once: it is the first
\* one, because a station lease has put the radio in the mode that a scan or
\* a download over it asks for (RadioFollows), and the radio still has the
\* mode it observed.
acquireRefused(mode) ==
    /\ frames = <<>> /\ radio # mode
    /\ faults < MaxFaults /\ faults' = faults + 1
    /\ UNCHANGED <<frames, radio>>

\* got: what it returns.
acquire(o, mode, got) ==
    \/ /\ currentOwner = o /\ got = (currentMode = mode)
       /\ UNCHANGED <<frames, radio, faults>>
    \/ ~canAcquire(o) /\ ~got /\ UNCHANGED <<frames, radio, faults>>
    \/ /\ canAcquire(o) /\ currentOwner # o /\ Len(frames) < MAX_DEPTH
       /\ \/ got /\ applyRadioMode(mode, TRUE) /\ frames' = Pushed(o, mode)
          \/ ~got /\ acquireRefused(mode)

\* The lease without the hardware: the worker will set the mode.
reserveForWorker(o, mode) ==
    IF currentOwner = o THEN currentMode = mode
                        ELSE canAcquire(o) /\ Len(frames) < MAX_DEPTH

Reserved(o, mode) == IF currentOwner = o THEN frames ELSE Pushed(o, mode)

\* servicePendingReleases, one owner at a time in this order.
ReleaseOrder == <<"Scan", "ApOta", "GitHubOta", "Sta">>

takeRequests ==
    /\ taken = {} /\ taken' = pending /\ pending' = {}
    /\ UNCHANGED <<frames, radio, link, faults>>

\* Mutant: a refused release is not asked for again.
serveRequestOnce ==
    \E i \in 1..4 : LET o == ReleaseOrder[i] IN
        /\ o \in taken /\ \A j \in 1..(i - 1) : ReleaseOrder[j] \notin taken
        /\ taken' = taken \ {o}
        /\ \E done \in BOOLEAN : release(o, done)
        /\ LinkFollows /\ UNCHANGED pending

serveRequest ==
    \E i \in 1..4 : LET o == ReleaseOrder[i] IN
        /\ o \in taken /\ \A j \in 1..(i - 1) : ReleaseOrder[j] \notin taken
        /\ taken' = taken \ {o}
        /\ \E done \in BOOLEAN :
              /\ release(o, done)
              /\ pending' = Asked(o, ~done /\ hasOwner(o))
        /\ LinkFollows
=============================================================================
