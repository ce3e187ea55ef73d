------------------------------ MODULE OtaUpdate ------------------------------
(***************************************************************************)
(* The users of the WiFi radio and the restart that ends an update:        *)
(* the station link, the site survey and the local update of               *)
(* hal/wifi_ota.cpp, the GitHub update of hal/github_ota.cpp, and the task *)
(* of hal/storage.cpp that warms the filesystem up after boot.             *)
(*                                                                         *)
(* The loop task runs its hooks in a fixed order, with the user's taps     *)
(* between them; each update has a worker task on the other core, and a    *)
(* worker that has ended its session may still be on its way out when the  *)
(* next one starts.  Both workers write flash through the one Update       *)
(* object.  What a download or an upload contains is left out: a transfer  *)
(* goes on, fails, or is complete, and its image verifies or not.  So are  *)
(* clocks: a timeout may have passed whenever it is looked at.             *)
(***************************************************************************)
EXTENDS WifiCoordinator, FiniteSets

CONSTANTS MaxStarts,               \* bound: sessions started, and refusals before them
          MAX_SAVE_STATE_RETRIES

ASSUME OtaUpdateConstants ==
    /\ MaxStarts \in Nat \ {0}
    /\ MAX_SAVE_STATE_RETRIES \in Nat \ {0}

VARIABLES phase,      \* what the loop task runs next
          sta,        \* wifi_sta: s_status, and whether a reconnection is set
          scan,       \* wifi_scan: Status::Running, scan_lease_held
          gh,         \* github_ota: s_active, s_cancelled, s_reboot_pending, state
          ghw,        \* its workers: where each is
          ap,         \* ota: the flags shared by the loop and the worker
          apw,        \* its workers
          flash,      \* who has Update running
          image,      \* what the boot partition holds: see below
          warm,       \* storage_warm_task and s_storage_warm_cancel
          starts,
          races       \* history: see below

vars == <<wifiVars, phase, sta, scan, gh, ghw, ap, apw, flash, image, warm,
          starts, races>>

Phases == {"service", "serving", "ui", "saving", "github", "warmjoin", "sta",
           "join", "off"}
Workers == 1..MaxStarts

\* Of Failed and Idle the code tells nothing apart but the text it shows.
GhStates  == {"Idle", "Connecting", "Downloading", "Success"}
\* "Armed" is Idle or Failed with s_next_reconnect_ms set.
StaStates == {"Idle", "Armed", "Connecting", "Connected"}
ApSteps   == {"none", "start", "serve", "cleanup", "retire", "ack"}

\* "old": the running image boots next.  "new": a verified one does.
\* "torn": the next one to boot is being overwritten.
Images == {"old", "new", "torn"}

\* What went by too closely since boot.  "GitHubOta", "ApOta": the session
\* began on a lease that was already asked back.  "exit": a local session
\* began before the last worker had acknowledged its exit.  "image": an update
\* began while the other's was waiting for the restart.
Races == {"GitHubOta", "ApOta", "exit", "image"}

TypeOK ==
    /\ frames \in Seq(Frame) /\ Len(frames) <= MAX_DEPTH
    /\ pending \subseteq Owners /\ taken \subseteq Owners
    /\ radio \in Modes /\ link \in BOOLEAN /\ faults \in 0..MaxFaults
    /\ phase \in Phases /\ sta \in StaStates
    /\ scan \in [running : BOOLEAN, lease : BOOLEAN]
    /\ gh \in [active : BOOLEAN, cancelled : BOOLEAN, reboot : BOOLEAN,
               state : GhStates]
    /\ ghw \in [Workers -> {"none", "run", "failing", "finishing"}]
    /\ ap \in [active : BOOLEAN, stop : BOOLEAN, exited : BOOLEAN,
               parked : BOOLEAN, releasing : BOOLEAN, reboot : BOOLEAN,
               retries : 0..MAX_SAVE_STATE_RETRIES]
    /\ apw \in [Workers -> ApSteps]
    /\ flash \in {"idle", "gh", "ap"} /\ image \in Images
    /\ warm \in {"running", "gone"}
    /\ starts \in 0..MaxStarts
    /\ races \subseteq Races

GhIdle == [active |-> FALSE, cancelled |-> FALSE, reboot |-> FALSE,
           state |-> "Idle"]
ApIdle == [active |-> FALSE, stop |-> FALSE, exited |-> TRUE, parked |-> FALSE,
           releasing |-> FALSE, reboot |-> FALSE, retries |-> 0]
NoScan == [running |-> FALSE, lease |-> FALSE]
NoWorkers == [i \in Workers |-> "none"]

\* Boot is over.
Init ==
    /\ frames = <<>> /\ pending = {} /\ taken = {}
    /\ radio = "Off" /\ link = FALSE /\ faults = 0
    /\ sta = "Idle" /\ scan = NoScan /\ gh = GhIdle /\ ap = ApIdle
    /\ ghw = NoWorkers /\ apw = NoWorkers
    /\ flash = "idle" /\ image = "old" /\ starts = 0
    /\ races = {}
    /\ phase = "service" /\ warm = "running"

Free(ws) == CHOOSE i \in Workers : ws[i] = "none"

\* A lease granted to an update whose release is still asked for.
Inherit(o) == IF currentOwner = o /\ o \in pending
              THEN races \cup {o} ELSE races \ {o}

-----------------------------------------------------------------------------
(* wifi_sta: the persistent station link.  Nothing depends on its lease    *)
(* marker, which is left out.                                              *)

\* isConnected: the hardware decides.
Synced(s, up) == IF up THEN "Connected" ELSE IF s = "Connected" THEN "Armed" ELSE s

beginConnect ==
    \E got \in BOOLEAN :
        /\ acquire("Sta", "Sta", got)
        /\ sta' = IF got THEN "Connecting" ELSE sta
        /\ link' = (link /\ radio' = radio /\ ~got)
        /\ UNCHANGED <<pending, taken>>

releaseAfterFailure ==
    /\ \E done \in BOOLEAN : ReleaseOrRequest("Sta", done)
    /\ sta' = "Armed" /\ link' = FALSE
    /\ UNCHANGED taken

disconnect ==
    /\ hasOwner("Sta")
    /\ \E done \in BOOLEAN : ReleaseOrRequest("Sta", done)
    /\ sta' = "Idle"
    /\ link' = (link /\ radio' = radio /\ sta \notin {"Connecting", "Connected"})
    /\ UNCHANGED taken

\* wifi_sta::loop: nothing while a scan or an update owns the radio.  A
\* reconnection is armed by one pass and tried when its time has come.
StaLoop ==
    /\ phase = "sta" \/ (phase = "github" /\ ~gh.reboot)
    /\ phase' = "service"
    /\ \/ /\ currentOwner \notin {"None", "Sta"}
          /\ UNCHANGED <<wifiVars, sta>>
       \/ /\ currentOwner \in {"None", "Sta"}
          /\ \/ link /\ sta' = "Connected" /\ UNCHANGED wifiVars
             \/ /\ ~link /\ sta' = IF sta = "Connecting" THEN sta ELSE "Armed"
                /\ UNCHANGED wifiVars
             \/ ~link /\ sta = "Connecting" /\ releaseAfterFailure
             \/ ~link /\ sta = "Armed" /\ beginConnect
    /\ UNCHANGED <<scan, gh, ghw, ap, apw, flash, image, warm, starts, races>>

\* The access point answers, or the association is lost.
LinkChanges ==
    /\ phase # "off" /\ radio = "Sta"
    /\ link' = ~link
    /\ UNCHANGED <<frames, pending, taken, radio, faults, phase, sta, scan, gh,
                   ghw, ap, apw, flash, image, warm, starts, races>>

-----------------------------------------------------------------------------
(* wifi_scan: the site survey of the networks screen. *)

beginScan ==
    /\ ~(scan.lease /\ hasOwner("Scan"))
    /\ \E got \in BOOLEAN :
          /\ acquire("Scan", "Sta", got)
          /\ scan' = IF got THEN [running |-> TRUE, lease |-> TRUE]
                            ELSE [scan EXCEPT !.lease = FALSE]
    /\ LinkFollows /\ UNCHANGED <<pending, taken>>

\* poll's ends and cancel: whatever the outcome, releaseScan.
endScan ==
    /\ scan.running
    /\ IF scan.lease
       THEN \E done \in BOOLEAN :
               /\ ReleaseOrRequest("Scan", done)
               /\ scan' = [running |-> FALSE, lease |-> ~done]
       ELSE /\ scan' = [scan EXCEPT !.running = FALSE]
            /\ UNCHANGED <<frames, pending, radio, faults>>
    /\ LinkFollows /\ UNCHANGED taken

\* What the user does on the networks screen, and the icon that shows the link.
NetworkScreen ==
    /\ phase = "ui"
    /\ \/ sta' = Synced(sta, link) /\ UNCHANGED <<wifiVars, scan>>
       \/ beginConnect /\ UNCHANGED scan
       \/ disconnect /\ UNCHANGED scan
       \/ beginScan /\ UNCHANGED sta
       \/ endScan /\ UNCHANGED sta
    /\ UNCHANGED <<phase, gh, ghw, ap, apw, flash, image, warm, starts, races>>

-----------------------------------------------------------------------------
(* github_ota.  A worker runs serviceWorker while its loop condition       *)
(* holds; fail() asks for the release of the radio before it clears        *)
(* s_active.                                                               *)

\* Update.begin: the partition that is rewritten may be the one to boot next.
Begin(who) ==
    /\ flash = "idle" /\ flash' = who
    /\ image' = IF image = "new" THEN "torn" ELSE image
    /\ races' = IF image = "new" THEN races \cup {"image"} ELSE races

\* Refused, started, or failed because no task could be created: then fail()
\* runs on the loop task.
startGitHubUpdate ==
    /\ phase = "ui" /\ ~gh.active /\ starts + faults < MaxStarts
    /\ starts' = starts + 1
    /\ \E got, task \in BOOLEAN :
          /\ acquire("GitHubOta", "Sta", got) /\ LinkFollows
          /\ pending' = Asked("GitHubOta", got /\ ~task)
          /\ races' = IF got THEN Inherit("GitHubOta") ELSE races
          /\ sta' = IF got THEN Synced(sta, link') ELSE sta
          /\ gh' = IF got /\ task
                   THEN [active |-> TRUE, cancelled |-> FALSE, reboot |-> FALSE,
                         state |-> "Connecting"]
                   ELSE [gh EXCEPT !.state = "Idle", !.reboot = @ /\ ~got,
                                   !.cancelled = @ /\ ~got]
          /\ ghw' = IF got /\ task THEN [ghw EXCEPT ![Free(ghw)] = "run"] ELSE ghw
          /\ flash' = IF got /\ ~task THEN "idle" ELSE flash
    /\ UNCHANGED <<taken, phase, scan, ap, apw, image, warm>>

\* The dialog's close button.
cancel ==
    /\ phase = "ui" /\ gh.active
    /\ gh' = [gh EXCEPT !.cancelled = TRUE]
    /\ UNCHANGED <<wifiVars, phase, sta, scan, ghw, ap, apw, flash, image, warm,
                   starts, races>>

GhGoes(i, to) == ghw' = [ghw EXCEPT ![i] = to]

\* fail(), up to the request; Update.abort ends whatever write is running.
GhFail(i) ==
    /\ gh' = [gh EXCEPT !.state = "Idle"]
    /\ flash' = "idle"
    /\ pending' = pending \cup {"GitHubOta"}
    /\ GhGoes(i, "failing")

GhTransfer(i) ==
    \/ GhFail(i) /\ UNCHANGED <<image, races>>
    \/ /\ gh.state = "Connecting" /\ link /\ Begin("gh")
       /\ gh' = [gh EXCEPT !.state = "Downloading"]
       /\ UNCHANGED <<ghw, pending>>
    \/ UNCHANGED <<ghw, gh, flash, image, pending, races>>
    \/ /\ gh.state = "Downloading" /\ flash # "idle"   \* all written: Update.end
       /\ flash' = "idle" /\ UNCHANGED races
       /\ \/ /\ image' = "new"
             /\ gh' = [gh EXCEPT !.state = "Success"]
             /\ pending' = pending \cup {"GitHubOta"} /\ GhGoes(i, "finishing")
          \/ image' = "old" /\ GhFail(i)

\* One pass of serviceWorker; of the other states nothing is left to do.
serviceWorker(i) ==
    \/ gh.cancelled /\ GhFail(i) /\ UNCHANGED <<image, races>>
    \/ /\ ~gh.cancelled /\ gh.state \in {"Connecting", "Downloading"}
       /\ GhTransfer(i)

GhWorker(i) ==
    /\ phase # "off"
    /\ \/ ghw[i] = "run" /\ gh.active /\ ~gh.reboot /\ serviceWorker(i)
       \/ /\ ghw[i] = "run" /\ ~(gh.active /\ ~gh.reboot) /\ GhGoes(i, "none")
          /\ UNCHANGED <<gh, flash, image, pending, races>>
       \/ /\ ghw[i] = "failing"
          /\ gh' = [gh EXCEPT !.active = FALSE, !.cancelled = FALSE]
          /\ GhGoes(i, "run") /\ UNCHANGED <<flash, image, pending, races>>
       \/ /\ ghw[i] = "finishing" /\ gh' = [gh EXCEPT !.reboot = TRUE]
          /\ GhGoes(i, "run") /\ UNCHANGED <<flash, image, pending, races>>
    /\ UNCHANGED <<frames, taken, radio, link, faults, phase, sta, scan, ap, apw,
                   warm, starts>>

-----------------------------------------------------------------------------
(* ota: the local update.  Its worker starts the session, serves it and    *)
(* cleans up; then it clears active and acknowledges its exit.  parked is  *)
(* using_access_point, with which companion_transport_parked always goes.  *)

finalizePendingApRelease(a) ==
    IF a.releasing /\ ~hasOwner("ApOta")
    THEN [a EXCEPT !.releasing = FALSE, !.parked = FALSE] ELSE a

\* Cleanup, a session or a reboot still to come: refused before the reservation.
startRefused ==
    LET a == finalizePendingApRelease(ap) IN
    /\ a.releasing \/ a.active \/ a.reboot
    /\ ap' = a /\ pending' = Asked("ApOta", a.releasing)
    /\ UNCHANGED <<frames, radio, faults, sta, apw, races>>

\* The reservation, and a worker to use it.  Without one it is given back.
startReserved ==
    LET a    == finalizePendingApRelease(ap)
        mode == IF link THEN "Sta" ELSE "Ap"
    IN
    /\ ~(a.releasing \/ a.active \/ a.reboot)
    /\ sta' = Synced(sta, link)
    /\ \/ /\ ~reserveForWorker("ApOta", mode)
          /\ ap' = a
          /\ UNCHANGED <<frames, pending, radio, faults, apw, races>>
       \/ /\ reserveForWorker("ApOta", mode)
          /\ frames' = Reserved("ApOta", mode)
          /\ ap' = [a EXCEPT !.active = TRUE, !.stop = FALSE, !.exited = FALSE,
                             !.parked = ~link]
          /\ apw' = [apw EXCEPT ![Free(apw)] = "start"]
          /\ races' = Inherit("ApOta") \cup
                       (IF \E i \in Workers : apw[i] # "none" THEN {"exit"} ELSE {})
          /\ UNCHANGED <<pending, radio, faults>>
       \/ /\ reserveForWorker("ApOta", mode)
          /\ \E done \in BOOLEAN :
                /\ releaseWith(Reserved("ApOta", mode), "ApOta", done)
                /\ pending' = Asked("ApOta", ~done)
          /\ ap' = [a EXCEPT !.stop = FALSE, !.exited = TRUE, !.parked = FALSE]
          /\ UNCHANGED <<apw, races>>

start ==
    /\ phase = "ui" /\ starts + faults < MaxStarts
    /\ starts' = starts + 1
    /\ startRefused \/ startReserved
    /\ LinkFollows
    /\ UNCHANGED <<taken, phase, scan, gh, ghw, flash, image, warm>>

ApGoes(i, to) == apw' = [apw EXCEPT ![i] = to]

\* The driver is restarted, which may fail halfway.
startAccessPoint(up) == radio' \in IF up THEN {"Ap"} ELSE {"Off", "Ap"}

\* startSession: without an access point the station link is used; the server
\* may not be allocated.
ApStart(i) ==
    /\ apw[i] = "start"
    /\ \/ ap.stop /\ ApGoes(i, "cleanup") /\ UNCHANGED radio
       \/ /\ ~ap.stop
          /\ \E up \in BOOLEAN :
                /\ IF ap.parked THEN startAccessPoint(up) ELSE UNCHANGED radio
                /\ ApGoes(i, IF up THEN "serve" ELSE "cleanup")
    /\ LinkFollows
    /\ UNCHANGED <<ap, pending, flash, image, races>>

\* handleClient: an upload begins, is refused or fails, or is complete and
\* its image verifies or not.  Then the loop owns the reboot.
ApUpload(i) ==
    /\ apw[i] = "serve" /\ ~ap.stop
    /\ \/ Begin("ap") /\ UNCHANGED ap
       \/ flash' = "idle" /\ UNCHANGED <<image, ap, races>>
       \/ /\ flash = "ap" /\ flash' = "idle" /\ UNCHANGED races
          /\ \/ image' = "new" /\ ap' = [ap EXCEPT !.reboot = TRUE, !.stop = TRUE]
             \/ image' = "old" /\ UNCHANGED ap
    /\ UNCHANGED <<radio, link, pending, apw>>

\* cleanupServer.
ApCleanup(i) ==
    /\ apw[i] = "cleanup"
    /\ flash' = "idle"
    /\ radio' = IF ap.parked /\ radio = "Ap" THEN "Off" ELSE radio
    /\ ap' = [ap EXCEPT !.releasing = @ \/ ap.parked]
    /\ pending' = pending \cup {"ApOta"}
    /\ ApGoes(i, "retire")
    /\ LinkFollows
    /\ UNCHANGED <<image, races>>

\* Mutant: the exit is acknowledged before the cleanup.
ApLeaveAckFirst(i) ==
    /\ \/ apw[i] = "serve" /\ ApGoes(i, "cleanup")
          /\ ap' = [ap EXCEPT !.exited = TRUE]
       \/ apw[i] = "retire" /\ ApGoes(i, "none") /\ ap' = [ap EXCEPT !.active = FALSE]
    /\ UNCHANGED <<radio, link, pending, flash, image, races>>

\* The session was stopped or has expired; the last two stores of the worker.
ApLeave(i) ==
    /\ \/ apw[i] = "serve" /\ ApGoes(i, "cleanup") /\ UNCHANGED ap
       \/ apw[i] = "retire" /\ ApGoes(i, "ack") /\ ap' = [ap EXCEPT !.active = FALSE]
       \/ apw[i] = "ack" /\ ApGoes(i, "none") /\ ap' = [ap EXCEPT !.exited = TRUE]
    /\ UNCHANGED <<radio, link, pending, flash, image, races>>

otaServerWorker(i) ==
    /\ phase # "off"
    /\ ApStart(i) \/ ApUpload(i) \/ ApCleanup(i) \/ ApLeave(i)
    /\ UNCHANGED <<frames, taken, faults, phase, sta, scan, gh, ghw, warm, starts>>

-----------------------------------------------------------------------------
(* The loop task, and the warm-up task it has to join. *)

Loop(from, to) == phase = from /\ phase' = to

servicePendingReleases ==
    /\ \/ Loop("service", "ui") /\ pending = {} /\ taken = {} /\ UNCHANGED wifiVars
       \/ Loop("service", "serving") /\ pending # {} /\ takeRequests
       \/ phase = "serving" /\ serveRequest
          /\ phase' = IF taken' = {} THEN "ui" ELSE "serving"
    /\ UNCHANGED <<sta, scan, gh, ghw, ap, apw, flash, image, warm, starts, races>>

\* ota::loop, after the screens: an expired session is told to stop; a
\* completed one is followed by a checkpoint and the restart.
OtaLoop ==
    LET a == finalizePendingApRelease(ap) IN
    /\ phase = "ui"
    /\ \/ ~(a.reboot /\ ~a.active) /\ ap' = a /\ phase' = "github"
       \/ /\ a.active /\ ~a.reboot /\ \E i \in Workers : apw[i] = "serve"
          /\ ap' = [a EXCEPT !.stop = TRUE] /\ phase' = "github"
       \/ /\ a.reboot /\ ~a.active
          /\ ap' = [a EXCEPT !.reboot = FALSE] /\ phase' = "saving"
    /\ UNCHANGED <<wifiVars, sta, scan, gh, ghw, apw, flash, image, warm, starts,
                   races>>

\* A restart or a sleep: RAM is lost, and the boot partition is booted.
PowerDown ==
    /\ frames' = <<>> /\ pending' = {} /\ taken' = {}
    /\ radio' = "Off" /\ link' = FALSE /\ faults' = 0
    /\ sta' = "Idle" /\ scan' = NoScan /\ gh' = GhIdle /\ ap' = ApIdle
    /\ ghw' = NoWorkers /\ apw' = NoWorkers
    /\ flash' = "idle" /\ image' = "old" /\ starts' = 0
    /\ races' = {}
    /\ phase' = "off" /\ warm' = "gone"

\* mesh::saveState; after enough failures the restart comes without it.
OtaSaved ==
    /\ phase = "saving"
    /\ \/ PowerDown
       \/ /\ ap.retries + 1 < MAX_SAVE_STATE_RETRIES
          /\ ap' = [ap EXCEPT !.reboot = TRUE, !.retries = @ + 1]
          /\ phase' = "github"
          /\ UNCHANGED <<wifiVars, sta, scan, gh, ghw, apw, flash, image, warm,
                         starts, races>>

\* Mutant: a restart put off by the warm-up task is forgotten.
GitHubLoopOnce ==
    /\ \/ Loop("github", "warmjoin") /\ gh.reboot
       \/ Loop("warmjoin", "sta") /\ warm # "gone"
    /\ gh' = [gh EXCEPT !.reboot = FALSE]
    /\ UNCHANGED <<wifiVars, sta, scan, ghw, ap, apw, flash, image, warm, starts,
                   races>>

\* github_ota::loop, which does nothing unless a reboot is pending:
\* storage_stop_warm first, a join with a time limit.
GitHubLoop ==
    /\ \/ Loop("github", "warmjoin") /\ gh.reboot /\ gh' = [gh EXCEPT !.reboot = FALSE]
       \/ Loop("warmjoin", "sta") /\ warm # "gone" /\ gh' = [gh EXCEPT !.reboot = TRUE]
    /\ UNCHANGED <<wifiVars, sta, scan, ghw, ap, apw, flash, image, warm, starts,
                   races>>

GitHubRestart == phase = "warmjoin" /\ warm = "gone" /\ PowerDown

\* mesh::shutdown: both updates are told to stop, the local one is joined for
\* a limited time, then the checkpoint is written and the device sleeps.
Shutdown ==
    /\ phase = "ui" /\ ap.active
    /\ phase' = "join"
    /\ gh' = [gh EXCEPT !.cancelled = @ \/ gh.active]
    /\ ap' = [ap EXCEPT !.stop = TRUE]
    /\ UNCHANGED <<wifiVars, sta, scan, ghw, apw, flash, image, warm, starts, races>>

ShutdownIdle == phase = "ui" /\ ~ap.active /\ PowerDown

\* The worker has acknowledged its exit, or the time is up.
Joined == phase = "join" /\ PowerDown

Boot ==
    /\ phase = "off" /\ phase' = "service" /\ warm' = "running"
    /\ UNCHANGED <<wifiVars, sta, scan, gh, ghw, ap, apw, flash, image, starts, races>>

\* storage_warm_task ends when its writes are done, when one fails, or when it
\* sees the cancellation before the next.  Only the join looks at it: one that
\* ended earlier, or never ran, is one that ends as the join begins.
WarmTask ==
    /\ phase = "warmjoin" /\ warm = "running" /\ warm' = "gone"
    /\ UNCHANGED <<wifiVars, phase, sta, scan, gh, ghw, ap, apw, flash, image,
                   starts, races>>

LoopTask == servicePendingReleases \/ OtaLoop \/ OtaSaved \/ GitHubLoop
                \/ GitHubRestart \/ StaLoop \/ Joined

Next ==
    \/ LoopTask \/ NetworkScreen \/ startGitHubUpdate \/ cancel \/ start
    \/ Shutdown \/ ShutdownIdle \/ Boot
    \/ \E i \in Workers : GhWorker(i) \/ otaServerWorker(i)
    \/ WarmTask \/ LinkChanges

\* The loop task always runs on and the workers are scheduled; a transfer may
\* take as long as it likes, but a worker that is done leaves, and the warm-up
\* ends.
WorkersLeave ==
    \E i \in Workers :
        \/ (ghw[i] # "run" \/ ~gh.active \/ gh.reboot) /\ GhWorker(i)
        \/ otaServerWorker(i) /\ ~ApUpload(i)

Fairness == WF_vars(LoopTask) /\ WF_vars(WorkersLeave) /\ SF_vars(WarmTask)

Spec == Init /\ [][Next]_vars /\ Fairness

-----------------------------------------------------------------------------
(* Properties *)

GhRunning   == gh.active /\ gh.state \in {"Connecting", "Downloading"}
ApRunning   == \E i \in Workers : apw[i] \in {"start", "serve", "cleanup"}

\* A survey or an update in progress owns the radio, whatever the other users
\* do and however late a release is served, unless it began on a lease that
\* was about to be taken back: acquire gives the owner of the lease the lease
\* again without looking for a pending request.
LeaseHeld ==
    /\ scan.running => hasOwner("Scan")
    /\ GhRunning => hasOwner("GitHubOta") \/ "GitHubOta" \in races
    /\ ApRunning => hasOwner("ApOta") \/ "ApOta" \in races

\* A GitHub update in progress owns the radio, with no exception: the code
\* lets a new session take over the lease that the last one has asked back.
UpdateOwnsRadio == GhRunning => hasOwner("GitHubOta")

\* The radio follows the leases: in the station mode under a station, survey
\* or download lease, and off again once nobody owns it.  No refused mode
\* change, no reservation given back and no worker leaves it otherwise.  While
\* the access point of the local update is on the air, and until its lease is
\* given back, the companion listeners are parked.
RadioFollows ==
    /\ frames = <<>> => radio = "Off"
    /\ currentOwner \in {"Sta", "Scan", "GitHubOta"} => radio = "Sta"
    /\ radio = "Ap" => ap.parked
    /\ \A i \in DOMAIN frames : frames[i].requested = "Ap" => ap.parked

\* An acknowledged exit means that the worker has left the server, so that
\* stop() may go on, unless a session began before the last worker's
\* acknowledgement had landed.
AckMeansGone == ap.exited /\ "exit" \notin races => ~ApRunning

ByGitHub == gh' # gh \/ ghw' # ghw \/ starts' # starts

\* An update's image is its own from begin to restart.  The one Update object is
\* ended only by the update that began it: as long as the leases keep the two
\* apart, a session that fails never aborts the other's write.  The device is
\* restarted only into an image that was verified, unless the other update began
\* to rewrite it while the restart was pending: each refuses to start before its
\* own restart, not before the other's.
ImageIntact ==
    [][/\ races \subseteq {"exit"} /\ phase' # "off" =>
             /\ flash = "gh" /\ flash' # "gh" => ByGitHub
             /\ flash = "ap" /\ flash' # "ap" => ~ByGitHub
       /\ phase' = "off" /\ phase \in {"saving", "warmjoin"} =>
             image = "new" \/ "image" \in races]_vars

\* A lease whose survey or update has ended is given back, after the driver's
\* refusals too: time and again, no lease is without its user.
LeaseReturned ==
    []<>(/\ hasOwner("Scan") => scan.running
         /\ hasOwner("GitHubOta") => gh.active
         /\ hasOwner("ApOta") => ap.active)

\* A completed update is followed by the restart, however often the warm-up
\* task is late and the checkpoint fails, unless it is cancelled while the
\* loop waits for the warm-up task.
RestartDue ==
    \/ ap.reboot \/ phase = "saving"
    \/ gh.active /\ gh.state = "Success" /\ ~gh.cancelled

RestartFollows == []<>~RestartDue
=============================================================================
