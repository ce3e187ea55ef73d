----------------------------- MODULE FactoryReset -----------------------------
(***************************************************************************)
(* Boot and factory reset (setup of main.cpp, factoryReset of              *)
(* mesh/mesh_wrapper.cpp, hal/factory_reset_policy.h, hal/prefs.cpp): a    *)
(* reset is a sequence of erasures on the card, in NVS and on SPIFFS,      *)
(* guarded by a marker that boot reads before anything else and that says  *)
(* from which stage an interrupted reset goes on.  Boot selects the        *)
(* message store, so a reset and a migration meet.                         *)
(*                                                                         *)
(* Any write may fail, a failed write of the marker may have reached NVS,  *)
(* and power may be cut before any step.                                   *)
(***************************************************************************)
EXTENDS MessageFailover

CONSTANT MaxCuts     \* bound: power cuts

ASSUME FactoryResetConstants == MaxCuts \in Nat

VARIABLES marker,    \* sigurdos_reset/stage, in NVS
          nvs,       \* the owned namespaces: "user" data, "safe" defaults
          ident,     \* identity, channels and contacts, on SPIFFS
          booting,   \* in setup
          resuming,  \* this reset was found by its marker
          asked,     \* history: the user asked for a reset
          cuts,
          sdWiped,   \* history: this reset has erased the card
          spared,    \* history: it found no card to erase
          old        \* history: messages of before the last completed reset

resetVars == <<marker, nvs, ident, booting, resuming, asked, cuts, sdWiped, spared, old>>
vars == <<pc, media, ram, hist, resetVars>>

Stages == {"Armed", "Nvs", "Spiffs"}
NVS_TARGETS == <<"sigurdos_pw", "chat_scopes", "sigurdos">>
ResetSteps == {"reset", "arm", "mark", "wipe", "save", "stopwarm", "nvsmark", "format", "clear"}
    \cup Range(NVS_TARGETS)

\* The queue never holds more than one message: only the loss of the card
\* queues one, and nothing selects the card again before the next boot.
TypeOK ==
    /\ pc \in {"off", "selected", "run", "halt"} \cup SelectSteps \cup AppendSteps
              \cup ResetSteps
    /\ \A m \in Media : Range(store[m]) \subseteq Messages
    /\ card \in BOOLEAN /\ failures \in 0..MaxFailures
    /\ backend \in Media /\ usingSd \in BOOLEAN
    /\ \A q \in {migration, loaded, queue} : Range(q) \subseteq Messages
    /\ Len(queue) <= 1
    /\ msg \in 0..MaxMessages /\ arrived \in 0..MaxMessages
    /\ \A h \in {kept, late, doubled, old} : h \subseteq Messages
    /\ marker \in Stages \cup {"Absent"}
    /\ nvs \in [Range(NVS_TARGETS) -> {"user", "armed", "safe"}]
    /\ ident \in {"user", "none", "fresh"}
    /\ {booting, resuming, asked, sdWiped, spared} \subseteq BOOLEAN /\ cuts \in 0..MaxCuts

Init ==
    /\ pc = "off" /\ store = [m \in Media |-> <<>>] /\ card = TRUE /\ failures = 0
    /\ backend = "spiffs" /\ usingSd = FALSE /\ migration = <<>> /\ loaded = <<>>
    /\ queue = <<>> /\ msg = 0 /\ arrived = 0
    /\ kept = {} /\ late = {} /\ doubled = {} /\ old = {}
    /\ marker = "Absent" /\ nvs = [t \in Range(NVS_TARGETS) |-> "user"]
    /\ ident = "user" /\ booting = FALSE /\ resuming = FALSE /\ asked = FALSE /\ cuts = 0
    /\ sdWiped = FALSE /\ spared = FALSE

\* A restart: RAM is lost.
Restart ==
    /\ Goes("off") /\ backend' = "spiffs" /\ usingSd' = FALSE
    /\ booting' = FALSE /\ resuming' = FALSE
    /\ migration' = <<>> /\ loaded' = <<>> /\ queue' = <<>> /\ msg' = 0

\* Every operation that fails once data may be gone ends in a restart.
factoryResetTerminalFailure == Errs /\ Restart

\* A device that halted is switched off.
PowerCut ==
    /\ pc # "off"
    /\ \/ cuts < MaxCuts /\ cuts' = cuts + 1
       \/ pc = "halt" /\ UNCHANGED cuts
    /\ Restart
    /\ UNCHANGED <<media, hist, marker, nvs, ident, asked, sdWiped, spared, old>>

-----------------------------------------------------------------------------
(* Boot. *)

\* Mutant: a marker that cannot be read is taken for absent.
SetupLenient ==
    /\ pc = "off" /\ card' \in BOOLEAN /\ booting' = TRUE
    /\ \/ Goes("select") /\ UNCHANGED failures /\ marker \in {"Absent", "Armed"}
       \/ Goes("reset") /\ UNCHANGED failures /\ marker \in {"Nvs", "Spiffs"}
       \/ Goes("run") /\ Errs
    /\ UNCHANGED <<store, ram, hist, marker, nvs, ident, resuming, asked, cuts, sdWiped,
                   spared, old>>

\* Mutant: the store is selected before the marker is read.
SetupSelects ==
    /\ pc = "off" /\ card' \in BOOLEAN /\ booting' = TRUE
    /\ \/ Goes("select") /\ UNCHANGED failures
       \/ Goes("reset") /\ Errs
    /\ UNCHANGED <<store, ram, hist, marker, nvs, ident, resuming, asked, cuts, sdWiped,
                   spared, old>>

\* The marker is read before the store is selected.  Past the first stage, or
\* when it cannot be read, nothing is selected and factoryReset is called.
Setup ==
    /\ pc = "off" /\ card' \in BOOLEAN /\ booting' = TRUE
    /\ \/ Goes("select") /\ UNCHANGED failures /\ marker \in {"Absent", "Armed"}
       \/ Goes("reset") /\ UNCHANGED failures /\ marker \in {"Nvs", "Spiffs"}
       \/ Goes("reset") /\ Errs
    /\ UNCHANGED <<store, ram, hist, marker, nvs, ident, resuming, asked, cuts, sdWiped,
                   spared, old>>

\* Mutant: an armed reset is left for the user to ask for again.
RunAnyway ==
    /\ pc = "selected" /\ Goes("run") /\ booting' = FALSE
    /\ ident' = IF ident = "none" THEN "fresh" ELSE ident
    /\ UNCHANGED <<media, ram, hist, marker, nvs, resuming, asked, cuts, sdWiped, spared,
                   old>>

\* The reset goes on, or the mesh starts, with a new identity if there is none.
Run ==
    /\ pc = "selected"
    /\ IF marker # "Absent" THEN Goes("reset") /\ UNCHANGED <<ident, booting>>
       ELSE /\ Goes("run") /\ booting' = FALSE
            /\ ident' = IF ident = "none" THEN "fresh" ELSE ident
    /\ UNCHANGED <<media, ram, hist, marker, nvs, resuming, asked, cuts, sdWiped, spared,
                   old>>

-----------------------------------------------------------------------------
(* factoryReset. *)

Ask ==
    /\ pc = "run" /\ Goes("reset") /\ asked' = TRUE
    /\ UNCHANGED <<media, ram, hist, marker, nvs, ident, booting, resuming, cuts,
                   sdWiped, spared, old>>

\* The marker is read, by boot for the second time.  One that is there makes it
\* a resumption at its stage.
Begin ==
    /\ pc = "reset"
    /\ \/ /\ Goes(CASE marker = "Absent" -> "arm" [] marker = "Armed" -> "wipe"
                     [] OTHER -> "stopwarm")
          /\ resuming' = (marker # "Absent") /\ UNCHANGED <<failures, ram, booting>>
       \/ factoryResetTerminalFailure
    /\ UNCHANGED <<store, card, hist, marker, nvs, ident, asked, cuts, sdWiped, spared,
                   old>>

\* It returns to the application, or to setup, which halts.
ReturnsFalse == Goes(IF booting THEN "halt" ELSE "run")

\* prefs_arm_factory_reset: the BLE interlock, then the marker.
Arm ==
    /\ pc = "arm"
    /\ \/ Goes("mark") /\ nvs' = [nvs EXCEPT !["sigurdos"] = "armed"]
          /\ UNCHANGED failures
       \/ ReturnsFalse /\ Errs /\ UNCHANGED nvs
    /\ UNCHANGED <<store, card, ram, hist, marker, ident, booting, resuming, asked,
                   cuts, sdWiped, spared, old>>

\* reset_marker_write and reset_marker_clear: the value is set, then committed.
MarkerWritten(s) == marker' = s /\ UNCHANGED failures
MarkerFails(s)   == marker' \in {marker, s}

Mark ==
    /\ pc = "mark"
    /\ \/ Goes("wipe") /\ MarkerWritten("Armed") /\ UNCHANGED failures
       \/ ReturnsFalse /\ Errs /\ MarkerFails("Armed")
    /\ UNCHANGED <<store, card, ram, hist, nvs, ident, booting, resuming, asked,
                   cuts, sdWiped, spared, old>>

\* A companion transport does not stop: the reset is called off, unless it is
\* a resumption.  At boot none has started.
preflightFails ==
    /\ ~booting /\ Errs
    /\ \/ /\ ~resuming /\ marker' = "Absent"
          /\ ReturnsFalse /\ backend' = "spiffs" /\ usingSd' = FALSE
          /\ UNCHANGED <<migration, loaded, queue, msg, booting, resuming>>
       \/ /\ Restart
          /\ IF resuming THEN UNCHANGED marker ELSE MarkerFails("Absent")
    /\ UNCHANGED <<store, sdWiped, spared>>

\* sdMessageStoreReset.
sdMessageStoreReset ==
    /\ pc = "wipe"
    /\ \/ preflightFails
       \/ /\ ~card /\ ~usingSd /\ Goes("save") /\ spared' = TRUE
          /\ backend' = "spiffs" /\ UNCHANGED <<failures, store, usingSd, migration,
                   loaded, queue, msg, marker, booting, resuming, sdWiped>>
       \/ /\ ~card /\ usingSd /\ Restart
          /\ UNCHANGED <<failures, store, marker, sdWiped, spared>>
       \/ /\ card /\ Goes("save") /\ store' = [store EXCEPT !["sd"] = <<>>]
          /\ sdWiped' = TRUE /\ spared' = FALSE
          /\ backend' = "spiffs" /\ usingSd' = FALSE
          /\ UNCHANGED <<failures, migration, loaded, queue, msg, marker, booting,
                         resuming>>
       \/ /\ card /\ factoryResetTerminalFailure
          /\ store' \in {store, [store EXCEPT !["sd"] = <<>>]}
          /\ sdWiped' = (sdWiped \/ store' # store)
          /\ UNCHANGED <<marker, spared>>
    /\ UNCHANGED <<card, hist, nvs, ident, asked, cuts, old>>

\* The rollback snapshot, of which boot has none, and the end of the warm-up
\* task and of SPIFFS.
Step(from, to) ==
    /\ pc = from
    /\ \/ Goes(to) /\ UNCHANGED <<failures, ram, booting, resuming>>
       \/ ~(from = "save" /\ booting) /\ factoryResetTerminalFailure

SaveAndStop ==
    /\ \/ Step("save", "stopwarm")
       \/ Step("stopwarm", IF marker = "Spiffs" THEN "format" ELSE "nvsmark")
    /\ UNCHANGED <<store, card, hist, marker, nvs, ident, asked, cuts, sdWiped, spared,
                   old>>

NvsMark ==
    /\ pc = "nvsmark"
    /\ \/ Goes(NVS_TARGETS[1]) /\ MarkerWritten("Nvs") /\ UNCHANGED <<ram, booting, resuming>>
       \/ factoryResetTerminalFailure /\ MarkerFails("Nvs")
    /\ UNCHANGED <<store, card, hist, nvs, ident, asked, cuts, sdWiped, spared,
                   old>>

\* The preferences come last, and with them the marker of the next stage.
applyNvsTargets ==
    /\ \E i \in 1..3 : LET t == NVS_TARGETS[i] IN
          /\ pc = t
          /\ \/ /\ Goes(IF i = 3 THEN "format" ELSE NVS_TARGETS[i + 1])
                /\ nvs' = [nvs EXCEPT ![t] = "safe"]
                /\ marker' = IF i = 3 THEN "Spiffs" ELSE marker
                /\ UNCHANGED <<failures, ram, booting, resuming>>
             \/ /\ factoryResetTerminalFailure
                /\ nvs' \in {nvs, [nvs EXCEPT ![t] = "safe"]}
                /\ IF i = 3 /\ nvs'[t] = "safe" THEN MarkerFails("Spiffs")
                                                ELSE UNCHANGED marker
    /\ UNCHANGED <<store, card, hist, ident, asked, cuts, sdWiped, spared,
                   old>>

\* A format that fails may have erased everything.
Format ==
    /\ pc = "format"
    /\ \/ /\ Goes("clear") /\ ident' = "none"
          /\ store' = [store EXCEPT !["spiffs"] = <<>>]
          /\ UNCHANGED <<failures, ram, booting, resuming>>
       \/ /\ factoryResetTerminalFailure
          /\ \/ UNCHANGED <<store, ident>>
             \/ ident' = "none" /\ store' = [store EXCEPT !["spiffs"] = <<>>]
    /\ UNCHANGED <<card, hist, marker, nvs, asked, cuts, sdWiped, spared, old>>

Clear ==
    /\ pc = "clear" /\ Restart
    /\ \/ MarkerWritten("Absent")
       \/ Errs /\ MarkerFails("Absent")
    /\ old' = IF marker' = "Absent" THEN 1..arrived ELSE old
    /\ sdWiped' = (sdWiped /\ marker' # "Absent") /\ asked' = (asked /\ marker' # "Absent")
    /\ UNCHANGED <<store, card, hist, nvs, ident, cuts, spared>>

factoryReset ==
    Ask \/ Begin \/ Arm \/ Mark \/ sdMessageStoreReset \/ SaveAndStop \/ NvsMark
        \/ applyNvsTargets \/ Format \/ Clear

-----------------------------------------------------------------------------

Device == Setup \/ Run \/ factoryReset
StoreStep == (sdMessageStoreSelect \/ messageStoreAppend \/ CardChanges)
                 /\ UNCHANGED resetVars

Next == Device \/ StoreStep \/ PowerCut

\* Whoever has power goes on; a failure, a cut or a new card is never certain.
Fairness == WF_vars(Setup \/ Run \/ (factoryReset /\ ~Ask)
                    \/ (sdMessageStoreSelect /\ UNCHANGED resetVars))

Spec == Init /\ [][Next]_vars /\ Fairness

-----------------------------------------------------------------------------
(* Properties *)

\* An acknowledged message is on one of the media, whatever fails or is cut
\* during migration, retirement, restoration and failover, until a factory
\* reset erases it.
KeptSurvive ==
    ident # "none" /\ ~sdWiped =>
        kept \ old \subseteq Range(store["sd"]) \cup Range(store["spiffs"])

\* A store is in the order of arrival and holds a message once, however often it is
\* migrated or tried again, except for messages that waited in the queue or were
\* left behind by a boot that could not read SPIFFS, and for copies made because
\* the lookup could not read the message.
HistoryOrdered ==
    \A m \in Media : \A i, j \in DOMAIN store[m] :
        /\ i < j /\ store[m][j] < store[m][i] => store[m][j] \in late \cup doubled
        /\ i # j /\ store[m][i] = store[m][j] => store[m][i] \in doubled

\* The application runs with all of the user's data or with none of it: no
\* interrupted reset, failed write or unreadable marker lets it start on a
\* device that is partly erased.
NeverMixed ==
    pc \in {"run"} \cup AppendSteps =>
        \/ /\ ident = "user" /\ ~sdWiped
           /\ nvs["sigurdos_pw"] = "user" /\ nvs["chat_scopes"] = "user"
        \/ /\ ident = "fresh" /\ \A t \in Range(NVS_TARGETS) : nvs[t] # "user"
           /\ Range(store["spiffs"]) \cap old = {}
           /\ spared \/ Range(store["sd"]) \cap old = {}

\* Once the card is erased, a reset that is interrupted and resumed does not
\* bring messages back to it from SPIFFS.
WipedStaysWiped ==
    marker \in {"Nvs", "Spiffs"} /\ ~spared => store["sd"] = <<>>

\* A reset that has begun to erase comes to its end or is called off, over
\* failures, lost cards and power cuts.
ResetEnds == pc = "wipe" ~> marker = "Absent"

\* A device erases its data only when the user has asked for a reset
\* (main.cpp:379: "A reset marker means a destructive wipe was interrupted or
\* is being resumed").
ErasedOnRequest ==
    pc \in {"wipe", "save", "nvsmark", "format", "clear"} \cup Range(NVS_TARGETS) => asked
=============================================================================
