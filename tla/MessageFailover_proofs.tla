------------------------ MODULE MessageFailover_proofs ------------------------
(***************************************************************************)
(* Proofs about the messages on the two media, for every number of         *)
(* messages, failures and power cuts and every capacity of the queue:      *)
(* MessageFailover as FactoryReset composes it with boot and reset.  The   *)
(* argument uses what FactoryReset_proofs says of the control.             *)
(***************************************************************************)
EXTENDS FactoryReset_proofs

Typed ==
    /\ store \in [Media -> Seq(Messages)] /\ backend \in Media
    /\ migration \in Seq(Messages) /\ loaded \in Seq(Messages) /\ queue \in Seq(Messages)
    /\ arrived \in 0..MaxMessages
    /\ pc \in AppendSteps => msg \in 1..arrived \ old
    /\ kept \subseteq 1..arrived /\ old \subseteq 1..arrived

\* What a reset has erased is in no list of a later boot.
Forgotten ==
    /\ Range(store["spiffs"]) \cap old = {} /\ Range(migration) \cap old = {}
    /\ Range(loaded) \cap old = {} /\ Range(queue) \cap old = {}
    /\ ~spared => Range(store["sd"]) \cap old = {}
    /\ pc = "clear" => store["spiffs"] = <<>>

\* What was loaded for migration is all that SPIFFS holds, and the card has it when
\* SPIFFS is emptied.
Migrated ==
    /\ pc \in {"open", "copy"} => loaded = <<>> \/ loaded = store["spiffs"]
    /\ pc \in {"verify", "retire"} => loaded = store["spiffs"]
    /\ pc = "retire" => Range(loaded) \subseteq Range(store["sd"])
    /\ pc \in {"reopen", "restore"} => store["spiffs"] = <<>>

\* KeptSurvive, also for a device that has just been reset.
Stored ==
    (ident # "none" \/ marker = "Absent") /\ ~sdWiped =>
        kept \ old \subseteq Range(store["sd"]) \cup Range(store["spiffs"])

\* The inductive invariant of the messages.
Data == Typed /\ Forgotten /\ Migrated /\ Stored

USE DEF resetVars, media, ram, hist, Media, Stages, Targets, Erased, Running, AppendSteps,
        SelectSteps, Goes, Errs, Works, Fails, Restart, factoryResetTerminalFailure,
        MarkerWritten, MarkerFails, ReturnsFalse

-----------------------------------------------------------------------------
LEMMA EmptyRange == Range(<<>>) = {}
  BY DEF Range

LEMMA AppendRange ==
    ASSUME NEW S, NEW s \in Seq(S), NEW x \in S
    PROVE  Append(s, x) \in Seq(S) /\ Range(Append(s, x)) = Range(s) \cup {x}
<1>1. Append(s, x) \in Seq(S) /\ DOMAIN Append(s, x) = 1..Len(s) + 1 /\ DOMAIN s = 1..Len(s)
  OBVIOUS
<1>2. Append(s, x)[Len(s) + 1] = x /\ \A i \in 1..Len(s) : Append(s, x)[i] = s[i]
  OBVIOUS
<1>3. Len(s) \in Nat
  OBVIOUS
<1> QED
  BY <1>1, <1>2, <1>3 DEF Range

LEMMA HeadTailRange ==
    ASSUME NEW S, NEW s \in Seq(S), s # <<>>
    PROVE  /\ Head(s) \in S /\ Head(s) \in Range(s)
           /\ Tail(s) \in Seq(S) /\ Range(Tail(s)) \subseteq Range(s)
<1>1. Len(s) \in Nat \ {0} /\ DOMAIN s = 1..Len(s) /\ Head(s) = s[1]
  OBVIOUS
<1>2. /\ Tail(s) \in Seq(S) /\ DOMAIN Tail(s) = 1..Len(s) - 1
      /\ \A i \in 1..Len(s) - 1 : Tail(s)[i] = s[i + 1]
  OBVIOUS
<1> QED
  BY <1>1, <1>2 DEF Range

\* An attempt adds at most its message, and only to its medium.
LEMMA AppendOnceAdds ==
    ASSUME store \in [Media -> Seq(Messages)], NEW m \in Media, NEW x \in Messages,
           NEW ok \in BOOLEAN, appendOnce(m, x, ok)
    PROVE  /\ store' \in [Media -> Seq(Messages)]
           /\ \A n \in Media : /\ Range(store[n]) \subseteq Range(store'[n])
                               /\ Range(store'[n]) \subseteq Range(store[n]) \cup {x}
                               /\ n # m => store'[n] = store[n]
           /\ ok => x \in Range(store'[m])
<1> DEFINE added == [store EXCEPT ![m] = Append(@, x)]
<1>1. store[m] \in Seq(Messages)
  OBVIOUS
<1>2. Append(store[m], x) \in Seq(Messages) /\ Range(Append(store[m], x)) = Range(store[m]) \cup {x}
  BY <1>1, AppendRange
<1>3. /\ added \in [Media -> Seq(Messages)] /\ added[m] = Append(store[m], x)
      /\ \A n \in Media : n # m => added[n] = store[n]
  BY <1>2
<1>4. store' = added \/ (store' = store /\ (ok => x \in Range(store[m])))
  BY DEF appendOnce, Has
<1> HIDE DEF added
<1> QED
  BY <1>2, <1>3, <1>4

-----------------------------------------------------------------------------
LEMMA InitData == Init => Data
<1> SUFFICES ASSUME Init PROVE Data
  OBVIOUS
<1>1. <<>> \in Seq(Messages) /\ 0 \in 0..MaxMessages
  BY MessageFailoverConstants
<1> QED
  BY <1>1, EmptyRange DEF Init, Data, Typed, Forgotten, Migrated, Stored

\* The steps before and between the erasures: the lists stay or are lost with the RAM.
Quiet ==
    /\ UNCHANGED <<store, arrived, kept, old, sdWiped>>
    /\ backend' \in Media /\ (spared => spared')
    /\ \/ UNCHANGED <<migration, loaded, queue>>
       \/ migration' = <<>> /\ loaded' = <<>> /\ queue' = <<>>
    /\ pc' \notin SelectSteps \cup AppendSteps \cup {"clear"} \/ pc' \in {"select"}
    /\ ident' # "none" \/ marker' = "Absent" => ident # "none" \/ marker = "Absent"

LEMMA QuietData == ASSUME Data, Quiet PROVE Data'
<1>1. <<>> \in Seq(Messages)
  OBVIOUS
<1>2. Typed'
  BY <1>1 DEF Data, Typed, Quiet
<1>3. Forgotten'
  BY EmptyRange DEF Data, Forgotten, Quiet
<1>4. Migrated'
  BY DEF Data, Migrated, Quiet
<1>5. Stored'
  BY DEF Data, Stored, Quiet
<1> QED
  BY <1>2, <1>3, <1>4, <1>5 DEF Data

LEMMA QuietSteps ==
    ASSUME Control, Data,
           \/ Setup \/ Run \/ Ask \/ Begin \/ Arm \/ Mark \/ SaveAndStop \/ NvsMark
           \/ applyNvsTargets \/ PowerCut
    PROVE  Quiet
<1> USE DEF Quiet, Control, Shapes, Data, Typed
<1>1. CASE Setup
  BY <1>1 DEF Setup
<1>2. CASE Run
  BY <1>2 DEF Run
<1>3. CASE Ask
  BY <1>3 DEF Ask
<1>4. CASE Begin
  BY <1>4 DEF Begin
<1>5. CASE Arm
  BY <1>5 DEF Arm
<1>6. CASE Mark
  BY <1>6 DEF Mark
<1>7. CASE SaveAndStop
  BY <1>7 DEF SaveAndStop, Step
<1>8. CASE NvsMark
  BY <1>8, TargetNames DEF NvsMark
<1>9. CASE applyNvsTargets
  BY <1>9, TargetNames DEF applyNvsTargets
<1>10. CASE PowerCut
  BY <1>10 DEF PowerCut
<1> QED
  BY <1>1, <1>2, <1>3, <1>4, <1>5, <1>6, <1>7, <1>8, <1>9, <1>10

\* The card is erased, or it is not there to be.
LEMMA WipeData == ASSUME Control, Data, sdMessageStoreReset PROVE Data'
<1>1. CASE preflightFails
  BY <1>1, QuietData DEF sdMessageStoreReset, preflightFails, Quiet, Control, Shapes, Named,
     Data, Typed
<1>2. CASE ~card
  BY <1>2, QuietData DEF sdMessageStoreReset, preflightFails, Quiet, Control, Shapes, Named,
     Data, Typed
<1>3. CASE card /\ ~preflightFails
  <2>1. /\ pc' \in {"save", "off"} /\ backend' \in Media
        /\ UNCHANGED <<arrived, kept, old, marker, ident>>
    BY <1>3 DEF sdMessageStoreReset, Data, Typed
  <2>2. \/ UNCHANGED <<migration, loaded, queue>>
        \/ migration' = <<>> /\ loaded' = <<>> /\ queue' = <<>>
    BY <1>3 DEF sdMessageStoreReset
  <2>3. store' = store \/ store' = [store EXCEPT !["sd"] = <<>>]
    BY <1>3 DEF sdMessageStoreReset
  <2>4. ~sdWiped' => ~sdWiped /\ store' = store
    BY <1>3 DEF sdMessageStoreReset
  <2>5. spared' = spared \/ store' = [store EXCEPT !["sd"] = <<>>]
    BY <1>3 DEF sdMessageStoreReset
  <2>6. <<>> \in Seq(Messages)
    OBVIOUS
  <2>7. /\ store' \in [Media -> Seq(Messages)] /\ store'["spiffs"] = store["spiffs"]
        /\ store'["sd"] = store["sd"] \/ store'["sd"] = <<>>
        /\ spared' = spared \/ store'["sd"] = <<>>
    BY <2>3, <2>5, <2>6 DEF Data, Typed
  <2>8. Typed'
    BY <2>1, <2>2, <2>6, <2>7 DEF Data, Typed
  <2>9. Forgotten'
    BY <2>1, <2>2, <2>7, EmptyRange DEF Data, Forgotten
  <2>10. Migrated'
    BY <2>1 DEF Migrated
  <2>11. Stored'
    BY <2>1, <2>4 DEF Data, Stored
  <2> QED
    BY <2>8, <2>9, <2>10, <2>11 DEF Data
<1> QED
  BY <1>1, <1>2, <1>3

\* SPIFFS is erased, and with it the identity.
LEMMA FormatData == ASSUME Control, Data, Format PROVE Data'
<1>1. CASE pc' = "off" /\ UNCHANGED <<store, ident>>
  BY <1>1, QuietData DEF Format, Quiet, Control, Shapes, Named, Data, Typed
<1>2. CASE ident' = "none" /\ store' = [store EXCEPT !["spiffs"] = <<>>]
  <2>1. /\ pc' \in {"clear", "off"} /\ backend' \in Media
        /\ UNCHANGED <<arrived, kept, old, marker, spared>>
    BY <1>2 DEF Format, Data, Typed
  <2>2. \/ UNCHANGED <<migration, loaded, queue>>
        \/ migration' = <<>> /\ loaded' = <<>> /\ queue' = <<>>
    BY <1>2 DEF Format
  <2>3. <<>> \in Seq(Messages)
    OBVIOUS
  <2>4. /\ store' \in [Media -> Seq(Messages)] /\ store'["sd"] = store["sd"]
        /\ store'["spiffs"] = <<>>
    BY <1>2, <2>3 DEF Data, Typed
  <2>5. Typed'
    BY <2>1, <2>2, <2>3, <2>4 DEF Data, Typed
  <2>6. Forgotten'
    BY <2>1, <2>2, <2>4, EmptyRange DEF Data, Forgotten
  <2>7. Migrated'
    BY <2>1 DEF Migrated
  <2>8. Stored'
    BY <1>2, <2>1 DEF Format, Control, Marked, Stored
  <2> QED
    BY <2>5, <2>6, <2>7, <2>8 DEF Data
<1> QED
  BY <1>1, <1>2 DEF Format

\* The end: what has arrived so far belongs to the past.
LEMMA ClearData == ASSUME Control, Data, Clear PROVE Data'
<1>1. CASE marker' # "Absent"
  <2>1. sdWiped' <=> sdWiped
    BY <1>1 DEF Clear
  <2>2. /\ UNCHANGED <<store, arrived, kept, old, spared, ident>> /\ backend' \in Media
        /\ migration' = <<>> /\ loaded' = <<>> /\ queue' = <<>> /\ pc' = "off"
    BY <1>1 DEF Clear
  <2>3. <<>> \in Seq(Messages)
    OBVIOUS
  <2>4. Typed' /\ Forgotten' /\ Migrated'
    BY <2>2, <2>3, EmptyRange DEF Data, Typed, Forgotten, Migrated
  <2>5. Stored'
    BY <1>1, <2>1, <2>2 DEF Data, Stored
  <2> QED
    BY <2>4, <2>5 DEF Data
<1>2. CASE marker' = "Absent"
  <2>1. /\ UNCHANGED <<store, arrived, kept, spared>> /\ old' = 1..arrived /\ backend' \in Media
        /\ migration' = <<>> /\ loaded' = <<>> /\ queue' = <<>> /\ pc' = "off"
    BY <1>2 DEF Clear
  <2>2. <<>> \in Seq(Messages)
    OBVIOUS
  <2>3. store["spiffs"] = <<>> /\ (~spared => store["sd"] = <<>>)
    BY DEF Clear, Data, Forgotten, Control, CardErased
  <2>4. Typed'
    BY <2>1, <2>2 DEF Data, Typed
  <2>5. Forgotten'
    BY <2>1, <2>3, EmptyRange DEF Forgotten
  <2>6. Migrated'
    BY <2>1 DEF Migrated
  <2>7. Stored'
    BY <2>1 DEF Data, Typed, Stored
  <2> QED
    BY <2>4, <2>5, <2>6, <2>7 DEF Data
<1> QED
  BY <1>1, <1>2

LEMMA DeviceData == ASSUME Control, Data, Device \/ PowerCut PROVE Data'
  BY QuietSteps, QuietData, WipeData, FormatData, ClearData DEF Device, factoryReset

\* A step of the selection that leaves the media alone.
LEMMA SelectingData ==
    ASSUME Control, Data, StoreStep, selectDefaultStore \/ OpenSd \/ Verify \/ Reopen
    PROVE  Data'
<1>1. /\ store' = store /\ UNCHANGED <<arrived, kept, old, sdWiped, spared, ident, marker, queue>>
      /\ backend' \in Media /\ pc' \in SelectSteps \cup {"selected"}
  BY DEF selectDefaultStore, OpenSd, Verify, Reopen, fallBackToDefault, Selected, Data, Typed, StoreStep
<1>2. /\ migration' \in {<<>>, migration, store["spiffs"]}
      /\ loaded' \in {<<>>, loaded, store["spiffs"]}
  BY DEF selectDefaultStore, OpenSd, Verify, Reopen, fallBackToDefault, Selected
<1>3. <<>> \in Seq(Messages)
  OBVIOUS
<1>4. Typed'
  BY <1>1, <1>2, <1>3 DEF Data, Typed
<1>5. Forgotten'
  BY <1>1, <1>2, EmptyRange DEF Data, Forgotten
<1>6. Migrated'
  BY <1>1 DEF selectDefaultStore, OpenSd, Verify, Reopen, fallBackToDefault, Selected,
     Data, Migrated
<1>7. Stored'
  BY <1>1 DEF Data, Stored
<1> QED
  BY <1>4, <1>5, <1>6, <1>7 DEF Data

\* A step that stores one message that no reset has erased.
LEMMA StoringData ==
    ASSUME Control, Data, UNCHANGED resetVars,
           NEW m \in Media, NEW x \in Messages \ old, NEW ok \in BOOLEAN, appendOnce(m, x, ok)
    PROVE  /\ store' \in [Media -> Seq(Messages)]
           /\ Range(store'["spiffs"]) \cap old' = {}
           /\ ~spared' => Range(store'["sd"]) \cap old' = {}
           /\ Range(store["sd"]) \subseteq Range(store'["sd"])
           /\ Range(store["spiffs"]) \subseteq Range(store'["spiffs"])
           /\ m = "sd" => store'["spiffs"] = store["spiffs"]
           /\ ok => x \in Range(store'[m])
<1>1. store \in [Media -> Seq(Messages)]
  BY DEF Data, Typed
<1>2. /\ store' \in [Media -> Seq(Messages)]
      /\ \A n \in Media : /\ Range(store[n]) \subseteq Range(store'[n])
                          /\ Range(store'[n]) \subseteq Range(store[n]) \cup {x}
                          /\ n # m => store'[n] = store[n]
      /\ ok => x \in Range(store'[m])
  BY <1>1, AppendOnceAdds
<1> QED
  BY <1>2 DEF Data, Forgotten

LEMMA CopyData == ASSUME Control, Data, Copy, UNCHANGED resetVars PROVE Data'
<1>1. CASE migration # <<>>
  <2>1. PICK ok \in BOOLEAN :
           /\ appendOnce("sd", Head(migration), ok)
           /\ \/ migration' = Tail(migration) /\ UNCHANGED <<pc, backend, usingSd, loaded>>
              \/ fallBackToDefault
    BY <1>1 DEF Copy
  <2>2. migration \in Seq(Messages) /\ Range(migration) \cap old = {}
    BY DEF Data, Typed, Forgotten
  <2>3. /\ Head(migration) \in Messages /\ Head(migration) \in Range(migration)
        /\ Tail(migration) \in Seq(Messages) /\ Range(Tail(migration)) \subseteq Range(migration)
    BY <1>1, <2>2, HeadTailRange
  <2>4. /\ store' \in [Media -> Seq(Messages)]
        /\ Range(store'["spiffs"]) \cap old' = {}
        /\ ~spared' => Range(store'["sd"]) \cap old' = {}
        /\ Range(store["sd"]) \subseteq Range(store'["sd"])
        /\ store'["spiffs"] = store["spiffs"]
    BY <2>1, <2>2, <2>3, StoringData
  <2>5. UNCHANGED <<queue, arrived, kept>> /\ backend' \in Media
    BY <2>1 DEF Copy, fallBackToDefault, Selected, Data, Typed
  <2>6. /\ \/ pc' = "copy" /\ loaded' = loaded
           \/ pc' = "selected" /\ loaded' = <<>>
        /\ migration' = Tail(migration) \/ migration' = <<>>
    BY <2>1 DEF Copy, fallBackToDefault, Selected
  <2>7. <<>> \in Seq(Messages)
    OBVIOUS
  <2>8. Typed'
    BY <2>3, <2>4, <2>5, <2>6, <2>7 DEF Data, Typed
  <2>9. Forgotten'
    BY <2>2, <2>3, <2>4, <2>5, <2>6, EmptyRange DEF Data, Forgotten
  <2>10. Migrated'
    BY <2>4, <2>6 DEF Copy, Data, Migrated
  <2>11. Stored'
    BY <2>4, <2>5 DEF Data, Stored
  <2> QED
    BY <2>8, <2>9, <2>10, <2>11 DEF Data
<1>2. CASE migration = <<>>
  <2>1. UNCHANGED <<store, queue, arrived, kept>> /\ backend' \in Media
    BY <1>2 DEF Copy, Selected, Data, Typed
  <2>2. /\ migration' = <<>> /\ loaded' \in {loaded, <<>>} /\ pc' \in {"selected", "verify"}
        /\ pc' = "verify" => loaded # <<>> /\ loaded' = loaded
    BY <1>2 DEF Copy, Selected
  <2>3. <<>> \in Seq(Messages)
    OBVIOUS
  <2>4. Typed'
    BY <2>1, <2>2, <2>3 DEF Data, Typed
  <2>5. Forgotten'
    BY <2>1, <2>2, EmptyRange DEF Data, Forgotten
  <2>6. Migrated'
    BY <2>1, <2>2 DEF Copy, Data, Migrated
  <2>7. Stored'
    BY <2>1 DEF Data, Stored
  <2> QED
    BY <2>4, <2>5, <2>6, <2>7 DEF Data
<1> QED
  BY <1>1, <1>2

\* SPIFFS is emptied once the card has its messages, or while it is empty.
LEMMA RetireData ==
    ASSUME Control, Data, retireDefaultStore \/ (pc = "restore" /\ restoreDefaultStoreWithMigration),
           UNCHANGED resetVars
    PROVE  Data'
<1>1. CASE store' = store /\ queue' = queue /\ fallBackToDefault
  <2>1. /\ UNCHANGED <<arrived, kept>> /\ backend' \in Media /\ pc' = "selected"
        /\ migration' = <<>> /\ loaded' = <<>>
    BY <1>1 DEF retireDefaultStore, restoreDefaultStoreWithMigration, fallBackToDefault, Selected
  <2>2. <<>> \in Seq(Messages)
    OBVIOUS
  <2> QED
    BY <1>1, <2>1, <2>2, EmptyRange DEF Data, Typed, Forgotten, Migrated, Stored
<1>2. CASE messageStoreClear /\ ~fallBackToDefault
  <2>1. /\ store' = [store EXCEPT !["spiffs"] = <<>>] /\ queue' = <<>>
        /\ UNCHANGED <<arrived, kept>> /\ backend' \in Media /\ loaded' = loaded
        /\ migration' \in {migration, loaded} /\ pc' \in {"reopen", "refill"}
        /\ pc = "retire" \/ pc = "restore"
    BY <1>2 DEF retireDefaultStore, restoreDefaultStoreWithMigration, messageStoreClear, Data, Typed
  <2>2. <<>> \in Seq(Messages)
    OBVIOUS
  <2>3. /\ store' \in [Media -> Seq(Messages)] /\ store'["sd"] = store["sd"]
        /\ store'["spiffs"] = <<>>
    BY <2>1, <2>2 DEF Data, Typed
  <2>4. Typed'
    BY <2>1, <2>2, <2>3 DEF Data, Typed
  <2>5. Forgotten'
    BY <2>1, <2>3, EmptyRange DEF Data, Forgotten
  <2>6. Migrated'
    BY <2>1, <2>3 DEF Migrated
  <2>7. Range(store["spiffs"]) \subseteq Range(store["sd"])
    BY <2>1, EmptyRange DEF Data, Migrated
  <2>8. Stored'
    BY <2>1, <2>3, <2>7 DEF Data, Stored
  <2> QED
    BY <2>4, <2>5, <2>6, <2>8 DEF Data
<1> QED
  BY <1>1, <1>2 DEF retireDefaultStore, restoreDefaultStoreWithMigration, fallBackToDefault, Selected

LEMMA RefillData ==
    ASSUME Control, Data, pc = "refill", restoreDefaultStoreWithMigration, UNCHANGED resetVars
    PROVE  Data'
<1>1. CASE migration # <<>>
  <2>1. PICK ok \in BOOLEAN :
           /\ appendOnce("spiffs", Head(migration), ok)
           /\ \/ migration' = Tail(migration) /\ UNCHANGED <<pc, backend, usingSd, loaded>>
              \/ fallBackToDefault
    BY <1>1 DEF restoreDefaultStoreWithMigration
  <2>2. migration \in Seq(Messages) /\ Range(migration) \cap old = {}
    BY DEF Data, Typed, Forgotten
  <2>3. /\ Head(migration) \in Messages /\ Head(migration) \in Range(migration)
        /\ Tail(migration) \in Seq(Messages) /\ Range(Tail(migration)) \subseteq Range(migration)
    BY <1>1, <2>2, HeadTailRange
  <2>4. /\ store' \in [Media -> Seq(Messages)]
        /\ Range(store'["spiffs"]) \cap old' = {}
        /\ ~spared' => Range(store'["sd"]) \cap old' = {}
        /\ Range(store["sd"]) \subseteq Range(store'["sd"])
        /\ Range(store["spiffs"]) \subseteq Range(store'["spiffs"])
    BY <2>1, <2>2, <2>3, StoringData
  <2>5. UNCHANGED <<queue, arrived, kept>> /\ backend' \in Media
    BY <1>1, <2>1 DEF restoreDefaultStoreWithMigration, fallBackToDefault, Selected, Data, Typed
  <2>6. /\ loaded' = loaded \/ loaded' = <<>>
        /\ pc' \in {"refill", "selected"}
        /\ migration' = Tail(migration) \/ migration' = <<>>
    BY <2>1 DEF fallBackToDefault, Selected
  <2>7. <<>> \in Seq(Messages)
    OBVIOUS
  <2>8. Typed'
    BY <2>3, <2>4, <2>5, <2>6, <2>7 DEF Data, Typed
  <2>9. Forgotten'
    BY <2>2, <2>3, <2>4, <2>5, <2>6, EmptyRange DEF Data, Forgotten
  <2>10. Migrated'
    BY <2>6 DEF Migrated
  <2>11. Stored'
    BY <2>4, <2>5 DEF Data, Stored
  <2> QED
    BY <2>8, <2>9, <2>10, <2>11 DEF Data
<1>2. CASE migration = <<>>
  <2>1. /\ UNCHANGED <<store, queue, arrived, kept>> /\ backend' \in Media
        /\ migration' = <<>> /\ loaded' = <<>> /\ pc' = "selected"
    BY <1>2 DEF restoreDefaultStoreWithMigration, fallBackToDefault, Selected
  <2>2. <<>> \in Seq(Messages)
    OBVIOUS
  <2> QED
    BY <2>1, <2>2, EmptyRange DEF Data, Typed, Forgotten, Migrated, Stored
<1> QED
  BY <1>1, <1>2

LEMMA SelectData == ASSUME Control, Data, StoreStep, sdMessageStoreSelect PROVE Data'
<1>1. UNCHANGED resetVars
  BY DEF StoreStep
<1>2. restoreDefaultStoreWithMigration => pc \in {"restore", "refill"}
  BY DEF restoreDefaultStoreWithMigration
<1> QED
  BY <1>1, <1>2, SelectingData, CopyData, RetireData, RefillData DEF sdMessageStoreSelect

-----------------------------------------------------------------------------
LEMMA ArriveData == ASSUME Control, Data, Arrive, UNCHANGED resetVars PROVE Data'
<1>1. /\ UNCHANGED <<store, backend, migration, loaded, queue, kept, old>>
      /\ arrived' = arrived + 1 /\ msg' = arrived + 1 /\ arrived < MaxMessages
      /\ pc' \in {"retry", "append"}
  BY DEF Arrive
<1>2. Typed'
  BY <1>1, MessageFailoverConstants DEF Data, Typed
<1> QED
  BY <1>1, <1>2 DEF Data, Forgotten, Migrated, Stored

LEMMA RetryData ==
    ASSUME Control, Data, retryQueuedOnDefaultBackend, UNCHANGED resetVars PROVE Data'
<1>1. /\ UNCHANGED <<backend, migration, loaded, msg, arrived, kept, old>>
      /\ pc \in AppendSteps /\ pc' \in {"retry", "append"}
  BY DEF retryQueuedOnDefaultBackend
<1>2. CASE queue = <<>>
  <2>1. UNCHANGED <<store, queue>>
    BY <1>2 DEF retryQueuedOnDefaultBackend
  <2> QED
    BY <1>1, <2>1 DEF Data, Typed, Forgotten, Migrated, Stored
<1>3. CASE queue # <<>>
  <2>1. PICK ok \in BOOLEAN :
           /\ appendOnce("spiffs", Head(queue), ok)
           /\ queue' = IF ok THEN Tail(queue) ELSE queue
    BY <1>3 DEF retryQueuedOnDefaultBackend
  <2>2. queue \in Seq(Messages) /\ Range(queue) \cap old = {}
    BY DEF Data, Typed, Forgotten
  <2>3. /\ Head(queue) \in Messages /\ Head(queue) \in Range(queue)
        /\ Tail(queue) \in Seq(Messages) /\ Range(Tail(queue)) \subseteq Range(queue)
    BY <1>3, <2>2, HeadTailRange
  <2>4. /\ store' \in [Media -> Seq(Messages)]
        /\ Range(store'["spiffs"]) \cap old' = {}
        /\ ~spared' => Range(store'["sd"]) \cap old' = {}
        /\ Range(store["sd"]) \subseteq Range(store'["sd"])
        /\ Range(store["spiffs"]) \subseteq Range(store'["spiffs"])
    BY <2>1, <2>2, <2>3, StoringData
  <2>5. Typed'
    BY <1>1, <2>1, <2>3, <2>4 DEF Data, Typed
  <2>6. Forgotten'
    BY <1>1, <2>1, <2>2, <2>3, <2>4 DEF Data, Forgotten
  <2>7. Migrated'
    BY <1>1 DEF Migrated
  <2>8. Stored'
    BY <1>1, <2>4 DEF Data, Stored
  <2> QED
    BY <2>5, <2>6, <2>7, <2>8 DEF Data
<1> QED
  BY <1>2, <1>3

\* An append returns true only for a message that one of the media has.
LEMMA AttemptData ==
    ASSUME Control, Data, Attempt \/ Failover, UNCHANGED resetVars PROVE Data'
<1> DEFINE m == IF pc = "append" THEN backend ELSE "spiffs"
<1>1. PICK ok \in BOOLEAN : appendOnce(m, msg, ok) /\ Returned(ok)
  BY DEF Attempt, Failover
<1>2. /\ m \in Media /\ msg \in 1..arrived /\ msg \in Messages \ old
      /\ backend' \in Media /\ UNCHANGED <<migration, loaded, arrived, old>>
  BY MessageFailoverConstants DEF Attempt, Failover, Data, Typed, Messages
<1>3. pc' = "run" \/ (pc' = "failover" /\ msg' = msg)
  BY DEF Attempt, Failover
<1>4. queue' = queue \/ queue' = Append(queue, msg)
  BY DEF Attempt, Failover, retryQueuePush
<1>5. /\ Append(queue, msg) \in Seq(Messages)
      /\ Range(Append(queue, msg)) = Range(queue) \cup {msg}
  BY <1>2, AppendRange DEF Data, Typed
<1> HIDE DEF m
<1>6. /\ store' \in [Media -> Seq(Messages)]
      /\ Range(store'["spiffs"]) \cap old' = {}
      /\ ~spared' => Range(store'["sd"]) \cap old' = {}
      /\ Range(store["sd"]) \subseteq Range(store'["sd"])
      /\ Range(store["spiffs"]) \subseteq Range(store'["spiffs"])
      /\ ok => msg \in Range(store'[m])
  BY <1>1, <1>2, StoringData
<1>7. kept' = IF ok THEN kept \cup {msg} ELSE kept
  BY <1>1 DEF Returned
<1>8. Typed'
  BY <1>2, <1>3, <1>4, <1>5, <1>6, <1>7 DEF Data, Typed
<1>9. Forgotten'
  BY <1>2, <1>3, <1>4, <1>5, <1>6 DEF Data, Forgotten
<1>10. Migrated'
  BY <1>3 DEF Migrated
<1>11. ok => msg \in Range(store'["sd"]) \cup Range(store'["spiffs"])
  BY <1>2, <1>6
<1>12. Stored'
  BY <1>2, <1>6, <1>7, <1>11 DEF Data, Stored
<1> QED
  BY <1>8, <1>9, <1>10, <1>12 DEF Data

LEMMA NextData == ASSUME Control, Data, [Next]_vars PROVE Data'
<1>1. CASE StoreStep
  <2>1. UNCHANGED resetVars
    BY <1>1 DEF StoreStep
  <2>2. CASE CardChanges
    BY <2>1, <2>2 DEF CardChanges, Data, Typed, Forgotten, Migrated, Stored
  <2> QED
    BY <1>1, <2>1, <2>2, SelectData, ArriveData, RetryData, AttemptData
    DEF StoreStep, messageStoreAppend
<1>2. CASE UNCHANGED vars
  BY <1>2 DEF vars, Data, Typed, Forgotten, Migrated, Stored
<1> QED
  BY <1>1, <1>2, DeviceData DEF Next

\* The invariant of the messages holds in every reachable state.
THEOREM DataAlways == Spec => []Data
<1>1. Init => Data
  BY InitData
<1>2. Control /\ Data /\ [Next]_vars => Data'
  BY NextData
<1> QED
  BY <1>1, <1>2, ControlAlways, PTL DEF Spec

\* No failure, loss of the card or power cut during migration, retirement, restoration
\* or failover takes a message whose append returned true, for every number of each.
THEOREM KeptSurviveAlways == Spec => []KeptSurvive
<1>1. Data => KeptSurvive
  BY DEF Data, Stored, KeptSurvive
<1> QED
  BY <1>1, DataAlways, PTL

\* No interrupted reset, failed write or unreadable marker lets the application start on
\* a device that is partly erased.
THEOREM NeverMixedAlways == Spec => []NeverMixed
<1>1. Control /\ Data => NeverMixed
  BY TargetNames DEF Control, WholeUntilErased, Whole, Named, Shapes, Data, Forgotten, NeverMixed
<1> QED
  BY <1>1, ControlAlways, DataAlways, PTL
=============================================================================
