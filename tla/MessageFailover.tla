--------------------------- MODULE MessageFailover ---------------------------
(***************************************************************************)
(* Which medium holds the chat history: the selection at boot with its     *)
(* migration from SPIFFS to the SD card (mesh/sd_message_store.cpp), and   *)
(* the append that falls back from the card to SPIFFS and keeps what it    *)
(* could not store in a queue (mesh/message_store.cpp).                    *)
(*                                                                         *)
(* A store is the sequence of the messages it holds, numbered in the order *)
(* of their arrival; how a store survives a power cut is MessageLog,       *)
(* AtomicFile and SdReplace.  Any access may fail, the card may come and   *)
(* go, and power may be cut between two accesses.  Capacities are left     *)
(* out: the card's is the larger.                                          *)
(***************************************************************************)
EXTENDS Naturals, Sequences, Functions, FiniteSets

CONSTANTS MaxMessages,                         \* bound: messages that arrive
          MaxFailures,                         \* bound: failed accesses, losses of the card
          MESSAGE_STORE_RETRY_QUEUE_CAPACITY

ASSUME MessageFailoverConstants ==
    /\ MaxMessages \in Nat /\ MaxFailures \in Nat
    /\ MESSAGE_STORE_RETRY_QUEUE_CAPACITY \in Nat \ {0}

VARIABLES pc,          \* the next access of the task that boots and then loops
          store,       \* what the two media hold
          card,        \* sigurdos_sdcard_mounted()
          backend,     \* g_backend
          usingSd,     \* g_using_sd
          migration,   \* what was loaded for migration and is still to copy
          loaded,      \* all of it
          queue,       \* g_retry_queue
          msg,         \* the message being appended
          arrived,     \* messages so far
          failures,
          kept,        \* history: messages whose append returned true
          late,        \* history: messages stored later than they arrived
          doubled      \* history: messages whose lookup failed, stored again

media == <<store, card, failures>>
ram   == <<backend, usingSd, migration, loaded, queue, msg>>
hist  == <<arrived, kept, late, doubled>>

Media == {"sd", "spiffs"}
Messages == 1..MaxMessages
Has(m, x) == x \in Range(store[m])

SelectSteps == {"select", "open", "copy", "verify", "retire", "reopen", "restore",
                "refill"}
AppendSteps == {"retry", "append", "failover"}

Works(m) == (m = "sd" => card) /\ UNCHANGED failures
Errs     == failures < MaxFailures /\ failures' = failures + 1
Fails(m) == Errs \/ (m = "sd" /\ ~card /\ UNCHANGED failures)

\* One attempt.  A message that is there is not stored again, unless the
\* lookup cannot read it.  A failed attempt may have stored the record.
appendOnce(m, x, ok) ==
    LET added == [store EXCEPT ![m] = Append(@, x)] IN
    \/ /\ ok /\ Works(m) /\ UNCHANGED doubled
       /\ store' = IF Has(m, x) THEN store ELSE added
    \/ /\ ok /\ Errs /\ Has(m, x) /\ (m = "sd" => card)
       /\ store' = added /\ doubled' = doubled \cup {x}
    \/ ~ok /\ Fails(m) /\ UNCHANGED <<store, doubled>>
    \/ /\ ~ok /\ Errs /\ ~Has(m, x) /\ (m = "sd" => card)
       /\ store' = added /\ UNCHANGED doubled

-----------------------------------------------------------------------------
(* sdMessageStoreSelect. *)

Goes(to) == pc' = to

\* Without SPIFFS, or when it cannot be read, nothing is migrated.
selectDefaultStore ==
    /\ pc = "select" /\ Goes("open")
    /\ backend' = "spiffs" /\ usingSd' = FALSE
    /\ \/ Works("spiffs") /\ migration' = store["spiffs"] /\ UNCHANGED late
       \/ /\ Fails("spiffs") /\ migration' = <<>>
          /\ late' = late \cup Range(store["spiffs"])
    /\ loaded' = migration'
    /\ UNCHANGED <<store, card, queue, msg, arrived, kept, doubled>>

\* It returns, with SPIFFS selected or the card.
Selected(b) ==
    /\ Goes("selected") /\ backend' = b /\ usingSd' = (b = "sd")
    /\ migration' = <<>> /\ loaded' = <<>>

fallBackToDefault == Selected("spiffs")

\* messageStoreBegin on the card, if it is mounted.
OpenSd ==
    /\ pc = "open"
    /\ \/ Fails("sd") /\ fallBackToDefault
       \/ /\ Works("sd") /\ Goes("copy") /\ backend' = "sd"
          /\ UNCHANGED <<usingSd, migration, loaded>>
    /\ UNCHANGED <<store, card, queue, msg, hist>>

\* Mutant: a failed copy is passed over, and nothing is read back.
CopyTrusting ==
    /\ pc = "copy"
    /\ \/ /\ migration # <<>> /\ migration' = Tail(migration)
          /\ \E ok \in BOOLEAN : appendOnce("sd", Head(migration), ok)
          /\ UNCHANGED <<pc, backend, usingSd, loaded>>
       \/ /\ migration = <<>>
          /\ IF loaded = <<>>
             THEN Selected("sd")
             ELSE Goes("retire") /\ UNCHANGED <<backend, usingSd, migration, loaded>>
          /\ UNCHANGED <<store, failures, doubled>>
    /\ UNCHANGED <<card, queue, msg, arrived, kept, late>>

\* Mutant: the newest message is copied first.
CopyNewestFirst ==
    /\ pc = "copy"
    /\ \/ /\ migration # <<>>
          /\ \E ok \in BOOLEAN :
                /\ appendOnce("sd", migration[Len(migration)], ok)
                /\ IF ok THEN /\ migration' = SubSeq(migration, 1, Len(migration) - 1)
                              /\ UNCHANGED <<pc, backend, usingSd, loaded>>
                         ELSE fallBackToDefault
       \/ /\ migration = <<>>
          /\ IF loaded = <<>>
             THEN Selected("sd")
             ELSE Goes("verify") /\ UNCHANGED <<backend, usingSd, migration, loaded>>
          /\ UNCHANGED <<store, failures, doubled>>
    /\ UNCHANGED <<card, queue, msg, arrived, kept, late>>

\* The migration, without the failover of the public append.
Copy ==
    /\ pc = "copy"
    /\ \/ /\ migration # <<>>
          /\ \E ok \in BOOLEAN :
                /\ appendOnce("sd", Head(migration), ok)
                /\ IF ok THEN /\ migration' = Tail(migration)
                              /\ UNCHANGED <<pc, backend, usingSd, loaded>>
                         ELSE fallBackToDefault
       \/ /\ migration = <<>>
          /\ IF loaded = <<>>
             THEN Selected("sd")
             ELSE Goes("verify") /\ UNCHANGED <<backend, usingSd, migration, loaded>>
          /\ UNCHANGED <<store, failures, doubled>>
    /\ UNCHANGED <<card, queue, msg, arrived, kept, late>>

\* migrationIsDurablyRepresented: what the card holds is read back.
Verify ==
    /\ pc = "verify"
    /\ \/ /\ Works("sd")
          /\ IF Range(loaded) \subseteq Range(store["sd"])
             THEN Goes("retire") /\ UNCHANGED <<backend, usingSd, migration, loaded>>
             ELSE fallBackToDefault
       \/ Fails("sd") /\ fallBackToDefault
    /\ UNCHANGED <<store, card, queue, msg, hist>>

\* messageStoreClear: an atomic replacement by the empty store.
messageStoreClear == store' = [store EXCEPT !["spiffs"] = <<>>] /\ queue' = <<>>

retireDefaultStore ==
    /\ pc = "retire"
    /\ \/ /\ Works("spiffs") /\ messageStoreClear
          /\ Goes("reopen") /\ backend' = "spiffs"
          /\ UNCHANGED <<usingSd, migration, loaded>>
       \/ Fails("spiffs") /\ fallBackToDefault /\ UNCHANGED <<store, queue>>
    /\ UNCHANGED <<card, msg, hist>>

Reopen ==
    /\ pc = "reopen"
    /\ \/ Works("sd") /\ Selected("sd")
       \/ /\ Fails("sd") /\ Goes("restore")
          /\ UNCHANGED <<backend, usingSd, migration, loaded>>
    /\ UNCHANGED <<store, card, queue, msg, hist>>

\* SPIFFS is emptied again and refilled.  A failure leaves the rest to the card.
restoreDefaultStoreWithMigration ==
    \/ /\ pc = "restore"
       /\ \/ /\ Works("spiffs") /\ messageStoreClear
             /\ Goes("refill") /\ migration' = loaded
             /\ UNCHANGED <<backend, usingSd, loaded>>
          \/ Fails("spiffs") /\ fallBackToDefault /\ UNCHANGED <<store, queue>>
       /\ UNCHANGED <<card, msg, hist>>
    \/ /\ pc = "refill" /\ migration # <<>>
       /\ \E ok \in BOOLEAN :
             /\ appendOnce("spiffs", Head(migration), ok)
             /\ IF ok THEN /\ migration' = Tail(migration)
                           /\ UNCHANGED <<pc, backend, usingSd, loaded>>
                      ELSE fallBackToDefault
       /\ UNCHANGED <<card, queue, msg, arrived, kept, late>>
    \/ /\ pc = "refill" /\ migration = <<>> /\ fallBackToDefault
       /\ UNCHANGED <<media, queue, msg, hist>>

sdMessageStoreSelect ==
    selectDefaultStore \/ OpenSd \/ Copy \/ Verify \/ retireDefaultStore \/ Reopen
        \/ restoreDefaultStoreWithMigration

-----------------------------------------------------------------------------
(* messageStoreAppend. *)

\* A message arrives; the queue is tried again first, on SPIFFS only.
Arrive ==
    /\ pc = "run" /\ arrived < MaxMessages
    /\ arrived' = arrived + 1 /\ msg' = arrived'
    /\ Goes(IF backend = "spiffs" THEN "retry" ELSE "append")
    /\ UNCHANGED <<media, backend, usingSd, migration, loaded, queue,
                   kept, late, doubled>>

retryQueuedOnDefaultBackend ==
    /\ pc = "retry"
    /\ \/ queue = <<>> /\ Goes("append") /\ UNCHANGED <<store, failures, queue, doubled>>
       \/ /\ queue # <<>>
          /\ \E ok \in BOOLEAN :
                /\ appendOnce("spiffs", Head(queue), ok)
                /\ queue' = IF ok THEN Tail(queue) ELSE queue
                /\ pc' = IF ok THEN "retry" ELSE "append"
    /\ UNCHANGED <<card, backend, usingSd, migration, loaded, msg,
                   arrived, kept, late>>

Returned(ok) == kept' = IF ok THEN kept \cup {msg} ELSE kept

\* A failure of SPIFFS drops the message, one of the card selects SPIFFS.
Attempt ==
    /\ pc = "append"
    /\ \E ok \in BOOLEAN :
          /\ appendOnce(backend, msg, ok) /\ Returned(ok)
          /\ backend' = IF ok THEN backend ELSE "spiffs"
          /\ IF ok \/ backend = "spiffs" THEN Goes("run") /\ msg' = 0
                                         ELSE Goes("failover") /\ UNCHANGED msg
    /\ UNCHANGED <<card, usingSd, migration, loaded, queue, arrived, late>>

\* With the queue full the newest message is dropped.
retryQueuePush ==
    IF Len(queue) < MESSAGE_STORE_RETRY_QUEUE_CAPACITY
    THEN queue' = Append(queue, msg) /\ late' = late \cup {msg}
    ELSE UNCHANGED <<queue, late>>

Failover ==
    /\ pc = "failover" /\ Goes("run") /\ msg' = 0
    /\ \E ok \in BOOLEAN :
          /\ appendOnce("spiffs", msg, ok) /\ Returned(ok)
          /\ IF ok THEN UNCHANGED <<queue, late>> ELSE retryQueuePush
    /\ UNCHANGED <<card, backend, usingSd, migration, loaded, arrived>>

messageStoreAppend == Arrive \/ retryQueuedOnDefaultBackend \/ Attempt \/ Failover

\* The card is lost, or a lazy retry mounts it again.
CardChanges ==
    /\ pc # "off" /\ card' = ~card
    /\ IF card THEN Errs ELSE UNCHANGED failures
    /\ UNCHANGED <<pc, store, ram, hist>>
=============================================================================
