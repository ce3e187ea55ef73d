----------------------------- MODULE MessageLog -----------------------------
(***************************************************************************)
(* The durable message log of mesh/message_store.cpp on one backend: an    *)
(* append-only file of records behind a header (record count, next id),    *)
(* rewritten as a whole by marks, repair and compaction.  Calls are        *)
(* serialised by the store's coordinator, so their only interleavings are  *)
(* with power cuts; append and boot are split where a cut can fall.        *)
(*                                                                         *)
(* A whole-file rewrite is one step with the outcomes AtomicFile and       *)
(* SdReplace allow: done, refused, or cut or failed with the validated     *)
(* replacement pending beside (or instead of) the live file.               *)
(***************************************************************************)
EXTENDS Naturals, Sequences, FiniteSets

CONSTANTS Keys,             \* message identities (storedMessageSameIdentity)
          Own,              \* the messages sent by this device (is_self)
          MaxRecords,       \* backendMaxRecords()
          CompactTo,        \* backendCompactToRecords()
          MaxId,            \* UINT32_MAX: ids run 1..MaxId and wrap to 1
          None,             \* no file
          Garbage,          \* the identity of a record that was overwritten
          Backends,         \* the backends looked at: "spiffs", the default, and "sd",
                            \* which promotes a pending file on access and is deselected
                            \* until the next boot when an append fails
          WriteFaults,      \* in-place writes that may fail on each: "append", "header" below
                            \* the capacity, "fullHeader" at it
          ReplaceFaults,    \* how a rewrite may fail on each: "refused", "both", "pending"
          Cuts,             \* how many power cuts may happen on each
          Damages           \* how many records the medium may damage

ASSUME MessageLogConstants ==
    /\ Own \subseteq Keys
    /\ Garbage \notin Keys
    /\ MaxRecords \in Nat \ {0}
    /\ CompactTo \in 1..MaxRecords
    /\ MaxId \in Nat /\ MaxId > MaxRecords + 2
    /\ Backends \subseteq {"spiffs", "sd"}
    /\ WriteFaults \in [Backends -> SUBSET {"append", "header", "fullHeader"}]
    /\ ReplaceFaults \in [Backends -> SUBSET {"refused", "both", "pending"}]
    /\ Cuts \in [Backends -> Nat]
    /\ Damages \in [Backends -> Nat]

VARIABLES backend,     \* g_backend as it was selected at boot
          live,        \* the store file
          temp,        \* a validated replacement waiting to be promoted
          quarantine,  \* whether <path>.corrupt exists
          index,       \* ids in the RAM identity index
          indexValid,  \* g_identity_index_valid
          recovery,    \* g_append_recovery_required
          pc,          \* where the running call stands
          cur,         \* the message being appended
          newId,       \* its id
          result,      \* what the last call returned
          cuts,        \* power cuts so far
          damages,     \* damaged records so far
          promised,    \* history: messages whose append returned true
          marked       \* history: messages whose MarkCompanionSent returned true

ram == <<index, indexValid, recovery>>

call == <<pc, cur, newId, result>>

history == <<promised, marked>>

\* The SD backend is selected.
OnSd == backend = "sd"

vars == <<backend, live, temp, quarantine, index, indexValid, recovery, pc, cur, newId, result,
          cuts, damages, promised, marked>>

-----------------------------------------------------------------------------
Ids == 1..MaxId

\* A damaged record reads back with id 0.
Record == [id : Ids \cup {0}, key : Keys \cup {Garbage}, sent : BOOLEAN, acked : BOOLEAN, lost : BOOLEAN]

\* The id that is k steps after i, wrapping from UINT32_MAX to 1.
nextAfter(i, k) == ((i + k - 1) % MaxId) + 1

\* The smallest number of a non-empty set of naturals, and the largest.
Least(S) == CHOOSE x \in S : \A y \in S : x <= y

Greatest(S) == CHOOSE x \in S : \A y \in S : x >= y

RecordIds(recs) == {recs[i].id : i \in DOMAIN recs}

RecordKeys(recs) == {recs[i].key : i \in DOMAIN recs}

\* Mutant: ids still held after a wrap are not skipped.
FirstUnusedUnchecked(i, used) == nextAfter(i, 1)

\* First unused id after i; 0 when the attempts run out.
FirstUnused(i, used) ==
    LET free == {k \in 1..(Cardinality(used) + 1) : nextAfter(i, k) \notin used}
    IN  IF free = {} THEN 0 ELSE nextAfter(i, Least(free))

nextUnusedIdAfter(i) == FirstUnused(i, index)

deriveNextId(recs) == FirstUnused(Greatest(RecordIds(recs) \cup {0}), RecordIds(recs))

File(recs, next) == [count |-> Len(recs), next |-> next, recs |-> recs, torn |-> FALSE]

EmptyStore == File(<<>>, 1)

UniqueIds(recs) == \A i, j \in DOMAIN recs : i # j => recs[i].id # recs[j].id

validateStore(f) == /\ f.count = Len(f.recs)
                    /\ f.count <= MaxRecords + 1
                    /\ f.next # 0
                    /\ ~f.torn
                    /\ UniqueIds(f.recs)
                    /\ RecordIds(f.recs) \cap {0, f.next} = {}

readHeader == live # None /\ live.next # 0 /\ live.count <= MaxRecords + 1

\* The records a reader finds: none when the header promises more than there are.
Loaded == IF readHeader /\ live.count <= Len(live.recs)
          THEN SubSeq(live.recs, 1, live.count)
          ELSE <<>>

protect(r) == r.key \notin Own /\ ~r.sent

SelectPositions(recs, P) ==
    [n \in 1..Cardinality(P) |->
        recs[CHOOSE i \in P : Cardinality({j \in P : j <= i}) = n]]

\* The newest n positions of a set of positions.
NewestOf(P, n) == {i \in P : Cardinality({j \in P : j >= i}) <= n}

\* Mutant: the newest records stay, delivered or not.
CompactedByAge(recs) == SelectPositions(recs, NewestOf(DOMAIN recs, CompactTo))

\* compactStoreToRecent: undelivered incoming records go last, oldest first.
Compacted(recs) ==
    LET unsent == {i \in DOMAIN recs : protect(recs[i])}
        keepUnsent == NewestOf(unsent, CompactTo)
        keepOther == NewestOf(DOMAIN recs \ unsent, CompactTo - Cardinality(keepUnsent))
    IN  SelectPositions(recs, keepUnsent \cup keepOther)

\* The longest prefix of records with unambiguous ids.
readRecoverablePrefix(recs) ==
    LET good == {n \in 0..Len(recs) : /\ UniqueIds(SubSeq(recs, 1, n))
                                       /\ 0 \notin RecordIds(SubSeq(recs, 1, n))}
    IN  SubSeq(recs, 1, Greatest(good))

-----------------------------------------------------------------------------
(* Building blocks of the calls.                                           *)

NoCall == cur' = None /\ newId' = 0

Return(r) == pc' = "idle" /\ result' = r /\ NoCall

PowerLost ==
    /\ cuts < Cuts[backend]
    /\ cuts' = cuts + 1
    /\ index' = {} /\ indexValid' = FALSE /\ recovery' = FALSE
    /\ pc' = "off" /\ result' = None /\ NoCall

Failures == {"refused", "both", "pending"}

Outcomes == Failures \cup {"done", "cut"}

\* atomicReplaceStore: what a rewrite with contents f leaves behind.  A cut
\* anywhere inside it leaves one of the four file states it passes through.
atomicReplaceStore(f, outcome) ==
    \/ /\ outcome = "done" /\ validateStore(f)
       /\ live' = f /\ temp' = None
    \/ /\ outcome = "refused" /\ ("refused" \in ReplaceFaults[backend] \/ ~validateStore(f))
       /\ live' = live /\ temp' \in {temp, None}
    \/ /\ outcome = "both" /\ "both" \in ReplaceFaults[backend] /\ validateStore(f)
       /\ live # None /\ live' = live /\ temp' = f
    \/ /\ outcome = "pending" /\ "pending" \in ReplaceFaults[backend] /\ validateStore(f)
       /\ live' = None /\ temp' = f
    \/ /\ outcome = "cut" /\ validateStore(f)
       /\ \E files \in {<<live, None>>, <<live, f>>, <<None, f>>, <<f, None>>} :
             live' = files[1] /\ temp' = files[2]

\* rebuildIdentityIndex: FALSE leaves the index of before, marked invalid.
CanRebuild(f) == f # None /\ f.next # 0 /\ f.count <= MaxRecords /\ f.count <= Len(f.recs)

rebuildIdentityIndex(f) ==
    /\ indexValid' = CanRebuild(f)
    /\ index' = IF CanRebuild(f) THEN RecordIds(SubSeq(f.recs, 1, f.count)) ELSE index

\* The index has room for a full store and drops what comes after.
identityIndexAdd(id) ==
    index' = IF indexValid /\ Cardinality(index) < MaxRecords THEN index \cup {id} ELSE index

\* The messages a compaction discards are no longer owed to anybody, unless it
\* was refused before it wrote anything.
Discarded(recs) == RecordKeys(recs) \ RecordKeys(Compacted(recs))

Remaining(keys, outcome) == IF outcome = "refused" THEN keys ELSE keys \ Discarded(Loaded)

\* What repairInterruptedAppend makes of the live file.
Repairable == LET recovered == readRecoverablePrefix(live.recs)
              IN  File(recovered, deriveNextId(recovered))

Hopeless == \/ Len(live.recs) > MaxRecords + 1
            \/ live.recs # <<>> /\ Repairable.recs = <<>>
            \/ live.recs = <<>> /\ ~readHeader

Exact == live = Repairable

-----------------------------------------------------------------------------
(* messageStoreBegin, at boot, followed by messageStoreMarkOrphanedPendingLost. *)

\* A failed Begin is ignored by the mesh on the default backend; a card that fails
\* it is not selected.
BeginFailed == result' = "failed" /\ NoCall /\ pc' = IF OnSd THEN "off" ELSE "idle"

\* A pending replacement is promoted over the live file.
BeginRecover ==
    /\ pc = "off"
    /\ \/ /\ temp = None
          /\ pc' = "repair" /\ UNCHANGED <<live, temp, cur, newId, result>>
       \/ /\ temp # None
          /\ live' = temp /\ temp' = None
          /\ pc' = "repair" /\ UNCHANGED <<cur, newId, result>>
       \/ /\ temp # None
          /\ \/ "both" \in ReplaceFaults[backend] /\ live # None /\ live' = live
             \/ "pending" \in ReplaceFaults[backend] /\ live' = None
          /\ temp' = temp
          /\ IF live' = None \/ OnSd THEN BeginFailed
             ELSE pc' = "repair" /\ UNCHANGED <<cur, newId, result>>
    /\ index' = {} /\ indexValid' = FALSE /\ recovery' = FALSE
    /\ UNCHANGED <<quarantine, cuts, damages, history>>

\* quarantineStoreAndReset: the file is set aside, then an empty one is written.
QuarantineStore(next, failed) ==
    \/ /\ quarantine' = "held" /\ live' = EmptyStore /\ temp' = None
       /\ recovery' = FALSE /\ indexValid' = FALSE /\ index' = index
       /\ pc' = next /\ UNCHANGED <<cur, newId, result, cuts>>
    \/ /\ "refused" \in ReplaceFaults[backend]
       /\ \E files \in {<<quarantine, live>>, <<None, live>>, <<"held", None>>} :
             quarantine' = files[1] /\ live' = files[2]
       /\ failed
       /\ UNCHANGED <<temp, ram, cuts>>
    \/ /\ PowerLost
       /\ \E files \in {<<None, live>>, <<"held", None>>, <<"held", EmptyStore>>} :
             quarantine' = files[1] /\ live' = files[2]
       /\ temp' = None

\* repairInterruptedAppend, continuing at step next; failed is the other way out.
Repair(next, failed) ==
    \/ /\ live = None \/ (live # None /\ ~Hopeless /\ Exact)
       /\ pc' = next
       /\ UNCHANGED <<live, temp, quarantine, ram, cur, newId, result, cuts>>
    \/ /\ live # None /\ Hopeless
       /\ QuarantineStore(next, failed)
    \/ /\ live # None /\ ~Hopeless /\ ~Exact
       /\ quarantine' = quarantine
       /\ \E o \in Outcomes :
            /\ atomicReplaceStore(Repairable, o)
            /\ CASE o = "done" -> pc' = next /\ UNCHANGED <<ram, cur, newId, result, cuts>>
                 [] o = "cut"  -> PowerLost
                 [] OTHER      -> failed /\ UNCHANGED <<ram, cuts>>

BeginRepair ==
    /\ pc = "repair"
    /\ Repair("header", BeginFailed)
    /\ UNCHANGED <<damages, history>>

\* writeHeaderIfNeeded, continuing at step next.
HeaderIfNeeded(next, failed) ==
    /\ UNCHANGED quarantine
    /\ \/ /\ readHeader
          /\ pc' = next
          /\ UNCHANGED <<live, temp, ram, cur, newId, result, cuts>>
       \/ /\ ~readHeader /\ live # None
          /\ failed
          /\ UNCHANGED <<live, temp, ram, cuts>>
       \/ /\ live = None
          /\ \E o \in Outcomes :
               /\ atomicReplaceStore(EmptyStore, o)
               /\ CASE o = "done" -> pc' = next /\ UNCHANGED <<ram, cur, newId, result, cuts>>
                    [] o = "cut"  -> PowerLost
                    [] OTHER      -> failed /\ UNCHANGED <<ram, cuts>>

BeginHeader ==
    /\ pc = "header"
    /\ HeaderIfNeeded("compact", BeginFailed)
    /\ UNCHANGED <<damages, history>>

\* compactStoreToRecent, continuing with done or failed.
Compact(done, failed) ==
    /\ UNCHANGED quarantine
    /\ \/ /\ Loaded = <<>>
          /\ failed
          /\ UNCHANGED <<live, temp, ram, cuts, history>>
       \/ /\ Loaded # <<>>
          /\ \E o \in Outcomes :
               /\ atomicReplaceStore(File(Compacted(Loaded), live.next), o)
               /\ CASE o = "done" -> done /\ UNCHANGED <<recovery, cuts>>
                    [] o = "cut"  -> PowerLost
                    [] OTHER      -> failed /\ UNCHANGED <<ram, cuts>>
               /\ marked' = Remaining(marked, o)
               /\ o # "done" => promised' = Remaining(promised, o)

\* Compaction of a store found over its capacity, and the index of what is left.
BeginCompact ==
    /\ pc = "compact"
    /\ \/ /\ readHeader /\ live.count <= MaxRecords
          /\ rebuildIdentityIndex(live)
          /\ recovery' = (recovery /\ ~CanRebuild(live))
          /\ IF CanRebuild(live) THEN pc' = "orphans" /\ UNCHANGED <<cur, newId, result>>
             ELSE BeginFailed
          /\ UNCHANGED <<live, temp, quarantine, cuts, history>>
       \/ /\ live.count > MaxRecords
          /\ Compact(/\ pc' = "compact" /\ UNCHANGED <<index, indexValid, cur, newId, result>>
                     /\ promised' = Remaining(promised, "done"),
                     BeginFailed)
    /\ UNCHANGED damages

-----------------------------------------------------------------------------
(* messageStoreAppend (appendOnce).                                        *)

\* A failure on SD hands the session to the default backend.
AppendFailed == result' = "failed" /\ NoCall /\ pc' = IF OnSd THEN "off" ELSE "idle"

\* Mutant: the recovery flag is not looked at.
AppendBeginUnrepaired(k) ==
    /\ pc = "idle"
    /\ cur' = k /\ newId' = 0 /\ result' = None
    /\ pc' = "aheader"
    /\ UNCHANGED <<live, temp, quarantine, ram, cuts, damages, history>>

AppendBegin(k) ==
    /\ pc = "idle"
    /\ cur' = k /\ newId' = 0 /\ result' = None
    /\ pc' = IF recovery THEN "arepair" ELSE "aheader"
    /\ UNCHANGED <<live, temp, quarantine, ram, cuts, damages, history>>

\* The tail an earlier append left uncertain is reconciled first.
AppendRepair ==
    /\ pc = "arepair"
    /\ Repair("areindex", AppendFailed)
    /\ UNCHANGED <<damages, history>>

\* Mutant: the index is not rebuilt after the repair.
AppendReindexSkipped ==
    /\ pc = "areindex"
    /\ recovery' = FALSE
    /\ pc' = "aheader"
    /\ UNCHANGED <<index, indexValid, cur, newId, result, live, temp, quarantine, cuts, damages,
                   history>>

AppendReindex ==
    /\ pc = "areindex"
    /\ recovery' = FALSE
    /\ rebuildIdentityIndex(live)
    /\ IF CanRebuild(live) THEN pc' = "aheader" /\ UNCHANGED <<cur, newId, result>>
       ELSE AppendFailed
    /\ UNCHANGED <<live, temp, quarantine, cuts, damages, history>>

AppendHeader ==
    /\ pc = "aheader"
    /\ HeaderIfNeeded("alookup", AppendFailed)
    /\ UNCHANGED <<damages, history>>

\* messageExists, against the index as messageExists leaves it.
messageExists(k, ids) ==
    \E i \in DOMAIN Loaded : Loaded[i].id \in ids /\ Loaded[i].key = k

AppendLookup ==
    /\ pc = "alookup"
    /\ IF indexValid THEN UNCHANGED <<index, indexValid>> ELSE rebuildIdentityIndex(live)
    /\ \/ /\ indexValid' /\ messageExists(cur, index')
          /\ Return("ok")
          /\ promised' = promised \cup {cur}
          /\ UNCHANGED recovery
       \/ /\ ~(indexValid' /\ messageExists(cur, index'))
          /\ IF FirstUnused(live.next, index') = 0
             THEN AppendFailed /\ UNCHANGED recovery
             ELSE /\ newId' = live.next
                  /\ recovery' = TRUE
                  /\ pc' = "arecord" /\ UNCHANGED <<cur, result>>
          /\ UNCHANGED promised
    /\ UNCHANGED <<live, temp, quarantine, cuts, damages, marked>>

\* The record as it lands in the file: behind a torn tail it is not aligned.
NewRecord == [id |-> newId, key |-> IF live.torn THEN Garbage ELSE cur,
              sent |-> FALSE, acked |-> FALSE, lost |-> FALSE]

AppendRecord ==
    /\ pc = "arecord"
    /\ \/ /\ live' = [live EXCEPT !.recs = Append(@, NewRecord)]
          /\ pc' = "acommit" /\ UNCHANGED <<ram, cur, newId, result, cuts>>
       \/ /\ "append" \in WriteFaults[backend]
          /\ live' \in {live, [live EXCEPT !.torn = TRUE]}
          /\ AppendFailed /\ UNCHANGED <<ram, cuts>>
       \/ /\ live' = [live EXCEPT !.torn = TRUE]
          /\ PowerLost
    /\ UNCHANGED <<temp, quarantine, damages, history>>

\* The header bytes a write that stops early can leave: count and next are
\* written low byte first, so a carry can leave a 0 in either.
TornHeaders(count, next) ==
    {[live EXCEPT !.count = count],
     [live EXCEPT !.count = 0],
     [live EXCEPT !.count = count, !.next = 0]}

\* writeHeaderState publishes the record.
AppendCommit ==
    /\ pc = "acommit"
    /\ LET count == live.count + 1
           next == nextUnusedIdAfter(newId)
       IN  \/ /\ live' = [live EXCEPT !.count = count, !.next = next]
              /\ recovery' = FALSE
              /\ UNCHANGED cuts
              /\ IF count > MaxRecords
                 THEN pc' = "acompact" /\ UNCHANGED <<index, indexValid, cur, newId, result, history>>
                 ELSE /\ Return("ok")
                      /\ identityIndexAdd(newId)
                      /\ promised' = promised \cup {cur}
                      /\ UNCHANGED <<indexValid, marked>>
           \/ /\ IF count > MaxRecords THEN "fullHeader" \in WriteFaults[backend]
                                     ELSE "header" \in WriteFaults[backend]
              /\ live' \in TornHeaders(count, next) \cup {live}
              /\ AppendFailed
              /\ UNCHANGED <<ram, cuts, history>>
           \/ /\ live' \in TornHeaders(count, next)
              /\ PowerLost
              /\ UNCHANGED history
    /\ UNCHANGED <<temp, quarantine, damages>>

\* Crossing the capacity compacts before the append returns.
AppendCompact ==
    /\ pc = "acompact"
    /\ Compact(/\ Return("ok")
               /\ rebuildIdentityIndex(live')
               /\ promised' = Remaining(promised \cup {cur}, "done"),
               AppendFailed)
    /\ UNCHANGED damages

-----------------------------------------------------------------------------
(* The marks: a record's flags change in a rewrite of the whole file.      *)

\* The positions of the records of message k, and the records with the flags of
\* those at hits replaced.
PositionsOf(k) == {i \in DOMAIN Loaded : Loaded[i].key = k}

Flagged(r, flags) == [f \in DOMAIN r |-> IF f \in DOMAIN flags THEN flags[f] ELSE r[f]]

Updated(hits, flags) ==
    [i \in DOMAIN Loaded |-> IF i \in hits THEN Flagged(Loaded[i], flags) ELSE Loaded[i]]

\* One mark call: nothing matches, or the file is rewritten with next_id kept.
Rewrite(hits, flags, done) ==
    /\ pc \in {"idle", "orphans"}
    /\ UNCHANGED <<quarantine, damages, promised>>
    /\ \/ /\ hits = {}
          /\ Return("failed")
          /\ UNCHANGED <<live, temp, ram, cuts, marked>>
       \/ /\ hits # {}
          /\ \E o \in Outcomes :
               /\ atomicReplaceStore(File(Updated(hits, flags), live.next), o)
               /\ CASE o = "done" -> Return("ok") /\ done /\ UNCHANGED <<ram, cuts>>
                    [] o = "cut"  -> PowerLost /\ UNCHANGED marked
                    [] OTHER      -> Return("failed") /\ UNCHANGED <<ram, cuts, marked>>

\* Mutant: the acknowledged record forgets its delivery.
MarkAckedResetsSent(k) ==
    /\ pc = "idle"
    /\ Rewrite(PositionsOf(k), [acked |-> TRUE, lost |-> FALSE, sent |-> FALSE],
               UNCHANGED marked)

MarkAcked(k) ==
    /\ pc = "idle"
    /\ Rewrite(PositionsOf(k), [acked |-> TRUE, lost |-> FALSE], UNCHANGED marked)

MarkConfirmationLost(k) ==
    /\ pc = "idle"
    /\ Rewrite({i \in PositionsOf(k) : ~Loaded[i].acked}, [lost |-> TRUE], UNCHANGED marked)

\* After a successful Begin: no confirmation can arrive for what was sent before.
MarkOrphanedPendingLost ==
    /\ pc = "orphans"
    /\ Rewrite({i \in DOMAIN Loaded :
                   Loaded[i].key \in Own /\ ~Loaded[i].acked /\ ~Loaded[i].lost},
               [lost |-> TRUE], UNCHANGED marked)

\* A record already marked is not rewritten.
MarkCompanionSent(id) ==
    /\ pc = "idle"
    /\ LET hits == {i \in DOMAIN Loaded : Loaded[i].id = id}
           delivered == marked' = marked \cup {Loaded[i].key : i \in hits}
       IN  \/ /\ \E i \in hits : Loaded[i].sent
              /\ Return("ok") /\ delivered
              /\ UNCHANGED <<live, temp, quarantine, ram, cuts, damages, promised>>
           \/ /\ \A i \in hits : ~Loaded[i].sent
              /\ Rewrite(hits, [sent |-> TRUE], delivered)

\* messageStoreClear, with which sdMessageStoreSelect retires a default store it
\* has just opened and copied to the card.  Nothing is owed here any more; after a
\* failure the store is opened again.
Clear ==
    /\ pc = "orphans" /\ ~OnSd /\ Loaded # <<>>
    /\ \E o \in Outcomes :
         /\ atomicReplaceStore(EmptyStore, o)
         /\ CASE o = "done" -> /\ Return("ok") /\ UNCHANGED cuts
                               /\ index' = {} /\ indexValid' = TRUE /\ recovery' = FALSE
              [] o = "cut"  -> PowerLost
              [] OTHER      -> /\ pc' = "off" /\ result' = "failed" /\ NoCall
                               /\ UNCHANGED <<ram, cuts>>
         /\ IF o = "refused" THEN UNCHANGED <<promised, marked>>
            ELSE promised' = {} /\ marked' = {}
    /\ UNCHANGED <<quarantine, damages>>

-----------------------------------------------------------------------------
(* The environment.                                                        *)

\* Power is cut between two steps.
Crash ==
    /\ pc # "off"
    /\ PowerLost
    /\ UNCHANGED <<live, temp, quarantine, damages, history>>

\* The SD driver promotes a pending replacement before any other access.
PromoteOnAccess ==
    /\ OnSd /\ pc = "idle" /\ temp # None
    /\ live' = temp /\ temp' = None
    /\ UNCHANGED <<quarantine, ram, call, cuts, damages, history>>

\* While the device is off the medium damages a record: what follows it in the
\* file is given up by the repair.
Damage(i) ==
    /\ pc = "off" /\ temp = None /\ live # None /\ damages < Damages[backend]
    /\ i \in DOMAIN live.recs
    /\ live' = [live EXCEPT !.recs[i].id = 0]
    /\ damages' = damages + 1
    /\ LET gone == {live.recs[j].key : j \in i..Len(live.recs)}
       IN  promised' = promised \ gone /\ marked' = marked \ gone
    /\ UNCHANGED <<temp, quarantine, ram, call, cuts>>

-----------------------------------------------------------------------------
Init ==
    /\ backend \in Backends
    /\ live = None /\ temp = None /\ quarantine = None
    /\ index = {} /\ indexValid = FALSE /\ recovery = FALSE
    /\ pc = "off" /\ cur = None /\ newId = 0 /\ result = None
    /\ cuts = 0 /\ damages = 0
    /\ promised = {} /\ marked = {}

Begin == BeginRecover \/ BeginRepair \/ BeginHeader \/ BeginCompact \/ MarkOrphanedPendingLost
         \/ Clear

AppendStep == \/ AppendRepair \/ AppendReindex \/ AppendHeader \/ AppendLookup
              \/ AppendRecord \/ AppendCommit \/ AppendCompact

\* A call finds no pending file behind a backend that promotes on access.
Accessible == OnSd => temp = None

Call == /\ Accessible
        /\ \/ \E k \in Keys : AppendBegin(k)
           \/ \E k \in Own : MarkAcked(k)
           \/ \E k \in Own : MarkConfirmationLost(k)
           \/ \E id \in Ids : MarkCompanionSent(id)

Next == /\ \/ Begin \/ AppendStep \/ Call \/ Crash \/ PromoteOnAccess
           \/ \E i \in 1..(MaxRecords + 1) : Damage(i)
        /\ UNCHANGED backend

Spec == Init /\ [][Next]_vars

-----------------------------------------------------------------------------
(* Properties.                                                             *)

StoreFile == [count : 0..(MaxRecords + 2), next : Ids \cup {0}, recs : Seq(Record),
              torn : BOOLEAN]

\* Every variable keeps its shape: the file is a header over records, the index a
\* set of ids, and a call stands at one of the steps of messageStoreBegin or
\* messageStoreAppend.
TypeOK ==
    /\ backend \in Backends
    /\ live \in StoreFile \cup {None}
    /\ temp \in StoreFile \cup {None}
    /\ quarantine \in {None, "held"}
    /\ index \subseteq Ids \cup {0}
    /\ indexValid \in BOOLEAN /\ recovery \in BOOLEAN
    /\ pc \in {"off", "repair", "header", "compact", "orphans", "idle", "arepair", "areindex",
               "aheader", "alookup", "arecord", "acommit", "acompact"}
    /\ cur \in Keys \cup {None} /\ newId \in Ids \cup {0}
    /\ result \in {None, "ok", "failed"}
    /\ cuts \in 0..Cuts[backend] /\ damages \in 0..Damages[backend]
    /\ promised \subseteq Keys /\ marked \subseteq Keys \cup {Garbage}

\* What messageStoreBegin would recover if the device rebooted now.
Recoverable ==
    LET f == IF temp # None THEN temp ELSE live
    IN  IF f = None \/ (f # None /\ Len(f.recs) > MaxRecords + 1) THEN <<>>
        ELSE readRecoverablePrefix(f.recs)

\* A message whose messageStoreAppend returned true is found again by a boot at
\* any moment, through torn appends, torn headers, interrupted rewrites and
\* repairs, unless a compaction discarded it or the medium damaged it.
AcknowledgedSurvive == promised \subseteq RecordKeys(Recoverable)

\* A record for which messageStoreMarkCompanionSent returned true is never found
\* unsent again, so no later rewrite or recovery makes it deliverable twice.
SentMarksSurvive ==
    \A i \in DOMAIN Recoverable : Recoverable[i].key \in marked => Recoverable[i].sent

\* messageExists keeps a message from being stored twice, although its index lives
\* in RAM and is rebuilt after repairs, compactions and boots.
NoDuplicateMessages ==
    \A i, j \in DOMAIN Recoverable :
        i # j => Recoverable[i].key # Recoverable[j].key

\* Once the tail is reconciled the id the next append takes is held by no record of
\* the file, across the wrap of the id counter and torn headers.
NextIdIsFree ==
    (pc = "idle" /\ ~recovery /\ readHeader) => live.next \notin RecordIds(live.recs)

\* Compaction discards an undelivered incoming record only when nothing but
\* undelivered records is kept, and an own or delivered record only when everything
\* of its class that is kept is newer.
CompactionOrder ==
    (/\ pc \in {"compact", "acompact"} /\ live # None /\ live' # None
     /\ Len(live'.recs) < Len(live.recs))
    => LET kept == RecordIds(live'.recs)
       IN  \A i, j \in DOMAIN live.recs :
             (live.recs[i].id \notin kept /\ live.recs[j].id \in kept) =>
                \/ protect(live.recs[j]) /\ ~protect(live.recs[i])
                \/ (protect(live.recs[i]) <=> protect(live.recs[j])) /\ i < j

CompactsInOrder == [][CompactionOrder]_vars
=============================================================================
