------------------------- MODULE DeliveryTracking --------------------------
(***************************************************************************)
(* Delivery confirmation of direct messages (mesh/sigurd_mesh_v2.cpp,      *)
(* mesh/mesh_wrapper.cpp, mesh/message_store.cpp).  A sent DM gets an      *)
(* entry in a small table of pending ACKs in RAM and a record in the       *)
(* message store.  The peer's ACK, the entry's deadline, the eviction of   *)
(* the oldest entry or a reboot settle the record as acked or lost.  The   *)
(* entry names the contact by key, the record by the contact's name.       *)
(*                                                                         *)
(* millis() is a clock of Modulus ticks that wraps.  ACKs come over the    *)
(* air: any ACK of a transmitted attempt may arrive, late, again or never. *)
(* All of this runs on the main loop, one call at a time.                  *)
(***************************************************************************)
EXTENDS Integers, Sequences, FiniteSets, Functions

CONSTANTS Contacts,            \* public keys of peers
          Names,               \* names peers advertise
          InitialNames,        \* what the contacts may be called at first
          NoName,              \* of a contact that is not in the table
          MaxMessages,         \* bound: DMs, which are their timestamps 1..MaxMessages
          MaxAttempts,         \* attempt numbers, which wrap: 4 in the protocol
          MaxSends,            \* bound: transmissions
          MAX_PENDING_ACKS,
          MAX_ACKED,           \* length of the ring of acked DMs
          Modulus,             \* bound: 2^32 in the code
          Lifetimes,           \* what pendingAckLifetimeMs can give
          MaxLag,              \* bound: ticks between two passes of the loop
          Faults,              \* "append", "mark": the store fails;
                               \* "reboot", "remove", "overwrite", "rename"
          MaxTroubles          \* bound: faults that happen

ASSUME DeliveryTrackingConstants ==
    /\ Contacts \cap Names = {}
    /\ NoName \notin Names \cup Contacts
    /\ InitialNames \subseteq [Contacts -> Names]
    /\ {MaxMessages, MaxAttempts, MAX_PENDING_ACKS, MAX_ACKED} \subseteq Nat \ {0}
    /\ MaxSends \in Nat /\ MaxLag \in Nat /\ MaxTroubles \in Nat
    /\ Modulus \in Nat \ {0} /\ Modulus % 2 = 0
    /\ Lifetimes \subseteq 1..(Modulus \div 2)
    /\ \A l \in Lifetimes : l + MaxLag < Modulus
    /\ MaxLag < Modulus \div 2

VARIABLES name,       \* the name of each contact, NoName when it is not in the table
          clock,      \* millis()
          lag,        \* ticks since the last pass of the loop
          pending,    \* _pending_acks
          acked,      \* _acked_msgs, oldest first
          stored,     \* delivery status of the record of a DM in a conversation
          dest,       \* history: the contact a DM was sent to
          cli,        \* history: the DMs that carry a CLI command
          sent,       \* history: how often each DM was transmitted
          confirmed,  \* history: how often an ACK of each DM was confirmed to the app
          strayed,    \* history: DMs whose record the table may fail to settle
          troubles    \* faults so far

vars == <<name, clock, lag, pending, acked, stored, dest, cli, sent, confirmed, strayed,
          troubles>>

history == <<dest, cli, sent, confirmed>>

-----------------------------------------------------------------------------
Messages == 1..MaxMessages

Attempts == 0..(MaxAttempts - 1)

\* The ACK value is a hash of the DM's timestamp, attempt number and text.
Acks == Messages \X Attempts

Slots == 1..MAX_PENDING_ACKS

Conversations == Names \cup Contacts

\* age is history: the ticks since the entry was made, which the code takes
\* from the wrapping clock.
Entry(c, ack, l) == [dest |-> c, ack |-> ack, sent_at |-> clock,
                     expires_at |-> (clock + l) % Modulus, age |-> 0]

Free == [dest |-> NoName, ack |-> <<0, 0>>, sent_at |-> 0, expires_at |-> 0, age |-> 0]

Known(c) == name[c] # NoName

InUse(e) == e # Free

TimestampOf(e) == e.ack[1]

\* Mutant: compares the clock without its wrap.
pendingAckDeadlineReachedUnsigned(e) == clock >= e.expires_at

\* (int32_t)(now - deadline) >= 0
pendingAckDeadlineReached(e) == (clock - e.expires_at) % Modulus < Modulus \div 2

Age(e) == (clock - e.sent_at) % Modulus

Due(e) == InUse(e) /\ pendingAckDeadlineReached(e)

\* "DM: <name>" of a contact; of its key when it is not in the table.
formatDmConversation(c) == IF Known(c) THEN name[c] ELSE c

RecordOf(e) == <<TimestampOf(e), formatDmConversation(e.dest)>>

DmOf(e) == <<e.dest, TimestampOf(e)>>

Newest(ring) == SubSeq(ring, 1 + Len(ring) - (IF Len(ring) < MAX_ACKED THEN Len(ring)
                                              ELSE MAX_ACKED), Len(ring))

-----------------------------------------------------------------------------
(* The message store.                                                      *)

\* The first transmission makes the record; a retry finds it by its identity.
messageStoreAppend(st, m, conv) == [st EXCEPT ![m, conv] = IF @ = "none" THEN "pending" ELSE @]

\* Mutant: an ACK leaves a record that was given up as it is.
messageStoreMarkAckedPendingOnly(st, records) ==
    [r \in DOMAIN st |-> IF r \in records /\ st[r] = "pending" THEN "acked" ELSE st[r]]

messageStoreMarkAcked(st, records) ==
    [r \in DOMAIN st |-> IF r \in records /\ st[r] # "none" THEN "acked" ELSE st[r]]

messageStoreMarkConfirmationLost(st, records) ==
    [r \in DOMAIN st |-> IF r \in records /\ st[r] = "pending" THEN "lost" ELSE st[r]]

messageStoreMarkOrphanedPendingLost(st) ==
    [r \in DOMAIN st |-> IF st[r] = "pending" THEN "lost" ELSE st[r]]

\* What fails in a call, if anything: the append, or the rewrites of marked records.
CallFaults == {"none"} \cup (IF troubles < MaxTroubles THEN Faults \cap {"append", "mark"} ELSE {})

Count(fault) == troubles' = IF fault = "none" THEN troubles ELSE troubles + 1

Trouble(fault) == /\ fault \in Faults
                  /\ troubles < MaxTroubles
                  /\ troubles' = troubles + 1

-----------------------------------------------------------------------------
(* The table of pending ACKs.                                              *)

expirePendingAcks(p) == [i \in Slots |-> IF Due(p[i]) THEN Free ELSE p[i]]

\* The entry a new one displaces when the table is full: the first of the oldest.
Oldest(p) == CHOOSE i \in Slots :
                 /\ \A j \in Slots : Age(p[j]) <= Age(p[i])
                 /\ \A j \in 1..(i - 1) : Age(p[j]) < Age(p[i])

FreeSlots(p) == {i \in Slots : ~InUse(p[i])}

SlotFor(p) == IF FreeSlots(p) = {} THEN Oldest(p)
              ELSE CHOOSE i \in FreeSlots(p) : \A j \in FreeSlots(p) : i <= j

\* The records of the entries that are due, and of the one addPendingAck evicts.
Expired == {RecordOf(pending[i]) : i \in {i \in Slots : Due(pending[i])}}

\* Mutant: the evicted entry is overwritten and not reported.
EvictedSilently == {}

Evicted == LET live == expirePendingAcks(pending)
           IN  IF FreeSlots(live) = {} THEN {RecordOf(live[Oldest(live)])} ELSE {}

\* registerConfirmationLost for the records, unless the store fails.
AfterLost(records, fault) ==
    IF fault = "mark" THEN stored ELSE messageStoreMarkConfirmationLost(stored, records)

\* The DMs of records whose rewrite failed.
Unmarked(records, fault) ==
    IF fault = "mark" THEN {r[1] : r \in {r \in records : stored[r] \in {"pending", "lost"}}} ELSE {}

Matches(p, a) == {i \in Slots : InUse(p[i]) /\ p[i].ack = a}

Release(p, i) == [p EXCEPT ![i] = Free]

addPendingAck(e) ==
    LET live == expirePendingAcks(pending)
    IN  pending' = [live EXCEPT ![SlotFor(live)] = e]

-----------------------------------------------------------------------------
Init ==
    /\ name \in InitialNames
    /\ clock = 0 /\ lag = 0
    /\ pending = [i \in Slots |-> Free]
    /\ acked = <<>>
    /\ stored = [r \in Messages \X Conversations |-> "none"]
    /\ dest = [m \in Messages |-> NoName]
    /\ cli = {}
    /\ sent = [m \in Messages |-> 0]
    /\ confirmed = [m \in Messages |-> 0]
    /\ strayed = {}
    /\ troubles = 0

\* Timestamps are taken in order.
Fresh(m) == dest[m] = NoName /\ \A k \in 1..(m - 1) : dest[k] # NoName

\* A DM is transmitted, then tracked, then recorded.
Transmit(c, m, a) ==
    /\ Known(c)
    /\ SumFunction(sent) < MaxSends
    /\ dest' = [dest EXCEPT ![m] = c]
    /\ sent' = [sent EXCEPT ![m] = @ + 1]
    /\ \E l \in Lifetimes : addPendingAck(Entry(c, <<m, a>>, l))
    /\ \E fault \in CallFaults :
          LET gone == Expired \cup Evicted
              st   == AfterLost(gone, fault)
          IN  /\ stored' = IF fault = "append" THEN st ELSE messageStoreAppend(st, m, name[c])
              /\ strayed' = strayed \cup Unmarked(gone, fault) \cup
                               (IF fault = "append" THEN {m} ELSE {})
              /\ Count(fault)
    /\ UNCHANGED <<name, clock, lag, acked, cli, confirmed>>

\* From the device's own chat: a timestamp of its own, attempt 0.
sendMessage(c, m) == Fresh(m) /\ Transmit(c, m, 0)

\* From the app: a new timestamp, or the next attempt of an earlier DM.
sendTextByPubKeyPrefix(c, m) == /\ Fresh(m) \/ (dest[m] = c /\ m \notin cli)
                                /\ Transmit(c, m, sent[m] % MaxAttempts)

\* A CLI command is recorded as a DM, and no ACK is expected.
sendCommandData(c, m) ==
    /\ Known(c)
    /\ Fresh(m)
    /\ dest' = [dest EXCEPT ![m] = c]
    /\ cli' = cli \cup {m}
    /\ \E fault \in CallFaults \ {"mark"} :
          /\ stored' = IF fault = "append" THEN stored ELSE messageStoreAppend(stored, m, name[c])
          /\ Count(fault)
    /\ UNCHANGED <<name, clock, lag, pending, acked, sent, confirmed, strayed>>

\* An ACK arrives: what is due expires first, then the first match is confirmed.
processAck(a) ==
    LET live    == expirePendingAcks(pending)
        matches == Matches(live, a)
    IN  /\ a[2] < sent[a[1]]
        /\ \E fault \in CallFaults \ {"append"} :
              /\ Count(fault)
              /\ \/ /\ matches = {}
                    /\ pending' = live
                    /\ stored' = AfterLost(Expired, fault)
                    /\ strayed' = strayed \cup Unmarked(Expired, fault)
                    /\ UNCHANGED <<acked, confirmed>>
                 \/ \E i \in matches :
                       /\ \A j \in matches : i <= j
                       /\ pending' = Release(live, i)
                       /\ acked' = Newest(acked \o <<DmOf(live[i])>>)
                       /\ stored' = IF fault = "mark" THEN stored
                                    ELSE messageStoreMarkAcked(AfterLost(Expired, fault),
                                                               {RecordOf(live[i])})
                       /\ strayed' = strayed \cup
                                        Unmarked(Expired \cup {RecordOf(live[i])}, fault)
                       /\ confirmed' = [confirmed EXCEPT ![a[1]] = @ + 1]
        /\ UNCHANGED <<name, clock, lag, dest, cli, sent>>

\* Mutant: the expired entries are dropped and not reported.
LoopSilently ==
    /\ pending' = expirePendingAcks(pending)
    /\ lag' = 0
    /\ UNCHANGED <<name, clock, acked, stored, history, strayed, troubles>>

\* A pass of the main loop: expirePendingAcks, after the radio was served.
Loop ==
    /\ pending' = expirePendingAcks(pending)
    /\ lag' = 0
    /\ \E fault \in CallFaults \ {"append"} :
          /\ fault = "mark" => Expired # {}
          /\ stored' = AfterLost(Expired, fault)
          /\ strayed' = strayed \cup Unmarked(Expired, fault)
          /\ Count(fault)
    /\ UNCHANGED <<name, clock, acked, history>>

\* Time passes.
Tick ==
    /\ lag < MaxLag
    /\ lag' = lag + 1
    /\ clock' = (clock + 1) % Modulus
    /\ pending' = [i \in Slots |-> IF InUse(pending[i]) THEN [pending[i] EXCEPT !.age = @ + 1]
                                   ELSE pending[i]]
    /\ UNCHANGED <<name, acked, stored, history, strayed, troubles>>

\* The DMs to c that have a record under its present name that no ACK has settled.
Unsettled(c) == {m \in Messages : /\ dest[m] = c /\ Known(c)
                                  /\ stored[m, name[c]] \in {"pending", "lost"}}

\* The user or the app removes a contact: teardownContactRuntime forgets its entries.
meshRemoveContactByPubKeyDurable(c) ==
    /\ Known(c)
    /\ Trouble("remove")
    /\ name' = [name EXCEPT ![c] = NoName]
    /\ pending' = [i \in Slots |-> IF pending[i].dest = c THEN Free ELSE pending[i]]
    /\ strayed' = strayed \cup Unsettled(c)
    /\ UNCHANGED <<clock, lag, acked, stored, history>>

\* A full contact table gives c's place to a newly heard peer; the entries stay.
onContactOverwrite(c) ==
    /\ Known(c)
    /\ Trouble("overwrite")
    /\ name' = [name EXCEPT ![c] = NoName]
    /\ strayed' = strayed \cup Unsettled(c)
    /\ UNCHANGED <<clock, lag, pending, acked, stored, history>>

\* An advert of c brings it into the table or changes its name.
onDiscoveredContact(c, n) ==
    /\ name[c] # n
    /\ Trouble("rename")
    /\ name' = [name EXCEPT ![c] = n]
    /\ strayed' = strayed \cup Unsettled(c)
    /\ UNCHANGED <<clock, lag, pending, acked, stored, history>>

\* RAM is lost.  init() settles what can no longer be matched, if the store allows it.
Reboot ==
    /\ Trouble("reboot")
    /\ clock' = 0 /\ lag' = 0
    /\ pending' = [i \in Slots |-> Free]
    /\ acked' = <<>>
    /\ stored' = messageStoreMarkOrphanedPendingLost(stored)
    /\ UNCHANGED <<name, history, strayed>>

Next ==
    \/ \E c \in Contacts, m \in Messages :
          \/ sendMessage(c, m)
          \/ sendTextByPubKeyPrefix(c, m)
          \/ sendCommandData(c, m)
    \/ \E a \in Acks : processAck(a)
    \/ Loop
    \/ Tick
    \/ \E c \in Contacts :
          \/ meshRemoveContactByPubKeyDurable(c)
          \/ onContactOverwrite(c)
          \/ \E n \in Names : onDiscoveredContact(c, n)
    \/ Reboot

Spec == Init /\ [][Next]_vars /\ WF_vars(Loop) /\ WF_vars(Tick)

-----------------------------------------------------------------------------
(* Properties.                                                             *)

\* Every variable keeps its shape, and the ring of acked messages its length, as
\* processAck confirms more DMs than it has room for.
TypeOK ==
    /\ name \in [Contacts -> Names \cup {NoName}]
    /\ clock \in 0..(Modulus - 1) /\ lag \in 0..MaxLag
    /\ pending \in [Slots -> [dest : Contacts, ack : Acks, sent_at : 0..(Modulus - 1),
                             expires_at : 0..(Modulus - 1), age : Nat] \cup {Free}]
    /\ acked \in Seq(Contacts \X Messages) /\ Len(acked) <= MAX_ACKED
    /\ stored \in [Messages \X Conversations -> {"none", "pending", "acked", "lost"}]
    /\ dest \in [Messages -> Contacts \cup {NoName}]
    /\ cli \subseteq Messages /\ strayed \subseteq Messages
    /\ sent \in [Messages -> Nat] /\ confirmed \in [Messages -> Nat]
    /\ troubles \in 0..MaxTroubles

\* Every unsettled record of a text DM is still tracked by an entry that resolves
\* to it, so that an ACK or a deadline will settle it, except where the contact was
\* removed, overwritten or renamed in between or a rewrite of the store failed.
UnsettledIsTracked ==
    \A r \in DOMAIN stored :
        stored[r] = "pending" /\ r[1] \notin cli \cup strayed
            => \E i \in Slots : InUse(pending[i]) /\ RecordOf(pending[i]) = r

\* A record changes only for cause.  It is given up when an entry of it has lived its
\* whole lifetime, in true time although the clock wraps, or was the oldest of a full
\* table, or the device rebooted.  Once acked it stays acked: neither the entry of a
\* retry that expires later, nor an eviction, nor a reboot makes it lost.
RecordsChangeForCause ==
    [][\A r \in DOMAIN stored :
         /\ stored[r] = "acked" => stored'[r] = "acked"
         /\ stored[r] = "pending" /\ stored'[r] = "lost" =>
              \/ \E i \in Slots :
                    /\ InUse(pending[i]) /\ RecordOf(pending[i]) = r
                    /\ \/ pending[i].age >= (pending[i].expires_at - pending[i].sent_at) % Modulus
                       \/ \A j \in Slots : InUse(pending[j]) /\ pending[j].age <= pending[i].age
              \/ Reboot]_vars

\* What the app was told and what isMessageAcked tells the chat, the store says too:
\* a confirmed DM has an acked record, with the same exceptions and except where its
\* record could not be appended.  And a record says "acked" only if an ACK of some
\* attempt of that very DM arrived: table slots are reused, deadlines wrap and ACKs
\* come late or twice, and none of this lets one DM's ACK settle another's record.
ConfirmedIsRecorded ==
    /\ \A m \in Messages \ strayed :
          \/ confirmed[m] > 0
          \/ \E k \in DOMAIN acked : acked[k][2] = m
          => \E n \in Names : stored[m, n] = "acked"
    /\ \A r \in DOMAIN stored : stored[r] = "acked" => confirmed[r[1]] > 0

\* Every text DM on record is settled in the end, with the same exceptions.
Settles ==
    \A m \in Messages :
        (m \notin cli /\ \E n \in Names : stored[m, n] = "pending")
            ~> (m \in strayed \/ \A n \in Names : stored[m, n] # "pending")
=============================================================================
