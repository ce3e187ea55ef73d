------------------------- MODULE CompanionDelivery -------------------------
(***************************************************************************)
(* Offline message delivery to companion apps (comms/companion_bridge.cpp).*)
(* Every transport slot (BLE, TCP, WebSocket) has a session with its own   *)
(* bounded queue of encoded frames.  Text messages also live in the store, *)
(* which has one companion_sent bit per message for all clients; channel   *)
(* data frames live in the queues only.  SYNC_NEXT_MESSAGE returns the     *)
(* head of the client's queue, and the next SYNC of the same connection is *)
(* its implicit acknowledgement.                                           *)
(*                                                                         *)
(* The main loop runs each command, mesh callback and service pass to its  *)
(* end; clients connect and vanish between them.                           *)
(***************************************************************************)
EXTENDS Naturals, Sequences, FiniteSets

CONSTANTS Slots,               \* the transport slots, one client on each
          MaxMessages,         \* bound: text messages received by the mesh, ids 1..MaxMessages
          Volatile,            \* channel-data payloads
          OFFLINE_QUEUE_SIZE,
          MaxRecords,          \* capacity of the message store
          CompactTo,           \* what a compaction keeps
          Faults,              \* "write": a transport refuses a frame; "mark": the store
                               \* refuses a mark; "reboot"
          MaxTroubles          \* bound: disconnects, reboots, renegotiations, repeated
                               \* messages and faults

Versions == {2, 3}

ASSUME CompanionDeliveryConstants ==
    /\ MaxMessages \in Nat
    /\ Volatile \cap (Versions \cup {0}) = {}
    /\ OFFLINE_QUEUE_SIZE \in Nat \ {0}
    /\ MaxRecords \in Nat \ {0}
    /\ CompactTo \in 1..MaxRecords
    /\ Faults \subseteq {"write", "mark", "reboot"}
    /\ MaxTroubles \in Nat

VARIABLES received,     \* how many messages the mesh has received
          present,      \* ids in the message store
          sent,         \* ids with companion_sent
          connected,    \* slots with a connected client
          generation,   \* the connection generation of each slot
          used,         \* slots with a session
          session,      \* the session of each slot
          wire,         \* frames on their way to the client
          waiting,      \* clients that wait for an answer
          got,          \* history: messages each client has received
          acked,        \* history: messages each client has acknowledged
          troubles      \* disconnects and faults so far

store == <<received, present, sent>>

clients == <<waiting, got, acked>>

vars == <<received, present, sent, connected, generation, used, session, wire,
          waiting, got, acked, troubles>>

-----------------------------------------------------------------------------
Ids == 1..MaxMessages

\* form is the version a message was encoded for, or the payload of channel data.
MessageFrame(id, v) == [id |-> id, form |-> v]

ChannelFrame(p) == [id |-> 0, form |-> p]

\* An answer without a message.
Response == [id |-> 0, form |-> 0]

Frames == [id : Ids \cup {0}, form : Versions \cup Volatile]

QueuedIds(q) == {q[i].id : i \in DOMAIN q}

NewSession(g) == [gen |-> g, ver |-> 3, queue |-> <<>>, inflight |-> 0, inflightGen |-> 0,
                  pending |-> FALSE]

\* A reconnected slot starts a new session.
ensureTransportSession(s) ==
    IF s \in used /\ session[s].gen = generation[s] THEN session[s]
    ELSE NewSession(generation[s])

\* Mutant: a channel frame displaces the oldest frame of either kind.
addToOfflineQueueDropsHead(q, f) ==
    IF \E i \in DOMAIN q : q[i] = f \/ (f.id # 0 /\ q[i].id = f.id) THEN q
    ELSE IF Len(q) < OFFLINE_QUEUE_SIZE THEN Append(q, f)
    ELSE IF f.id # 0 THEN q ELSE Append(Tail(q), f)

\* A durable frame never displaces another; a channel frame may displace the oldest
\* channel frame.
addToOfflineQueue(q, f) ==
    LET volatiles == {i \in DOMAIN q : q[i].id = 0}
        oldest == CHOOSE i \in volatiles : \A j \in volatiles : i <= j
        others == [i \in 1..(Len(q) - 1) |-> IF i < oldest THEN q[i] ELSE q[i + 1]]
    IN  CASE \E i \in DOMAIN q : q[i] = f \/ (f.id # 0 /\ q[i].id = f.id) -> q
          [] OTHER -> IF Len(q) < OFFLINE_QUEUE_SIZE THEN Append(q, f)
                      ELSE IF f.id # 0 \/ volatiles = {} THEN q
                      ELSE Append(others, f)

Smaller(a, b) == IF a < b THEN a ELSE b

\* addToOfflineQueue for the frames of a page, in order.
AddPage(q, page) ==
    LET fresh == SelectSeq(page, LAMBDA f : f.id \notin QueuedIds(q))
    IN  q \o SubSeq(fresh, 1, Smaller(Len(fresh), OFFLINE_QUEUE_SIZE - Len(q)))

\* Mutant: records already delivered are loaded again.
loadUnsentAll(done) == present

loadUnsent(done) == present \ done

\* The oldest unsent records, encoded for version v.
Page(done, v) ==
    LET unsent == loadUnsent(done)
    IN  [n \in 1..Smaller(Cardinality(unsent), OFFLINE_QUEUE_SIZE) |->
            MessageFrame(CHOOSE i \in unsent : Cardinality({j \in unsent : j <= i}) = n, v)]

Live == used \cap connected

\* refillOfflineQueueFromStore for slot s, whose session is about to become se and whose
\* queue is empty: the page goes to it and, encoded for them, to its live peers.
Refilled(s, se, done) ==
    [t \in Slots |->
        IF t = s THEN [se EXCEPT !.queue = AddPage(<<>>, Page(done, se.ver))]
        ELSE IF t \in Live
        THEN [session[t] EXCEPT !.queue = AddPage(@, Page(done, session[t].ver))]
        ELSE session[t]]

RefilledIfEmpty(s, se, done) ==
    IF se.queue = <<>> THEN Refilled(s, se, done) ELSE [session EXCEPT ![s] = se]

Trouble == troubles < MaxTroubles /\ troubles' = troubles + 1

-----------------------------------------------------------------------------
(* The mesh and the store.                                                 *)

\* compactStoreToRecent over ids: undelivered records are kept first, newest of each.
Newest(S, n) == {i \in S : Cardinality({j \in S : j >= i}) <= n}

Compacted(S) ==
    LET keepUnsent == Newest(S \ sent, CompactTo)
    IN  keepUnsent \cup Newest(S \cap sent, CompactTo - Cardinality(keepUnsent))

\* The message is mirrored to every live session, encoded for it.
Mirror(m) ==
    session' = [s \in Slots |->
                  IF s \in Live
                  THEN [session[s] EXCEPT !.queue =
                          addToOfflineQueue(@, MessageFrame(m, session[s].ver))]
                  ELSE session[s]]

\* storeIncomingMessageForCompanion: a new text message is appended and mirrored.
enqueueMessage ==
    /\ received < MaxMessages
    /\ received' = received + 1
    /\ LET all == present \cup {received + 1}
       IN  present' = IF Cardinality(all) > MaxRecords THEN Compacted(all) ELSE all
    /\ Mirror(received + 1)
    /\ UNCHANGED <<sent, connected, generation, used, wire, clients, troubles>>

\* The sender's retry of a stored message: the append answers with the existing id, and
\* the message is mirrored again, delivered before or not.
enqueueDuplicate(m) ==
    /\ m \in present
    /\ Trouble
    /\ Mirror(m)
    /\ acked' = [s \in Slots |-> acked[s] \ {m}]
    /\ UNCHANGED <<store, connected, generation, used, wire, waiting, got>>

\* A channel-data frame is mirrored to every live session and stored nowhere.
enqueueChannelData(p) ==
    /\ session' = [s \in Slots |->
                     IF s \in Live
                     THEN [session[s] EXCEPT !.queue = addToOfflineQueue(@, ChannelFrame(p))]
                     ELSE session[s]]
    /\ UNCHANGED <<store, connected, generation, used, wire, clients, troubles>>

-----------------------------------------------------------------------------
(* Transports.                                                             *)

Connect(s) ==
    /\ s \notin connected
    /\ connected' = connected \cup {s}
    /\ generation' = [generation EXCEPT ![s] = @ + 1]
    /\ UNCHANGED <<store, used, session, wire, clients, troubles>>

\* What was on its way is lost.
Disconnect(s) ==
    /\ s \in connected
    /\ Trouble
    /\ connected' = connected \ {s}
    /\ wire' = [wire EXCEPT ![s] = <<>>]
    /\ waiting' = waiting \ {s}
    /\ UNCHANGED <<store, generation, used, session, got, acked>>

\* The sessions are RAM, the store is not.
Reboot ==
    /\ "reboot" \in Faults
    /\ Trouble
    /\ connected' = {} /\ used' = {} /\ waiting' = {}
    /\ generation' = [s \in Slots |-> 0]
    /\ wire' = [s \in Slots |-> <<>>]
    /\ session' = [s \in Slots |-> NewSession(0)]
    /\ UNCHANGED <<store, got, acked>>

\* A frame or response reaches the client.  Links keep the order, so the answer to the
\* client's last command is the last frame under way.
Deliver(s) ==
    /\ wire[s] # <<>>
    /\ wire' = [wire EXCEPT ![s] = Tail(@)]
    /\ waiting' = IF Tail(wire[s]) = <<>> THEN waiting \ {s} ELSE waiting
    /\ got' = [got EXCEPT ![s] = @ \cup ({Head(wire[s]).id} \ {0})]
    /\ UNCHANGED <<store, connected, generation, used, session, acked, troubles>>

\* The client gives up on a command that was not answered.
Timeout(s) ==
    /\ s \in waiting /\ wire[s] = <<>>
    /\ waiting' = waiting \ {s}
    /\ UNCHANGED <<store, connected, generation, used, session, wire, got, acked, troubles>>

\* serviceTransportSessions: every connected slot gets its session, and a response
\* that waits in the reserved slot is written.
serviceTransportSessions ==
    /\ used' = used \cup connected
    /\ LET owing == {s \in connected : ensureTransportSession(s).pending}
       IN  \E stuck \in SUBSET owing :
             /\ stuck # {} => "write" \in Faults /\ Trouble
             /\ stuck = {} => troubles' = troubles
             /\ session' = [s \in Slots |->
                              IF s \in owing \ stuck
                              THEN [ensureTransportSession(s) EXCEPT !.pending = FALSE]
                              ELSE IF s \in connected THEN ensureTransportSession(s)
                              ELSE session[s]]
             /\ wire' = [s \in Slots |-> IF s \in owing \ stuck THEN Append(wire[s], Response)
                                         ELSE wire[s]]
    /\ UNCHANGED <<store, connected, generation, clients>>

-----------------------------------------------------------------------------
(* Commands.  Only an idle client sends one.                               *)

\* The frame is written, or the transport refuses it, after t troubles so far.
Written(s, f, t) == wire' = [wire EXCEPT ![s] = Append(@, f)] /\ troubles' = t

Refused(t) == /\ "write" \in Faults /\ t < MaxTroubles
              /\ wire' = wire /\ troubles' = t + 1

\* handleFrame up to its dispatch: the command finds the session of its connection, and
\* is dropped when the previous response has not been written yet.
Command(s) ==
    /\ s \in connected /\ s \notin waiting
    /\ waiting' = waiting \cup {s}
    /\ used' = used \cup {s}
    /\ UNCHANGED <<received, present, connected, generation, got>>

CommandDropped(s) ==
    /\ Command(s)
    /\ ensureTransportSession(s).pending
    /\ session' = [session EXCEPT ![s] = ensureTransportSession(s)]
    /\ UNCHANGED <<sent, acked, wire, troubles>>

Accepted(s) == Command(s) /\ ~ensureTransportSession(s).pending

\* CMD_DEVICE_QUERY: what was encoded for the old version is dropped.
DeviceQuery(s, v) ==
    /\ Accepted(s)
    /\ Trouble
    /\ LET se == [ensureTransportSession(s) EXCEPT !.ver = v, !.queue = <<>>]
       IN  \/ /\ wire' = [wire EXCEPT ![s] = Append(@, Response)]
              /\ session' = [session EXCEPT ![s] = se]
           \/ /\ "write" \in Faults
              /\ wire' = wire
              /\ session' = [session EXCEPT ![s] = [se EXCEPT !.pending = TRUE]]
    /\ UNCHANGED <<sent, acked>>

\* CMD_APP_START: answered, then the queue is primed.
AppStart(s) ==
    /\ Accepted(s)
    /\ LET se == ensureTransportSession(s)
       IN  \/ Written(s, Response, troubles) /\ session' = RefilledIfEmpty(s, se, sent)
           \/ /\ Refused(troubles)
              /\ session' = RefilledIfEmpty(s, [se EXCEPT !.pending = TRUE], sent)
    /\ UNCHANGED <<sent, acked>>

\* The rest of CMD_SYNC_NEXT_MESSAGE once the frame in flight is dealt with, all being
\* the sessions after the refill: the head of the queue is written but stays until it
\* is acknowledged; an empty queue is reported.
WriteHead(s, all, t) ==
    LET q == all[s].queue
    IN  \/ /\ q = <<>>
           /\ \/ Written(s, Response, t) /\ session' = all
              \/ Refused(t) /\ session' = [all EXCEPT ![s].pending = TRUE]
        \/ /\ q # <<>>
           /\ \/ /\ Written(s, Head(q), t)
                 /\ session' = IF Head(q).id # 0
                               THEN [all EXCEPT ![s].inflight = Head(q).id,
                                                ![s].inflightGen = generation[s]]
                               ELSE [all EXCEPT ![s].queue = Tail(q)]
              \/ Refused(t) /\ session' = all

\* Mutants: a frame that was refused is taken for sent; an empty queue is reported
\* without a look into the store.
AnswerClaimsRefused(s, se, done, t) ==
    LET all == RefilledIfEmpty(s, se, done)
        q == all[s].queue
    IN  \/ WriteHead(s, all, t)
        \/ /\ q # <<>> /\ Head(q).id # 0
           /\ Refused(t)
           /\ session' = [all EXCEPT ![s].inflight = Head(q).id,
                                     ![s].inflightGen = generation[s]]

AnswerWithoutRefill(s, se, done, t) == WriteHead(s, [session EXCEPT ![s] = se], t)

Answer(s, se, done, t) == WriteHead(s, RefilledIfEmpty(s, se, done), t)

\* The head of the queue is the record this connection was sent last.
AckDue(s) ==
    LET se == ensureTransportSession(s)
    IN  /\ se.inflight # 0
        /\ se.inflightGen = generation[s]
        /\ se.queue # <<>> /\ Head(se.queue).id = se.inflight

Unclaimed(se) == [se EXCEPT !.inflight = 0, !.inflightGen = 0]

\* The store marks the acknowledged record and it leaves the queue.
SyncAck(s) ==
    /\ Accepted(s)
    /\ AckDue(s)
    /\ LET se == ensureTransportSession(s)
           done == sent \cup {se.inflight}
       IN  /\ se.inflight \in present
           /\ sent' = done
           /\ acked' = [acked EXCEPT ![s] = @ \cup {se.inflight}]
           /\ Answer(s, [Unclaimed(se) EXCEPT !.queue = Tail(@)], done, troubles)

\* The mark fails, or finds no such record: the same head is sent again.
SyncReplay(s) ==
    /\ Accepted(s)
    /\ AckDue(s)
    /\ LET se == ensureTransportSession(s)
       IN  \/ se.inflight \notin present /\ Answer(s, Unclaimed(se), sent, troubles)
           \/ /\ "mark" \in Faults /\ troubles < MaxTroubles
              /\ Answer(s, Unclaimed(se), sent, troubles + 1)
    /\ UNCHANGED <<sent, acked>>

\* Nothing to acknowledge.
SyncFirst(s) ==
    /\ Accepted(s)
    /\ ~AckDue(s)
    /\ Answer(s, Unclaimed(ensureTransportSession(s)), sent, troubles)
    /\ UNCHANGED <<sent, acked>>

-----------------------------------------------------------------------------
Init ==
    /\ received = 0 /\ present = {} /\ sent = {}
    /\ connected = {} /\ used = {} /\ waiting = {}
    /\ generation = [s \in Slots |-> 0]
    /\ session = [s \in Slots |-> NewSession(0)]
    /\ wire = [s \in Slots |-> <<>>]
    /\ got = [s \in Slots |-> {}]
    /\ acked = [s \in Slots |-> {}]
    /\ troubles = 0

SyncNextMessage(s) == SyncAck(s) \/ SyncReplay(s) \/ SyncFirst(s)

Mesh == \/ enqueueMessage
        \/ \E m \in Ids : enqueueDuplicate(m)
        \/ \E p \in Volatile : enqueueChannelData(p)

Next == \/ Mesh \/ serviceTransportSessions \/ Reboot
        \/ \E s \in Slots :
             \/ Connect(s) \/ Disconnect(s) \/ Deliver(s) \/ Timeout(s)
             \/ CommandDropped(s) \/ AppStart(s) \/ SyncNextMessage(s)
             \/ \E v \in Versions : DeviceQuery(s, v)

Spec == Init /\ [][Next]_vars

\* The main loop services the sessions; a connected link delivers; clients come back,
\* and keep asking for the next message.
Fairness ==
    /\ WF_vars(serviceTransportSessions)
    /\ \A s \in Slots : /\ WF_vars(Connect(s)) /\ WF_vars(Deliver(s)) /\ WF_vars(Timeout(s))
                        /\ SF_vars(SyncNextMessage(s))

FairSpec == Spec /\ Fairness

-----------------------------------------------------------------------------
(* Properties.                                                             *)

Session == [gen : Nat, ver : Versions, queue : Seq(Frames), inflight : Ids \cup {0},
            inflightGen : Nat, pending : BOOLEAN]

\* Every variable keeps its shape, and no queue outgrows OFFLINE_QUEUE_SIZE, whichever
\* of enqueueMessage, enqueueChannelData and the refill of a peer adds to it.
TypeOK ==
    /\ received \in 0..MaxMessages
    /\ present \subseteq Ids /\ sent \subseteq Ids
    /\ connected \subseteq Slots /\ used \subseteq Slots /\ waiting \subseteq connected
    /\ generation \in [Slots -> Nat]
    /\ session \in [Slots -> Session]
    /\ \A s \in Slots : Len(session[s].queue) <= OFFLINE_QUEUE_SIZE
    /\ wire \in [Slots -> Seq(Frames \cup {Response})]
    /\ got \in [Slots -> SUBSET Ids] /\ acked \in [Slots -> SUBSET Ids]
    /\ troubles \in 0..MaxTroubles

\* At-least-once: a record marked companion_sent has been received by a client, not
\* only written to a link that then dropped it.
MarkedWasReceived == sent \subseteq UNION {got[s] : s \in Slots}

\* A message the client has acknowledged is not sent to it again, on this connection or
\* a later one, unless the mesh receives it again.
AckedNotReplayed ==
    \A s \in Slots : \A i \in DOMAIN wire[s] :
        wire[s][i].id \notin acked[s]

\* "Durable records remain at the head while in-flight and leave only after the same
\* authenticated session's implicit ACK": nothing else takes one out of the queue of a
\* connection, a channel frame that needs room included, but a new negotiation.
LeavesOnlyAcked ==
    \A s \in used \cap used' :
        \/ session'[s].gen # session[s].gen
        \/ QueuedIds(session[s].queue) \ QueuedIds(session'[s].queue) \subseteq acked'[s] \cup {0}
        \/ \E v \in Versions : DeviceQuery(s, v)

DurableLeavesOnlyAcked == [][LeavesOnlyAcked]_vars

\* A live client has a record queued that a compaction has taken from the store since:
\* its mark can only fail, and the client is sent the same frame again and again.
Orphaned == \E s \in Live : ~(QueuedIds(session[s].queue) \subseteq present \cup {0})

\* While clients keep syncing and the device is not flooded with channel data, every
\* stored message is delivered and marked in the end, unless a client is held up by a
\* record that was compacted away.
EveryMessageDelivered ==
    <>[][~(\E p \in Volatile : enqueueChannelData(p))]_vars =>
        []<>(present \subseteq sent \/ Orphaned)
=============================================================================
