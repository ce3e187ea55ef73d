--------------------------- MODULE PeerOperations ---------------------------
(***************************************************************************)
(* Operations on peers that wait for a reply (mesh/sigurd_mesh_v2.cpp):    *)
(* requests and logins, of which a contact has at most one under way, and  *)
(* path discoveries.  Each kind has a small table in RAM; an entry holds   *)
(* its deadline, and its outcome until the slot is needed.  A successful   *)
(* login may keep a connection alive, which MeshCore watches.              *)
(*                                                                         *)
(* Everything runs on the main loop.  A pass of the mesh loop applies the  *)
(* deadlines, dispatches what the radio received and applies them again;   *)
(* the screens and the companion app call in between.  millis() wraps, and *)
(* a peer's reply comes late, again, unasked or never.                     *)
(***************************************************************************)
EXTENDS Integers, Sequences, FiniteSets, SequencesExt

CONSTANTS Contacts,
          None,                  \* no contact
          MAX_PENDING_REQUESTS,
          MAX_LOGIN_ENTRIES,
          MAX_DISCOVERY_PENDING,
          MAX_RESPONSES,
          Modulus,               \* bound: 2^32 in the code
          Timeouts,              \* what normalizeTimeout can give
          Retention,             \* DISCOVERY_COMPLETION_RETENTION_MS
          MaxLag,                \* bound: ticks between the starts of two passes
          MaxTags,               \* bound: requests and discoveries sent
          MaxReplies,            \* bound: replies received
          MaxTroubles            \* bound: removals and identity imports

ASSUME PeerOperationsConstants ==
    /\ None \notin Contacts
    /\ {MAX_PENDING_REQUESTS, MAX_LOGIN_ENTRIES, MAX_DISCOVERY_PENDING,
        MAX_RESPONSES} \subseteq Nat \ {0}
    /\ {Modulus, MaxLag, MaxTags, MaxReplies, MaxTroubles} \subseteq Nat
    /\ Timeouts \cup {Retention} \subseteq Nat \ {0}
    /\ \A t \in Timeouts \cup {Retention} : t + MaxLag < Modulus

VARIABLES known,      \* contacts in MeshCore's table
          conns,      \* contacts with a keep-alive connection
          clock,      \* millis()
          lag,        \* ticks since the last pass began
          phase,      \* "dispatch" inside a pass, else "idle"
          reqs,       \* _pending_reqs
          logins,     \* _login_entries
          discs,      \* _discovery_pending
          responses,  \* _responses, oldest first
          issued,     \* history: by tag, whom an operation asked and how it ended
          replies,    \* replies received so far
          troubles

vars == <<known, conns, clock, lag, phase, reqs, logins, discs, responses, 
          issued, replies, troubles>>

-----------------------------------------------------------------------------
(* Entries.  age is history: ticks since the entry's clock was set.  The   *)
(* tag of an operation is its place in issued.  Nothing reads the clock of *)
(* an entry that is not running, and the model forgets it.                 *)

Kinds == {"typed", "binary"}   \* a screen's request, the app's

Pending(c, tag, kind, t) ==
    [dest |-> c, tag |-> tag, kind |-> kind, at |-> clock, timeout |-> t, age |-> 0,
     state |-> "active"]

\* state: "free", "active", "timed_out" (retained), "completed" (a discovery)
Free == [dest |-> None, tag |-> 0, kind |-> "none", at |-> 0, timeout |-> 0, age |-> 0,
         state |-> "free"]

InUse(p) == p.state \in {"active", "completed"}

\* The id of a login is history.
Login(c, id, t) == [dest |-> c, status |-> "PENDING", id |-> id, at |-> clock, timeout |-> t,
                    age |-> 0, keep_alive |-> FALSE]

NoLogin == [dest |-> None, status |-> "NONE", id |-> 0, at |-> 0, timeout |-> 0,
            age |-> 0, keep_alive |-> FALSE]

ReqSlots == 1..MAX_PENDING_REQUESTS
LoginSlots == 1..MAX_LOGIN_ENTRIES
DiscSlots == 1..MAX_DISCOVERY_PENDING

Tags == 1..Len(issued)

First(S) == IF S = {} THEN 0 ELSE CHOOSE s \in S : \A r \in S : s <= r

TypeOK ==
    /\ known \subseteq Contacts /\ conns \subseteq Contacts
    /\ clock \in 0..(Modulus - 1) /\ lag \in 0..MaxLag /\ phase \in {"idle", "dispatch"}
    /\ \A p \in {reqs[s] : s \in ReqSlots} \cup {discs[s] : s \in DiscSlots} :
          /\ p.dest \in Contacts \cup {None} /\ p.tag \in 0..Len(issued)
          /\ p.state = "free" <=> p = Free
          \* Every step that could use an overdue entry has expired it before the
          \* clock can come round to its start again.
          /\ InUse(p) => p.at = (clock - p.age) % Modulus /\ p.age < Modulus
    /\ \A s \in LoginSlots : logins[s].status = "NONE" <=> logins[s] = NoLogin
    /\ Len(responses) <= MAX_RESPONSES
    /\ Len(issued) <= MaxTags /\ replies <= MaxReplies /\ troubles <= MaxTroubles

Init ==
    /\ known = Contacts
    /\ conns = {} /\ clock = Modulus - 1 /\ lag = 0 /\ phase = "idle"
    /\ reqs = [s \in ReqSlots |-> Free]
    /\ logins = [s \in LoginSlots |-> NoLogin]
    /\ discs = [s \in DiscSlots |-> Free]
    /\ responses = <<>> /\ issued = <<>> /\ replies = 0 /\ troubles = 0

-----------------------------------------------------------------------------
(* Deadlines. *)

Elapsed(at, t) == t > 0 /\ (clock - at) % Modulus >= t

Overdue(p) == InUse(p) /\ Elapsed(p.at, p.timeout)

\* A completed discovery nobody collected goes; other entries keep saying that
\* they timed out.
Expire(p) ==
    IF ~Overdue(p) THEN p
    ELSE IF p.state = "completed" THEN Free
    ELSE [Free EXCEPT !.dest = p.dest, !.tag = p.tag, !.state = "timed_out"]

ReqsExpired == [s \in ReqSlots |-> Expire(reqs[s])]

DiscsExpired == [s \in DiscSlots |-> Expire(discs[s])]

Entries == {reqs[s] : s \in ReqSlots} \cup {discs[s] : s \in DiscSlots}

\* The record of how the operations S ended.
End(I, S, how) == [t \in DOMAIN I |-> IF t \in S THEN [I[t] EXCEPT !.ended = how] ELSE I[t]]

TagsOf(E) == {p.tag : p \in {q \in E : q.state = "active"}}

IssuedExpired == End(issued, TagsOf({p \in Entries : Overdue(p)}), "expired")

expirePendingOperations ==
    /\ reqs' = ReqsExpired
    /\ discs' = DiscsExpired

evaluate(l, connected) ==
    CASE l.status = "PENDING" /\ Elapsed(l.at, l.timeout) -> "TIMED_OUT"
      [] l.status = "OK" /\ l.keep_alive /\ ~connected -> "DROPPED"
      [] OTHER -> l.status

LoginIds(S) == {logins[s].id : s \in {r \in S : logins[r].status = "PENDING"}}

\* C are the connections at that time.  The failure is also pushed to the app.
updateLoginSessions(C) ==
    /\ issued' = End(IssuedExpired, LoginIds({s \in LoginSlots :
                                        Elapsed(logins[s].at, logins[s].timeout)}), "expired")
    /\ logins' = [s \in LoginSlots |->
        LET l == logins[s]
            status == evaluate(l, l.dest \in known \cap C) IN
        IF status = l.status THEN l
        ELSE [NoLogin EXCEPT !.dest = l.dest, !.status = status]]

-----------------------------------------------------------------------------
(* Lookups. *)

findLoginEntry(c) == First({s \in LoginSlots : logins[s].dest = c})

PendingLogin(c) == \E s \in LoginSlots : logins[s].dest = c /\ logins[s].status = "PENDING"

PendingRequest(R, c) == \E s \in ReqSlots : R[s].dest = c /\ R[s].state = "active"

\* Retained timeouts are given up only when no other slot is left.
selectReusablePendingSlot(T) ==
    IF \E s \in DOMAIN T : T[s].state = "free"
    THEN First({s \in DOMAIN T : T[s].state = "free"})
    ELSE First({s \in DOMAIN T : T[s].state = "timed_out"})

Terminal == {"FAILED", "TIMED_OUT", "DROPPED"}

\* Mutant: a session that is open may be replaced.
selectReservationSlotOldest ==
    IF \E s \in LoginSlots : logins[s] = NoLogin
    THEN First({s \in LoginSlots : logins[s] = NoLogin})
    ELSE First({s \in LoginSlots : logins[s].status # "PENDING"})

\* Pending and active sessions are never evicted.
selectReservationSlot ==
    IF \E s \in LoginSlots : logins[s] = NoLogin
    THEN First({s \in LoginSlots : logins[s] = NoLogin})
    ELSE First({s \in LoginSlots : logins[s].status \in Terminal})

-----------------------------------------------------------------------------
(* Requests and discoveries.  BaseChatMesh::sendRequest fails or gives a   *)
(* tag no other operation has.                                             *)

\* Mutant: a pending login is not looked at.
BusyWithRequest(R, c) == PendingRequest(R, c)

Busy(R, c) == PendingLogin(c) \/ PendingRequest(R, c)

\* reservePendingRequest and the transmission, which frees the slot when it
\* fails; a timeout the slot retained is lost either way.
Reserve(c, kind) ==
    LET R == ReqsExpired
        s == selectReusablePendingSlot(R)
        refused == Busy(R, c) \/ s = 0 IN
    /\ discs' = DiscsExpired
    /\ \/ refused /\ reqs' = R /\ issued' = IssuedExpired
       \/ /\ ~refused
          /\ \/ reqs' = [R EXCEPT ![s] = Free] /\ issued' = IssuedExpired
             \/ \E t \in Timeouts :
                   /\ Len(issued) < MaxTags
                   /\ reqs' = [R EXCEPT ![s] = Pending(c, Len(issued) + 1, kind, t)]
                   /\ issued' = Append(IssuedExpired, [to |-> c, ended |-> "no"])

\* A request of a screen (sendRequest, sendRequestWithData, room messages) or of
\* the app (sendBinaryRequestCompanion).
sendRequest(c, kind) ==
    /\ phase = "idle" /\ c \in known
    /\ Reserve(c, kind)
    /\ UNCHANGED <<known, conns, clock, lag, phase, logins, responses, replies, troubles>>

\* MeshCore adds a contact, overwriting another if its table is full.
WithContact(c) == {known \cup {c}} \cup {(known \ {victim}) \cup {c} : victim \in known}

\* The app may ask a key that is no contact yet. The first check sees entries
\* whose deadline has passed but was not applied yet.
sendAnonRequestCompanion(c) ==
    /\ phase = "idle" /\ ~Busy(reqs, c)
    /\ known' \in IF c \in known THEN {known} ELSE WithContact(c)
    /\ Reserve(c, "binary")
    /\ UNCHANGED <<conns, clock, lag, phase, logins, responses, replies, troubles>>

\* The app cancels one request of its own, or all when it disconnects.
cancelCompanionBinaryRequests(S) ==
    /\ phase = "idle" /\ S # {}
    /\ reqs' = [s \in ReqSlots |-> IF s \in S THEN Free ELSE reqs[s]]
    /\ issued' = End(issued, {reqs[s].tag : s \in S}, "withdrawn")
    /\ UNCHANGED <<known, conns, clock, lag, phase, logins, discs, responses, replies,
                   troubles>>

CompanionRequests == {s \in ReqSlots : reqs[s].kind = "binary"}

\* A retry supersedes the retained timeouts of the same destination.
sendPathDiscovery(c) ==
    LET D == [s \in DiscSlots |->
                 IF DiscsExpired[s].state = "timed_out" /\ discs[s].dest = c
                 THEN Free ELSE DiscsExpired[s]]
        s == selectReusablePendingSlot(D) IN
    /\ phase = "idle" /\ c \in known
    /\ reqs' = ReqsExpired
    /\ \/ s = 0 /\ discs' = D /\ issued' = IssuedExpired
       \/ s # 0 /\ discs' = [D EXCEPT ![s] = Free] /\ issued' = IssuedExpired
       \/ \E t \in Timeouts :
             /\ s # 0 /\ Len(issued) < MaxTags
             /\ discs' = [D EXCEPT ![s] = Pending(c, Len(issued) + 1, "none", t)]
             /\ issued' = Append(IssuedExpired, [to |-> c, ended |-> "no"])
    /\ UNCHANGED <<known, conns, clock, lag, phase, logins, responses, replies,
                   troubles>>

\* requestPending, requestTimedOut, discoveryPending and discoveryTimedOut
\* apply the deadlines before they look.
Poll ==
    /\ phase = "idle"
    /\ expirePendingOperations
    /\ issued' = IssuedExpired
    /\ UNCHANGED <<known, conns, clock, lag, phase, logins, responses, replies,
                   troubles>>

isDiscoveryComplete(c) ==
    LET s == First({i \in DiscSlots : DiscsExpired[i].state = "completed"
                                        /\ discs[i].dest = c}) IN
    /\ phase = "idle" /\ c \in known /\ s # 0
    /\ reqs' = ReqsExpired /\ issued' = IssuedExpired
    /\ discs' = [DiscsExpired EXCEPT ![s] = Free]
    /\ UNCHANGED <<known, conns, clock, lag, phase, logins, responses, replies,
                   troubles>>

\* A screen takes the reply to its request: hasStatusResponse or
\* hasTelemetryResponse, for the latest request of theirs.
hasStatusResponse(i) ==
    /\ phase = "idle" /\ responses[i].typed
    /\ responses' = RemoveAt(responses, i)
    /\ UNCHANGED <<known, conns, clock, lag, phase, reqs, logins, discs, issued, replies,
                   troubles>>

-----------------------------------------------------------------------------
(* Logins. *)

StartLogin(c, s, t) ==
    /\ Len(issued) < MaxTags
    /\ logins' = [logins EXCEPT ![s] = Login(c, Len(issued) + 1, t)]
    /\ issued' = Append(issued, [to |-> c, ended |-> "no"])

\* The contact's own entry is used again whatever it says.  A failed
\* transmission puts it back, and frees a slot taken from another contact.
sendLoginTo(c) ==
    LET own == findLoginEntry(c)
        s == IF own # 0 THEN own ELSE selectReservationSlot IN
    /\ phase = "idle" /\ c \in known /\ ~Busy(reqs, c) /\ s # 0
    /\ \/ \E t \in Timeouts : StartLogin(c, s, t)
       \/ own = 0 /\ logins' = [logins EXCEPT ![s] = NoLogin] /\ UNCHANGED issued
    /\ UNCHANGED <<known, conns, clock, lag, phase, reqs, discs, responses, replies, troubles>>

OfContact(c) == {s \in LoginSlots : logins[s].dest = c}

LoginsWithout(c) ==
    [s \in LoginSlots |-> IF logins[s].dest = c THEN NoLogin ELSE logins[s]]

\* sendLogoutTo, and the app's companionStopConnection.
sendLogoutTo(c) ==
    /\ phase = "idle" /\ findLoginEntry(c) # 0
    /\ conns' = conns \ {c}
    /\ logins' = LoginsWithout(c)
    /\ issued' = End(issued, LoginIds(OfContact(c)), "withdrawn")
    /\ UNCHANGED <<known, clock, lag, phase, reqs, discs, responses, replies, troubles>>

-----------------------------------------------------------------------------
(* What the radio brings, inside a pass: onContactResponse and the others. *)
(* Only while a login is pending does it matter that a reply has the form  *)
(* of a login result; any other reply has a tag, of some operation or 0.   *)

Formats == {"accepted", "accepted_keep", "legacy", "refused"}

Result(c, format, started) ==
    CASE format = "refused" -> [NoLogin EXCEPT !.dest = c, !.status = "FAILED"]
      [] format = "accepted_keep" /\ ~started ->
            [NoLogin EXCEPT !.dest = c, !.status = "DROPPED"]
      [] OTHER -> [NoLogin EXCEPT !.dest = c, !.status = "OK",
                                  !.keep_alive = format = "accepted_keep"]

\* MeshCore may have no room for another connection.
LoginResponse(c, format) ==
    /\ phase = "dispatch" /\ c \in known /\ replies < MaxReplies
    /\ PendingLogin(c)
    /\ \E started \in IF format = "accepted_keep" THEN BOOLEAN ELSE {FALSE} :
          /\ logins' = [logins EXCEPT ![findLoginEntry(c)] = Result(c, format, started)]
          /\ conns' = IF started THEN conns \cup {c} ELSE conns
    /\ expirePendingOperations
    /\ issued' = End(IssuedExpired, LoginIds(OfContact(c)), "answered")
    /\ replies' = replies + 1
    /\ UNCHANGED <<known, clock, lag, phase, responses, troubles>>

\* Mutant: the sender is not compared.
AnsweredByTag(c, tag) == {s \in ReqSlots : reqs[s].tag = tag /\ Expire(reqs[s]).state = "active"}

\* Mutant: the deadline is not applied first.
AnsweredLate(c, tag) == {s \in ReqSlots : reqs[s].tag = tag /\ reqs[s].dest = c
                                         /\ reqs[s].state = "active"}

\* The requests a reply answers: at most one.
Answered(c, tag) == {s \in ReqSlots : reqs[s].tag = tag /\ reqs[s].dest = c
                                       /\ Expire(reqs[s]).state = "active"}

\* Every other reply is queued, the oldest making room.  Only one that answers a
\* typed request is ever looked up by its tag.
onContactResponse(c, tag) ==
    LET S == Answered(c, tag)
        typed == \E s \in S : reqs[s].kind = "typed"
        kept == IF Len(responses) = MAX_RESPONSES THEN Tail(responses) ELSE responses IN
    /\ phase = "dispatch" /\ c \in known /\ replies < MaxReplies
    /\ responses' = Append(kept, [from |-> c, typed |-> typed, tag |-> IF typed THEN tag ELSE 0])
    /\ reqs' = [s \in ReqSlots |-> IF s \in S THEN Free ELSE ReqsExpired[s]]
    /\ discs' = DiscsExpired
    /\ issued' = End(IssuedExpired, {reqs[s].tag : s \in S}, "answered")
    /\ replies' = replies + 1
    /\ UNCHANGED <<known, conns, clock, lag, phase, logins, troubles>>

\* A discovery is matched by its tag; a repeated reply starts its retention anew.
onContactPathRecv(tag) ==
    LET s == First({i \in DiscSlots : discs[i].tag = tag /\ InUse(DiscsExpired[i])}) IN
    /\ phase = "dispatch" /\ known # {} /\ replies < MaxReplies
    /\ IF s = 0 THEN discs' = DiscsExpired /\ issued' = IssuedExpired
       ELSE /\ discs' = [DiscsExpired EXCEPT ![s] = [@ EXCEPT !.state = "completed",
                             !.at = clock, !.timeout = Retention, !.age = 0]]
            /\ issued' = End(IssuedExpired, {tag}, "answered")
    /\ reqs' = ReqsExpired
    /\ replies' = replies + 1
    /\ UNCHANGED <<known, conns, clock, lag, phase, logins, responses, troubles>>

\* An advert adds a contact.  The operations of an overwritten one stay behind
\* (onContactOverwrite).
Advert(c) ==
    /\ phase = "dispatch" /\ c \notin known
    /\ known' \in WithContact(c)
    /\ UNCHANGED <<conns, clock, lag, phase, reqs, logins, discs, responses, issued,
                   replies, troubles>>

-----------------------------------------------------------------------------
(* The passes of the loop, time, and the contact table. *)

\* The first half of loop(): what has passed its deadline when the pass begins
\* is settled before anything is dispatched.
BeginPass ==
    /\ phase = "idle"
    /\ phase' = "dispatch" /\ lag' = 0
    /\ updateLoginSessions(conns)
    /\ expirePendingOperations
    /\ UNCHANGED <<known, conns, clock, responses, replies, troubles>>

\* checkConnections gives up connections without a sign of life.
EndPass ==
    /\ phase = "dispatch"
    /\ phase' = "idle"
    /\ \E lost \in SUBSET conns : /\ conns' = conns \ lost
                                 /\ updateLoginSessions(conns \ lost)
    /\ expirePendingOperations
    /\ UNCHANGED <<known, clock, lag, responses, replies, troubles>>

\* Ages stop at Modulus, which none may reach.
Older(age) == IF age < Modulus THEN age + 1 ELSE age

Aged(p) == IF InUse(p) THEN [p EXCEPT !.age = Older(@)] ELSE p

AgedLogin(l) == IF l.status = "PENDING" THEN [l EXCEPT !.age = Older(@)] ELSE l

Tick ==
    /\ lag < MaxLag
    /\ lag' = lag + 1
    /\ clock' = (clock + 1) % Modulus
    /\ reqs' = [s \in ReqSlots |-> Aged(reqs[s])]
    /\ discs' = [s \in DiscSlots |-> Aged(discs[s])]
    /\ logins' = [s \in LoginSlots |-> AgedLogin(logins[s])]
    /\ UNCHANGED <<known, conns, phase, responses, issued, replies, troubles>>

\* What is remembered of a contact besides its messages.
teardownContactRuntime(c) ==
    /\ conns' = conns \ {c}
    /\ logins' = LoginsWithout(c)
    /\ reqs' = [s \in ReqSlots |-> IF reqs[s].dest = c THEN Free ELSE reqs[s]]
    /\ discs' = [s \in DiscSlots |-> IF discs[s].dest = c THEN Free ELSE discs[s]]
    /\ responses' = SelectSeq(responses, LAMBDA r : r.from # c)
    /\ issued' = End(issued, TagsOf({p \in Entries : p.dest = c}) \cup LoginIds(OfContact(c)),
                     "withdrawn")

meshRemoveContactByPubKeyDurable(c) ==
    /\ phase = "idle" /\ c \in known /\ troubles < MaxTroubles
    /\ known' = known \ {c}
    /\ teardownContactRuntime(c)
    /\ troubles' = troubles + 1
    /\ UNCHANGED <<clock, lag, phase, replies>>

\* Another identity: sessions end, and the contacts come back from the store,
\* which may lack some.  Requests and discoveries go on.
meshImportSelfIdentity ==
    /\ phase = "idle" /\ troubles < MaxTroubles
    /\ conns' = conns \ {logins[s].dest : s \in LoginSlots}
    /\ logins' = [s \in LoginSlots |-> NoLogin]
    /\ known' \in SUBSET known
    /\ issued' = End(issued, LoginIds(LoginSlots), "withdrawn")
    /\ troubles' = troubles + 1
    /\ UNCHANGED <<clock, lag, phase, reqs, discs, responses, replies>>

Next ==
    \/ \E c \in Contacts :
          \/ \E kind \in Kinds : sendRequest(c, kind)
          \/ sendAnonRequestCompanion(c)
          \/ sendPathDiscovery(c)
          \/ isDiscoveryComplete(c)
          \/ sendLoginTo(c)
          \/ sendLogoutTo(c)
          \/ \E format \in Formats : LoginResponse(c, format)
          \/ \E tag \in Tags \cup {0} : onContactResponse(c, tag)
          \/ Advert(c)
          \/ meshRemoveContactByPubKeyDurable(c)
    \/ cancelCompanionBinaryRequests(CompanionRequests)
    \/ \E s \in CompanionRequests : cancelCompanionBinaryRequests({s})
    \/ Poll
    \/ \E i \in DOMAIN responses : hasStatusResponse(i)
    \/ \E tag \in Tags : onContactPathRecv(tag)
    \/ BeginPass
    \/ EndPass
    \/ Tick
    \/ meshImportSelfIdentity

\* The main loop runs for ever and time passes; nothing else is certain.
Fairness == WF_vars(BeginPass \/ EndPass) /\ WF_vars(Tick)

Spec == Init /\ [][Next]_vars /\ Fairness

-----------------------------------------------------------------------------
(* Properties. *)

\* The tables agree with one another: a contact has at most one request under way,
\* and none while a login to it is pending, since a reply to one could not be told
\* from a reply to the other (reservePendingRequest, sendLoginTo); and outside a pass
\* no session claims a keep-alive connection that is gone, unless its contact was
\* just overwritten (updateLoginSessions after checkConnections).
TablesAgree ==
    /\ \A c \in Contacts :
          LET R == {s \in ReqSlots : reqs[s].dest = c /\ reqs[s].state = "active"}
              L == {s \in LoginSlots : logins[s].dest = c} IN
          /\ Cardinality(R) <= 1 /\ Cardinality(L) <= 1
          /\ R = {} \/ ~PendingLogin(c)
    /\ phase = "idle" => \A s \in LoginSlots :
          logins[s].keep_alive /\ logins[s].dest \in known => logins[s].dest \in conns

\* A typed response in the queue came from the contact that was asked, in time for
\* that request (onContactResponse), whatever else was received under its tag.
ResponsesAnswer ==
    \A i \in DOMAIN responses : responses[i].typed =>
        issued[responses[i].tag] = [to |-> responses[i].from, ended |-> "answered"]

\* Each operation ends in one way, for good; it is answered only in its window of
\* true time and reported as timed out only after it, although the clock wraps
\* (expirePendingOperations before every use of the tables).  A login is answered
\* only if it had time left when the pass began (loop: "a late response cannot
\* resurrect a login whose advertised response window has already elapsed").
EndsOnceAndInTime ==
    [][\A t \in Tags : issued'[t] # issued[t] =>
          /\ issued[t].ended = "no"
          /\ \A p \in Entries : p.tag = t =>
                (issued'[t].ended = "answered" => p.age < p.timeout)
                /\ (issued'[t].ended = "expired" => p.age >= p.timeout)
          /\ \A s \in LoginSlots :
                logins[s].id = t /\ issued'[t].ended = "answered" =>
                    logins[s].age - lag < logins[s].timeout]_vars

\* No operation takes the slot of another that still runs: a request, discovery or
\* session in its time leaves its slot only because it ended, never because a
\* table was full.  A timeout too stays on record, for the screen or the app that
\* waits for it, as long as there is another slot to use, unless the contact is
\* removed or asked again (selectReusablePendingSlot, selectReservationSlot).
SlotsKept ==
    [][/\ \A s \in ReqSlots : reqs[s].state = "active" /\ reqs'[s].tag # reqs[s].tag =>
             issued'[reqs[s].tag].ended # "no"
       /\ \A s \in DiscSlots : discs[s].state = "active" /\ discs'[s].tag # discs[s].tag =>
             issued'[discs[s].tag].ended # "no"
       /\ \A s \in LoginSlots : logins[s].status \in {"PENDING", "OK"} =>
             logins'[s].dest \in {logins[s].dest, None}
       /\ \A s \in ReqSlots : reqs[s].state = "timed_out" /\ reqs'[s] # reqs[s] =>
             reqs[s].dest \notin known' \/ \A r \in ReqSlots : reqs[r].state # "free"
       /\ \A s \in DiscSlots : discs[s].state = "timed_out" /\ discs'[s] # discs[s] =>
             \/ discs[s].dest \notin known' \/ \A r \in DiscSlots : discs[r].state # "free"
             \/ \E r \in DiscSlots : discs'[r].dest = discs[s].dest]_vars

\* Every request, discovery and login comes to an end, whatever the peer does: by a
\* reply, by a withdrawal or by its deadline (loop).
OperationsEnd ==
    \A t \in 1..MaxTags : []<>(t \in Tags => issued[t].ended # "no")

=============================================================================
