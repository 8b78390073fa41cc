------------------------- MODULE RoomServiceProofs -------------------------
(***************************************************************************)
(* Proofs about RoomService, for any agents, number of requests in flight, *)
(* turn limit, deadlines and operations.                                   *)
(***************************************************************************)
EXTENDS RoomService, SequenceTheorems, TLAPS

(***************************************************************************)
(* The inductive invariant: what relates the room row to the listing, to   *)
(* the stored messages and to the snapshots requests write from.           *)
(***************************************************************************)

\* The listing is connected exactly when the room has its second agent; before
\* that nobody has spoken and nothing can have been erased.
Pairing ==
    /\ listing \in {"none", "legacy"} <=> room.state = "NONE"
    /\ listing = "connected" <=> room.agentB # Nil
    /\ room.state = "NONE" => room.agentB = Nil
    /\ room.agentB = Nil => room.turn = 0 /\ messages = {} /\ ~erased /\ ~raced

\* A room without a message key, and with it a race for one, is there only where
\* the constant says so.
Keys == ~room.keyed \/ raced => Keyless

\* An erased conversation is over, and an ACTIVE room has turns left.
Progress ==
    /\ erased /\ ~raced => room.state \in Ended
    /\ room.state = "ACTIVE" => room.turn < MaxTurns

\* A snapshot is a past of the room: its second agent, once known, is the room's,
\* and its turn is not ahead of a conversation that is still there.
PastRoom(rm) ==
    /\ rm.agentB # Nil => rm.agentB = room.agentB
    /\ ~erased /\ ~raced => rm.turn <= room.turn
    /\ rm.state = "ACTIVE" => rm.agentB # Nil /\ rm.turn < MaxTurns
    /\ rm.state # "NONE" => room.state # "NONE"
    /\ ~rm.keyed => Keyless
Snapshots == \A q \in Requests : PastRoom(req[q].rm)

\* At most one connect holds the listing row, and while it does the room has no
\* second agent: that is why its whole-row write loses no turn.
Connects ==
    /\ \A q \in Requests : req[q].pc = "connect" => listing = "open" /\ req[q].rm.agentB = Nil
                                                    /\ req[q].rm.turn = 0
    /\ \A p, q \in Requests : req[p].pc = "connect" /\ req[q].pc = "connect" => p = q

\* A heartbeat or leave in flight holds the viewer row it read.
ViewerReads ==
    \A q \in Requests : req[q].op \in {"beat", "leave"} => req[q].row \in ViewerRow

\* A request about to close an expired room saw it OPEN or ACTIVE.
TtlReads == \A q \in Requests : req[q].pc = "ttl" => req[q].rm.state \in Live

\* What a row that may be written back whole has to be: paired, its columns in
\* agreement, its participants told if it had ended.  The deliveries of an end stay,
\* so a row that was right when it was read is right when it is written.
ToldOfEnd(rm) ==
    /\ rm.state \in Ended => enqueueAgentStreamTerminal(rm, "room.closed") \subseteq deliveries
    /\ rm.state = "PURGED" => enqueueAgentStreamTerminal(rm, "room.purged") \subseteq deliveries
Writable(rm) ==
    /\ rm.state \in {"ACTIVE", "CLOSED", "PURGED"}
    /\ rm.state = "CLOSED" => rm.closedAt # Nil
    /\ rm.state = "PURGED" => rm.purgedAt # Nil
    /\ ToldOfEnd(rm)

\* A send about to store a key was allowed by its snapshot, and read a row with the
\* same two agents.
CipherReads ==
    \A q \in Requests : req[q].pc = "cipher" =>
        /\ req[q].rm.state = "ACTIVE" /\ ~req[q].rm.keyed
        /\ req[q].agent = Speaker(req[q].rm, req[q].rm.turn)
        /\ req[q].read.agentB = req[q].rm.agentB
        /\ Writable(req[q].read)

\* The part about the database alone, and the part about the requests.
DbInv ==
    /\ Pairing /\ Keys /\ Progress /\ TurnLock /\ OpenHasNoPeer /\ EndIsDated
    /\ NextActorNotified /\ ParticipantsToldOfEnd
ReqInv == Snapshots /\ Connects /\ ViewerReads /\ TtlReads /\ CipherReads

IInv == TypeOK /\ DbInv /\ ReqInv

\* What a step may do to the room as far as snapshots are concerned.
RoomGrows ==
    /\ room.agentB # Nil => room'.agentB = room.agentB
    /\ raced => raced'
    /\ ~erased' /\ ~raced' => ~erased /\ room.turn <= room'.turn
    /\ room.state # "NONE" => room'.state # "NONE"
    /\ deliveries \subseteq deliveries'

-----------------------------------------------------------------------------
(* Types of the pieces actions are built from *)

USE DEF DomainStates, RoomStates, Live, Ended

\* What the assumptions on the constants give: NULL is no agent and no number.
LEMMA NilFacts == Nil \notin Agents /\ Owner \in Agents /\ Nil \notin Nat
                  /\ MaxTurns \in Nat /\ MaxTurns > 0
BY AgentAssumption, BoundAssumption

\* The row CreateRoom inserts is a room.
LEMMA NewRoomType ==
    ASSUME NEW s \in RoomStates, NEW b \in Agents \cup {Nil}
    PROVE  NewRoom(s, b) \in Room
BY BoundAssumption DEF NewRoom, Room

\* A request slot that serves no handler is well typed.
LEMMA IdleType == Idle \in Request
<1>1. NewRoom("NONE", Nil) \in Room
  BY NewRoomType
<1>2. QED
  BY <1>1, AgentAssumption DEF Idle, Request, Steps, AllOps

\* So is one that goes on to upsertRoomContext.
LEMMA SyncType ==
    ASSUME NEW a \in Agents
    PROVE  [Idle EXCEPT !.op = "sync", !.pc = "load", !.agent = a] \in Request
BY IdleType DEF Request, Steps, AllOps

\* The rows AppendRoomEvent is given are room events.
LEMMA EventTypesOK ==
    ASSUME NEW by \in Agents \cup {Nil}, NEW t \in Nat
    PROVE  /\ \A type \in EventTypes : Ev(type, by) \in Event
           /\ MessageEv(t, by) \in Event
           /\ CloseEvents(by) \in Seq(Event)
BY DEF Ev, MessageEv, CloseEvents, Event, EventTypes

\* So are the two CreateListing writes.
LEMMA CreatedType == CreatedEvents \in Seq(Event)
BY NilFacts, EventTypesOK DEF CreatedEvents, EventTypes

\* A room's participants are agents: the NULL second agent is not one.
LEMMA ParticipantsType ==
    ASSUME NEW rm \in Room
    PROVE  Participants(rm) \subseteq Agents
BY AgentAssumption DEF Participants, Room

\* enqueueAgentStreamTurnReady creates well-typed deliveries.
LEMMA TurnReadyType ==
    ASSUME NEW rm \in Room
    PROVE  enqueueAgentStreamTurnReady(rm) \subseteq Delivery
<1>1. rm.turn \in Nat
  BY NilFacts DEF Room
<1>2. CASE rm.state = "ACTIVE" /\ nextActorIDForRoom(rm) # Nil
  <2>1. nextActorIDForRoom(rm) \in Agents
    BY <1>2, AgentAssumption DEF nextActorIDForRoom, Speaker, Room
  <2>2. QED
    BY <1>1, <1>2, <2>1 DEF enqueueAgentStreamTurnReady, Delivery
<1>3. CASE ~(rm.state = "ACTIVE" /\ nextActorIDForRoom(rm) # Nil)
  BY <1>3 DEF enqueueAgentStreamTurnReady
<1>4. QED
  BY <1>2, <1>3

\* enqueueAgentStreamTerminal creates well-typed deliveries.
LEMMA TerminalType ==
    ASSUME NEW rm \in Room, NEW type \in {"room.closed", "room.purged"}
    PROVE  enqueueAgentStreamTerminal(rm, type) \subseteq Delivery
BY ParticipantsType DEF enqueueAgentStreamTerminal, Delivery

\* enqueueWebhookOutboxForEvent creates well-typed outbox rows.
LEMMA WebhookType ==
    ASSUME NEW rm \in Room, NEW e \in Event
    PROVE  enqueueWebhookOutboxForEvent(rm, e) \subseteq [event : Event, target : Agents]
BY ParticipantsType DEF enqueueWebhookOutboxForEvent

\* RevokeRoomScopedTokens keeps the token table well typed.
LEMMA RevokeType ==
    ASSUME tokens \in Seq(Token), NEW ids
    PROVE  RevokeRoomScopedTokens(ids) \in Seq(Token)
<1>1. /\ Len(tokens) \in Nat
      /\ DOMAIN tokens = 1..Len(tokens)
      /\ \A i \in DOMAIN tokens : tokens[i] \in Token
  OBVIOUS
<1>2. RevokeRoomScopedTokens(ids) \in [1..Len(tokens) -> Token]
  BY <1>1 DEF RevokeRoomScopedTokens, Token
<1>3. QED
  BY <1>1, <1>2, SeqDef

\* Appending events, outbox rows and deliveries keeps the three tables well typed.
LEMMA EmitType ==
    ASSUME TypeOK, NEW rm \in Room, NEW evs \in Seq(Event), NEW dels \in SUBSET Delivery,
           Emit(rm, evs, dels)
    PROVE  /\ events' \in Seq(Event)
           /\ outbox' \subseteq [event : Event, target : Agents]
           /\ deliveries' \subseteq Delivery
<1>1. events' \in Seq(Event)
  BY DEF Emit, TypeOK
<1>2. \A i \in DOMAIN evs :
        enqueueWebhookOutboxForEvent(rm, evs[i]) \subseteq [event : Event, target : Agents]
  BY WebhookType
<1>3. outbox' \subseteq [event : Event, target : Agents]
  BY <1>2 DEF Emit, TypeOK
<1>4. QED
  BY <1>1, <1>3 DEF Emit, TypeOK

-----------------------------------------------------------------------------
(* Steps of the requests *)

\* What an idle request and one that syncs the context hold.
LEMMA IdleFacts ==
    ASSUME NEW a \in Agents
    PROVE  /\ Idle.rm = NewRoom("NONE", Nil) /\ Idle.pc = "idle" /\ Idle.op = "idle"
           /\ LET r == [Idle EXCEPT !.op = "sync", !.pc = "load", !.agent = a]
              IN  r.rm = NewRoom("NONE", Nil) /\ r.pc = "load" /\ r.op = "sync"
BY DEF Idle

\* Deliveries are never taken back, so a row that may be written stays one.
LEMMA WritableGrows ==
    ASSUME deliveries \subseteq deliveries', NEW rm, Writable(rm)
    PROVE  Writable(rm)'
BY DEF Writable, ToldOfEnd, enqueueAgentStreamTerminal, Participants

\* Replacing one request by another that holds a past of the room keeps ReqInv,
\* when the room only grows and the listing row changes under no one.
LEMMA ReplaceRequest ==
    ASSUME TypeOK, ReqInv, RoomGrows, TypeOK',
           NEW q \in Requests, NEW r \in Request,
           req' = [req EXCEPT ![q] = r],
           PastRoom(r.rm)', r.pc \notin {"connect", "cipher"},
           r.op \in {"beat", "leave"} => r.row \in ViewerRow,
           r.pc = "ttl" => r.rm.state \in Live,
           listing' = listing \/ \A p \in Requests \ {q} : req[p].pc # "connect"
    PROVE  ReqInv'
<1>1. Snapshots'
  BY DEF ReqInv, Snapshots, PastRoom, RoomGrows, TypeOK, Request, Room
<1>2. Connects'
  BY DEF ReqInv, Connects, TypeOK
<1>3. ViewerReads'
  BY DEF ReqInv, ViewerReads, TypeOK
<1>4. TtlReads'
  BY DEF ReqInv, TtlReads, TypeOK
<1>5. CipherReads'
  BY WritableGrows DEF ReqInv, CipherReads, RoomGrows, TypeOK, Speaker
<1>6. QED
  BY <1>1, <1>2, <1>3, <1>4, <1>5 DEF ReqInv

\* The empty snapshot of a request that has read nothing is a past of any room.
LEMMA NewRoomIsPast ==
    ASSUME TypeOK'
    PROVE  PastRoom(NewRoom("NONE", Nil))'
BY DEF PastRoom, NewRoom, TypeOK, Room

\* A request that ends, or goes on to update the context, keeps ReqInv.
LEMMA EndRequest ==
    ASSUME TypeOK, ReqInv, RoomGrows, TypeOK', NEW q \in Requests,
           Done(q) \/ ThenSync(q),
           listing' = listing \/ \A p \in Requests \ {q} : req[p].pc # "connect"
    PROVE  ReqInv'
<1>1. req[q].agent \in Agents
  BY DEF TypeOK, Request
<1> DEFINE sync == [Idle EXCEPT !.op = "sync", !.pc = "load", !.agent = req[q].agent]
<1>2. Idle \in Request /\ sync \in Request
  BY <1>1, IdleType, SyncType
<1>3. PastRoom(Idle.rm)' /\ PastRoom(sync.rm)'
  BY <1>1, IdleFacts, NewRoomIsPast
<1>4. CASE Done(q)
  BY <1>1, <1>2, <1>3, <1>4, IdleFacts, ReplaceRequest DEF Done
<1>5. CASE ThenSync(q)
  BY <1>1, <1>2, <1>3, <1>5, IdleFacts, ReplaceRequest DEF ThenSync
<1>6. QED
  BY <1>4, <1>5

\* Ending a handler, or going on to the context update, keeps requests well typed.
LEMMA EndRequestType ==
    ASSUME TypeOK, NEW q \in Requests, Done(q) \/ ThenSync(q)
    PROVE  req' \in [Requests -> Request]
<1>1. req[q].agent \in Agents
  BY DEF TypeOK, Request
<1>2. QED
  BY <1>1, IdleType, SyncType DEF TypeOK, Done, ThenSync

\* DbInv speaks of six variables only.
LEMMA DbFrame ==
    ASSUME TypeOK, DbInv, UNCHANGED <<listing, room, messages, deliveries, erased, raced>>
    PROVE  DbInv' /\ RoomGrows
<1>1. DbInv'
  BY DEF DbInv, Pairing, Keys, Progress, TurnLock, StrictTurnLock, OpenHasNoPeer, EndIsDated, NextActorNotified,
         ParticipantsToldOfEnd, enqueueAgentStreamTerminal, Participants, Speaker
<1>2. RoomGrows
  BY DEF RoomGrows, TypeOK, Room
<1>3. QED
  BY <1>1, <1>2

-----------------------------------------------------------------------------
(* Steps that leave the room row, its messages and its deliveries alone *)

\* What such a step leaves to show: that its request and the other tables keep
\* their types.
LEMMA QuietEnd ==
    ASSUME IInv, NEW q \in Requests, Done(q) \/ ThenSync(q),
           UNCHANGED <<now, listing, room, messages, events, deliveries, outbox, erased, raced>>,
           tokens' \in Seq(Token), joined' \subseteq Agents,
           viewers' \in [Viewers -> ViewerRow \cup {Nil}],
           context' \in ContextRow \cup {Nil}
    PROVE  IInv'
<1>1. TypeOK'
  <2>1. req' \in [Requests -> Request]
    BY EndRequestType DEF IInv
  <2>2. QED
    BY <2>1 DEF IInv, TypeOK
<1>2. DbInv' /\ RoomGrows
  BY DbFrame DEF IInv
<1>3. ReqInv'
  BY <1>1, <1>2, EndRequest DEF IInv
<1>4. QED
  BY <1>1, <1>2, <1>3 DEF IInv

\* JoinRoom keeps the invariant.
LEMMA JoinStep ==
    ASSUME IInv, NEW q \in Requests, JoinRoom(q)
    PROVE  IInv'
<1>1. req[q].agent \in Agents
  BY DEF IInv, TypeOK, Request
<1>2. joined' \subseteq Agents /\ UNCHANGED <<tokens, viewers, context>>
  BY <1>1 DEF JoinRoom, IInv, TypeOK
<1>3. QED
  BY <1>2, QuietEnd DEF JoinRoom, IInv, TypeOK

\* issueRoomAccessToken's insert keeps the invariant.
LEMMA TokenCreateStep ==
    ASSUME IInv, NEW q \in Requests, TokenCreate(q)
    PROVE  IInv'
<1> DEFINE t == [agent |-> req[q].agent, exp |-> req[q].at + TokenTTL, revoked |-> FALSE]
<1>1. t \in Token
  BY BoundAssumption DEF IInv, TypeOK, Request, Token
<1>2. RevokeRoomScopedTokens(req[q].held) \in Seq(Token)
  BY RevokeType DEF IInv, TypeOK
<1>3. tokens' \in Seq(Token)
  BY <1>1, <1>2 DEF TokenCreate
<1>4. QED
  BY <1>3, QuietEnd DEF TokenCreate, IInv, TypeOK

\* TouchRoomScopedToken keeps the invariant.
LEMMA TouchStep ==
    ASSUME IInv, NEW q \in Requests, TouchRoomScopedToken(q)
    PROVE  IInv'
<1>1. /\ Len(tokens) \in Nat
      /\ DOMAIN tokens = 1..Len(tokens)
      /\ \A i \in DOMAIN tokens : tokens[i] \in Token
      /\ req[q].at + TokenTTL \in Nat
  BY BoundAssumption DEF IInv, TypeOK, Request
<1>2. tokens' \in [1..Len(tokens) -> Token]
  BY <1>1 DEF TouchRoomScopedToken, Token
<1>3. tokens' \in Seq(Token)
  BY <1>1, <1>2, SeqDef
<1>4. QED
  BY <1>3, QuietEnd DEF TouchRoomScopedToken, IInv, TypeOK

\* ViewerJoin keeps the invariant.
LEMMA ViewerJoinStep ==
    ASSUME IInv, NEW q \in Requests, ViewerJoin(q)
    PROVE  IInv'
<1>1. viewers' \in [Viewers -> ViewerRow \cup {Nil}]
  <2>1. PICK at \in req[q].at..now :
          viewers' = [viewers EXCEPT ![req[q].viewer] = [hb |-> at, left |-> FALSE]]
    BY DEF ViewerJoin
  <2>2. at \in Nat
    BY DEF IInv, TypeOK, Request
  <2>3. QED
    BY <2>1, <2>2 DEF IInv, TypeOK, ViewerRow
<1>2. QED
  BY <1>1, QuietEnd DEF ViewerJoin, IInv, TypeOK

\* The UpsertViewer of a heartbeat or leave keeps the invariant.
LEMMA ViewerWriteStep ==
    ASSUME IInv, NEW q \in Requests, ViewerWrite(q)
    PROVE  IInv'
<1>1. req[q].row \in ViewerRow
  BY DEF IInv, ReqInv, ViewerReads, ViewerWrite, Running
<1>2. viewers' \in [Viewers -> ViewerRow \cup {Nil}]
  BY <1>1 DEF ViewerWrite, IInv, TypeOK, ViewerRow, Request
<1>3. QED
  BY <1>2, QuietEnd DEF ViewerWrite, IInv, TypeOK

\* UpsertRoomContext keeps the invariant.
LEMMA ContextWriteStep ==
    ASSUME IInv, NEW q \in Requests, ContextWrite(q)
    PROVE  IInv'
<1>1. context' \in ContextRow \cup {Nil}
  BY DEF ContextWrite, IInv, TypeOK, ContextRow, Request, Room
<1>2. QED
  BY <1>1, QuietEnd DEF ContextWrite, IInv, TypeOK

\* A handler that answers without writing, or dies, keeps the invariant.
LEMMA ReplyStep ==
    ASSUME IInv, NEW q \in Requests, Reply(q) \/ Abort(q)
    PROVE  IInv'
BY QuietEnd DEF Reply, Abort, IInv, TypeOK, dbVars

\* A step that only starts or advances a request.
LEMMA QuietBegin ==
    ASSUME IInv, NEW q \in Requests, NEW r \in Request,
           req' = [req EXCEPT ![q] = r], UNCHANGED <<now, dbVars>>,
           PastRoom(r.rm), r.pc \notin {"connect", "cipher"},
           r.op \in {"beat", "leave"} => r.row \in ViewerRow,
           r.pc = "ttl" => r.rm.state \in Live
    PROVE  IInv'
<1>1. TypeOK'
  BY DEF IInv, TypeOK, dbVars
<1>2. DbInv' /\ RoomGrows
  BY DbFrame DEF IInv, dbVars
<1>3. PastRoom(r.rm)'
  BY DEF PastRoom, dbVars
<1>4. ReqInv'
  BY <1>1, <1>2, <1>3, ReplaceRequest DEF IInv, dbVars
<1>5. QED
  BY <1>1, <1>2, <1>4 DEF IInv

\* The room as it stands is a past of itself: GetRoom returns a good snapshot.
LEMMA RoomIsPast ==
    ASSUME IInv
    PROVE  PastRoom(room)
BY DEF PastRoom, IInv, TypeOK, Room, DbInv, OpenHasNoPeer, Progress, Keys

\* GetRoom and reconcileRoomLocked's decision keep the invariant.
LEMMA LoadStep ==
    ASSUME IInv, NEW q \in Requests, NEW op \in (AllOps \cup {"sync"}) \ {"beat", "leave"},
           NEW a \in Agents, NEW v \in Viewers \cup {Nil},
           Load(q, op, a, v), UNCHANGED <<now, dbVars>>
    PROVE  IInv'
<1> DEFINE pc == CASE Expired(room) -> "ttl"
                   [] Purgeable(room) -> "purge"
                   [] OTHER -> "run"
           r == [Idle EXCEPT !.op = op, !.agent = a, !.rm = room, !.at = now, !.viewer = v,
                             !.pc = pc]
<1>1. pc \in {"ttl", "purge", "run"} /\ (pc = "ttl" => room.state \in Live)
  BY DEF Expired
<1> HIDE DEF pc
<1>2. r \in Request
  BY <1>1, IdleType DEF Request, Steps, IInv, TypeOK
<1>3. r.rm = room /\ r.pc = pc /\ r.op = op
  BY DEF Idle
<1>4. req' = [req EXCEPT ![q] = r]
  BY DEF Load, pc
<1>5. QED
  BY <1>1, <1>2, <1>3, <1>4, RoomIsPast, QuietBegin

\* A handler that starts keeps the invariant.
LEMMA BeginStep ==
    ASSUME IInv, NEW q \in Requests, NEW op \in AllOps, NEW a \in Agents,
           NEW v \in Viewers \cup {Nil}, Begin(q, op, a, v)
    PROVE  IInv'
BY LoadStep DEF Begin

\* loadRoomForContextUpdate keeps the invariant.
LEMMA SyncLoadStep ==
    ASSUME IInv, NEW q \in Requests, SyncLoad(q)
    PROVE  IInv'
<1>1. req[q].agent \in Agents
  BY DEF IInv, TypeOK, Request
<1>2. QED
  BY <1>1, LoadStep DEF SyncLoad

\* issueRoomAccessToken's first statement keeps the invariant.
LEMMA TokenRevokeStep ==
    ASSUME IInv, NEW q \in Requests, TokenRevoke(q)
    PROVE  IInv'
<1> DEFINE r == [req[q] EXCEPT !.pc = "issue", !.at = now, !.held = Unrevoked(req[q].agent)]
<1>1. Unrevoked(req[q].agent) \subseteq Nat
  BY DEF Unrevoked, IInv, TypeOK
<1>2. r \in Request
  BY <1>1 DEF Request, Steps, IInv, TypeOK
<1>3. r.rm = req[q].rm /\ r.op = req[q].op /\ r.pc = "issue" /\ r.row = req[q].row
  BY DEF IInv, TypeOK, Request
<1>4. req' = [req EXCEPT ![q] = r]
  BY DEF TokenRevoke
<1>5. PastRoom(r.rm) /\ r.op = "token"
  BY <1>3 DEF TokenRevoke, Running, IInv, ReqInv, Snapshots
<1>6. QED
  BY <1>2, <1>3, <1>4, <1>5, QuietBegin DEF TokenRevoke

\* AuthRoomAccess keeps the invariant.
LEMMA AuthStep ==
    ASSUME IInv, NEW q \in Requests, NEW i, AuthRoomAccess(q, i)
    PROVE  IInv'
<1> DEFINE r == [Idle EXCEPT !.op = "auth", !.pc = "touch", !.agent = tokens[i].agent,
                             !.at = now, !.held = {i}]
<1>1. i \in Nat /\ tokens[i].agent \in Agents
  <2>1. i \in DOMAIN tokens /\ tokens \in Seq(Token)
    BY DEF AuthRoomAccess, IInv, TypeOK
  <2>2. i \in Nat /\ tokens[i] \in Token
    BY <2>1
  <2>3. QED
    BY <2>2 DEF Token
<1>2. r \in Request
  BY <1>1, IdleType DEF Request, Steps, AllOps, IInv, TypeOK
<1>3. r.rm = NewRoom("NONE", Nil) /\ r.op = "auth" /\ r.pc = "touch"
  BY DEF Idle
<1>4. PastRoom(r.rm)
  BY <1>3 DEF PastRoom, NewRoom, IInv, TypeOK, Room
<1>5. req' = [req EXCEPT ![q] = r]
  BY DEF AuthRoomAccess
<1>6. QED
  BY <1>2, <1>3, <1>4, <1>5, QuietBegin DEF AuthRoomAccess

\* GetViewer of a heartbeat or leave keeps the invariant.
LEMMA ViewerReadStep ==
    ASSUME IInv, NEW q \in Requests, NEW op \in AllOps, NEW v \in Viewers, ViewerRead(q, op, v)
    PROVE  IInv'
<1> DEFINE r == [Idle EXCEPT !.op = op, !.pc = "run", !.viewer = v, !.at = now,
                              !.row = viewers[v]]
<1>1. viewers[v] \in ViewerRow
  BY DEF ViewerRead, IInv, TypeOK
<1>2. r \in Request
  BY <1>1, IdleType DEF Request, Steps, IInv, TypeOK
<1>3. r.rm = NewRoom("NONE", Nil) /\ r.pc = "run" /\ r.row = viewers[v]
  BY DEF Idle
<1>4. PastRoom(r.rm)
  BY <1>3 DEF PastRoom, NewRoom, IInv, TypeOK, Room
<1>5. req' = [req EXCEPT ![q] = r]
  BY DEF ViewerRead
<1>6. QED
  BY <1>1, <1>2, <1>3, <1>4, <1>5, QuietBegin DEF ViewerRead

\* The connect that takes the listing row is the only one to hold it, and holds a
\* room without a second agent.
LEMMA ConnectReadStep ==
    ASSUME IInv, NEW q \in Requests, NEW a \in Agents, ConnectRead(q, a)
    PROVE  IInv'
<1> DEFINE r == [Idle EXCEPT !.op = "connect", !.pc = "connect", !.agent = a, !.rm = room]
<1>1. r \in Request
  BY IdleType DEF Request, Steps, IInv, TypeOK
<1>2. r.rm = room /\ r.pc = "connect" /\ r.op = "connect"
  BY DEF Idle
<1>3. req' = [req EXCEPT ![q] = r]
  BY DEF ConnectRead
<1>4. TypeOK'
  BY <1>1, <1>3 DEF ConnectRead, IInv, TypeOK, dbVars
<1>5. DbInv'
  BY DbFrame DEF IInv, ConnectRead, dbVars
<1>6. PastRoom(r.rm)
  BY <1>2, RoomIsPast
<1>7. Snapshots'
  BY <1>3, <1>6 DEF ConnectRead, dbVars, IInv, ReqInv, Snapshots, PastRoom, TypeOK
<1>8. room.agentB = Nil /\ room.turn = 0 /\ listing = "open"
  BY DEF ConnectRead, IInv, DbInv, Pairing
<1>9. Connects'
  BY <1>2, <1>3, <1>8 DEF ConnectRead, dbVars, IInv, ReqInv, Connects, TypeOK
<1>10. ViewerReads' /\ TtlReads'
  BY <1>2, <1>3 DEF IInv, ReqInv, ViewerReads, TtlReads, TypeOK
<1>11. CipherReads'
  <2>1. deliveries \subseteq deliveries'
    BY DEF ConnectRead, dbVars
  <2>2. QED
    BY <1>2, <1>3, <2>1, WritableGrows DEF IInv, ReqInv, CipherReads, TypeOK, Speaker
<1>12. QED
  BY <1>4, <1>5, <1>7, <1>9, <1>10, <1>11 DEF IInv, ReqInv

\* ReqInv speaks of the requests and five variables of the database.
LEMMA ReqFrame ==
    ASSUME ReqInv, UNCHANGED <<listing, room, deliveries, erased, raced, req>>
    PROVE  ReqInv'
<1>1. Snapshots' /\ Connects' /\ ViewerReads' /\ TtlReads'
  BY DEF ReqInv, Snapshots, PastRoom, Connects, ViewerReads, TtlReads
<1>2. CipherReads'
  BY WritableGrows DEF ReqInv, CipherReads, Speaker
<1>3. QED
  BY <1>1, <1>2 DEF ReqInv

\* The passing of time keeps the invariant.
LEMMA TickStep ==
    ASSUME IInv, Tick
    PROVE  IInv'
<1>1. TypeOK'
  BY DEF Tick, IInv, TypeOK, dbVars
<1>2. DbInv'
  BY DbFrame DEF Tick, IInv, dbVars
<1>3. ReqInv'
  BY ReqFrame DEF Tick, IInv, dbVars
<1>4. QED
  BY <1>1, <1>2, <1>3 DEF IInv

\* A restart of the API process keeps the invariant.
LEMMA RestartStep ==
    ASSUME IInv, Restart
    PROVE  IInv'
<1>1. TypeOK'
  BY IdleType DEF Restart, IInv, TypeOK
<1>2. DbInv'
  BY DbFrame DEF Restart, IInv
<1>3. PastRoom(NewRoom("NONE", Nil))'
  BY <1>1, NewRoomIsPast
<1>4. \A q \in Requests : req'[q].rm = NewRoom("NONE", Nil) /\ req'[q].pc = "idle"
                          /\ req'[q].op = "idle"
  BY NilFacts, IdleFacts DEF Restart
<1>5. ReqInv'
  BY <1>3, <1>4 DEF ReqInv, Snapshots, PastRoom, Connects, ViewerReads, TtlReads, CipherReads
<1>6. QED
  BY <1>1, <1>2, <1>5 DEF IInv

-----------------------------------------------------------------------------
(* Steps that change the room *)

\* CreateListing keeps the invariant: no request can hold a room that did not exist.
LEMMA CreateListingStep ==
    ASSUME IInv, NEW q \in Requests, CreateListing(q)
    PROVE  IInv'
<1>1. room' = NewRoom("OPEN", Nil) /\ room' \in Room
  BY NewRoomType DEF CreateListing
<1>2. CreatedEvents \in Seq(Event) /\ {} \in SUBSET Delivery
  BY CreatedType
<1>3. events' \in Seq(Event) /\ outbox' \subseteq [event : Event, target : Agents]
      /\ deliveries' \subseteq Delivery
  BY <1>1, <1>2, EmitType DEF CreateListing, IInv
<1>4. req' \in [Requests -> Request]
  BY EndRequestType DEF CreateListing, IInv
<1>5. TypeOK'
  BY <1>1, <1>3, <1>4 DEF CreateListing, IInv, TypeOK
<1>6. /\ room.state = "NONE" /\ room.agentB = Nil /\ room.turn = 0 /\ messages = {}
      /\ ~erased /\ ~raced
  BY DEF CreateListing, IInv, DbInv, Pairing
<1>7. room'.state = "OPEN" /\ room'.agentB = Nil /\ room'.turn = 0 /\ room'.keyed
  BY <1>1 DEF NewRoom
<1>8. DbInv'
  <2>1. Pairing' /\ Keys' /\ Progress' /\ OpenHasNoPeer' /\ EndIsDated' /\ NextActorNotified'
        /\ ParticipantsToldOfEnd'
    BY <1>6, <1>7 DEF Pairing, Keys, Progress, OpenHasNoPeer, EndIsDated, NextActorNotified,
                      ParticipantsToldOfEnd, CreateListing
  <2>2. TurnLock'
    BY <1>6, <1>7 DEF TurnLock, StrictTurnLock, CreateListing
  <2>3. QED
    BY <2>1, <2>2 DEF DbInv
<1>9. RoomGrows /\ \A p \in Requests : req[p].pc # "connect"
  BY <1>6, <1>7 DEF RoomGrows, CreateListing, Emit, IInv, ReqInv, Connects
<1>10. ReqInv'
  BY <1>5, <1>9, EndRequest DEF CreateListing, IInv
<1>11. QED
  BY <1>5, <1>8, <1>10 DEF IInv

\* Pairing the agents: the room written is one nobody has spoken in.
LEMMA ConnectEffectsStep ==
    ASSUME IInv, NEW q \in Requests, NEW a \in Agents, NEW rm \in Room,
           rm.state = "ACTIVE", rm.agentB = a, rm.turn = 0, ~rm.keyed => Keyless,
           room.agentB = Nil,
           \A p \in Requests \ {q} : req[p].pc # "connect",
           ConnectEffects(q, rm, a)
    PROVE  IInv'
<1> DEFINE evs == <<Ev("room.joined", a), Ev("room.state_changed", a)>>
<1>1. evs \in Seq(Event)
  BY NilFacts, EventTypesOK DEF EventTypes
<1>2. enqueueAgentStreamTurnReady(rm) \subseteq Delivery
  BY TurnReadyType
<1>3. events' \in Seq(Event) /\ outbox' \subseteq [event : Event, target : Agents]
      /\ deliveries' \subseteq Delivery
  BY <1>1, <1>2, EmitType DEF ConnectEffects, IInv
<1>4. req' \in [Requests -> Request]
  BY EndRequestType DEF ConnectEffects, IInv
<1>5. TypeOK'
  BY <1>3, <1>4 DEF ConnectEffects, IInv, TypeOK
<1>6. room.turn = 0 /\ messages = {} /\ ~erased /\ ~raced /\ a # Nil
  BY NilFacts DEF IInv, DbInv, Pairing
<1>7. room' = rm /\ messages' = {} /\ ~erased' /\ ~raced' /\ listing' = "connected"
  BY <1>6 DEF ConnectEffects
<1>8. NextActorNotified'
  <2>1. nextActorIDForRoom(rm) = Owner /\ Speaker(rm, 0) = Owner
    BY DEF nextActorIDForRoom, Speaker
  <2>2. [agent |-> Owner, type |-> "room.turn_ready", turn |-> 0] \in deliveries'
    BY <2>1, NilFacts DEF ConnectEffects, Emit, enqueueAgentStreamTurnReady
  <2>3. QED
    BY <1>7, <2>1, <2>2 DEF NextActorNotified, Speaker
<1>9. Pairing' /\ Keys' /\ Progress' /\ OpenHasNoPeer' /\ EndIsDated' /\ ParticipantsToldOfEnd'
  BY <1>6, <1>7, NilFacts DEF Pairing, Keys, Progress, OpenHasNoPeer, EndIsDated,
                              ParticipantsToldOfEnd
<1>10. TurnLock'
  BY <1>7 DEF TurnLock, StrictTurnLock
<1>11. RoomGrows
  BY <1>6, <1>7 DEF RoomGrows, ConnectEffects, Emit
<1>12. ReqInv'
  BY <1>5, <1>11, EndRequest DEF ConnectEffects, IInv
<1>13. QED
  BY <1>5, <1>8, <1>9, <1>10, <1>12 DEF IInv, DbInv

\* ConnectListing on a listing without a room keeps the invariant.
LEMMA ConnectLegacyStep ==
    ASSUME IInv, NEW q \in Requests, NEW a \in Agents, ConnectLegacyListing(q, a)
    PROVE  IInv'
<1>1. NewRoom("ACTIVE", a) \in Room
  BY NewRoomType
<1>2. room.agentB = Nil /\ \A p \in Requests : req[p].pc # "connect"
  BY DEF ConnectLegacyListing, IInv, DbInv, Pairing, ReqInv, Connects
<1>3. QED
  BY <1>1, <1>2, ConnectEffectsStep DEF ConnectLegacyListing, NewRoom

\* ConnectListing's unlocked whole-row write keeps the invariant.
LEMMA ConnectWriteStep ==
    ASSUME IInv, NEW q \in Requests, ConnectWrite(q)
    PROVE  IInv'
<1> DEFINE rm == [req[q].rm EXCEPT !.agentB = req[q].agent, !.state = "ACTIVE"]
<1>1. req[q].rm \in Room /\ req[q].agent \in Agents
  BY DEF IInv, TypeOK, Request
<1>2. listing = "open" /\ req[q].rm.turn = 0 /\ \A p \in Requests \ {q} : req[p].pc # "connect"
  BY DEF ConnectWrite, IInv, ReqInv, Connects
<1>3. /\ rm \in Room /\ rm.state = "ACTIVE" /\ rm.agentB = req[q].agent /\ rm.turn = 0
      /\ rm.keyed = req[q].rm.keyed
  BY <1>1, <1>2 DEF Room
<1>4. room.agentB = Nil /\ (~rm.keyed => Keyless)
  BY <1>2, <1>3 DEF IInv, DbInv, Pairing, ReqInv, Snapshots, PastRoom
<1>5. QED
  BY <1>1, <1>2, <1>3, <1>4, ConnectEffectsStep DEF ConnectWrite

\* Closing a live room: by its participants or because its TTL has passed.
LEMMA CloseEffects ==
    ASSUME IInv, room.state \in Live, NEW at \in Nat, NEW by \in Agents \cup {Nil},
           room' = [room EXCEPT !.state = "CLOSED", !.closedAt = at],
           tokens' = revokeRoomScopedTokensForRoom(room),
           Emit(room', CloseEvents(by), enqueueAgentStreamTerminal(room', "room.closed")),
           UNCHANGED <<now, listing, messages, viewers, context, joined, erased, raced>>,
           req' \in [Requests -> Request]
    PROVE  TypeOK' /\ DbInv' /\ RoomGrows
<1>1. room' \in Room
  BY DEF Room, IInv, TypeOK
<1>2. /\ room'.state = "CLOSED" /\ room'.closedAt = at /\ room'.agentB = room.agentB
      /\ room'.turn = room.turn /\ room'.keyed = room.keyed
  BY DEF Room, IInv, TypeOK
<1>3. CloseEvents(by) \in Seq(Event)
  BY EventTypesOK
<1>4. enqueueAgentStreamTerminal(room', "room.closed") \subseteq Delivery
  BY <1>1, TerminalType
<1>5. events' \in Seq(Event) /\ outbox' \subseteq [event : Event, target : Agents]
      /\ deliveries' \subseteq Delivery
  BY <1>1, <1>3, <1>4, EmitType DEF IInv
<1>6. tokens' \in Seq(Token)
  BY RevokeType DEF revokeRoomScopedTokensForRoom, IInv, TypeOK
<1>7. TypeOK'
  BY <1>1, <1>5, <1>6 DEF IInv, TypeOK
<1>8. Pairing' /\ Keys' /\ Progress' /\ OpenHasNoPeer' /\ EndIsDated' /\ NextActorNotified'
  BY <1>2, NilFacts DEF IInv, DbInv, Pairing, Keys, Progress, OpenHasNoPeer, EndIsDated,
                        NextActorNotified
<1>9. ParticipantsToldOfEnd'
  <2>1. enqueueAgentStreamTerminal(room', "room.closed") \subseteq deliveries'
    BY DEF Emit
  <2>2. QED
    BY <1>2, <2>1 DEF ParticipantsToldOfEnd, enqueueAgentStreamTerminal, Participants
<1>10. TurnLock'
  BY <1>2 DEF IInv, DbInv, TurnLock, StrictTurnLock, Speaker
<1>11. RoomGrows
  BY <1>1, <1>2 DEF RoomGrows, Emit, IInv, TypeOK, Room
<1>12. QED
  BY <1>7, <1>8, <1>9, <1>10, <1>11 DEF DbInv

\* CloseRoom keeps the invariant, also when another close came first.
LEMMA CloseRoomStep ==
    ASSUME IInv, NEW q \in Requests, CloseRoom(q)
    PROVE  IInv'
<1>1. req[q].at \in Nat /\ req[q].agent \in Agents
  BY DEF IInv, TypeOK, Request
<1>2. ThenSync(q) /\ now' = now
  BY DEF CloseRoom
<1>3. req' \in [Requests -> Request]
  BY <1>2, EndRequestType DEF IInv
<1>4. CASE room.state = "CLOSED"
  BY <1>2, <1>4, QuietEnd DEF CloseRoom, dbVars, IInv, TypeOK
<1>5. CASE room.state # "CLOSED"
  <2>1. room.state \in Live
    <3>1. room.state # "NONE" /\ room.state # "PURGED"
      BY DEF CloseRoom, IInv, ReqInv, Snapshots, PastRoom
    <3>2. QED
      BY <1>5, <3>1 DEF IInv, TypeOK, Room
  <2> PICK at \in req[q].at..now : CloseTx(at, req[q].agent)
    BY <1>5 DEF CloseRoom
  <2>0. at \in Nat
    BY <1>1 DEF IInv, TypeOK
  <2>2. TypeOK' /\ DbInv' /\ RoomGrows
    BY <1>1, <1>2, <1>3, <1>5, <2>0, <2>1, CloseEffects DEF CloseTx
  <2>3. ReqInv'
    BY <1>2, <1>5, <2>2, EndRequest DEF IInv, CloseRoom, CloseTx
  <2>4. QED
    BY <2>2, <2>3 DEF IInv
<1>6. QED
  BY <1>4, <1>5

\* reconcileRoomLocked's TTL close keeps the invariant.
LEMMA ReconcileCloseStep ==
    ASSUME IInv, NEW q \in Requests, ReconcileClose(q)
    PROVE  IInv'
<1>1. req[q].at \in Nat /\ req[q] \in Request
  BY DEF IInv, TypeOK, Request
<1> PICK r : r = [req[q] EXCEPT !.pc = "hung"]
  OBVIOUS
<1>2. r \in Request /\ r.rm = req[q].rm /\ r.op = req[q].op /\ r.row = req[q].row
      /\ r.pc = "hung"
  BY <1>1 DEF Request, Steps
<1>3. ThenSync(q) \/ req' = [req EXCEPT ![q] = r]
  BY DEF ReconcileClose
<1>4. req' \in [Requests -> Request]
  BY <1>2, <1>3, EndRequestType DEF IInv, TypeOK
<1>5. TypeOK' /\ DbInv' /\ RoomGrows /\ listing' = listing
  <2>1. CASE room.state \in Ended
    <3>1. UNCHANGED <<now, dbVars>>
      BY <2>1 DEF ReconcileClose
    <3>2. TypeOK'
      BY <1>4, <3>1 DEF IInv, TypeOK, dbVars
    <3>3. QED
      BY <3>1, <3>2, DbFrame DEF IInv, dbVars
  <2>2. CASE room.state \notin Ended
    <3>1. room.state \in Live
      <4>1. room.state # "NONE"
        BY DEF ReconcileClose, IInv, ReqInv, TtlReads, Snapshots, PastRoom
      <4>2. QED
        BY <2>2, <4>1 DEF IInv, TypeOK, Room
    <3>2. QED
      BY <1>1, <1>4, <2>2, <3>1, CloseEffects DEF ReconcileClose, CloseTx
  <2>3. QED
    BY <2>1, <2>2
<1>6. PastRoom(r.rm)'
  <2>1. PastRoom(req[q].rm)
    BY DEF IInv, ReqInv, Snapshots
  <2>2. room.turn \in Nat /\ room'.turn \in Nat /\ req[q].rm.turn \in Nat
    BY <1>1, <1>5, NilFacts DEF IInv, TypeOK, Request, Room
  <2>3. QED
    BY <1>2, <1>5, <2>1, <2>2 DEF PastRoom, RoomGrows
<1>7. CASE ThenSync(q)
  BY <1>5, <1>7, EndRequest DEF IInv
<1>8. CASE req' = [req EXCEPT ![q] = r]
  <2>1. r.op \in {"beat", "leave"} => r.row \in ViewerRow
    BY <1>2 DEF IInv, ReqInv, ViewerReads
  <2>2. ReqInv'
    BY <1>2, <1>5, <1>6, <1>8, <2>1, ReplaceRequest DEF IInv
  <2>3. QED
    BY <1>5, <2>2 DEF IInv
<1>9. QED
  BY <1>3, <1>7, <1>8

\* Emptying a CLOSED room.
LEMMA PurgeEffects ==
    ASSUME IInv, room.state = "CLOSED", NEW rm, NEW at \in Nat, PurgeContent(rm, at),
           now' = now, req' \in [Requests -> Request]
    PROVE  TypeOK' /\ DbInv' /\ RoomGrows
<1> DEFINE purged == [room EXCEPT !.state = "PURGED", !.purgedAt = at]
           ev == Ev("room.purged", Nil)
<1>1. purged \in Room
  BY DEF Room, IInv, TypeOK
<1>2. /\ purged.state = "PURGED" /\ purged.purgedAt = at /\ purged.agentB = room.agentB
      /\ purged.turn = room.turn /\ purged.keyed = room.keyed
  BY DEF Room, IInv, TypeOK
<1>3. ev \in Event /\ Ev("room.state_changed", Nil) \in Event
  BY EventTypesOK DEF EventTypes
<1>4. /\ room' = purged /\ messages' = {} /\ context' = Nil
      /\ viewers' = [v \in Viewers |-> Nil]
      /\ tokens' = revokeRoomScopedTokensForRoom(rm)
      /\ events' = <<Ev("room.state_changed", Nil), ev>>
      /\ outbox' = enqueueWebhookOutboxForEvent(purged, ev)
      /\ deliveries' = deliveries \cup enqueueAgentStreamTerminal(purged, "room.purged")
      /\ erased' = (erased \/ room.agentB # Nil)
      /\ UNCHANGED <<listing, joined, raced>>
  BY DEF PurgeContent
<1>5. events' \in Seq(Event)
  BY <1>3, <1>4
<1>6. outbox' \subseteq [event : Event, target : Agents]
  BY <1>1, <1>3, <1>4, WebhookType
<1>7. deliveries' \subseteq Delivery
  BY <1>1, <1>4, TerminalType DEF IInv, TypeOK
<1>8. tokens' \in Seq(Token)
  BY <1>4, RevokeType DEF revokeRoomScopedTokensForRoom, IInv, TypeOK
<1>9. TypeOK'
  BY <1>1, <1>4, <1>5, <1>6, <1>7, <1>8 DEF IInv, TypeOK
<1> HIDE DEF purged
<1>10. Pairing' /\ Keys' /\ Progress' /\ OpenHasNoPeer' /\ EndIsDated' /\ NextActorNotified'
  BY <1>2, <1>4, NilFacts DEF IInv, DbInv, Pairing, Keys, Progress, OpenHasNoPeer, EndIsDated,
                              NextActorNotified
<1>11. ParticipantsToldOfEnd'
  BY <1>2, <1>4 DEF IInv, DbInv, ParticipantsToldOfEnd, enqueueAgentStreamTerminal,
                    Participants
<1>12. TurnLock'
  BY <1>2, <1>4 DEF IInv, DbInv, TurnLock, StrictTurnLock, Pairing
<1>13. RoomGrows
  BY <1>1, <1>2, <1>4 DEF RoomGrows, IInv, TypeOK, Room
<1>14. QED
  BY <1>9, <1>10, <1>11, <1>12, <1>13 DEF DbInv

\* reconcileRoomLocked's purge keeps the invariant, whatever the room has become.
LEMMA ReconcilePurgeStep ==
    ASSUME IInv, NEW q \in Requests, ReconcilePurge(q)
    PROVE  IInv'
<1>1. req[q].at \in Nat /\ req[q] \in Request /\ now' = now
  BY DEF IInv, TypeOK, Request, ReconcilePurge
<1>2. CASE room.state = "CLOSED" /\ PurgeContent(req[q].rm, req[q].at) /\ Resume(q, room')
  <2> PICK r : r = [req[q] EXCEPT !.pc = "run", !.rm = room']
    OBVIOUS
  <2>1. room' \in Room
    BY <1>1, <1>2 DEF PurgeContent, IInv, TypeOK, Room
  <2>2. r \in Request /\ r.rm = room' /\ r.op = req[q].op /\ r.row = req[q].row /\ r.pc = "run"
    BY <1>1, <2>1 DEF Request, Steps
  <2>3. req' = [req EXCEPT ![q] = r]
    BY <1>2 DEF Resume
  <2>4. req' \in [Requests -> Request]
    BY <2>2, <2>3 DEF IInv, TypeOK
  <2>5. TypeOK' /\ DbInv' /\ RoomGrows
    BY <1>1, <1>2, <2>4, PurgeEffects
  <2>6. PastRoom(r.rm)'
    BY <2>2, <2>5 DEF PastRoom, TypeOK, Room, DbInv, OpenHasNoPeer, Progress, Keys
  <2>7. r.op \in {"beat", "leave"} => r.row \in ViewerRow
    BY <2>2 DEF IInv, ReqInv, ViewerReads
  <2>8. ReqInv'
    BY <1>2, <2>2, <2>3, <2>5, <2>6, <2>7, ReplaceRequest DEF IInv, PurgeContent
  <2>9. QED
    BY <2>5, <2>8 DEF IInv
<1>3. CASE Resume(q, room) /\ UNCHANGED dbVars
  <2> DEFINE r == [req[q] EXCEPT !.pc = "run", !.rm = room]
  <2>1. r \in Request /\ r.rm = room /\ r.op = req[q].op /\ r.row = req[q].row /\ r.pc = "run"
    BY <1>1 DEF Request, Steps, IInv, TypeOK
  <2>2. req' = [req EXCEPT ![q] = r]
    BY <1>3 DEF Resume
  <2>3. r.op \in {"beat", "leave"} => r.row \in ViewerRow
    BY <2>1 DEF IInv, ReqInv, ViewerReads
  <2>4. QED
    BY <1>1, <1>3, <2>1, <2>2, <2>3, RoomIsPast, QuietBegin
<1>4. CASE Done(q) /\ UNCHANGED dbVars
  BY <1>1, <1>4, QuietEnd DEF dbVars, IInv, TypeOK
<1>5. QED
  BY <1>2, <1>3, <1>4 DEF ReconcilePurge

\* What SendMessage's transaction may assume of the row it builds on and of the turn
\* it stores the message for, whichever of the two ways it got them.
SendGood(q, base, t) ==
    /\ base \in Room /\ Writable(base)
    /\ base.agentB = room.agentB /\ room.agentB # Nil
    /\ req[q].rm.turn \in 0..(MaxTurns - 1) /\ t \in Nat
    /\ req[q].agent = Speaker(room, req[q].rm.turn)
    /\ raced' \in BOOLEAN /\ (raced => raced')
    /\ ~base.keyed \/ raced' => Keyless
    /\ ~raced' => base.state = room.state /\ t = req[q].rm.turn
    /\ ~raced' /\ ~erased => t = room.turn

\* The heart of the turn lock: a message that UNIQUE(room_id, turn) lets in while
\* the conversation is still there is for the room's current turn, although the
\* turn was read before the transaction.
LEMMA SendIsCurrent ==
    ASSUME IInv, NEW q \in Requests, req[q].rm.state = "ACTIVE", ~erased, ~raced,
           \A m \in messages : m.turn # req[q].rm.turn
    PROVE  req[q].rm.turn = room.turn
<1>1. req[q].rm.turn \in Nat /\ room.turn \in Nat
  BY NilFacts DEF IInv, TypeOK, Request, Room
<1>2. req[q].rm.turn <= room.turn
  BY DEF IInv, ReqInv, Snapshots, PastRoom
<1>3. req[q].rm.turn \notin {m.turn : m \in messages}
  OBVIOUS
<1>4. {m.turn : m \in messages} = 0..(room.turn - 1)
  BY DEF IInv, DbInv, TurnLock, StrictTurnLock
<1>5. QED
  BY <1>1, <1>2, <1>3, <1>4

\* What an allowed send knows of the room, from its snapshot.
LEMMA AllowedFacts ==
    ASSUME IInv, NEW q \in Requests, req[q].rm.state = "ACTIVE",
           req[q].agent = Speaker(req[q].rm, req[q].rm.turn)
    PROVE  /\ req[q].rm \in Room /\ req[q].rm.agentB = room.agentB /\ room.agentB # Nil
           /\ req[q].rm.turn \in 0..(MaxTurns - 1)
           /\ req[q].agent = Speaker(room, req[q].rm.turn)
<1>1. req[q].rm \in Room
  BY DEF IInv, TypeOK, Request
<1>2. PastRoom(req[q].rm)
  BY DEF IInv, ReqInv, Snapshots
<1>3. req[q].rm.agentB = room.agentB /\ room.agentB # Nil
  BY <1>2 DEF PastRoom
<1>4. req[q].rm.turn \in 0..(MaxTurns - 1)
  BY <1>1, <1>2, NilFacts DEF PastRoom, Room
<1>5. QED
  BY <1>1, <1>3, <1>4 DEF Speaker

\* A paired room may be written back as it is.
LEMMA RoomIsWritable ==
    ASSUME IInv, room.agentB # Nil
    PROVE  Writable(room)
<1>1. room.state \in {"ACTIVE", "CLOSED", "PURGED"}
  BY DEF IInv, TypeOK, Room, DbInv, Pairing, OpenHasNoPeer
<1>2. QED
  BY <1>1 DEF IInv, DbInv, EndIsDated, ParticipantsToldOfEnd, Writable, ToldOfEnd

\* SendMessage with a key builds on the row it has locked.
LEMMA SendMessageGood ==
    ASSUME IInv, NEW q \in Requests, SendMessage(q)
    PROVE  SendGood(q, room, req[q].rm.turn)
<1>1. req[q].rm.state = "ACTIVE" /\ req[q].agent = Speaker(req[q].rm, req[q].rm.turn)
  BY DEF SendMessage, SendAllowed
<1>2. \A m \in messages : m.turn # req[q].rm.turn
  BY DEF SendMessage, SendTx
<1>3. room \in Room /\ raced' = raced /\ raced \in BOOLEAN
  BY DEF SendMessage, IInv, TypeOK
<1>4. ~room.keyed \/ raced => Keyless
  BY DEF IInv, DbInv, Keys
<1>5. req[q].rm.turn \in Nat
  BY <1>1, AllowedFacts, NilFacts
<1>6. QED
  BY <1>1, <1>2, <1>3, <1>4, <1>5, AllowedFacts, SendIsCurrent, RoomIsWritable DEF SendGood

\* The one that stores the key builds on the row it read, which a race apart is still
\* the room and has the snapshot's turn.
LEMMA SendKeylessGood ==
    ASSUME IInv, NEW q \in Requests, SendKeyless(q)
    PROVE  SendGood(q, [req[q].read EXCEPT !.keyed = TRUE], req[q].read.turn)
<1> PICK read : read = req[q].read
  OBVIOUS
<1> PICK base : base = [read EXCEPT !.keyed = TRUE]
  OBVIOUS
<1>1. /\ req[q].rm.state = "ACTIVE" /\ req[q].agent = Speaker(req[q].rm, req[q].rm.turn)
      /\ ~req[q].rm.keyed /\ read.agentB = req[q].rm.agentB /\ Writable(read)
  BY DEF SendKeyless, IInv, ReqInv, CipherReads
<1>2. read \in Room /\ raced \in BOOLEAN
  BY DEF IInv, TypeOK, Request
<1>3. /\ base \in Room /\ base.keyed /\ base.state = read.state /\ base.agentB = read.agentB
      /\ base.closedAt = read.closedAt /\ base.purgedAt = read.purgedAt
  BY <1>2 DEF Room
<1>4. Writable(base)
  BY <1>1, <1>3 DEF Writable, ToldOfEnd, enqueueAgentStreamTerminal, Participants
<1>5. raced' = (raced \/ read # room \/ read.turn # req[q].rm.turn)
  BY DEF SendKeyless
<1>6. Keyless
  BY <1>1 DEF IInv, ReqInv, Snapshots, PastRoom
<1>7. read.turn \in Nat
  BY <1>2, NilFacts DEF Room
<1>8. \A m \in messages : m.turn # read.turn
  BY DEF SendKeyless, SendTx
<1>9. ASSUME ~raced'
      PROVE  /\ base.state = room.state /\ read.turn = req[q].rm.turn
             /\ ~erased => read.turn = room.turn
  <2>1. ~raced /\ read = room /\ read.turn = req[q].rm.turn
    BY <1>5, <1>9
  <2>2. QED
    BY <1>3, <2>1
<1>10. raced' \in BOOLEAN /\ (raced => raced')
  BY <1>5
<1>11. SendGood(q, base, read.turn)
  BY <1>1, <1>3, <1>4, <1>6, <1>7, <1>9, <1>10, AllowedFacts DEF SendGood
<1>12. QED
  BY <1>11

\* SendMessage's transaction keeps the invariant, also in a room that ended after its
\* checks, and also over a row that was read before its lock.
LEMMA SendTxStep ==
    ASSUME IInv, NEW q \in Requests, NEW base, NEW t, SendTx(q, base, t), SendGood(q, base, t)
    PROVE  IInv'
<1> DEFINE n == req[q].rm.turn + 1
           a == req[q].agent
           updated == SentRow(q, base)
           last == n >= MaxTurns
<1>1. /\ t \in Nat /\ n \in Nat /\ n <= MaxTurns /\ a \in Agents
      /\ base \in Room /\ room \in Room /\ now \in Nat
  <2>1. req[q].rm.turn \in 0..(MaxTurns - 1) /\ t \in Nat /\ base \in Room
    BY DEF SendGood
  <2>2. a \in Agents /\ room \in Room /\ now \in Nat
    BY DEF IInv, TypeOK, Request
  <2>3. QED
    BY <2>1, <2>2, NilFacts
<1>2. updated \in Room
  <2>1. n \in 0..MaxTurns
    BY <1>1, NilFacts
  <2>2. CASE last
    BY <1>1, <2>1, <2>2 DEF SentRow, Room
  <2>3. CASE ~last
    BY <1>1, <2>1, <2>3 DEF SentRow, Room
  <2>4. QED
    BY <2>2, <2>3
<1>3. /\ updated.agentB = base.agentB /\ updated.turn = n /\ updated.keyed = base.keyed
      /\ last => updated.state = "CLOSED" /\ updated.closedAt = now
      /\ ~last => updated.state = base.state /\ updated.closedAt = base.closedAt
      /\ updated.purgedAt = base.purgedAt
  BY <1>1 DEF SentRow, Room
<1>4. /\ messages' = messages \cup {[turn |-> t, sender |-> a]}
      /\ room' = updated
      /\ UNCHANGED <<now, listing, viewers, context, joined, erased>>
      /\ ThenSync(q)
  BY DEF SendTx
<1>5. MessageEv(t, a) \in Event /\ CloseEvents(a) \in Seq(Event)
  BY <1>1, EventTypesOK
<1>6. events' \in Seq(Event) /\ outbox' \subseteq [event : Event, target : Agents]
      /\ deliveries' \subseteq Delivery /\ tokens' \in Seq(Token)
  <2>1. CASE last
    <3>1. <<MessageEv(t, a)>> \o CloseEvents(a) \in Seq(Event)
      BY <1>5
    <3>2. enqueueAgentStreamTerminal(updated, "room.closed") \subseteq Delivery
      BY <1>2, TerminalType
    <3>3. Emit(updated, <<MessageEv(t, a)>> \o CloseEvents(a),
               enqueueAgentStreamTerminal(updated, "room.closed"))
          /\ tokens' = revokeRoomScopedTokensForRoom(updated)
      BY <2>1 DEF SendTx
    <3>4. tokens' \in Seq(Token)
      BY <3>3, RevokeType DEF revokeRoomScopedTokensForRoom, IInv, TypeOK
    <3>5. QED
      BY <1>2, <3>1, <3>2, <3>3, <3>4, EmitType DEF IInv
  <2>2. CASE ~last
    <3>1. Emit(updated, <<MessageEv(t, a)>>, enqueueAgentStreamTurnReady(updated))
          /\ tokens' = tokens
      BY <2>2 DEF SendTx
    <3>2. enqueueAgentStreamTurnReady(updated) \subseteq Delivery
      BY <1>2, TurnReadyType
    <3>3. <<MessageEv(t, a)>> \in Seq(Event)
      BY <1>5
    <3>4. QED
      BY <1>2, <3>1, <3>2, <3>3, EmitType DEF IInv, TypeOK
  <2>3. QED
    BY <2>1, <2>2
<1>7. req' \in [Requests -> Request]
  BY <1>4, EndRequestType DEF IInv
<1>8. TypeOK'
  <2>1. messages' \subseteq Message
    BY <1>1, <1>4 DEF Message, IInv, TypeOK
  <2>2. raced' \in BOOLEAN
    BY DEF SendGood
  <2>3. QED
    BY <1>2, <1>4, <1>6, <1>7, <2>1, <2>2 DEF IInv, TypeOK
<1> HIDE DEF updated, n
<1>9. /\ room.agentB # Nil /\ base.agentB = room.agentB
      /\ base.state \in {"ACTIVE", "CLOSED", "PURGED"}
      /\ base.state = "CLOSED" => base.closedAt # Nil
      /\ base.state = "PURGED" => base.purgedAt # Nil
      /\ ~base.keyed \/ raced' => Keyless
      /\ raced => raced'
      /\ ~raced' => base.state = room.state
  BY DEF SendGood, Writable
<1>10. Pairing' /\ Keys' /\ OpenHasNoPeer' /\ EndIsDated'
  <2>1. room.state # "NONE"
    BY <1>9 DEF IInv, DbInv, Pairing
  <2>2. QED
    BY <1>1, <1>3, <1>4, <1>9, <2>1, NilFacts DEF IInv, DbInv, Pairing, Keys, OpenHasNoPeer,
                                                  EndIsDated
<1>11. Progress'
  BY <1>1, <1>3, <1>4, <1>9, NilFacts DEF IInv, DbInv, Progress
<1>12. TurnLock'
  <2>1. SUFFICES ASSUME ~raced' PROVE StrictTurnLock'
    BY DEF TurnLock
  <2>2. ~raced /\ t = req[q].rm.turn /\ a = Speaker(room, t) /\ n = t + 1
    BY <1>9, <2>1 DEF SendGood, n
  <2>3. \A m : Speaker(room', m) = Speaker(room, m)
    BY <1>3, <1>4, <1>9 DEF Speaker
  <2>4. \A m \in messages' : m.sender = Speaker(room', m.turn)
    BY <1>4, <2>2, <2>3 DEF IInv, DbInv, TurnLock, StrictTurnLock
  <2>5. ASSUME ~erased' PROVE {m.turn : m \in messages'} = 0..(room'.turn - 1)
    <3>1. t = room.turn /\ {m.turn : m \in messages} = 0..(t - 1)
      BY <1>4, <2>1, <2>2, <2>5 DEF SendGood, IInv, DbInv, TurnLock, StrictTurnLock
    <3>2. {m.turn : m \in messages'} = {m.turn : m \in messages} \cup {t}
      <4> DEFINE new == [turn |-> t, sender |-> a]
      <4>1. new.turn = t
        OBVIOUS
      <4> HIDE DEF new
      <4>2. messages' = messages \cup {new}
        BY <1>4 DEF new
      <4>3. QED
        BY <4>1, <4>2
    <3>3. room'.turn - 1 = t /\ 0..t = 0..(t - 1) \cup {t}
      BY <1>1, <1>3, <1>4, <2>2
    <3>4. QED
      BY <3>1, <3>2, <3>3
  <2>6. QED
    BY <2>4, <2>5 DEF StrictTurnLock
<1>13. deliveries \subseteq deliveries'
  BY DEF SendTx, Emit
<1>14. NextActorNotified'
  <2>1. SUFFICES ASSUME room'.state = "ACTIVE"
                 PROVE  [agent |-> Speaker(room', room'.turn), type |-> "room.turn_ready",
                         turn |-> room'.turn] \in deliveries'
    BY DEF NextActorNotified
  <2>2. ~last /\ updated.state = "ACTIVE"
    BY <1>3, <1>4, <2>1
  <2>3. nextActorIDForRoom(updated) = Speaker(updated, updated.turn)
        /\ Speaker(updated, updated.turn) # Nil
    BY <1>3, <1>9, <2>2, NilFacts DEF nextActorIDForRoom, Speaker
  <2>4. enqueueAgentStreamTurnReady(updated) \subseteq deliveries'
    BY <2>2 DEF SendTx, Emit, updated, n
  <2>5. QED
    BY <1>4, <2>2, <2>3, <2>4 DEF enqueueAgentStreamTurnReady
<1>15. ParticipantsToldOfEnd'
  <2>1. Participants(updated) = Participants(base)
    BY <1>3 DEF Participants
  <2>2. last => enqueueAgentStreamTerminal(updated, "room.closed") \subseteq deliveries'
    BY DEF SendTx, Emit, updated, n
  <2>3. ToldOfEnd(base)
    BY DEF SendGood, Writable
  <2>4. QED
    BY <1>3, <1>4, <1>13, <2>1, <2>2, <2>3 DEF ParticipantsToldOfEnd, ToldOfEnd,
                                               enqueueAgentStreamTerminal
<1>16. RoomGrows
  <2>1. ~erased' /\ ~raced' => ~erased /\ room.turn <= room'.turn
    BY <1>1, <1>3, <1>4 DEF SendGood, n
  <2>2. room'.state # "NONE"
    BY <1>3, <1>4, <1>9
  <2>3. QED
    BY <1>3, <1>4, <1>9, <1>13, <2>1, <2>2 DEF RoomGrows
<1>17. ReqInv'
  BY <1>4, <1>8, <1>16, EndRequest DEF IInv
<1>18. QED
  BY <1>8, <1>10, <1>11, <1>12, <1>14, <1>15, <1>17 DEF IInv, DbInv

\* SendMessage keeps the invariant.
LEMMA SendStep ==
    ASSUME IInv, NEW q \in Requests, SendMessage(q)
    PROVE  IInv'
BY SendMessageGood, SendTxStep DEF SendMessage

\* So does the send that stores a key, from a row read without a lock.
LEMMA SendKeylessStep ==
    ASSUME IInv, NEW q \in Requests, SendKeyless(q)
    PROVE  IInv'
BY SendKeylessGood, SendTxStep DEF SendKeyless

\* The read before it keeps the invariant: the row it takes may be written back.
LEMMA CipherReadStep ==
    ASSUME IInv, NEW q \in Requests, CipherRead(q)
    PROVE  IInv'
<1> PICK r : r = [req[q] EXCEPT !.pc = "cipher", !.read = room]
  OBVIOUS
<1>1. req[q] \in Request /\ room \in Room
  BY DEF IInv, TypeOK
<1>2. /\ r \in Request /\ r.rm = req[q].rm /\ r.op = req[q].op /\ r.row = req[q].row
      /\ r.pc = "cipher" /\ r.read = room /\ r.agent = req[q].agent
  BY <1>1 DEF Request, Steps
<1>3. req' = [req EXCEPT ![q] = r] /\ UNCHANGED <<now, dbVars>>
  BY DEF CipherRead
<1>4. TypeOK'
  BY <1>2, <1>3 DEF IInv, TypeOK, dbVars
<1>5. DbInv'
  BY <1>3, DbFrame DEF IInv, dbVars
<1>6. Snapshots'
  BY <1>2, <1>3 DEF dbVars, IInv, ReqInv, Snapshots, PastRoom, TypeOK
<1>7. Connects' /\ ViewerReads' /\ TtlReads'
  BY <1>2, <1>3 DEF dbVars, IInv, ReqInv, Connects, ViewerReads, TtlReads, TypeOK
<1>8. CipherReads'
  <2>1. /\ req[q].rm.state = "ACTIVE" /\ ~req[q].rm.keyed
        /\ req[q].agent = Speaker(req[q].rm, req[q].rm.turn)
    BY DEF CipherRead, SendAllowed
  <2>2. room.agentB = req[q].rm.agentB /\ Writable(room)
    BY <2>1, AllowedFacts, RoomIsWritable
  <2>3. deliveries \subseteq deliveries'
    BY <1>3 DEF dbVars
  <2>4. \A rm : Writable(rm) => Writable(rm)'
    BY <2>3, WritableGrows
  <2>5. Writable(r.read)'
    BY <1>2, <2>2, <2>4
  <2>6. QED
    BY <1>2, <1>3, <2>1, <2>2, <2>4, <2>5 DEF IInv, ReqInv, CipherReads, TypeOK, Speaker
<1>9. QED
  BY <1>4, <1>5, <1>6, <1>7, <1>8 DEF IInv, ReqInv

-----------------------------------------------------------------------------
(* The inductive invariant *)

\* The invariant holds in an empty database and in one with an old open room.
LEMMA InitIInv == Init => IInv
<1> SUFFICES ASSUME Init PROVE IInv
  OBVIOUS
<1>1. NewRoom("NONE", Nil) \in Room /\ room \in Room
  <2>1. NewRoom("NONE", Nil) \in Room /\ NewRoom("OPEN", Nil) \in Room
    BY NewRoomType
  <2>2. QED
    BY <2>1 DEF Init, Room
<1>2. TypeOK
  <2>1. events \in Seq(Event) /\ tokens \in Seq(Token)
    <3>1. <<>> \in Seq(Event) /\ <<>> \in Seq(Token)
      OBVIOUS
    <3>2. (events = <<>> \/ events = CreatedEvents) /\ tokens = <<>>
      BY DEF Init
    <3>3. QED
      BY <3>1, <3>2, CreatedType
  <2>2. viewers \in [Viewers -> ViewerRow \cup {Nil}] /\ req \in [Requests -> Request]
    BY IdleType DEF Init
  <2>3. QED
    BY <1>1, <2>1, <2>2 DEF Init, TypeOK
<1>3. /\ room.state \in {"NONE", "OPEN"} /\ room.agentB = Nil /\ room.turn = 0
      /\ room.state = "NONE" <=> listing \in {"none", "legacy"}
      /\ listing # "connected" /\ (~room.keyed => Keyless)
  BY DEF Init, NewRoom
<1>4. Pairing /\ Keys /\ Progress /\ OpenHasNoPeer /\ EndIsDated /\ NextActorNotified
      /\ ParticipantsToldOfEnd
  BY <1>3 DEF Init, Pairing, Keys, Progress, OpenHasNoPeer, EndIsDated, NextActorNotified,
              ParticipantsToldOfEnd
<1>5. TurnLock
  BY <1>3 DEF Init, TurnLock, StrictTurnLock
<1>6. \A q \in Requests : req[q].rm = NewRoom("NONE", Nil) /\ req[q].pc = "idle"
                          /\ req[q].op = "idle"
  BY NilFacts, IdleFacts DEF Init
<1>7. PastRoom(NewRoom("NONE", Nil))
  BY <1>2 DEF PastRoom, NewRoom, TypeOK, Room
<1>8. ReqInv
  BY <1>6, <1>7 DEF ReqInv, Snapshots, Connects, ViewerReads, TtlReads, CipherReads
<1>9. QED
  BY <1>2, <1>4, <1>5, <1>8 DEF IInv, DbInv

\* Every step of the service keeps the invariant.
LEMMA NextIInv == IInv /\ [Next]_vars => IInv'
<1> SUFFICES ASSUME IInv, [Next]_vars PROVE IInv'
  OBVIOUS
<1>1. CASE Tick
  BY <1>1, TickStep
<1>2. CASE Restart
  BY <1>2, RestartStep
<1>3. ASSUME NEW q \in Requests, CreateListing(q) PROVE IInv'
  BY <1>3, CreateListingStep
<1>4. ASSUME NEW q \in Requests, Connect(q) PROVE IInv'
  BY <1>4, ConnectLegacyStep, ConnectReadStep, ConnectWriteStep DEF Connect
<1>5. ASSUME NEW q \in Requests, Reconcile(q) PROVE IInv'
  BY <1>5, SyncLoadStep, ReconcileCloseStep, ReconcilePurgeStep DEF Reconcile
<1>6. ASSUME NEW q \in Requests, Handle(q) PROVE IInv'
  BY <1>6, JoinStep, SendStep, CipherReadStep, SendKeylessStep, CloseRoomStep, TokenRevokeStep, TokenCreateStep, TouchStep,
     ContextWriteStep, AuthStep DEF Handle
<1>7. ASSUME NEW q \in Requests, Viewer(q) PROVE IInv'
  BY <1>7, ViewerJoinStep, ViewerWriteStep, ViewerReadStep DEF Viewer
<1>8. ASSUME NEW q \in Requests, Reply(q) \/ Abort(q) PROVE IInv'
  BY <1>8, ReplyStep
<1>9. ASSUME NEW q \in Requests, NEW op \in AllOps, NEW a \in Agents,
             NEW v \in Viewers \cup {Nil}, Begin(q, op, a, v)
      PROVE  IInv'
  BY <1>9, BeginStep
<1>10. CASE UNCHANGED vars
  <2>1. TypeOK'
    BY <1>10 DEF IInv, TypeOK, vars
  <2>2. DbInv'
    BY <1>10, DbFrame DEF IInv, vars
  <2>3. ReqInv'
    BY <1>10, ReqFrame DEF IInv, vars
  <2>4. QED
    BY <2>1, <2>2, <2>3 DEF IInv
<1>11. QED
  BY <1>1, <1>2, <1>3, <1>4, <1>5, <1>6, <1>7, <1>8, <1>9, <1>10 DEF Next

\* The invariant holds in every reachable state of the service.
LEMMA Invariance == Spec => []IInv
BY InitIInv, NextIInv, PTL DEF Spec

\* Every table and every request in flight keeps its type, for any number of
\* agents, requests, viewers and tokens.
THEOREM TypeCorrect == Spec => []TypeOK
<1>1. IInv => TypeOK
  BY DEF IInv
<1>2. QED
  BY <1>1, Invariance, PTL

\* SendMessage's strict turn lock: until the content is purged the messages are
\* exactly turns 0 .. turn_index-1 and each is by the agent whose turn it was,
\* whatever requests overlap and however stale their snapshots are, unless a send
\* stored the room's message key over a row that had changed.
THEOREM TurnLockHolds == Spec => []TurnLock
<1>1. IInv => TurnLock
  BY DEF IInv, DbInv
<1>2. QED
  BY <1>1, Invariance, PTL

\* A room that has had its message key from the start keeps the strict turn lock
\* without exception: only a send that finds no key can race for one.
THEOREM KeyedTurnLock == Spec => [](~Keyless => StrictTurnLock)
<1>1. IInv => (~Keyless => StrictTurnLock)
  BY DEF IInv, DbInv, Keys, TurnLock
<1>2. QED
  BY <1>1, Invariance, PTL

\* ConnectListing, JoinRoom and the closing paths together keep state, agent_b_id,
\* closed_at and purged_at consistent, although some of them write whole rows
\* they read without a lock.
THEOREM RowConsistent == Spec => []RowAgrees
<1>1. IInv => RowAgrees
  BY DEF IInv, DbInv, RowAgrees
<1>2. QED
  BY <1>1, Invariance, PTL

\* Nobody waits for news that was never sent: ConnectListing and SendMessage queue
\* room.turn_ready for the agent whose turn it is, and every path that ends or
\* purges the room tells its participants.
THEOREM EveryoneIsTold == Spec => []EveryoneTold
<1>1. IInv => EveryoneTold
  BY DEF IInv, DbInv, EveryoneTold
<1>2. QED
  BY <1>1, Invariance, PTL

-----------------------------------------------------------------------------
(* What one step may do to the room *)

RoomStays == UNCHANGED <<room, erased, raced>>

RoomUnpaired ==
    /\ room.agentB = Nil /\ room'.agentB = Nil /\ room'.turn = room.turn
    /\ ~erased' /\ ~raced'

RoomPaired ==
    /\ room.agentB = Nil /\ room'.agentB # Nil /\ room'.state = "ACTIVE" /\ room'.turn = 0
    /\ ~erased' /\ ~raced'

RoomTurned ==
    /\ room.agentB # Nil /\ room'.agentB = room.agentB /\ erased' = erased
    /\ ~raced /\ ~raced'
    /\ ~erased => room.turn < MaxTurns /\ room'.turn = room.turn + 1
    /\ IF room'.turn = MaxTurns THEN room'.state = "CLOSED" ELSE room'.state = room.state

RoomEnded ==
    /\ room.agentB # Nil /\ room'.agentB = room.agentB /\ erased' = erased /\ raced' = raced
    /\ room.state = "ACTIVE" /\ room'.state = "CLOSED" /\ room'.turn = room.turn

RoomErased ==
    /\ room.agentB # Nil /\ room'.agentB = room.agentB /\ erased' /\ raced' = raced
    /\ room.state = "CLOSED" /\ room'.state = "PURGED"

\* A send in a room where a key was, or is now, stored over a changed row.
RoomDerailed ==
    room.agentB # Nil /\ room'.agentB = room.agentB /\ raced' /\ Keyless

RoomStep ==
    \/ RoomStays \/ RoomUnpaired \/ RoomPaired \/ RoomTurned \/ RoomEnded \/ RoomErased
    \/ RoomDerailed

\* A close, by a participant or by the TTL.
LEMMA CloseIsRoomStep ==
    ASSUME IInv, room.state \in Live, NEW at,
           room' = [room EXCEPT !.state = "CLOSED", !.closedAt = at], erased' = erased,
           raced' = raced
    PROVE  RoomStep
<1>1. /\ room'.state = "CLOSED" /\ room'.agentB = room.agentB /\ room'.turn = room.turn
  BY DEF IInv, TypeOK, Room
<1>2. CASE room.agentB = Nil
  BY <1>1, <1>2 DEF IInv, DbInv, Pairing, RoomStep, RoomUnpaired
<1>3. CASE room.agentB # Nil
  BY <1>1, <1>3 DEF IInv, DbInv, OpenHasNoPeer, RoomStep, RoomEnded
<1>4. QED
  BY <1>2, <1>3

\* A send, by either of its two ways.
LEMMA SendTxIsRoomStep ==
    ASSUME IInv, NEW q \in Requests, NEW base, NEW t, SendTx(q, base, t), SendGood(q, base, t)
    PROVE  RoomStep
<1>1. room' = SentRow(q, base) /\ erased' = erased
  BY DEF SendTx
<1>2. /\ base \in Room /\ base.agentB = room.agentB /\ room.agentB # Nil
      /\ req[q].rm.turn \in 0..(MaxTurns - 1)
  BY DEF SendGood
<1>3. /\ room'.agentB = room.agentB /\ room'.turn = req[q].rm.turn + 1
      /\ IF room'.turn >= MaxTurns THEN room'.state = "CLOSED" ELSE room'.state = base.state
  BY <1>1, <1>2 DEF SentRow, Room
<1>4. CASE raced'
  BY <1>2, <1>3, <1>4 DEF SendGood, RoomStep, RoomDerailed
<1>5. CASE ~raced'
  <2>1. base.state = room.state /\ ~raced /\ (~erased => req[q].rm.turn = room.turn)
    BY <1>5 DEF SendGood
  <2>2. QED
    BY <1>1, <1>2, <1>3, <1>5, <2>1, NilFacts DEF RoomStep, RoomTurned
<1>6. QED
  BY <1>4, <1>5

\* Every step of the service does one of these seven things to the room.
LEMMA NextRoomStep == IInv /\ [Next]_vars => RoomStep
<1> SUFFICES ASSUME IInv, [Next]_vars PROVE RoomStep
  OBVIOUS
<1>1. CASE Tick \/ Restart \/ UNCHANGED vars
  BY <1>1 DEF Tick, Restart, vars, dbVars, RoomStep, RoomStays
<1>2. ASSUME NEW q \in Requests, CreateListing(q) PROVE RoomStep
  BY <1>2 DEF CreateListing, NewRoom, IInv, DbInv, Pairing, RoomStep, RoomUnpaired
<1>3. ASSUME NEW q \in Requests, NEW a \in Agents, ConnectLegacyListing(q, a) PROVE RoomStep
  BY <1>3, NilFacts DEF ConnectLegacyListing, ConnectEffects, NewRoom, IInv, DbInv, Pairing,
                        RoomStep, RoomPaired
<1>4. ASSUME NEW q \in Requests, ConnectWrite(q) PROVE RoomStep
  <2>1. req[q].rm \in Room /\ req[q].agent \in Agents
    BY DEF IInv, TypeOK, Request
  <2>2. req[q].rm.turn = 0 /\ room.agentB = Nil /\ ~erased /\ ~raced
    BY <1>4 DEF ConnectWrite, IInv, DbInv, Pairing, ReqInv, Connects
  <2>3. room' = [req[q].rm EXCEPT !.agentB = req[q].agent, !.state = "ACTIVE"]
        /\ erased' = erased /\ raced' = raced
    BY <1>4 DEF ConnectWrite, ConnectEffects
  <2>4. room'.agentB = req[q].agent /\ room'.state = "ACTIVE" /\ room'.turn = 0
    BY <2>1, <2>2, <2>3 DEF Room
  <2>5. QED
    BY <2>1, <2>2, <2>3, <2>4, NilFacts DEF RoomStep, RoomPaired
<1>5. ASSUME NEW q \in Requests, ReconcileClose(q) PROVE RoomStep
  <2>1. CASE room.state \in Ended
    BY <1>5, <2>1 DEF ReconcileClose, dbVars, RoomStep, RoomStays
  <2>2. CASE room.state \notin Ended
    <3>1. room.state \in Live
      <4>1. room.state # "NONE"
        BY <1>5 DEF ReconcileClose, IInv, ReqInv, TtlReads, Snapshots, PastRoom
      <4>2. QED
        BY <2>2, <4>1 DEF IInv, TypeOK, Room
    <3>2. QED
      BY <1>5, <2>2, <3>1, CloseIsRoomStep DEF ReconcileClose, CloseTx
  <2>3. QED
    BY <2>1, <2>2
<1>6. ASSUME NEW q \in Requests, ReconcilePurge(q) PROVE RoomStep
  <2>1. CASE UNCHANGED dbVars
    BY <2>1 DEF dbVars, RoomStep, RoomStays
  <2>2. CASE room.state = "CLOSED" /\ PurgeContent(req[q].rm, req[q].at)
    <3>1. /\ room' = [room EXCEPT !.state = "PURGED", !.purgedAt = req[q].at]
          /\ erased' = (erased \/ room.agentB # Nil) /\ raced' = raced
      BY <2>2 DEF PurgeContent
    <3>2. room'.state = "PURGED" /\ room'.agentB = room.agentB /\ room'.turn = room.turn
      BY <3>1 DEF IInv, TypeOK, Room
    <3>3. QED
      BY <2>2, <3>1, <3>2 DEF IInv, DbInv, Pairing, RoomStep, RoomUnpaired, RoomErased
  <2>3. QED
    BY <1>6, <2>1, <2>2 DEF ReconcilePurge
<1>7. ASSUME NEW q \in Requests, CloseRoom(q) PROVE RoomStep
  <2>1. CASE room.state = "CLOSED"
    BY <1>7, <2>1 DEF CloseRoom, dbVars, RoomStep, RoomStays
  <2>2. CASE room.state # "CLOSED"
    <3>1. room.state # "NONE" /\ room.state # "PURGED"
      BY <1>7 DEF CloseRoom, IInv, ReqInv, Snapshots, PastRoom
    <3>2. room.state \in Live
      BY <2>2, <3>1 DEF IInv, TypeOK, Room
    <3>3. PICK at \in req[q].at..now : CloseTx(at, req[q].agent)
      BY <1>7, <2>2 DEF CloseRoom
    <3>4. QED
      BY <3>2, <3>3, CloseIsRoomStep DEF CloseTx
  <2>3. QED
    BY <2>1, <2>2
<1>8. ASSUME NEW q \in Requests, SendMessage(q) \/ SendKeyless(q) PROVE RoomStep
  <2>1. ASSUME NEW base, NEW t, SendTx(q, base, t), SendGood(q, base, t) PROVE RoomStep
    BY <2>1, SendTxIsRoomStep
  <2>2. CASE SendMessage(q)
    BY <2>1, <2>2, SendMessageGood DEF SendMessage
  <2>3. CASE SendKeyless(q)
    BY <2>1, <2>3, SendKeylessGood DEF SendKeyless
  <2>4. QED
    BY <1>8, <2>2, <2>3
<1>9. ASSUME NEW q \in Requests,
             \/ \E a \in Agents : ConnectRead(q, a)
             \/ SyncLoad(q) \/ JoinRoom(q) \/ CipherRead(q) \/ TokenRevoke(q) \/ TokenCreate(q)
             \/ TouchRoomScopedToken(q) \/ ContextWrite(q)
             \/ \E i \in 1..MaxTokens : AuthRoomAccess(q, i)
      PROVE  RoomStays
  BY <1>9 DEF ConnectRead, SyncLoad, JoinRoom, CipherRead, TokenRevoke, TokenCreate,
              TouchRoomScopedToken,
              ContextWrite, AuthRoomAccess, dbVars, RoomStays
<1>10. ASSUME NEW q \in Requests,
              \/ Viewer(q) \/ Reply(q) \/ Abort(q)
              \/ \E op \in AllOps, a \in Agents, v \in Viewers \cup {Nil} : Begin(q, op, a, v)
       PROVE  RoomStays
  BY <1>10 DEF Viewer, ViewerJoin, ViewerWrite, ViewerRead, Reply, Abort, Begin, dbVars, RoomStays
<1>11. QED
  BY <1>1, <1>2, <1>3, <1>4, <1>5, <1>6, <1>7, <1>8, <1>9, <1>10
     DEF Next, Connect, Reconcile, Handle, RoomStep

\* A paired room that has ended stays ended, whatever stale snapshot
\* ConnectListing, SendMessage or a reconcile writes from; storing a message key over
\* a changed row is the one exception.
THEOREM NoRevival == Spec => NoRevivalOncePaired
<1>1. IInv /\ RoomStep
        => (~raced' /\ room.agentB # Nil /\ room.state \in Ended => room'.state \in Ended)
  BY DEF RoomStep, RoomStays, RoomUnpaired, RoomPaired, RoomTurned, RoomEnded, RoomErased,
         RoomDerailed
<1>2. IInv /\ [Next]_vars
        => [~raced' /\ room.agentB # Nil /\ room.state \in Ended => room'.state \in Ended]_vars
  BY <1>1, NextRoomStep
<1>3. QED
  BY <1>2, Invariance, PTL DEF Spec, NoRevivalOncePaired

\* UpdateRoom's whole-row writes lose no turn, that of a raced message key excepted,
\* and none of them loses the second agent.
THEOREM NoLostUpdate == Spec => NoLostRowUpdate
<1> DEFINE Kept == /\ ~erased' /\ ~raced' => room'.turn >= room.turn
                   /\ room.agentB # Nil => room'.agentB = room.agentB
<1>1. IInv /\ RoomStep => Kept
  <2> SUFFICES ASSUME IInv, RoomStep PROVE Kept
    OBVIOUS
  <2>1. room.turn \in Nat /\ (room.agentB = Nil => room.turn = 0)
    BY NilFacts DEF IInv, TypeOK, Room, DbInv, Pairing
  <2>2. QED
    BY <2>1 DEF RoomStep, RoomStays, RoomUnpaired, RoomPaired, RoomTurned, RoomEnded, RoomErased,
                RoomDerailed
<1>2. IInv /\ [Next]_vars => [Kept]_vars
  BY <1>1, NextRoomStep
<1>3. QED
  BY <1>2, Invariance, PTL DEF Spec, NoLostRowUpdate

\* The room service implements the abstract conversation of module Conversation:
\* every handler step is one of Pair, Speak, End, Erase or changes nothing the
\* agents' conversation consists of; Derail, which gives the promises up, is a step
\* only of ensureRoomMessageCipher's, and only where rooms without a key may exist.
THEOREM ImplementsConversation == Spec => ConversationSpec
<1>1. Init => Abstract!Init
  BY DEF Init, NewRoom, Abstract!Init, phaseBar, turnBar
<1>2. IInv /\ RoomStep => [Abstract!Next]_<<phaseBar, turnBar>>
  <2> SUFFICES ASSUME IInv, RoomStep PROVE [Abstract!Next]_<<phaseBar, turnBar>>
    OBVIOUS
  <2>1. /\ room.turn \in 0..MaxTurns /\ erased \in BOOLEAN /\ raced \in BOOLEAN
        /\ room.state \in RoomStates
        /\ room.agentB = Nil => room.turn = 0 /\ ~erased /\ ~raced
        /\ room.state = "ACTIVE" => (erased => raced) /\ room.turn < MaxTurns
        /\ room.agentB # Nil => room.state \in {"ACTIVE", "CLOSED", "PURGED"}
    BY DEF IInv, TypeOK, Room, DbInv, Pairing, Progress, OpenHasNoPeer
  <2>2. CASE RoomStays
    BY <2>2 DEF RoomStays, phaseBar, turnBar
  <2>3. CASE RoomUnpaired
    BY <2>1, <2>3 DEF RoomUnpaired, phaseBar, turnBar
  <2>4. CASE RoomPaired
    BY <2>1, <2>4 DEF RoomPaired, phaseBar, turnBar, Abstract!Next, Abstract!Pair
  <2>5. CASE RoomTurned
    BY <2>1, <2>5 DEF RoomTurned, phaseBar, turnBar, Abstract!Next, Abstract!Speak
  <2>6. CASE RoomEnded
    BY <2>1, <2>6 DEF RoomEnded, phaseBar, turnBar, Abstract!Next, Abstract!End
  <2>7. CASE RoomErased
    BY <2>1, <2>7 DEF RoomErased, phaseBar, turnBar, Abstract!Next, Abstract!Erase
  <2>8. CASE RoomDerailed
    BY <2>1, <2>8 DEF RoomDerailed, phaseBar, turnBar, Abstract!Next, Abstract!Derail
  <2>9. QED
    BY <2>2, <2>3, <2>4, <2>5, <2>6, <2>7, <2>8 DEF RoomStep
<1>3. IInv /\ [Next]_vars => [Abstract!Next]_<<phaseBar, turnBar>>
  BY <1>2, NextRoomStep
<1>4. QED
  BY <1>1, <1>3, Invariance, PTL DEF Spec, ConversationSpec, Abstract!Spec


-----------------------------------------------------------------------------
(* The context row *)

\* A conversation that is still there has only grown.
LEMMA RoomStepGrows ==
    ASSUME IInv, RoomStep, ~erased', ~raced'
    PROVE  ~erased /\ ~raced /\ room.turn <= room'.turn
<1>1. room.turn \in Nat /\ (room.agentB = Nil => room.turn = 0 /\ ~erased /\ ~raced)
  BY NilFacts DEF IInv, TypeOK, Room, DbInv, Pairing
<1>2. QED
  BY <1>1 DEF RoomStep, RoomStays, RoomUnpaired, RoomPaired, RoomTurned, RoomEnded, RoomErased,
              RoomDerailed

\* Only updateRoomContext and the purge write the context row.
LEMMA ContextWriters ==
    ASSUME [Next]_vars
    PROVE  context' = context \/ context' = Nil \/ \E q \in Requests : ContextWrite(q)
<1>1. CASE Tick \/ Restart \/ UNCHANGED vars
  BY <1>1 DEF Tick, Restart, vars, dbVars
<1>2. ASSUME NEW q \in Requests, CreateListing(q) \/ Connect(q) PROVE context' = context
  BY <1>2 DEF CreateListing, Connect, ConnectLegacyListing, ConnectRead, ConnectWrite,
              ConnectEffects, dbVars
<1>3. ASSUME NEW q \in Requests, Reconcile(q) PROVE context' = context \/ context' = Nil
  BY <1>3 DEF Reconcile, SyncLoad, ReconcileClose, CloseTx, ReconcilePurge, PurgeContent, dbVars
<1>4. ASSUME NEW q \in Requests, Handle(q), ~ContextWrite(q) PROVE context' = context
  BY <1>4 DEF Handle, JoinRoom, SendMessage, SendKeyless, SendTx, CipherRead, CloseRoom, CloseTx, TokenRevoke, TokenCreate,
              TouchRoomScopedToken, AuthRoomAccess, dbVars
<1>5. ASSUME NEW q \in Requests,
             \/ Viewer(q) \/ Reply(q) \/ Abort(q)
             \/ \E op \in AllOps, a \in Agents, v \in Viewers \cup {Nil} : Begin(q, op, a, v)
      PROVE  context' = context
  BY <1>5 DEF Viewer, ViewerJoin, ViewerWrite, ViewerRead, Reply, Abort, Begin, dbVars
<1>6. QED
  BY <1>1, <1>2, <1>3, <1>4, <1>5 DEF Next

\* A step keeps the context behind the room: it is written from a snapshot, and a
\* snapshot is never ahead.
LEMMA ContextStep == IInv /\ ContextNeverAhead /\ [Next]_vars => ContextNeverAhead'
<1> SUFFICES ASSUME IInv, ContextNeverAhead, [Next]_vars, context' # Nil, ~erased',
                    ~raced'
             PROVE  context'.turn <= room'.turn
  BY DEF ContextNeverAhead
<1>1. IInv' /\ ~erased /\ ~raced /\ room.turn <= room'.turn
  BY NextIInv, NextRoomStep, RoomStepGrows
<1>2. room.turn \in Nat /\ room'.turn \in Nat
  BY <1>1, NilFacts DEF IInv, TypeOK, Room
<1>3. CASE context' = context
  <2>1. context.turn <= room.turn /\ context.turn \in Nat
    BY <1>1, <1>3, NilFacts DEF ContextNeverAhead, IInv, TypeOK, ContextRow
  <2>2. QED
    BY <1>1, <1>2, <1>3, <2>1
<1>4. ASSUME NEW q \in Requests, ContextWrite(q) PROVE context'.turn <= room'.turn
  <2>1. PastRoom(req[q].rm) /\ context'.turn = req[q].rm.turn /\ room' = room
    BY <1>4 DEF IInv, ReqInv, Snapshots, ContextWrite
  <2>2. QED
    BY <1>1, <2>1 DEF PastRoom
<1>5. QED
  BY <1>3, <1>4, ContextWriters

\* The context row, written after the commit from a row read before, never runs ahead
\* of the conversation it describes, however many writers overlap, until a message
\* key is stored over a changed row.
THEOREM ContextBehind == Spec => []ContextNeverAhead
<1>1. Init => ContextNeverAhead
  BY DEF Init, ContextNeverAhead
<1>2. QED
  BY <1>1, ContextStep, Invariance, PTL DEF Spec

-----------------------------------------------------------------------------
(* Room-scoped tokens *)

\* What a step does to the token rows: nothing, a revocation of some, a refresh, or
\* a revocation and a new token.
LEMMA TokenWriters ==
    ASSUME [Next]_vars
    PROVE  \/ tokens' = tokens
           \/ \E ids : tokens' = RevokeRoomScopedTokens(ids)
           \/ \E q \in Requests : TouchRoomScopedToken(q) \/ TokenCreate(q)
<1>1. CASE Tick \/ Restart \/ UNCHANGED vars
  BY <1>1 DEF Tick, Restart, vars, dbVars
<1>2. ASSUME NEW q \in Requests, CreateListing(q) \/ Connect(q) PROVE tokens' = tokens
  BY <1>2 DEF CreateListing, Connect, ConnectLegacyListing, ConnectRead, ConnectWrite,
              ConnectEffects, dbVars
<1>3. ASSUME NEW q \in Requests, Reconcile(q)
      PROVE  tokens' = tokens \/ \E ids : tokens' = RevokeRoomScopedTokens(ids)
  BY <1>3 DEF Reconcile, SyncLoad, ReconcileClose, CloseTx, ReconcilePurge, PurgeContent, dbVars,
              revokeRoomScopedTokensForRoom
<1>4. ASSUME NEW q \in Requests, SendMessage(q) \/ SendKeyless(q) \/ CloseRoom(q)
      PROVE  tokens' = tokens \/ \E ids : tokens' = RevokeRoomScopedTokens(ids)
  BY <1>4 DEF SendMessage, SendKeyless, SendTx, CloseRoom, CloseTx, dbVars,
              revokeRoomScopedTokensForRoom
<1>5. ASSUME NEW q \in Requests,
             \/ JoinRoom(q) \/ CipherRead(q) \/ TokenRevoke(q) \/ ContextWrite(q)
             \/ \E i \in 1..MaxTokens : AuthRoomAccess(q, i)
      PROVE  tokens' = tokens
  BY <1>5 DEF JoinRoom, CipherRead, TokenRevoke, ContextWrite, AuthRoomAccess, dbVars
<1>6. ASSUME NEW q \in Requests,
             \/ Viewer(q) \/ Reply(q) \/ Abort(q)
             \/ \E op \in AllOps, a \in Agents, v \in Viewers \cup {Nil} : Begin(q, op, a, v)
      PROVE  tokens' = tokens
  BY <1>6 DEF Viewer, ViewerJoin, ViewerWrite, ViewerRead, Reply, Abort, Begin, dbVars
<1>7. QED
  BY <1>1, <1>2, <1>3, <1>4, <1>5, <1>6 DEF Next, Handle

\* A revocation leaves a revoked row as it is.
LEMMA RevokeKeeps ==
    ASSUME tokens \in Seq(Token), NEW ids, NEW i \in DOMAIN tokens, tokens[i].revoked
    PROVE  RevokeRoomScopedTokens(ids)[i] = tokens[i]
<1>1. tokens[i] \in Token /\ tokens[i].revoked = TRUE
  <2>1. tokens[i] \in Token
    OBVIOUS
  <2>2. tokens[i].revoked \in BOOLEAN
    BY <2>1 DEF Token
  <2>3. QED
    BY <2>1, <2>2
<1>2. [tokens[i] EXCEPT !.revoked = TRUE] = tokens[i]
  BY <1>1 DEF Token
<1>3. QED
  BY <1>2 DEF RevokeRoomScopedTokens

\* A token revoked stays as it was revoked: neither TouchRoomScopedToken, which may have
\* read it before, nor a second revocation or an issue writes its row again.
THEOREM RevokedForGood == Spec => RevokedStaysRevoked
<1> DEFINE Dead == \A i \in DOMAIN tokens : tokens[i].revoked => tokens'[i] = tokens[i]
<1>1. IInv /\ [Next]_vars => Dead
  <2> SUFFICES ASSUME IInv, [Next]_vars, NEW i \in DOMAIN tokens, tokens[i].revoked
               PROVE  tokens'[i] = tokens[i]
    OBVIOUS
  <2>1. tokens \in Seq(Token) /\ Len(tokens) \in Nat /\ i \in 1..Len(tokens)
    BY DEF IInv, TypeOK
  <2>2. \A ids : RevokeRoomScopedTokens(ids)[i] = tokens[i]
    BY <2>1, RevokeKeeps
  <2>3. ASSUME NEW q \in Requests, TouchRoomScopedToken(q) PROVE tokens'[i] = tokens[i]
    BY <2>3 DEF TouchRoomScopedToken
  <2>4. ASSUME NEW q \in Requests, TokenCreate(q) PROVE tokens'[i] = tokens[i]
    <3> DEFINE s == RevokeRoomScopedTokens(req[q].held)
               t == [agent |-> req[q].agent, exp |-> req[q].at + TokenTTL, revoked |-> FALSE]
    <3>1. t \in Token
      BY BoundAssumption DEF IInv, TypeOK, Request, Token
    <3>2. s \in Seq(Token) /\ DOMAIN s = DOMAIN tokens /\ s[i] = tokens[i]
      BY <2>1, <2>2, RevokeType DEF RevokeRoomScopedTokens
    <3>3. tokens' = Append(s, t)
      BY <2>4 DEF TokenCreate
    <3> HIDE DEF s, t
    <3>4. DOMAIN s = 1..Len(s) /\ DOMAIN tokens = 1..Len(tokens)
      BY <2>1, <3>2, LenProperties
    <3>5. Append(s, t)[i] = s[i]
      BY <3>1, <3>2, <3>4, AppendProperties
    <3>6. QED
      BY <3>2, <3>3, <3>5
  <2>5. QED
    BY <2>2, <2>3, <2>4, TokenWriters
<1> HIDE DEF Dead
<1>2. IInv /\ [Next]_vars => [Dead]_vars
  BY <1>1
<1>3. QED
  BY <1>2, Invariance, PTL DEF Spec, RevokedStaysRevoked, Dead

-----------------------------------------------------------------------------
(* The event log and the webhook outbox *)

\* AppendRoomEvent keeps the rows there are and adds the new ones behind them.
LEMMA EmitPlaces ==
    ASSUME TypeOK, NEW rm, NEW evs \in Seq(Event), NEW dels, Emit(rm, evs, dels)
    PROVE  /\ Len(events) \in Nat /\ DOMAIN events = 1..Len(events)
           /\ Len(evs) \in Nat /\ DOMAIN evs = 1..Len(evs)
           /\ DOMAIN events' = 1..(Len(events) + Len(evs))
           /\ \A i \in DOMAIN events : i \in DOMAIN events' /\ events'[i] = events[i]
           /\ \A i \in DOMAIN evs :
                 Len(events) + i \in DOMAIN events' /\ events'[Len(events) + i] = evs[i]
           /\ \A j \in DOMAIN events' :
                 j \in DOMAIN events \/ \E i \in DOMAIN evs : j = Len(events) + i
<1>1. events \in Seq(Event) /\ events' = events \o evs
  BY DEF TypeOK, Emit
<1>2. /\ Len(events) \in Nat /\ DOMAIN events = 1..Len(events)
      /\ Len(evs) \in Nat /\ DOMAIN evs = 1..Len(evs)
  BY <1>1, LenProperties
<1>3. DOMAIN events' = 1..(Len(events) + Len(evs))
  BY <1>1, <1>2, ConcatProperties, LenProperties
<1>4. \A i \in DOMAIN events : i \in DOMAIN events' /\ events'[i] = events[i]
  BY <1>1, <1>2, <1>3, ConcatProperties
<1>5. \A i \in DOMAIN evs :
         Len(events) + i \in DOMAIN events' /\ events'[Len(events) + i] = evs[i]
  BY <1>1, <1>2, <1>3
<1>6. ASSUME NEW j \in DOMAIN events', j \notin DOMAIN events
      PROVE  \E i \in DOMAIN evs : j = Len(events) + i
  <2>1. j - Len(events) \in DOMAIN evs /\ j = Len(events) + (j - Len(events))
    BY <1>2, <1>3, <1>6
  <2>2. QED
    BY <2>1
<1>7. QED
  BY <1>2, <1>3, <1>4, <1>5, <1>6

\* A transaction that appends events beside the room row it writes keeps outbox and
\* event log in step, unless it changes who takes part once someone has spoken.
LEMMA EmitOutbox ==
    ASSUME TypeOK, OutboxFollowsEvents, NEW rm, NEW evs \in Seq(Event), NEW dels,
           Emit(rm, evs, dels), room' = rm,
           Participants(rm) = Participants(room) \/ MessageEvents = {}
    PROVE  OutboxFollowsEvents'
<1> DEFINE logged == {events[i] : i \in DOMAIN events}
<1>1. logged \subseteq logged' /\ \A i \in DOMAIN evs : evs[i] \in logged'
  BY EmitPlaces
<1>2. ASSUME NEW w \in outbox' PROVE w.event \in logged'
  <2>1. CASE w \in outbox
    BY <1>1, <2>1 DEF OutboxFollowsEvents
  <2>2. CASE w \notin outbox
    <3>1. PICK i \in DOMAIN evs : w \in enqueueWebhookOutboxForEvent(rm, evs[i])
      BY <2>2 DEF Emit
    <3>2. w.event = evs[i]
      BY <3>1 DEF enqueueWebhookOutboxForEvent
    <3>3. QED
      BY <1>1, <3>2
  <2>3. QED
    BY <2>1, <2>2
<1>3. ASSUME NEW e \in logged', e.type = "message.created",
             NEW a \in (Participants(rm) \ {e.by}) \cap Subscribed
      PROVE  [event |-> e, target |-> a] \in outbox'
  <2>1. PICK j \in DOMAIN events' : e = events'[j]
    OBVIOUS
  <2>2. CASE j \in DOMAIN events
    <3>1. e = events[j] /\ j \in MessageEvents
      BY <1>3, <2>1, <2>2, EmitPlaces DEF MessageEvents
    <3>2. a \in (Participants(room) \ {e.by}) \cap Subscribed
      BY <1>3, <3>1
    <3>3. [event |-> e, target |-> a] \in outbox
      BY <1>3, <2>2, <3>1, <3>2 DEF OutboxFollowsEvents
    <3>4. QED
      BY <3>3 DEF Emit
  <2>3. CASE j \notin DOMAIN events
    <3>1. PICK i \in DOMAIN evs : e = evs[i]
      BY <2>1, <2>3, EmitPlaces
    <3>2. [event |-> e, target |-> a] \in enqueueWebhookOutboxForEvent(rm, evs[i])
      BY <1>3, <3>1 DEF enqueueWebhookOutboxForEvent, supportsWebhookOutbox
    <3>3. QED
      BY <3>2 DEF Emit
  <2>4. QED
    BY <2>2, <2>3
<1>4. QED
  BY <1>2, <1>3 DEF OutboxFollowsEvents

\* Events of another type leave the replay of the conversation as it is, when they come
\* with no new turn and, once someone has spoken, with the same two agents.
LEMMA EmitQuiet ==
    ASSUME TypeOK, EventLogReplaysTurns, NEW rm, NEW evs \in Seq(Event), NEW dels,
           Emit(rm, evs, dels), erased' = erased, raced' = raced, room'.turn = room.turn,
           \A i \in DOMAIN evs : evs[i].type # "message.created",
           room'.agentB = room.agentB \/ MessageEvents = {}
    PROVE  EventLogReplaysTurns'
<1>1. MessageEvents' = MessageEvents
  <2>1. \A i \in DOMAIN events : i \in DOMAIN events' /\ events'[i] = events[i]
    BY EmitPlaces
  <2>2. ASSUME NEW j \in DOMAIN events', j \notin DOMAIN events
        PROVE  events'[j].type # "message.created"
    <3>1. PICK i \in DOMAIN evs : j = Len(events) + i
      BY <2>2, EmitPlaces
    <3>2. events'[j] = evs[i]
      BY <3>1, EmitPlaces
    <3>3. QED
      BY <3>2
  <2>3. QED
    BY <2>1, <2>2 DEF MessageEvents
<1>2. \A i \in MessageEvents : events'[i] = events[i]
  BY EmitPlaces DEF MessageEvents
<1>3. \A i \in MessageEvents : \A n : Speaker(room', n) = Speaker(room, n)
  BY DEF Speaker
<1>4. {events'[i].turn : i \in MessageEvents'} = {events[i].turn : i \in MessageEvents}
  BY <1>1, <1>2
<1>5. QED
  BY <1>1, <1>2, <1>3, <1>4 DEF EventLogReplaysTurns

\* Before the agents are paired nobody has spoken, and the log says so.
LEMMA UnpairedLog ==
    ASSUME IInv, EventLogReplaysTurns, room.agentB = Nil
    PROVE  MessageEvents = {}
<1>1. room.turn = 0 /\ ~erased /\ ~raced
  BY DEF IInv, DbInv, Pairing
<1>2. {events[i].turn : i \in MessageEvents} = 0..(0 - 1)
  BY <1>1 DEF EventLogReplaysTurns
<1>3. 0..(0 - 1) = {}
  OBVIOUS
<1>4. QED
  BY <1>2, <1>3

\* The two properties together: they are kept by the same case analysis.
LogInv == EventLogReplaysTurns /\ OutboxFollowsEvents

\* Pairing the agents keeps log and outbox in step: nobody has spoken yet.
LEMMA ConnectLog ==
    ASSUME IInv, LogInv, NEW q, NEW a \in Agents, NEW rm, rm.turn = 0,
           room.agentB = Nil, ConnectEffects(q, rm, a)
    PROVE  LogInv'
<1> DEFINE evs == <<Ev("room.joined", a), Ev("room.state_changed", a)>>
<1>1. evs \in Seq(Event)
  BY NilFacts, EventTypesOK DEF EventTypes
<1>2. \A i \in DOMAIN evs : evs[i].type # "message.created"
  BY DEF Ev
<1>3. MessageEvents = {} /\ room.turn = 0
  BY UnpairedLog DEF LogInv, IInv, DbInv, Pairing
<1>4. room' = rm /\ erased' = erased /\ raced' = raced /\ Emit(rm, evs, enqueueAgentStreamTurnReady(rm))
  BY DEF ConnectEffects
<1> HIDE DEF evs
<1>5. QED
  BY <1>1, <1>2, <1>3, <1>4, EmitOutbox, EmitQuiet DEF LogInv, IInv

\* So does the row CreateListing inserts.
LEMMA CreateLog ==
    ASSUME IInv, LogInv, NEW q, CreateListing(q)
    PROVE  LogInv'
<1> DEFINE evs == CreatedEvents
<1>1. evs \in Seq(Event)
  BY CreatedType
<1>2. \A i \in DOMAIN evs : evs[i].type # "message.created"
  BY DEF CreatedEvents, Ev
<1>3. room.agentB = Nil
  BY DEF CreateListing, IInv, DbInv, Pairing
<1>4. MessageEvents = {} /\ room.turn = 0
  BY <1>3, UnpairedLog DEF LogInv, IInv, DbInv, Pairing
<1>5. room'.turn = 0 /\ erased' = erased /\ raced' = raced /\ Emit(room', evs, {})
  BY DEF CreateListing, NewRoom
<1> HIDE DEF evs
<1>6. OutboxFollowsEvents'
  BY <1>1, <1>4, <1>5, EmitOutbox DEF LogInv, IInv
<1>7. EventLogReplaysTurns'
  BY <1>1, <1>2, <1>4, <1>5, EmitQuiet DEF LogInv, IInv
<1>8. QED
  BY <1>6, <1>7 DEF LogInv

\* A close by a participant or by the TTL adds no message and changes no participant.
LEMMA CloseLog ==
    ASSUME IInv, LogInv, NEW at, NEW by \in Agents \cup {Nil}, CloseTx(at, by)
    PROVE  LogInv'
<1>1. CloseEvents(by) \in Seq(Event)
  BY EventTypesOK
<1>2. \A i \in DOMAIN CloseEvents(by) : CloseEvents(by)[i].type # "message.created"
  BY DEF CloseEvents, Ev
<1>3. room'.agentB = room.agentB /\ room'.turn = room.turn /\ erased' = erased /\ raced' = raced
  BY DEF CloseTx, IInv, TypeOK, Room
<1>4. Participants(room') = Participants(room)
  BY <1>3 DEF Participants
<1>5. Emit(room', CloseEvents(by), enqueueAgentStreamTerminal(room', "room.closed"))
  BY DEF CloseTx
<1>6. OutboxFollowsEvents'
  BY <1>1, <1>4, <1>5, EmitOutbox DEF LogInv, IInv
<1>7. EventLogReplaysTurns'
  BY <1>1, <1>2, <1>3, <1>5, EmitQuiet DEF LogInv, IInv
<1>8. QED
  BY <1>6, <1>7 DEF LogInv

\* A purge deletes events and outbox together; what it adds names no turn.
LEMMA PurgeLog ==
    ASSUME IInv, NEW rm, NEW at, PurgeContent(rm, at)
    PROVE  LogInv'
<1> DEFINE ev == Ev("room.purged", Nil)
           purged == [room EXCEPT !.state = "PURGED", !.purgedAt = at]
<1>1. events' = <<Ev("room.state_changed", Nil), ev>>
      /\ outbox' = enqueueWebhookOutboxForEvent(purged, ev)
      /\ erased' = (erased \/ room.agentB # Nil) /\ room' = purged
  BY DEF PurgeContent
<1>2. \A i \in DOMAIN events' : events'[i].type # "message.created"
  BY <1>1 DEF Ev
<1>3. 2 \in DOMAIN events' /\ events'[2] = ev
  BY <1>1
<1>4. OutboxFollowsEvents'
  <2>1. \A w \in outbox' : w.event = ev
    BY <1>1 DEF enqueueWebhookOutboxForEvent
  <2>2. QED
    BY <1>2, <1>3, <2>1 DEF OutboxFollowsEvents
<1>5. EventLogReplaysTurns'
  <2>1. SUFFICES ASSUME ~erased' PROVE EventLogReplaysTurns'
    BY DEF EventLogReplaysTurns
  <2>2. room.turn = 0
    BY <1>1, <2>1 DEF IInv, DbInv, Pairing
  <2>3. room'.turn = 0
    BY <1>1, <2>2 DEF IInv, TypeOK, Room
  <2>4. MessageEvents' = {}
    BY <1>2 DEF MessageEvents
  <2>5. 0..(room'.turn - 1) = {}
    BY <2>3
  <2>6. QED
    BY <2>4, <2>5 DEF EventLogReplaysTurns
<1>6. QED
  BY <1>4, <1>5 DEF LogInv

\* What stands behind the first of several events.
LEMMA Prepended ==
    ASSUME NEW e \in Event, NEW c \in Seq(Event), Len(c) = 2
    PROVE  (<<e>> \o c)[2] = c[1] /\ (<<e>> \o c)[3] = c[2]
<1>0. <<e>> \in Seq(Event) /\ Len(<<e>>) = 1
  OBVIOUS
<1> PICK one \in Seq(Event) : one = <<e>> /\ Len(one) = 1
  BY <1>0, Zenon
<1>1. \A i \in 1..(Len(one) + Len(c)) :
         (one \o c)[i] = IF i <= Len(one) THEN one[i] ELSE c[i - Len(one)]
  BY ConcatProperties
<1>2. \A i \in 1..(1 + 2) : (one \o c)[i] = IF i <= 1 THEN one[i] ELSE c[i - 1]
  BY <1>1, Zenon
<1>3. 2 \in 1..(1 + 2) /\ ~(2 <= 1) /\ 2 - 1 = 1 /\ 3 \in 1..(1 + 2) /\ ~(3 <= 1) /\ 3 - 1 = 2
  OBVIOUS
<1>4. QED
  BY <1>2, <1>3, Zenon

\* SendMessage appends the event of its message, with the outbox row of the other
\* agent; but for a raced key it is that of the room's current turn, by its speaker,
\* behind those of the earlier turns.
LEMMA SendLog ==
    ASSUME IInv, LogInv, NEW q \in Requests, NEW base, NEW t, SendTx(q, base, t),
           SendGood(q, base, t)
    PROVE  LogInv'
<1> DEFINE a == req[q].agent
           last == req[q].rm.turn + 1 >= MaxTurns
<1>1. t \in Nat /\ a \in Agents /\ base \in Room /\ base.agentB = room.agentB
  BY DEF SendGood, IInv, TypeOK, Request
<1>2. /\ room' = SentRow(q, base) /\ erased' = erased
      /\ room'.agentB = room.agentB /\ room'.turn = req[q].rm.turn + 1
  BY <1>1 DEF SendTx, SentRow, Room
<1>3. PICK evs \in Seq(Event) :
         /\ \E dels : Emit(room', evs, dels)
         /\ 1 \in DOMAIN evs /\ evs[1] = MessageEv(t, a)
         /\ \A i \in DOMAIN evs : i # 1 => evs[i].type # "message.created"
  <2>1. MessageEv(t, a) \in Event /\ CloseEvents(a) \in Seq(Event)
    BY <1>1, EventTypesOK
  <2>2. CASE last
    <3>1. Emit(room', <<MessageEv(t, a)>> \o CloseEvents(a),
               enqueueAgentStreamTerminal(SentRow(q, base), "room.closed"))
      BY <1>2, <2>2 DEF SendTx
    <3> DEFINE one == <<MessageEv(t, a)>>
               all == one \o CloseEvents(a)
    <3>2. one \in Seq(Event) /\ Len(one) = 1 /\ one[1] = MessageEv(t, a)
      BY <2>1
    <3>3. /\ Len(CloseEvents(a)) = 2
          /\ \A i \in 1..2 : CloseEvents(a)[i].type # "message.created"
      BY DEF CloseEvents, Ev
    <3> HIDE DEF one
    <3>4. all \in Seq(Event) /\ Len(all) = 3
      BY <2>1, <3>2, <3>3, ConcatProperties
    <3>5. DOMAIN all = 1..3
      BY <3>4, LenProperties
    <3>6. all[1] = MessageEv(t, a)
      BY <2>1, <3>2, <3>3, ConcatProperties
    <3>7. all[2] = CloseEvents(a)[1] /\ all[3] = CloseEvents(a)[2]
      BY <2>1, <3>2, <3>3, Prepended DEF one
    <3>8. \A i \in DOMAIN all : i # 1 => all[i].type # "message.created"
      <4>1. all[2].type # "message.created" /\ all[3].type # "message.created"
        BY <3>3, <3>7
      <4>2. \A i \in 1..3 : i = 1 \/ i = 2 \/ i = 3
        OBVIOUS
      <4>3. QED
        BY <3>5, <4>1, <4>2
    <3>9. Emit(room', all, enqueueAgentStreamTerminal(SentRow(q, base), "room.closed"))
      BY <3>1 DEF one
    <3>10. 1 \in DOMAIN all
      BY <3>5
    <3> HIDE DEF all
    <3>11. QED
      BY <3>4, <3>6, <3>8, <3>9, <3>10
  <2>3. CASE ~last
    <3>1. Emit(room', <<MessageEv(t, a)>>, enqueueAgentStreamTurnReady(SentRow(q, base)))
      BY <1>2, <2>3 DEF SendTx
    <3> DEFINE one == <<MessageEv(t, a)>>
    <3>2. one \in Seq(Event) /\ DOMAIN one = {1} /\ one[1] = MessageEv(t, a)
      BY <2>1
    <3> HIDE DEF one
    <3>3. QED
      BY <3>1, <3>2 DEF one
  <2>4. QED
    BY <2>2, <2>3
<1>4. PICK dels : Emit(room', evs, dels)
  BY <1>3
<1>5. OutboxFollowsEvents'
  <2>1. Participants(room') = Participants(room)
    BY <1>2 DEF Participants
  <2>2. QED
    BY <1>4, <2>1, EmitOutbox DEF LogInv, IInv
<1>6. ASSUME ~erased', ~raced' PROVE EventLogReplaysTurns'
  <2> PICK n : n = Len(events) + 1
    OBVIOUS
  <2>1. t = room.turn /\ a = Speaker(room, t) /\ t = req[q].rm.turn /\ ~raced
    BY <1>2, <1>6 DEF SendGood
  <2>2. /\ n \in DOMAIN events' /\ events'[n] = MessageEv(t, a)
        /\ \A i \in MessageEvents : i \in DOMAIN events' /\ i \in Nat /\ i < n
                                    /\ events'[i] = events[i]
    <3>1. /\ n \in DOMAIN events' /\ events'[n] = evs[1] /\ Len(events) \in Nat
          /\ DOMAIN events = 1..Len(events)
          /\ \A i \in DOMAIN events : i \in DOMAIN events' /\ events'[i] = events[i]
      BY <1>3, <1>4, EmitPlaces DEF IInv
    <3>2. \A i \in DOMAIN events : i \in Nat /\ i < n
      BY <3>1
    <3>3. QED
      BY <1>3, <3>1, <3>2 DEF MessageEvents
  <2>3. MessageEvents' = MessageEvents \cup {n}
    <3>1. \A j \in DOMAIN events' : j \in DOMAIN events
                                    \/ j = n \/ events'[j].type # "message.created"
      BY <1>3, <1>4, EmitPlaces DEF IInv
    <3>2. \A j \in DOMAIN events : events'[j] = events[j]
      BY <1>4, EmitPlaces DEF IInv
    <3>3. MessageEv(t, a).type = "message.created"
      BY DEF MessageEv
    <3>4. QED
      BY <2>2, <3>1, <3>2, <3>3 DEF MessageEvents
  <2>4. /\ {events[i].turn : i \in MessageEvents} = 0..(t - 1)
        /\ \A i, j \in MessageEvents : i < j => events[i].turn < events[j].turn
        /\ \A i \in MessageEvents : events[i].by = Speaker(room, events[i].turn)
    BY <1>2, <1>6, <2>1 DEF LogInv, EventLogReplaysTurns
  <2>5. events'[n].turn = t /\ events'[n].by = a /\ n \in Nat
    BY <2>2, <1>4, EmitPlaces DEF MessageEv, IInv
  <2>6. {events'[i].turn : i \in MessageEvents'} = 0..(room'.turn - 1)
    <3>1. {events'[i].turn : i \in MessageEvents'}
            = {events[i].turn : i \in MessageEvents} \cup {t}
      BY <2>2, <2>3, <2>5
    <3>2. 0..(t + 1 - 1) = 0..(t - 1) \cup {t}
      BY <1>1
    <3>3. room'.turn = t + 1
      BY <1>2, <2>1
    <3>4. 0..(room'.turn - 1) = 0..(t + 1 - 1)
      BY <1>1, <3>3
    <3>5. QED
      BY <2>4, <3>1, <3>2, <3>4
  <2>7. ASSUME NEW i \in MessageEvents', NEW j \in MessageEvents', i < j
        PROVE  events'[i].turn < events'[j].turn
    <3>1. i \in MessageEvents
      BY <2>2, <2>3, <2>5, <2>7
    <3>2. events[i].turn \in 0..(t - 1)
      BY <2>4, <3>1
    <3>3. CASE j = n
      BY <1>1, <2>2, <2>5, <3>1, <3>2, <3>3
    <3>4. CASE j \in MessageEvents
      BY <2>2, <2>4, <2>7, <3>1, <3>4
    <3>5. QED
      BY <2>3, <3>3, <3>4
  <2>8. \A i \in MessageEvents' : events'[i].by = Speaker(room', events'[i].turn)
    <3>1. \A m : Speaker(room', m) = Speaker(room, m)
      BY <1>2 DEF Speaker
    <3>2. QED
      BY <2>1, <2>2, <2>3, <2>4, <2>5, <3>1
  <2>9. QED
    BY <2>6, <2>7, <2>8 DEF EventLogReplaysTurns
<1>7. EventLogReplaysTurns'
  BY <1>6 DEF EventLogReplaysTurns
<1>8. QED
  BY <1>5, <1>7 DEF LogInv

\* A step that writes neither table, nor the room row, leaves them as they agree.
LEMMA LogFrame ==
    ASSUME LogInv, UNCHANGED <<events, outbox, room, erased, raced>>
    PROVE  LogInv'
BY DEF LogInv, EventLogReplaysTurns, OutboxFollowsEvents, MessageEvents, Speaker, Participants

\* Every step of the service keeps log and outbox in step with the conversation.
LEMMA LogStep == IInv /\ LogInv /\ [Next]_vars => LogInv'
<1> SUFFICES ASSUME IInv, LogInv, [Next]_vars PROVE LogInv'
  OBVIOUS
<1> DEFINE Frame == UNCHANGED <<events, outbox, room, erased, raced>>
<1>1. CASE Tick \/ Restart \/ UNCHANGED vars
  <2>1. Frame
    BY <1>1 DEF Tick, Restart, vars, dbVars
  <2>2. QED
    BY <2>1, LogFrame
<1>2. ASSUME NEW q \in Requests, CreateListing(q) PROVE LogInv'
  BY <1>2, CreateLog
<1>3. ASSUME NEW q \in Requests, NEW a \in Agents, ConnectLegacyListing(q, a) PROVE LogInv'
  <2>1. room.agentB = Nil /\ NewRoom("ACTIVE", a).turn = 0
    BY <1>3 DEF ConnectLegacyListing, IInv, DbInv, Pairing, NewRoom
  <2>2. QED
    BY <1>3, <2>1, ConnectLog DEF ConnectLegacyListing
<1>4. ASSUME NEW q \in Requests, ConnectWrite(q) PROVE LogInv'
  <2> DEFINE rm == [req[q].rm EXCEPT !.agentB = req[q].agent, !.state = "ACTIVE"]
  <2>1. req[q].rm \in Room /\ req[q].agent \in Agents
    BY DEF IInv, TypeOK, Request
  <2>2. req[q].rm.turn = 0 /\ room.agentB = Nil
    BY <1>4 DEF ConnectWrite, IInv, DbInv, Pairing, ReqInv, Connects
  <2>3. rm.turn = 0 /\ ConnectEffects(q, rm, req[q].agent)
    BY <1>4, <2>1, <2>2 DEF ConnectWrite, Room
  <2> HIDE DEF rm
  <2>4. QED
    BY <2>1, <2>2, <2>3, ConnectLog
<1>5. ASSUME NEW q \in Requests, ReconcileClose(q) PROVE LogInv'
  <2>1. CASE UNCHANGED dbVars
    BY <2>1, LogFrame DEF dbVars
  <2>2. CASE CloseTx(req[q].at, Nil)
    BY <2>2, CloseLog
  <2>3. QED
    BY <1>5, <2>1, <2>2 DEF ReconcileClose
<1>6. ASSUME NEW q \in Requests, ReconcilePurge(q) PROVE LogInv'
  <2>1. CASE UNCHANGED dbVars
    BY <2>1, LogFrame DEF dbVars
  <2>2. CASE PurgeContent(req[q].rm, req[q].at)
    BY <2>2, PurgeLog
  <2>3. QED
    BY <1>6, <2>1, <2>2 DEF ReconcilePurge
<1>7. ASSUME NEW q \in Requests, CloseRoom(q) PROVE LogInv'
  <2>1. CASE UNCHANGED dbVars
    BY <2>1, LogFrame DEF dbVars
  <2>2. ASSUME NEW at, CloseTx(at, req[q].agent) PROVE LogInv'
    <3>1. req[q].agent \in Agents
      BY DEF IInv, TypeOK, Request
    <3>2. QED
      BY <2>2, <3>1, CloseLog
  <2>3. QED
    BY <1>7, <2>1, <2>2 DEF CloseRoom
<1>8. ASSUME NEW q \in Requests, SendMessage(q) \/ SendKeyless(q) PROVE LogInv'
  <2>1. CASE SendMessage(q)
    BY <2>1, SendMessageGood, SendLog DEF SendMessage
  <2>2. CASE SendKeyless(q)
    BY <2>2, SendKeylessGood, SendLog DEF SendKeyless
  <2>3. QED
    BY <1>8, <2>1, <2>2
<1>9. ASSUME NEW q \in Requests,
             \/ \E a \in Agents : ConnectRead(q, a)
             \/ SyncLoad(q) \/ JoinRoom(q) \/ CipherRead(q) \/ TokenRevoke(q) \/ TokenCreate(q)
             \/ TouchRoomScopedToken(q) \/ ContextWrite(q)
             \/ \E i \in 1..MaxTokens : AuthRoomAccess(q, i)
      PROVE  LogInv'
  <2>1. Frame
    BY <1>9 DEF ConnectRead, SyncLoad, JoinRoom, CipherRead, TokenRevoke, TokenCreate,
              TouchRoomScopedToken,
                ContextWrite, AuthRoomAccess, dbVars
  <2>2. QED
    BY <2>1, LogFrame
<1>10. ASSUME NEW q \in Requests,
              \/ Viewer(q) \/ Reply(q) \/ Abort(q)
              \/ \E op \in AllOps, a \in Agents, v \in Viewers \cup {Nil} : Begin(q, op, a, v)
       PROVE  LogInv'
  <2>1. Frame
    BY <1>10 DEF Viewer, ViewerJoin, ViewerWrite, ViewerRead, Reply, Abort, Begin, dbVars
  <2>2. QED
    BY <2>1, LogFrame
<1>11. QED
  BY <1>1, <1>2, <1>3, <1>4, <1>5, <1>6, <1>7, <1>8, <1>9, <1>10
     DEF Next, Connect, Reconcile, Handle

\* It holds of the empty tables the service starts with.
LEMMA LogInvariance == Spec => []LogInv
<1>1. Init => LogInv
  <2> SUFFICES ASSUME Init PROVE LogInv
    OBVIOUS
  <2>1. outbox = {} /\ room.turn = 0
        /\ \A i \in DOMAIN events : events[i].type # "message.created"
    BY DEF Init, NewRoom, CreatedEvents, Ev
  <2>2. MessageEvents = {} /\ 0..(room.turn - 1) = {}
    BY <2>1 DEF MessageEvents
  <2>3. QED
    BY <2>1, <2>2 DEF LogInv, EventLogReplaysTurns, OutboxFollowsEvents
<1>2. QED
  BY <1>1, LogStep, Invariance, PTL DEF Spec

\* The room_events rows replay the conversation: while its content is there the
\* message.created events, in id order, are its turns without gap, repetition or
\* reordering, each by the agent whose turn it was, until a message key is stored
\* over a changed row.
THEOREM EventLogReplays == Spec => []EventLogReplaysTurns
<1>1. LogInv => EventLogReplaysTurns
  BY DEF LogInv
<1>2. QED
  BY <1>1, LogInvariance, PTL

\* No webhook row outlives its event, and no message lacks the row for the other
\* subscribed agent, also in a room that was purged and written to afterwards.
THEOREM OutboxAgrees == Spec => []OutboxFollowsEvents
<1>1. LogInv => OutboxFollowsEvents
  BY DEF LogInv
<1>2. QED
  BY <1>1, LogInvariance, PTL
=============================================================================
