---------------------------- MODULE RoomService ----------------------------
(***************************************************************************)
(* One room of the SQL-mode service (internal/service/a2a/service.go on    *)
(* internal/repository/postgres/store.go): the listing that offers it, the *)
(* room row, its messages, events, viewers, room-scoped tokens, context    *)
(* row, webhook outbox and agent-stream deliveries.                        *)
(*                                                                         *)
(* A request is a handler goroutine.  It first reads the room row          *)
(* (GetRoom) and reconciles it, keeps that row as its snapshot rm, and     *)
(* writes later, in a transaction.  Requests run in any number of API      *)
(* processes, so neither Service.mu nor the per-room reconcile mutex       *)
(* orders two of them; what orders them is the database:                   *)
(*   - a transaction that takes LockRoom (SELECT ... FOR UPDATE) before it *)
(*     reads is one step;                                                  *)
(*   - ConnectListing, issueRoomAccessToken and the send that stores the   *)
(*     key of a room without one read before they hold a room lock: their  *)
(*     read and their write are two steps (READ COMMITTED);                *)
(*   - single statements outside a transaction are one step each.          *)
(* Time is a counter; the room is created at time 0.                       *)
(*                                                                         *)
(* Rooms are created with a message key, but a room older than the column  *)
(* (migration 13) has none until somebody sends in it.  Keyless says       *)
(* whether this one may be such a room.                                    *)
(***************************************************************************)
EXTENDS Integers, Sequences, FiniteSets, RoomState

CONSTANTS
    Agents,            \* agent ids
    Owner,             \* the agent that posts the listing: rooms.agent_a_id
    Nil,               \* SQL NULL / the empty id
    Requests,          \* handler goroutines that may be in flight at once
    Viewers,           \* viewer tokens
    Subscribed,        \* agents with an enabled webhook endpoint
    Ops,               \* the operations clients call
    Keyless,           \* whether the room may be one without a message key
    MaxTurns,          \* rooms.max_turns
    TTL,               \* rooms.ttl_at, from the room's creation
    Grace,             \* closedRoomGraceDelay
    Cap,               \* maxClosedRetention
    HeartbeatTimeout,  \* viewerHeartbeatTimeout
    CodeTTL,           \* humanCodeTTL
    TokenTTL,          \* roomScopedTokenTTL
    RefreshWithin,     \* roomScopedTokenRefreshThreshold
    MaxNow,            \* bound: the clock stops here
    MaxTokens          \* bound: room-scoped tokens issued

AllOps == {"join", "send", "close", "token", "auth", "view", "beat", "leave", "fetch", "read"}

ASSUME AgentAssumption == Owner \in Agents /\ Nil \notin Agents
ASSUME SubscribedAssumption == Subscribed \subseteq Agents
ASSUME OpsAssumption == Ops \subseteq AllOps
ASSUME KeylessAssumption == Keyless \in BOOLEAN
ASSUME BoundAssumption ==
    /\ MaxTurns \in Nat \ {0}
    /\ TTL \in Nat /\ Grace \in Nat /\ Cap \in Nat
    /\ HeartbeatTimeout \in Nat /\ CodeTTL \in Nat
    /\ TokenTTL \in Nat /\ RefreshWithin \in Nat
    /\ MaxNow \in Nat /\ MaxTokens \in Nat
    /\ Nil \notin Int

VARIABLES
    now,         \* Service.now()
    listing,     \* chat_listings row: "none", "legacy" (no room_id), "open", "connected"
    room,        \* rooms row
    messages,    \* messages rows: {[turn, sender]}
    events,      \* room_events rows in id order: <<[type, turn, by], ...>>
    deliveries,  \* agent_stream_deliveries rows: {[agent, type, turn]}
    outbox,      \* webhook_outbox rows: {[event, target]}
    tokens,      \* room_scoped_tokens rows, by id: <<[agent, exp, revoked], ...>>
    viewers,     \* room_viewers rows by viewer token
    context,     \* room_context_state row
    joined,      \* Service.joined of this room
    req,         \* the requests in flight
    erased,      \* history: content was purged after two agents were paired
    raced        \* history: a message key was stored over a row that had changed

vars == <<now, listing, room, messages, events, deliveries, outbox, tokens,
          viewers, context, joined, req, erased, raced>>

dbVars == <<listing, room, messages, events, deliveries, outbox, tokens,
            viewers, context, joined, erased, raced>>

-----------------------------------------------------------------------------
(* Rows and snapshots *)

RoomStates == {"NONE"} \cup DomainStates
Live == {"OPEN", "ACTIVE"}
Ended == {"CLOSED", "PURGED"}

Room == [state : RoomStates, agentB : Agents \cup {Nil}, turn : 0..MaxTurns,
         closedAt : Nat \cup {Nil}, purgedAt : Nat \cup {Nil}, keyed : BOOLEAN]
NewRoom(state, b) ==
    [state |-> state, agentB |-> b, turn |-> 0, closedAt |-> Nil, purgedAt |-> Nil,
     keyed |-> TRUE]

Message == [turn : Nat, sender : Agents]
EventTypes == {"room.created", "room.joined", "room.state_changed",
               "message.created", "room.closed", "room.purged"}
Event == [type : EventTypes, turn : Nat \cup {Nil}, by : Agents \cup {Nil}]
Delivery == [agent : Agents, type : {"room.turn_ready", "room.closed", "room.purged"},
             turn : Nat \cup {Nil}]
Token == [agent : Agents, exp : Nat, revoked : BOOLEAN]
ViewerRow == [hb : Nat, left : BOOLEAN]
ContextRow == [state : RoomStates, turn : 0..MaxTurns]

Steps == {"idle", "load", "connect", "ttl", "purge", "run", "cipher", "issue", "touch", "hung"}
Request == [op : AllOps \cup {"idle", "connect", "sync"}, pc : Steps,
            agent : Agents, rm : Room, read : Room, at : Nat, held : SUBSET Nat,
            viewer : Viewers \cup {Nil}, row : ViewerRow \cup {Nil}]

Idle == [op |-> "idle", pc |-> "idle", agent |-> Owner, rm |-> NewRoom("NONE", Nil),
         read |-> NewRoom("NONE", Nil), at |-> 0, held |-> {}, viewer |-> Nil, row |-> Nil]

Participants(rm) == {Owner, rm.agentB} \ {Nil}

\* The agent that turn t belongs to: even turns are agent A's, odd ones agent B's.
Speaker(rm, t) == IF t % 2 = 0 THEN Owner ELSE rm.agentB

\* Nobody speaks next in a room that has ended.
nextActorIDForRoom(rm) == IF rm.state \in Live THEN Speaker(rm, rm.turn) ELSE Nil

Active(row, at) == row # Nil /\ ~row.left /\ row.hb >= at - HeartbeatTimeout
CountActiveViewers(at) == Cardinality({v \in Viewers : Active(viewers[v], at)})

-----------------------------------------------------------------------------
(* What a transaction appends beside the room row *)

Ev(type, by) == [type |-> type, turn |-> Nil, by |-> by]
\* Mutant: the event carries the turn index already advanced.
MessageEvAdvanced(t, by) == [type |-> "message.created", turn |-> t + 1, by |-> by]

MessageEv(t, by) == [type |-> "message.created", turn |-> t, by |-> by]

supportsWebhookOutbox(type) ==
    type \in {"room.joined", "message.created", "room.closed", "room.purged"}

\* Mutant: the actor is targeted, not the others.
enqueueWebhookToActor(rm, e) ==
    IF supportsWebhookOutbox(e.type)
    THEN {[event |-> e, target |-> a] : a \in (Participants(rm) \cap {e.by}) \cap Subscribed}
    ELSE {}

\* Outbox rows for one event: every participant but the actor that has an
\* enabled endpoint.
enqueueWebhookOutboxForEvent(rm, e) ==
    IF supportsWebhookOutbox(e.type)
    THEN {[event |-> e, target |-> a] : a \in (Participants(rm) \ {e.by}) \cap Subscribed}
    ELSE {}

enqueueAgentStreamTurnReady(rm) ==
    IF rm.state = "ACTIVE" /\ nextActorIDForRoom(rm) # Nil
    THEN {[agent |-> nextActorIDForRoom(rm), type |-> "room.turn_ready", turn |-> rm.turn]}
    ELSE {}

enqueueAgentStreamTerminal(rm, type) ==
    {[agent |-> a, type |-> type, turn |-> Nil] : a \in Participants(rm)}

Unrevoked(a) == {i \in DOMAIN tokens : tokens[i].agent = a /\ ~tokens[i].revoked}
RevokeRoomScopedTokens(ids) ==
    [i \in DOMAIN tokens |-> IF i \in ids THEN [tokens[i] EXCEPT !.revoked = TRUE] ELSE tokens[i]]
revokeRoomScopedTokensForRoom(rm) ==
    RevokeRoomScopedTokens(UNION {Unrevoked(a) : a \in Participants(rm)})

Emit(rm, evs, dels) ==
    /\ events' = events \o evs
    /\ outbox' = outbox \cup UNION {enqueueWebhookOutboxForEvent(rm, evs[i]) : i \in DOMAIN evs}
    /\ deliveries' = deliveries \cup dels

CloseEvents(by) == <<Ev("room.state_changed", by), Ev("room.closed", by)>>

-----------------------------------------------------------------------------
CreatedEvents == <<Ev("room.created", Owner), Ev("room.joined", Owner)>>

\* Either there is no room yet, or an open one from before rooms had keys.
Init ==
    /\ now = 0
    /\ \/ /\ listing \in {"none", "legacy"}
          /\ room = NewRoom("NONE", Nil)
          /\ events = <<>>
       \/ /\ Keyless
          /\ listing = "open"
          /\ room = [NewRoom("OPEN", Nil) EXCEPT !.keyed = FALSE]
          /\ events = CreatedEvents
    /\ messages = {} /\ deliveries = {} /\ outbox = {}
    /\ tokens = <<>>
    /\ viewers = [v \in Viewers |-> Nil]
    /\ context = Nil
    /\ joined = {}
    /\ req = [q \in Requests |-> Idle]
    /\ erased = FALSE
    /\ raced = FALSE

Done(q) == req' = [req EXCEPT ![q] = Idle]

\* Every handler that changed the room ends with upsertRoomContext, which
\* starts by reading and reconciling the room again.
ThenSync(q) == req' = [req EXCEPT ![q] = [Idle EXCEPT !.op = "sync", !.pc = "load",
                                                     !.agent = req[q].agent]]

Tick ==
    /\ room.state # "NONE"
    /\ now < MaxNow
    /\ now' = now + 1
    /\ UNCHANGED <<dbVars, req>>

-----------------------------------------------------------------------------
(* Listings *)

CreateListing(q) ==
    /\ req[q].pc = "idle"
    /\ listing = "none"
    /\ listing' = "open"
    /\ room' = NewRoom("OPEN", Nil)
    /\ Emit(room', CreatedEvents, {})
    /\ ThenSync(q)
    /\ UNCHANGED <<now, messages, tokens, viewers, context, joined, erased, raced>>

\* The events and deliveries of ConnectListing, once rm has its second agent.
ConnectEffects(q, rm, a) ==
    /\ listing' = "connected"
    /\ room' = rm
    /\ Emit(rm, <<Ev("room.joined", a), Ev("room.state_changed", a)>>,
            enqueueAgentStreamTurnReady(rm))
    /\ ThenSync(q)
    /\ UNCHANGED <<now, messages, tokens, viewers, context, joined, erased, raced>>

\* A listing without a room (created before listings owned one): the
\* transaction creates the room ACTIVE.
ConnectLegacyListing(q, a) ==
    /\ req[q].pc = "idle"
    /\ listing = "legacy"
    /\ a # Owner
    /\ ConnectEffects(q, NewRoom("ACTIVE", a), a)

\* Mutant: MarkListingConnected does not make a second connect wait.
ConnectReadUnlocked(q, a) ==
    /\ req[q].pc = "idle"
    /\ listing = "open"
    /\ a # Owner
    /\ room.agentB = Nil
    /\ req' = [req EXCEPT ![q] = [Idle EXCEPT !.op = "connect", !.pc = "connect",
                                             !.agent = a, !.rm = room]]
    /\ UNCHANGED <<now, dbVars>>

\* MarkListingConnected updates the listing row, so a second connect waits for
\* the first one's commit and then finds connected = TRUE; the room row is
\* read without a lock and without a look at its state.
ConnectRead(q, a) ==
    /\ req[q].pc = "idle"
    /\ listing = "open"
    /\ a # Owner
    /\ \A p \in Requests : req[p].pc # "connect"
    /\ room.agentB = Nil
    /\ req' = [req EXCEPT ![q] = [Idle EXCEPT !.op = "connect", !.pc = "connect",
                                             !.agent = a, !.rm = room]]
    /\ UNCHANGED <<now, dbVars>>

\* Mutant: the second agent is stored and the state forgotten.
ConnectWriteInactive(q) ==
    /\ req[q].pc = "connect"
    /\ ConnectEffects(q, [req[q].rm EXCEPT !.agentB = req[q].agent], req[q].agent)

\* UpdateRoom writes the whole row back from the values it read.
ConnectWrite(q) ==
    /\ req[q].pc = "connect"
    /\ ConnectEffects(q, [req[q].rm EXCEPT !.agentB = req[q].agent, !.state = "ACTIVE"],
                      req[q].agent)

-----------------------------------------------------------------------------
(* GetRoom and reconcileRoom, with which every room handler begins *)

Expired(rm) == rm.state \in Live /\ now > TTL
PastGrace(rm) == rm.closedAt # Nil /\ now - rm.closedAt >= Grace
PastCap(rm) == rm.closedAt # Nil /\ now - rm.closedAt >= Cap
Purgeable(rm) ==
    /\ rm.state = "CLOSED"
    /\ (CountActiveViewers(now) = 0 /\ PastGrace(rm)) \/ PastCap(rm)

\* GetRoom, and what reconcileRoomLocked decides to do with the row it got.
Load(q, op, a, v) ==
    req' = [req EXCEPT ![q] =
              [Idle EXCEPT !.op = op, !.agent = a, !.rm = room, !.at = now, !.viewer = v,
                           !.pc = CASE Expired(room) -> "ttl"
                                    [] Purgeable(room) -> "purge"
                                    [] OTHER -> "run"]]

Begin(q, op, a, v) ==
    /\ req[q].pc = "idle"
    /\ room.state # "NONE"
    /\ op \in Ops \ {"auth", "beat", "leave"}
    /\ (op = "view") <=> (v # Nil)
    /\ v # Nil => viewers[v] = Nil /\ \A p \in Requests : req[p].viewer # v
    /\ op \in {"view", "read"} => a = Owner      \* the agent plays no part
    /\ Load(q, op, a, v)
    /\ UNCHANGED <<now, dbVars>>

SyncLoad(q) ==
    /\ req[q].pc = "load"
    /\ Load(q, "sync", req[q].agent, Nil)
    /\ UNCHANGED <<now, dbVars>>

\* After reconciling, the handler goes on with the row the transaction left.
Resume(q, rm) == req' = [req EXCEPT ![q].pc = "run", ![q].rm = rm]

\* Mutant: a close that queues no agent-stream deliveries.
CloseTxSilent(at, by) ==
    /\ room' = [room EXCEPT !.state = "CLOSED", !.closedAt = at]
    /\ tokens' = revokeRoomScopedTokensForRoom(room)
    /\ Emit(room', CloseEvents(by), {})
    /\ UNCHANGED <<listing, messages, viewers, context, joined, erased, raced>>

\* What the transaction of a TTL or manual close writes, on the row under the lock.
CloseTx(at, by) ==
    /\ room' = [room EXCEPT !.state = "CLOSED", !.closedAt = at]
    /\ tokens' = revokeRoomScopedTokensForRoom(room)
    /\ Emit(room', CloseEvents(by), enqueueAgentStreamTerminal(room', "room.closed"))
    /\ UNCHANGED <<listing, messages, viewers, context, joined, erased, raced>>

\* TTL close, under LockRoom.  A caller that came through reconcileRoom holds
\* the room's reconcile mutex; the context update that follows asks for it
\* again and waits forever.  SendMessage calls reconcileRoomLocked without it.
ReconcileClose(q) ==
    /\ req[q].pc = "ttl"
    /\ IF room.state \in Ended
       THEN UNCHANGED dbVars
       ELSE CloseTx(req[q].at, Nil)
    /\ IF req[q].op = "send"
       THEN ThenSync(q)
       ELSE req' = [req EXCEPT ![q].pc = "hung"]
    /\ UNCHANGED now

\* PurgeRoomContent, and what the purge transaction adds to the emptied room.
PurgeContent(rm, at) ==
    LET purged == [room EXCEPT !.state = "PURGED", !.purgedAt = at]
        ev == Ev("room.purged", Nil)
    IN  /\ room' = purged
        /\ messages' = {}
        /\ context' = Nil
        /\ viewers' = [v \in Viewers |-> Nil]
        /\ tokens' = revokeRoomScopedTokensForRoom(rm)
        /\ events' = <<Ev("room.state_changed", Nil), ev>>
        /\ outbox' = enqueueWebhookOutboxForEvent(purged, ev)
        /\ deliveries' = deliveries \cup enqueueAgentStreamTerminal(purged, "room.purged")
        /\ erased' = (erased \/ room.agentB # Nil)
        /\ UNCHANGED <<listing, joined, raced>>

\* Purge, under LockRoom: the state is read again, closed_at and the viewers
\* are not.  A room that is no longer CLOSED makes it return an empty Room,
\* which no handler accepts.
ReconcilePurge(q) ==
    /\ req[q].pc = "purge"
    /\ \/ /\ room.state = "CLOSED"
          /\ PurgeContent(req[q].rm, req[q].at)
          /\ Resume(q, room')
       \/ /\ room.state = "PURGED"
          /\ Resume(q, room)
          /\ UNCHANGED dbVars
       \/ /\ room.state \in Live
          /\ Done(q)
          /\ UNCHANGED dbVars
    /\ UNCHANGED now

-----------------------------------------------------------------------------
(* The handlers, on the snapshot they were given *)

Running(q, op) == req[q].pc = "run" /\ req[q].op = op
IsParticipant(q) == req[q].agent \in Participants(req[q].rm)

\* The branch that activates an OPEN room whose two agents have joined is left
\* out: OpenHasNoPeer shows that no OPEN room has a second agent.
JoinRoom(q) ==
    /\ Running(q, "join")
    /\ IsParticipant(q)
    /\ req[q].rm.state \in Live
    /\ joined' = joined \cup {req[q].agent}
    /\ ThenSync(q)
    /\ UNCHANGED <<now, listing, room, messages, events, deliveries, outbox, tokens,
                   viewers, context, erased, raced>>

\* Mutant: any participant may speak.
SendAllowedOutOfTurn(q) ==
    /\ Running(q, "send")
    /\ req[q].rm.state = "ACTIVE"
    /\ IsParticipant(q)

\* The checks SendMessage makes on its snapshot before the transaction.
SendAllowed(q) ==
    LET rm == req[q].rm
    IN  /\ Running(q, "send")
        /\ rm.state = "ACTIVE"
        /\ req[q].agent = Speaker(rm, rm.turn)

\* Mutants: the turn limit off by one; the last turn does not close the room;
\* the whole row written back from the snapshot.
SentRowOffByOne(q, base) ==
    LET next == req[q].rm.turn + 1
    IN  IF next > MaxTurns
        THEN [base EXCEPT !.turn = next, !.state = "CLOSED", !.closedAt = now]
        ELSE [base EXCEPT !.turn = next]
SentRowOpenEnded(q, base) == [base EXCEPT !.turn = req[q].rm.turn + 1]
SentRowStale(q, base) ==
    LET next == req[q].rm.turn + 1
    IN  IF next >= MaxTurns
        THEN [req[q].rm EXCEPT !.turn = next, !.state = "CLOSED", !.closedAt = now]
        ELSE [req[q].rm EXCEPT !.turn = next]

\* The row SendMessage's UpdateRoom leaves of the one it finds: turn_index, and
\* state and closed_at when the turn was the last, come from the snapshot.
SentRow(q, base) ==
    LET next == req[q].rm.turn + 1
    IN  IF next >= MaxTurns
        THEN [base EXCEPT !.turn = next, !.state = "CLOSED", !.closedAt = now]
        ELSE [base EXCEPT !.turn = next]

\* What the transaction writes once it holds the row lock: the message for turn t,
\* which UNIQUE(room_id, turn) admits once, and the row that follows base.
SendTx(q, base, t) ==
    LET a == req[q].agent
        updated == SentRow(q, base)
        last == req[q].rm.turn + 1 >= MaxTurns
    IN  /\ \A m \in messages : m.turn # t
        /\ messages' = messages \cup {[turn |-> t, sender |-> a]}
        /\ room' = updated
        /\ IF last
           THEN /\ tokens' = revokeRoomScopedTokensForRoom(updated)
                /\ Emit(updated, <<MessageEv(t, a)>> \o CloseEvents(a),
                        enqueueAgentStreamTerminal(updated, "room.closed"))
           ELSE /\ Emit(updated, <<MessageEv(t, a)>>, enqueueAgentStreamTurnReady(updated))
                /\ UNCHANGED tokens
        /\ ThenSync(q)
        /\ UNCHANGED <<now, listing, viewers, context, joined, erased>>

\* The transaction, under LockRoom: it does not read the room's state again, and
\* the message is for the snapshot's turn.
SendMessage(q) ==
    /\ SendAllowed(q)
    /\ req[q].rm.keyed
    /\ SendTx(q, room, req[q].rm.turn)
    /\ UNCHANGED raced

\* A snapshot without a message key: ensureRoomMessageCipher's UpdateRoom first
\* reads the row, before any lock ...
CipherRead(q) ==
    /\ SendAllowed(q)
    /\ ~req[q].rm.keyed
    /\ req' = [req EXCEPT ![q].pc = "cipher", ![q].read = room]
    /\ UNCHANGED <<now, dbVars>>

\* ... and then writes it back whole, with the key.  That row replaces rm: the
\* message is for its turn, while the sender was checked against the snapshot and
\* the next turn counted from it.
SendKeyless(q) ==
    LET read == req[q].read
    IN  /\ req[q].pc = "cipher"
        /\ SendTx(q, [read EXCEPT !.keyed = TRUE], read.turn)
        /\ raced' = (raced \/ read # room \/ read.turn # req[q].rm.turn)

\* CloseRoom reads the clock once the room is reconciled and the state again under
\* LockRoom.
CloseRoom(q) ==
    /\ Running(q, "close")
    /\ IsParticipant(q)
    /\ req[q].rm.state \in Live
    /\ room.state # "PURGED"
    /\ IF room.state = "CLOSED"
       THEN UNCHANGED dbVars
       ELSE \E at \in req[q].at..now : CloseTx(at, req[q].agent)
    /\ ThenSync(q)
    /\ UNCHANGED now

\* issueRoomAccessToken revokes the tokens its UPDATE sees committed ...
TokenRevoke(q) ==
    /\ Running(q, "token")
    /\ IsParticipant(q)
    /\ req[q].rm.state \in Live
    /\ req' = [req EXCEPT ![q].pc = "issue", ![q].at = now,
                          ![q].held = Unrevoked(req[q].agent)]
    /\ UNCHANGED <<now, dbVars>>

\* ... and creates the new one, without another look at the room.
TokenCreate(q) ==
    /\ req[q].pc = "issue"
    /\ Len(tokens) < MaxTokens
    /\ tokens' = Append(RevokeRoomScopedTokens(req[q].held),
                        [agent |-> req[q].agent, exp |-> req[q].at + TokenTTL, revoked |-> FALSE])
    /\ Done(q)
    /\ UNCHANGED <<now, listing, room, messages, events, deliveries, outbox,
                   viewers, context, joined, erased, raced>>

\* AuthRoomAccess accepts a token it read unrevoked and unexpired; one that is
\* about to expire is extended by a second statement ...
AuthRoomAccess(q, i) ==
    /\ req[q].pc = "idle"
    /\ "auth" \in Ops
    /\ i \in DOMAIN tokens
    /\ ~tokens[i].revoked /\ tokens[i].exp > now
    /\ tokens[i].exp - now <= RefreshWithin
    /\ req' = [req EXCEPT ![q] = [Idle EXCEPT !.op = "auth", !.pc = "touch",
                                             !.agent = tokens[i].agent, !.at = now, !.held = {i}]]
    /\ UNCHANGED <<now, dbVars>>

\* Mutant: the refresh does not look at revoked_at.
TouchRevokedToo(q) ==
    /\ req[q].pc = "touch"
    /\ tokens' = [i \in DOMAIN tokens |->
                     IF i \in req[q].held
                     THEN [tokens[i] EXCEPT !.exp = req[q].at + TokenTTL]
                     ELSE tokens[i]]
    /\ Done(q)
    /\ UNCHANGED <<now, listing, room, messages, events, deliveries, outbox,
                   viewers, context, joined, erased, raced>>

\* ... which leaves a token revoked in between alone.
TouchRoomScopedToken(q) ==
    /\ req[q].pc = "touch"
    /\ tokens' = [i \in DOMAIN tokens |->
                     IF i \in req[q].held /\ ~tokens[i].revoked
                     THEN [tokens[i] EXCEPT !.exp = req[q].at + TokenTTL]
                     ELSE tokens[i]]
    /\ Done(q)
    /\ UNCHANGED <<now, listing, room, messages, events, deliveries, outbox,
                   viewers, context, joined, erased, raced>>

ViewerJoin(q) ==
    /\ Running(q, "view")
    /\ req[q].rm.state # "PURGED"
    /\ \E at \in req[q].at..now :
         /\ at <= CodeTTL
         /\ viewers' = [viewers EXCEPT ![req[q].viewer] = [hb |-> at, left |-> FALSE]]
    /\ Done(q)
    /\ UNCHANGED <<now, listing, room, messages, events, deliveries, outbox, tokens,
                   context, joined, erased, raced>>

\* ViewerHeartbeat and ViewerLeave read the viewer row, never the room ...
ViewerRead(q, op, v) ==
    /\ req[q].pc = "idle"
    /\ op \in Ops \cap {"beat", "leave"}
    /\ viewers[v] # Nil
    /\ op = "beat" => ~viewers[v].left
    /\ req' = [req EXCEPT ![q] = [Idle EXCEPT !.op = op, !.pc = "run",
                                             !.viewer = v, !.at = now, !.row = viewers[v]]]
    /\ UNCHANGED <<now, dbVars>>

\* ... and UpsertViewer inserts or overwrites it from what they read.
ViewerWrite(q) ==
    /\ Running(q, "beat") \/ Running(q, "leave")
    /\ viewers' = [viewers EXCEPT ![req[q].viewer] =
                     IF req[q].op = "beat" THEN [req[q].row EXCEPT !.hb = req[q].at]
                                           ELSE [req[q].row EXCEPT !.left = TRUE]]
    /\ Done(q)
    /\ UNCHANGED <<now, listing, room, messages, events, deliveries, outbox, tokens,
                   context, joined, erased, raced>>

\* Mutant: the context names the turn that comes next.
ContextWriteAhead(q) ==
    /\ \/ Running(q, "sync")
       \/ Running(q, "fetch") /\ IsParticipant(q)
    /\ context' = [state |-> req[q].rm.state, turn |-> req[q].rm.turn + 1]
    /\ Done(q)
    /\ UNCHANGED <<now, listing, room, messages, events, deliveries, outbox, tokens,
                   viewers, joined, erased, raced>>

\* updateRoomContext stores the room it loaded.  The compare-and-set on the
\* row's version orders two writers of the context, not the room and its context;
\* it is left out, so every order of writes is allowed here (in the code the loser
\* loads the room again, at most maxRoomContextUpdateTries times).
ContextWrite(q) ==
    /\ \/ Running(q, "sync")
       \/ Running(q, "fetch") /\ IsParticipant(q)
    /\ context' = [state |-> req[q].rm.state, turn |-> req[q].rm.turn]
    /\ Done(q)
    /\ UNCHANGED <<now, listing, room, messages, events, deliveries, outbox, tokens,
                   viewers, joined, erased, raced>>

\* A handler answers with an error, or only reads: the room is left as it is.
\* Policy, rate-limit and bundle-hash rejections of SendMessage, its turn
\* conflict and CloseRoom on an ended room are among them.
Reply(q) ==
    /\ req[q].pc = "run"
    /\ req[q].op \in {"join", "send", "close", "token", "view", "fetch", "read"}
    /\ Done(q)
    /\ UNCHANGED <<now, dbVars>>

\* A request dies (context cancelled, database error): its transaction is
\* rolled back, what it committed before stays.
Abort(q) ==
    /\ req[q].pc # "idle"
    /\ Done(q)
    /\ UNCHANGED <<now, dbVars>>

\* A process restarts: its requests die and Service.joined is empty again.
Restart ==
    /\ joined # {} \/ \E q \in Requests : req[q].pc = "hung"
    /\ joined' = {}
    /\ req' = [q \in Requests |-> Idle]
    /\ UNCHANGED <<now, listing, room, messages, events, deliveries, outbox, tokens,
                   viewers, context, erased, raced>>

-----------------------------------------------------------------------------
Reconcile(q) == SyncLoad(q) \/ ReconcileClose(q) \/ ReconcilePurge(q)

Connect(q) ==
    \/ \E a \in Agents : ConnectLegacyListing(q, a) \/ ConnectRead(q, a)
    \/ ConnectWrite(q)

Viewer(q) ==
    \/ ViewerJoin(q) \/ ViewerWrite(q)
    \/ \E op \in AllOps, v \in Viewers : ViewerRead(q, op, v)

Handle(q) ==
    \/ JoinRoom(q) \/ SendMessage(q) \/ CipherRead(q) \/ SendKeyless(q) \/ CloseRoom(q)
    \/ TokenRevoke(q) \/ TokenCreate(q) \/ TouchRoomScopedToken(q) \/ ContextWrite(q)
    \/ \E i \in 1..MaxTokens : AuthRoomAccess(q, i)

Next ==
    \/ Tick
    \/ Restart
    \/ \E q \in Requests :
         \/ CreateListing(q) \/ Connect(q) \/ Reconcile(q) \/ Handle(q) \/ Viewer(q)
         \/ Reply(q) \/ Abort(q)
         \/ \E op \in AllOps, a \in Agents, v \in Viewers \cup {Nil} : Begin(q, op, a, v)

Spec == Init /\ [][Next]_vars

-----------------------------------------------------------------------------
(* Properties *)

\* Every variable holds a value of the table or structure it stands for.
TypeOK ==
    /\ now \in Nat
    /\ listing \in {"none", "legacy", "open", "connected"}
    /\ room \in Room
    /\ messages \subseteq Message
    /\ events \in Seq(Event)
    /\ deliveries \subseteq Delivery
    /\ outbox \subseteq [event : Event, target : Agents]
    /\ tokens \in Seq(Token)
    /\ viewers \in [Viewers -> ViewerRow \cup {Nil}]
    /\ context \in ContextRow \cup {Nil}
    /\ joined \subseteq Agents
    /\ req \in [Requests -> Request]
    /\ erased \in BOOLEAN
    /\ raced \in BOOLEAN

\* The strict turn lock: until the conversation's content is purged, the stored
\* messages are exactly turns 0 .. turn_index-1, even ones by agent A and odd ones
\* by agent B.
StrictTurnLock ==
    /\ \A m \in messages : m.sender = Speaker(room, m.turn)
    /\ ~erased => {m.turn : m \in messages} = 0..(room.turn - 1)

\* Every send but one keeps the strict turn lock, whatever sends, closes and sweeps
\* overlap (SendMessage checks the turn on a snapshot taken before its transaction):
\* only ensureRoomMessageCipher, storing a key over a row that changed after the
\* send's checks, can break it.
TurnLock == ~raced => StrictTurnLock

\* An OPEN room has no second agent and an ACTIVE room has one: ConnectListing's
\* unlocked whole-row write never separates the two columns, so the activation
\* branch of JoinRoom (OPEN with both agents joined) is dead code.
OpenHasNoPeer ==
    /\ room.state = "OPEN" => room.agentB = Nil
    /\ room.state = "ACTIVE" => room.agentB # Nil

\* A CLOSED room always has closed_at and a PURGED one purged_at, although
\* ConnectListing may write NULLs it read earlier over both: the repair branch of
\* reconcileRoomLocked (closedAt == nil) is dead code.
EndIsDated ==
    /\ room.state = "CLOSED" => room.closedAt # Nil
    /\ room.state = "PURGED" => room.purgedAt # Nil

\* The columns of the room row agree, whatever whole rows are written from values
\* read without a lock.
RowAgrees == OpenHasNoPeer /\ EndIsDated

\* In an ACTIVE room the agent whose turn it is has been sent a room.turn_ready
\* delivery for exactly this turn, so the conversation cannot stall because
\* nobody was told.
NextActorNotified ==
    room.state = "ACTIVE" =>
        [agent |-> Speaker(room, room.turn), type |-> "room.turn_ready", turn |-> room.turn]
            \in deliveries

\* Whoever takes part in an ended room has been sent room.closed, and
\* room.purged when it was purged, whichever of the closing paths (manual, TTL,
\* last turn) or races ended it.
ParticipantsToldOfEnd ==
    /\ room.state \in Ended =>
         enqueueAgentStreamTerminal(room, "room.closed") \subseteq deliveries
    /\ room.state = "PURGED" =>
         enqueueAgentStreamTerminal(room, "room.purged") \subseteq deliveries

\* Nobody waits for news that was never queued: the next actor, and everyone at the
\* end, whichever transactions connect, send, close and purge.
EveryoneTold == NextActorNotified /\ ParticipantsToldOfEnd

\* The places of the message.created events in id order.
MessageEvents == {i \in DOMAIN events : events[i].type = "message.created"}

\* The message.created events, in id order, are turns 0, 1, .., turn_index-1, each by
\* the agent whose turn it was: the event log replays the conversation without gap,
\* repetition or reordering, as long as no message key was stored over a changed row.
EventLogReplaysTurns ==
    ~erased /\ ~raced =>
        /\ {events[i].turn : i \in MessageEvents} = 0..(room.turn - 1)
        /\ \A i, j \in MessageEvents : i < j => events[i].turn < events[j].turn
        /\ \A i \in MessageEvents : events[i].by = Speaker(room, events[i].turn)

\* Webhook outbox rows and the event log agree: a row's event exists (the foreign
\* key; purge deletes both), and each message.created event has queued a row for
\* the other, subscribed, participant.
OutboxFollowsEvents ==
    LET logged == {events[i] : i \in DOMAIN events}
    IN  /\ \A w \in outbox : w.event \in logged
        /\ \A e \in logged : e.type = "message.created" =>
              \A a \in (Participants(room) \ {e.by}) \cap Subscribed :
                 [event |-> e, target |-> a] \in outbox

\* Once two agents are paired, a room that has ended never comes back to life,
\* whatever stale snapshot a handler writes from: the one write that can do it is
\* that of a message key over a row that changed after it was read.
NoRevivalOncePaired ==
    [][~raced' /\ room.agentB # Nil /\ room.state \in Ended => room'.state \in Ended]_vars

\* turn_index never decreases while the conversation's content is there, although
\* UpdateRoom writes whole rows from values read earlier (a message key stored over
\* a changed row excepted); and the second agent, once written, is never replaced,
\* not even then.
NoLostRowUpdate ==
    [][/\ ~erased' /\ ~raced' => room'.turn >= room.turn
       /\ room.agentB # Nil => room'.agentB = room.agentB]_vars

\* A revoked room token is dead for good: neither a refresh that read it before
\* the revocation nor a concurrent issue changes its row again.
RevokedStaysRevoked ==
    [][\A i \in DOMAIN tokens : tokens[i].revoked => tokens'[i] = tokens[i]]_vars

\* The context row never runs ahead of the conversation it describes; it may lag
\* (it is written after the commit, from the row read before).  A message key stored
\* over a changed row may set the turn back, and is excepted.
ContextNeverAhead == context # Nil /\ ~erased /\ ~raced => context.turn <= room.turn

\* The abstract conversation this room implements.
phaseBar == IF room.agentB = Nil THEN "unpaired"
            ELSE IF raced THEN "derailed"
            ELSE IF erased THEN "erased"
            ELSE IF room.state = "ACTIVE" THEN "talking" ELSE "over"
turnBar == IF erased \/ raced THEN 0 ELSE room.turn

Abstract == INSTANCE Conversation WITH phase <- phaseBar, turn <- turnBar, MayDerail <- Keyless

\* Every behaviour of the room service is a conversation: pair once, take turns
\* one by one up to the limit, be over for good once over, then perhaps be erased;
\* a room that has its message key from the start never derails.
ConversationSpec == Abstract!Spec

=============================================================================
