----------------------------- MODULE MemoryApp -----------------------------
(***************************************************************************)
(* The API without a database (internal/httpapi/app.go and api.go): one    *)
(* listing and its room, kept in maps under one mutex.  A handler that     *)
(* names a room takes the mutex twice: requireRoomMember sweeps, checks    *)
(* the caller and copies the row; the handler then decides on the copy,    *)
(* takes the mutex again and works on the row as it is by then.  The maps  *)
(* in the copy are the room's own.                                         *)
(*                                                                         *)
(* Nothing sweeps in the background: rooms end and are purged only when a  *)
(* request comes in.  The rate limit of allowMessage (the window of module *)
(* SendLimits) may refuse any message.                                     *)
(***************************************************************************)
EXTENDS Integers, Sequences, FiniteSets

CONSTANTS
    Agents,
    Owner,             \* the agent of the listing, agent A
    Viewers,           \* viewer tokens
    Handlers,          \* request goroutines
    MaxTurns,
    TTL,               \* the room's ttl_at
    Grace,             \* closedRoomGraceDelay
    Retention,         \* maxClosedRetention
    HeartbeatTimeout,
    CodeTTL,           \* until when the human code admits viewers
    MaxNow,            \* bound on the clock
    MaxTurn,           \* bound on turn_index
    Nil

ASSUME MemoryAppAssumption ==
    /\ Owner \in Agents
    /\ {TTL, Grace, Retention, HeartbeatTimeout, CodeTTL, MaxNow, MaxTurn} \subseteq Nat
    /\ MaxTurns \in Nat \ {0}
    /\ Nil \notin Agents /\ Nil \notin Int

VARIABLES
    now,
    connected,  \* listing.Connected
    rm,         \* the room
    req,        \* per handler, what it does between and after the critical sections
    fatal       \* the runtime has ended the process: a map was read while written

vars == <<now, connected, rm, req, fatal>>

States == {"OPEN", "ACTIVE", "CLOSED", "PURGED"}
Ops == {"join", "message", "state", "close"}
\* A message; its text is known by the turn it was written for, the expected_turn it
\* was sent with.
Said == [turn : Nat, sender : Agents, text : Nat]
Room == [state : States, b : Agents \cup {Nil}, turn : 0..MaxTurn, closedAt : Nat \cup {Nil},
         joined : SUBSET Agents, messages : Seq(Said),
         viewers : [Viewers -> [hb : Nat \cup {Nil}, left : BOOLEAN]]]
Request == [pc : {"idle", "act", "viewers", "joined"}, op : Ops \cup {Nil},
            agent : Agents \cup {Nil}, turn : 0..MaxTurn]
Idle == [pc |-> "idle", op |-> Nil, agent |-> Nil, turn |-> 0]
NoViewer == [hb |-> Nil, left |-> FALSE]

Init ==
    /\ now = 0
    /\ connected = FALSE
    /\ rm = [state |-> "OPEN", b |-> Nil, turn |-> 0, closedAt |-> Nil, joined |-> {Owner},
             messages |-> <<>>, viewers |-> [v \in Viewers |-> NoViewer]]
    /\ req = [h \in Handlers |-> Idle]
    /\ fatal = FALSE

Tick ==
    /\ ~fatal /\ now < MaxNow
    /\ now' = now + 1
    /\ UNCHANGED <<connected, rm, req, fatal>>

-----------------------------------------------------------------------------
(* purgeSweepLocked *)

\* activeViewerCount: joined, not left, and heard of within the timeout.
ActiveViewers(r) == {v \in Viewers : /\ r.viewers[v].hb # Nil /\ ~r.viewers[v].left
                                     /\ now - r.viewers[v].hb <= HeartbeatTimeout}

Purgeable(r) ==
    \/ ActiveViewers(r) = {} /\ now - r.closedAt >= Grace
    \/ now - r.closedAt >= Retention

\* One pass: an expired room is closed, a closed one purged when it may be.
Swept(r) ==
    IF r.state \in {"OPEN", "ACTIVE"} /\ now > TTL
    THEN [r EXCEPT !.state = "CLOSED", !.closedAt = now]
    ELSE IF r.state = "CLOSED" /\ Purgeable(r)
    THEN [r EXCEPT !.state = "PURGED", !.messages = <<>>,
                   !.viewers = [v \in Viewers |-> NoViewer]]
    ELSE r

\* The sweep every handler starts with, in a critical section of its own; all there
\* is to registration, login, search, transcript and the refused requests.
PurgeSweep ==
    /\ ~fatal
    /\ rm' = Swept(rm)
    /\ UNCHANGED <<now, connected, req, fatal>>

\* A map of the room is written; a goroutine that reads it without the mutex may be
\* caught by the runtime's check.
Writes(place) ==
    fatal' \in IF \E h \in Handlers : req[h].pc = place THEN BOOLEAN ELSE {FALSE}

-----------------------------------------------------------------------------
(* Connecting *)

\* Mutant: the listing's flag is not looked at.
ConnectAgain(a) ==
    /\ ~fatal /\ a # Owner
    /\ connected' = TRUE
    /\ rm' = [rm EXCEPT !.b = a, !.state = "ACTIVE", !.joined = {Owner, a}]
    /\ Writes("joined")
    /\ UNCHANGED <<now, req>>

\* handleListingByID: one critical section, which does not look at the room's state.
Connect(a) ==
    /\ ~fatal /\ a # Owner /\ ~connected
    /\ connected' = TRUE
    /\ rm' = [rm EXCEPT !.b = a, !.state = "ACTIVE", !.joined = {Owner, a}]
    /\ Writes("joined")
    /\ UNCHANGED <<now, req>>

-----------------------------------------------------------------------------
(* Room handlers *)

\* What the copy lets the handler do.
Proceeds(op, r) ==
    CASE op = "join"    -> r.state \in {"OPEN", "ACTIVE"}
      [] op = "message" -> r.state = "ACTIVE" /\ now <= TTL
      [] op = "close"   -> r.state # "PURGED"
      [] op = "state"   -> TRUE

\* requireRoomMember and the checks on the copy; t is the request's expected_turn.
RequireRoomMember(h, op, a, t) ==
    LET r == Swept(rm) IN
    /\ ~fatal /\ req[h] = Idle
    /\ a \in {Owner, r.b} /\ Proceeds(op, r)
    /\ op # "message" => t = 0
    /\ rm' = r
    /\ req' = [req EXCEPT ![h] = [pc |-> IF op = "state" THEN "viewers" ELSE "act",
                                  op |-> op, agent |-> a, turn |-> t]]
    /\ UNCHANGED <<now, connected, fatal>>

Acts(h, op) == ~fatal /\ req[h].pc = "act" /\ req[h].op = op
Done(h) == req' = [req EXCEPT ![h] = Idle]

\* handleRoomJoin; the answer then reads Joined without the mutex.
Join(h) ==
    LET joined == rm.joined \cup {req[h].agent} IN
    /\ Acts(h, "join")
    /\ rm' = [rm EXCEPT !.joined = joined,
                        !.state = IF rm.b # Nil /\ {Owner, rm.b} \subseteq joined
                                  THEN "ACTIVE" ELSE @]
    /\ Writes("joined")
    /\ req' = [req EXCEPT ![h].pc = "joined"]
    /\ UNCHANGED <<now, connected>>

expectedSenderID == IF rm.turn % 2 = 0 THEN Owner ELSE rm.b

\* Mutant: the expected turn is not compared, only the sender.
TurnMatchesSender(h) == expectedSenderID = req[h].agent

TurnMatches(h) == req[h].turn = rm.turn /\ expectedSenderID = req[h].agent

\* handleRoomMessage in its second critical section: the turn is compared again, the
\* state is not.
Message(h) ==
    /\ Acts(h, "message")
    /\ TurnMatches(h) /\ rm.turn < MaxTurn
    /\ LET last == rm.turn + 1 >= MaxTurns IN
       rm' = [rm EXCEPT !.messages = Append(@, [turn |-> rm.turn, sender |-> req[h].agent,
                                                   text |-> req[h].turn]),
                        !.turn = @ + 1,
                        !.state = IF last THEN "CLOSED" ELSE @,
                        !.closedAt = IF last THEN now ELSE @]
    /\ Done(h)
    /\ UNCHANGED <<now, connected, fatal>>

\* turn_mismatch, or the rate limit.
MessageRefused(h) ==
    /\ Acts(h, "message")
    /\ Done(h)
    /\ UNCHANGED <<now, connected, rm, fatal>>

\* Mutant: the room is closed without a time.
CloseUndated(h) ==
    /\ Acts(h, "close")
    /\ rm' = [rm EXCEPT !.state = "CLOSED"]
    /\ Done(h)
    /\ UNCHANGED <<now, connected, fatal>>

\* handleRoomClose writes the state whatever it has become.
Close(h) ==
    /\ Acts(h, "close")
    /\ rm' = [rm EXCEPT !.state = "CLOSED", !.closedAt = now]
    /\ Done(h)
    /\ UNCHANGED <<now, connected, fatal>>

\* The answers of state and join, written from the copy's maps.
Answer(h) ==
    /\ ~fatal /\ req[h].pc \in {"viewers", "joined"}
    /\ Done(h)
    /\ UNCHANGED <<now, connected, rm, fatal>>

-----------------------------------------------------------------------------
(* handleRoomViewers: one critical section *)

\* The viewer's row in the swept room r.
ViewerWrite(r, v, row) ==
    /\ ~fatal
    /\ r.state # "PURGED"
    /\ rm' = [r EXCEPT !.viewers[v] = row]
    /\ Writes("viewers")
    /\ UNCHANGED <<now, connected, req>>

ViewerJoin(v) ==
    LET r == Swept(rm) IN
    /\ now <= CodeTTL /\ r.viewers[v].hb = Nil
    /\ ViewerWrite(r, v, [hb |-> now, left |-> FALSE])

ViewerHeartbeat(v) ==
    LET r == Swept(rm) IN
    /\ r.viewers[v].hb # Nil /\ ~r.viewers[v].left
    /\ ViewerWrite(r, v, [hb |-> now, left |-> FALSE])

ViewerLeave(v) ==
    LET r == Swept(rm) IN
    /\ r.viewers[v].hb # Nil
    /\ ViewerWrite(r, v, [hb |-> r.viewers[v].hb, left |-> TRUE])

Next ==
    \/ Tick
    \/ PurgeSweep
    \/ \E a \in Agents : Connect(a)
    \/ \E h \in Handlers :
          \/ \E op \in Ops, a \in Agents, t \in 0..MaxTurn : RequireRoomMember(h, op, a, t)
          \/ Join(h) \/ Message(h) \/ MessageRefused(h) \/ Close(h) \/ Answer(h)
    \/ \E v \in Viewers : ViewerJoin(v) \/ ViewerHeartbeat(v) \/ ViewerLeave(v)

Spec == Init /\ [][Next]_vars

-----------------------------------------------------------------------------
(* Properties *)

\* The room and the requests have their types, and a state that implies a time has it.
TypeOK ==
    /\ now \in Nat /\ connected \in BOOLEAN /\ fatal \in BOOLEAN
    /\ rm \in Room
    /\ rm.state \in {"CLOSED", "PURGED"} => rm.closedAt # Nil
    /\ req \in [Handlers -> Request]

\* The transcript holds the latest turns, each once, in order, by the agent whose
\* turn it was and with the text that agent wrote for this turn: a duplicate or
\* delayed request never speaks for another turn, whatever requests overlap, and also
\* in a room that was ended, purged or revived between its check and its write.
TurnsInOrder ==
    LET n == Len(rm.messages) IN
    \A i \in 1..n :
        /\ rm.messages[i].turn = rm.turn - n + i - 1
        /\ rm.messages[i].sender = IF rm.messages[i].turn % 2 = 0 THEN Owner ELSE rm.b
        /\ rm.messages[i].text = rm.messages[i].turn

\* A room's second agent stays its second agent: no later connect, join or revival
\* puts another in its place.
PeerNeverChanges == [][rm.b # Nil => rm'.b = rm.b]_vars
=============================================================================
