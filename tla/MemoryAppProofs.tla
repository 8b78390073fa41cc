--------------------------- MODULE MemoryAppProofs ---------------------------
(***************************************************************************)
(* The in-memory API keeps its transcript in turn order and never replaces *)
(* the second agent, for any agents, viewers, requests and bounds.         *)
(***************************************************************************)
EXTENDS MemoryApp, TLAPS

\* As long as nobody has connected there is no second agent; without a second agent
\* the room is not ACTIVE, nothing was said and no message is on its way.
Unpaired ==
    /\ ~connected => rm.b = Nil
    /\ rm.b = Nil => /\ rm.state # "ACTIVE" /\ rm.messages = <<>>
                     /\ \A h \in Handlers : req[h].pc = "act" => req[h].op # "message"

\* A handler past requireRoomMember acts for an agent.
Members == \A h \in Handlers : req[h].pc = "act" => req[h].agent \in Agents

IInv == TypeOK /\ TurnsInOrder /\ Unpaired /\ Members

-----------------------------------------------------------------------------
\* Nil is no agent and no number.
LEMMA NilFacts == Nil \notin Agents /\ Nil \notin Nat /\ Owner \in Agents
                  /\ MaxTurn \in Nat /\ MaxTurns \in Nat
  BY MemoryAppAssumption

\* What a sweep does to a room: it may end it and may empty it.
LEMMA SweptFacts ==
    ASSUME NEW r \in Room, now \in Nat
    PROVE  /\ Swept(r) \in Room
           /\ Swept(r).b = r.b /\ Swept(r).turn = r.turn
           /\ Swept(r).messages \in {r.messages, <<>>}
           /\ Swept(r).state \in {r.state, "CLOSED", "PURGED"}
           /\ (r.state \in {"CLOSED", "PURGED"} => r.closedAt # Nil) =>
                 (Swept(r).state \in {"CLOSED", "PURGED"} => Swept(r).closedAt # Nil)
  <1>1. CASE r.state \in {"OPEN", "ACTIVE"} /\ now > TTL
    <2> DEFINE s == [r EXCEPT !.state = "CLOSED", !.closedAt = now]
    <2>1. Swept(r) = s
      BY <1>1 DEF Swept
    <2>2. s \in Room /\ s.b = r.b /\ s.turn = r.turn /\ s.messages = r.messages
          /\ s.state = "CLOSED" /\ s.closedAt = now
      BY DEF Room, States
    <2> HIDE DEF s
    <2> QED BY <2>1, <2>2, NilFacts
  <1>2. CASE ~(r.state \in {"OPEN", "ACTIVE"} /\ now > TTL) /\ r.state = "CLOSED" /\ Purgeable(r)
    <2> DEFINE none == [v \in Viewers |-> NoViewer]
               s == [r EXCEPT !.state = "PURGED", !.messages = <<>>, !.viewers = none]
    <2>1. Swept(r) = s
      BY <1>2 DEF Swept
    <2>2. none \in [Viewers -> [hb : Nat \cup {Nil}, left : BOOLEAN]]
      BY DEF NoViewer
    <2> HIDE DEF none
    <2>3. <<>> \in Seq(Said)
      OBVIOUS
    <2>4. s \in Room /\ s.b = r.b /\ s.turn = r.turn /\ s.messages = <<>>
          /\ s.state = "PURGED" /\ s.closedAt = r.closedAt
      BY <2>2, <2>3 DEF Room, States
    <2> HIDE DEF s
    <2> QED BY <1>2, <2>1, <2>4
  <1>3. CASE ~(r.state \in {"OPEN", "ACTIVE"} /\ now > TTL) /\ ~(r.state = "CLOSED" /\ Purgeable(r))
    <2>1. Swept(r) = r
      BY <1>3 DEF Swept
    <2> QED BY <2>1
  <1> QED BY <1>1, <1>2, <1>3

\* A transcript that is kept or emptied stays in order.
LEMMA OrderKept ==
    ASSUME TurnsInOrder, rm'.b = rm.b, rm'.turn = rm.turn, rm'.messages \in {rm.messages, <<>>}
    PROVE  TurnsInOrder'
  <1>1. CASE rm'.messages = rm.messages
    BY <1>1 DEF TurnsInOrder
  <1>2. CASE rm'.messages = <<>>
    BY <1>2 DEF TurnsInOrder
  <1> QED BY <1>1, <1>2

-----------------------------------------------------------------------------
\* The step changes no more of the room than a sweep does, apart from what the
\* invariant does not speak of; requests move without becoming messages to act on.
LEMMA QuietStep ==
    ASSUME IInv, rm' \in Room, now' \in Nat, fatal' \in BOOLEAN, UNCHANGED connected,
           rm'.b = rm.b, rm'.turn = rm.turn, rm'.messages \in {rm.messages, <<>>},
           rm'.state = "ACTIVE" => rm.state = "ACTIVE" \/ rm.b # Nil,
           rm'.state \in {"CLOSED", "PURGED"} => rm'.closedAt # Nil,
           req' \in [Handlers -> Request],
           \A h \in Handlers : req'[h].pc = "act" => \/ req'[h] = req[h]
                                                     \/ /\ req'[h].agent \in Agents
                                                        /\ rm.b = Nil => req'[h].op # "message"
    PROVE  IInv'
  <1>1. TypeOK'
    BY DEF IInv, TypeOK
  <1>2. TurnsInOrder'
    BY OrderKept DEF IInv
  <1>3. Unpaired'
    BY DEF IInv, Unpaired
  <1>4. Members'
    BY DEF IInv, Members
  <1> QED BY <1>1, <1>2, <1>3, <1>4 DEF IInv

\* A request is over.
LEMMA IdleRequest == Idle \in Request /\ Idle.pc = "idle"
  BY MemoryAppAssumption DEF Idle, Request

\* Done leaves every other request alone.
LEMMA DoneFacts ==
    ASSUME IInv, NEW h \in Handlers, Done(h)
    PROVE  /\ req' \in [Handlers -> Request]
           /\ \A k \in Handlers : req'[k].pc = "act" => req'[k] = req[k]
  BY IdleRequest DEF Done, IInv, TypeOK

\* Writes decides only whether the process lives on.
LEMMA WritesFacts == ASSUME NEW place, Writes(place) PROVE fatal' \in BOOLEAN
  BY DEF Writes

-----------------------------------------------------------------------------
\* The room after a sweep, a viewer's write in it or not.
LEMMA SweepIInv ==
    ASSUME IInv, PurgeSweep \/ Tick
    PROVE  IInv'
  <1>1. rm \in Room /\ now \in Nat
    BY DEF IInv, TypeOK
  <1>2. CASE PurgeSweep
    BY <1>1, <1>2, SweptFacts, QuietStep DEF PurgeSweep, IInv, TypeOK
  <1>3. CASE Tick
    BY <1>1, <1>3, QuietStep DEF Tick, IInv, TypeOK
  <1> QED BY <1>2, <1>3

\* A viewer request leaves turns, messages and members alone.
LEMMA ViewerIInv ==
    ASSUME IInv, NEW v \in Viewers, ViewerJoin(v) \/ ViewerHeartbeat(v) \/ ViewerLeave(v)
    PROVE  IInv'
  <1> DEFINE r == Swept(rm)
  <1>1. rm \in Room /\ now \in Nat
    BY DEF IInv, TypeOK
  <1>2. r \in Room
    BY <1>1, SweptFacts
  <1> HIDE DEF r
  <1>3. r.viewers[v].hb \in Nat \cup {Nil}
    BY <1>2 DEF Room
  <1>4. PICK row \in [hb : Nat \cup {Nil}, left : BOOLEAN] : ViewerWrite(r, v, row)
    BY <1>1, <1>3 DEF ViewerJoin, ViewerHeartbeat, ViewerLeave, r
  <1> DEFINE s == [r EXCEPT !.viewers[v] = row]
  <1>5. s \in Room /\ s.b = r.b /\ s.turn = r.turn /\ s.messages = r.messages
        /\ s.state = r.state /\ s.closedAt = r.closedAt
    BY <1>2, <1>4 DEF Room
  <1>6. rm' = s /\ UNCHANGED <<now, connected, req>> /\ fatal' \in BOOLEAN
    BY <1>4, WritesFacts DEF ViewerWrite
  <1> HIDE DEF s
  <1> QED BY <1>1, <1>5, <1>6, SweptFacts, QuietStep DEF IInv, TypeOK, r

\* The second agent is written once, into a room nothing was said in.
LEMMA ConnectIInv ==
    ASSUME IInv, NEW a \in Agents, Connect(a)
    PROVE  IInv' /\ rm.b = Nil
  <1> DEFINE s == [rm EXCEPT !.b = a, !.state = "ACTIVE", !.joined = {Owner, a}]
  <1>1. rm \in Room /\ rm.b = Nil /\ rm.messages = <<>>
    BY DEF IInv, TypeOK, Unpaired, Connect
  <1>2. s \in Room /\ s.b = a /\ s.turn = rm.turn /\ s.messages = <<>> /\ s.state = "ACTIVE"
    BY <1>1, NilFacts DEF Room, States
  <1>3. rm' = s /\ connected' = TRUE /\ UNCHANGED <<now, req>> /\ fatal' \in BOOLEAN
    BY WritesFacts DEF Connect
  <1> HIDE DEF s
  <1>4. TypeOK'
    BY <1>2, <1>3 DEF IInv, TypeOK
  <1>5. TurnsInOrder'
    BY <1>2, <1>3 DEF TurnsInOrder
  <1>6. Unpaired' /\ Members'
    BY <1>2, <1>3, NilFacts DEF IInv, Unpaired, Members
  <1> QED BY <1>1, <1>4, <1>5, <1>6 DEF IInv

-----------------------------------------------------------------------------
\* requireRoomMember lets a message through only in an ACTIVE room, which has a
\* second agent.
LEMMA RequireIInv ==
    ASSUME IInv, NEW h \in Handlers, NEW op \in Ops, NEW a \in Agents, NEW t \in 0..MaxTurn,
           RequireRoomMember(h, op, a, t)
    PROVE  IInv' /\ rm'.b = rm.b
  <1> DEFINE x == [pc |-> IF op = "state" THEN "viewers" ELSE "act", op |-> op, agent |-> a,
                   turn |-> t]
  <1>1. rm \in Room /\ now \in Nat /\ req \in [Handlers -> Request]
    BY DEF IInv, TypeOK
  <1>2. rm' = Swept(rm) /\ UNCHANGED <<now, connected, fatal>> /\ req' = [req EXCEPT ![h] = x]
    BY DEF RequireRoomMember
  <1>3. x \in Request
    BY DEF Request
  <1>4. op = "message" => Swept(rm).state = "ACTIVE"
    BY DEF RequireRoomMember, Proceeds
  <1>5. rm.b = Nil => op # "message"
    BY <1>1, <1>4, SweptFacts DEF IInv, Unpaired
  <1>6. x.agent \in Agents /\ x.op = op
    OBVIOUS
  <1> HIDE DEF x
  <1>7. /\ req' \in [Handlers -> Request]
        /\ \A k \in Handlers : req'[k] = IF k = h THEN x ELSE req[k]
    BY <1>1, <1>2, <1>3
  <1> QED BY <1>1, <1>2, <1>5, <1>6, <1>7, SweptFacts, QuietStep DEF IInv, TypeOK

\* A join never changes the peer; it makes the room ACTIVE only if there is one.
LEMMA JoinIInv ==
    ASSUME IInv, NEW h \in Handlers, Join(h)
    PROVE  IInv' /\ rm'.b = rm.b
  <1> DEFINE joined == rm.joined \cup {req[h].agent}
             state == IF rm.b # Nil /\ {Owner, rm.b} \subseteq joined THEN "ACTIVE"
                      ELSE rm.state
             s == [rm EXCEPT !.joined = joined, !.state = state]
             x == [req[h] EXCEPT !.pc = "joined"]
  <1>1. rm \in Room /\ req \in [Handlers -> Request] /\ req[h] \in Request
    BY DEF IInv, TypeOK
  <1>2. joined \in SUBSET Agents
    BY <1>1 DEF Join, Acts, IInv, Members, Room
  <1>3. state \in States /\ (state = "ACTIVE" => rm.state = "ACTIVE" \/ rm.b # Nil)
        /\ (state # "ACTIVE" => state = rm.state)
    BY <1>1 DEF Room, States
  <1>4. rm' = s /\ req' = [req EXCEPT ![h] = x] /\ UNCHANGED <<now, connected>>
        /\ fatal' \in BOOLEAN
    BY <1>1, WritesFacts DEF Join, Room
  <1> HIDE DEF joined, state
  <1>5. s \in Room /\ s.b = rm.b /\ s.turn = rm.turn /\ s.messages = rm.messages
        /\ s.state = state /\ s.closedAt = rm.closedAt
    BY <1>1, <1>2, <1>3 DEF Room
  <1>6. x \in Request /\ x.pc = "joined"
    BY <1>1 DEF Request
  <1> HIDE DEF s, x
  <1>7. /\ req' \in [Handlers -> Request]
        /\ \A k \in Handlers : req'[k] = IF k = h THEN x ELSE req[k]
    BY <1>1, <1>4, <1>6
  <1> QED BY <1>3, <1>4, <1>5, <1>6, <1>7, QuietStep DEF IInv, TypeOK

\* A close leaves turns, messages and the peer alone.
LEMMA CloseIInv ==
    ASSUME IInv, NEW h \in Handlers, Close(h)
    PROVE  IInv' /\ rm'.b = rm.b
  <1> DEFINE s == [rm EXCEPT !.state = "CLOSED", !.closedAt = now]
  <1>1. rm \in Room /\ now \in Nat
    BY DEF IInv, TypeOK
  <1>2. s \in Room /\ s.b = rm.b /\ s.turn = rm.turn /\ s.messages = rm.messages
        /\ s.state = "CLOSED" /\ s.closedAt = now
    BY <1>1 DEF Room, States
  <1>3. rm' = s /\ Done(h) /\ UNCHANGED <<now, connected, fatal>>
    BY DEF Close
  <1> HIDE DEF s
  <1> QED BY <1>1, <1>2, <1>3, DoneFacts, NilFacts, QuietStep DEF IInv, TypeOK

\* A request that changes nothing ends.
LEMMA ReplyIInv ==
    ASSUME IInv, NEW h \in Handlers, MessageRefused(h) \/ Answer(h)
    PROVE  IInv' /\ rm'.b = rm.b
  <1>1. Done(h) /\ UNCHANGED <<now, connected, rm, fatal>>
    BY DEF MessageRefused, Answer
  <1> QED BY <1>1, DoneFacts, QuietStep DEF IInv, TypeOK

\* The message is the room's next turn: what was said before moves one turn further
\* from the end, and the new one takes the last place.
LEMMA MessageIInv ==
    ASSUME IInv, NEW h \in Handlers, Message(h)
    PROVE  IInv' /\ rm'.b = rm.b
  <1> DEFINE last == rm.turn + 1 >= MaxTurns
             msg == [turn |-> rm.turn, sender |-> req[h].agent, text |-> req[h].turn]
             msgs == Append(rm.messages, msg)
             state == IF last THEN "CLOSED" ELSE rm.state
             closed == IF last THEN now ELSE rm.closedAt
             s == [rm EXCEPT !.messages = msgs, !.turn = rm.turn + 1, !.state = state,
                             !.closedAt = closed]
  <1>1. rm \in Room /\ now \in Nat /\ req[h] \in Request
    BY DEF IInv, TypeOK
  <1>2. req[h].pc = "act" /\ req[h].op = "message" /\ req[h].turn = rm.turn
        /\ req[h].agent = (IF rm.turn % 2 = 0 THEN Owner ELSE rm.b) /\ rm.turn < MaxTurn
    BY DEF Message, Acts, TurnMatches, expectedSenderID
  <1>3. req[h].agent \in Agents /\ rm.b # Nil
    BY <1>2 DEF IInv, Members, Unpaired
  <1>4. rm.turn \in 0..MaxTurn /\ rm.messages \in Seq(Said)
        /\ rm.state \in States /\ rm.closedAt \in Nat \cup {Nil}
    BY <1>1 DEF Room
  <1>5. msg \in Said /\ msg.turn = rm.turn /\ msg.sender = req[h].agent /\ msg.text = rm.turn
    BY <1>2, <1>3, <1>4, NilFacts DEF Said
  <1> HIDE DEF msg
  <1>6. /\ msgs \in Seq(Said)
        /\ Len(msgs) = Len(rm.messages) + 1 /\ Len(rm.messages) \in Nat
        /\ \A i \in 1..Len(msgs) :
              msgs[i] = IF i = Len(msgs) THEN msg ELSE rm.messages[i]
    BY <1>4, <1>5
  <1>7. rm' = s /\ Done(h) /\ UNCHANGED <<now, connected, fatal>>
    BY DEF Message, msg
  <1>8. state \in States /\ closed \in Nat \cup {Nil} /\ rm.turn + 1 \in 0..MaxTurn
        /\ (state \in {"CLOSED", "PURGED"} => closed # Nil)
    BY <1>1, <1>2, <1>4, NilFacts DEF States, IInv, TypeOK
  <1> HIDE DEF msgs, state, closed
  <1>9. s \in Room /\ s.b = rm.b /\ s.turn = rm.turn + 1 /\ s.messages = msgs
        /\ s.state = state /\ s.closedAt = closed
    BY <1>1, <1>6, <1>8 DEF Room
  <1> HIDE DEF s
  <1>10. TypeOK'
    BY <1>1, <1>7, <1>8, <1>9, DoneFacts DEF IInv, TypeOK
  <1>11. TurnsInOrder'
    <2>1. rm'.messages = msgs /\ rm'.turn = rm.turn + 1 /\ rm'.b = rm.b
      BY <1>7, <1>9
    <2>2. rm.turn \in Nat
      BY <1>4, NilFacts
    <2>3. ASSUME NEW i \in 1..Len(msgs)
          PROVE  /\ msgs[i].turn = (rm.turn + 1) - Len(msgs) + i - 1
                 /\ msgs[i].sender = IF msgs[i].turn % 2 = 0 THEN Owner ELSE rm.b
                 /\ msgs[i].text = msgs[i].turn
      <3>1. CASE i = Len(msgs)
        <4>1. msgs[i].turn = rm.turn /\ msgs[i].sender = req[h].agent /\ msgs[i].text = rm.turn
          BY <1>5, <1>6, <3>1
        <4>2. PICK n \in Nat : n = Len(msgs)
          BY <1>6
        <4>3. (rm.turn + 1) - n + n - 1 = rm.turn
          BY <2>2
        <4> QED BY <1>2, <3>1, <4>1, <4>2, <4>3
      <3>2. CASE i # Len(msgs)
        <4>1. i \in 1..Len(rm.messages) /\ msgs[i] = rm.messages[i]
          BY <1>6, <3>2
        <4>2. /\ rm.messages[i].turn = rm.turn - Len(rm.messages) + i - 1
              /\ rm.messages[i].sender = IF rm.messages[i].turn % 2 = 0 THEN Owner ELSE rm.b
              /\ rm.messages[i].text = rm.messages[i].turn
          BY <4>1 DEF IInv, TurnsInOrder
        <4>3. (rm.turn + 1) - Len(msgs) + i - 1 = rm.turn - Len(rm.messages) + i - 1
          BY <1>6, <2>2
        <4> QED BY <4>1, <4>2, <4>3
      <3> QED BY <3>1, <3>2
    <2> QED BY <2>1, <2>3 DEF TurnsInOrder
  <1>12. Unpaired' /\ Members'
    BY <1>3, <1>7, <1>9, DoneFacts DEF IInv, Unpaired, Members
  <1> QED BY <1>7, <1>9, <1>10, <1>11, <1>12 DEF IInv

-----------------------------------------------------------------------------
\* A listing with its open room.
LEMMA InitIInv == Init => IInv
  <1> SUFFICES ASSUME Init PROVE IInv
    OBVIOUS
  <1> DEFINE none == [v \in Viewers |-> NoViewer]
  <1>1. none \in [Viewers -> [hb : Nat \cup {Nil}, left : BOOLEAN]]
    BY DEF NoViewer
  <1> HIDE DEF none
  <1>2. <<>> \in Seq(Said)
    OBVIOUS
  <1>3. rm = [state |-> "OPEN", b |-> Nil, turn |-> 0, closedAt |-> Nil, joined |-> {Owner},
              messages |-> <<>>, viewers |-> none]
    BY DEF Init, none
  <1>4. rm \in Room /\ rm.state = "OPEN" /\ rm.b = Nil /\ rm.messages = <<>>
    BY <1>1, <1>2, <1>3, NilFacts DEF Room, States
  <1>5. TypeOK
    BY <1>4, IdleRequest DEF Init, TypeOK
  <1>6. TurnsInOrder
    BY <1>4 DEF TurnsInOrder
  <1>7. Unpaired /\ Members
    BY <1>4, IdleRequest DEF Init, Unpaired, Members
  <1> QED BY <1>5, <1>6, <1>7 DEF IInv

\* The invariant is inductive, and no step replaces the second agent.
LEMMA NextIInv == IInv /\ [Next]_vars => IInv' /\ (rm.b # Nil => rm'.b = rm.b)
  <1> SUFFICES ASSUME IInv, [Next]_vars PROVE IInv' /\ (rm.b # Nil => rm'.b = rm.b)
    OBVIOUS
  <1>1. CASE UNCHANGED vars
    BY <1>1, QuietStep DEF IInv, TypeOK, vars
  <1>2. CASE Tick \/ PurgeSweep
    <2>1. rm'.b = rm.b
      BY <1>2, SweptFacts DEF Tick, PurgeSweep, IInv, TypeOK
    <2> QED BY <1>2, <2>1, SweepIInv
  <1>3. ASSUME NEW a \in Agents, Connect(a) PROVE IInv' /\ (rm.b # Nil => rm'.b = rm.b)
    BY <1>3, ConnectIInv
  <1>4. ASSUME NEW h \in Handlers,
               \/ \E op \in Ops, a \in Agents, t \in 0..MaxTurn : RequireRoomMember(h, op, a, t)
               \/ Join(h) \/ Message(h) \/ MessageRefused(h) \/ Close(h) \/ Answer(h)
        PROVE  IInv' /\ rm'.b = rm.b
    BY <1>4, RequireIInv, JoinIInv, MessageIInv, ReplyIInv, CloseIInv
  <1>5. ASSUME NEW v \in Viewers, ViewerJoin(v) \/ ViewerHeartbeat(v) \/ ViewerLeave(v)
        PROVE  IInv' /\ rm'.b = rm.b
    <2>1. Swept(rm) \in Room /\ Swept(rm).b = rm.b
      BY SweptFacts DEF IInv, TypeOK
    <2>2. rm'.b = Swept(rm).b
      BY <1>5, <2>1 DEF ViewerJoin, ViewerHeartbeat, ViewerLeave, ViewerWrite, Room
    <2> QED BY <1>5, <2>1, <2>2, ViewerIInv
  <1> QED BY <1>1, <1>2, <1>3, <1>4, <1>5 DEF Next

\* So it holds throughout.
LEMMA Invariance == Spec => []IInv
  BY InitIInv, NextIInv, PTL DEF Spec

\* Rooms and requests of the in-memory API keep their types and an ended room its
\* time, for any number of overlapping requests.
THEOREM MemoryTypeCorrect == Spec => []TypeOK
  <1>1. IInv => TypeOK
    BY DEF IInv
  <1> QED BY <1>1, Invariance, PTL

\* handleRoomMessage keeps the transcript in turn order, each turn with the text written
\* for it, although it checks the room in one critical section and writes it in another,
\* for any requests and bounds.
THEOREM MemoryTurnsInOrder == Spec => []TurnsInOrder
  <1>1. IInv => TurnsInOrder
    BY DEF IInv
  <1> QED BY <1>1, Invariance, PTL

\* Once an agent has connected no connect, join or revival replaces it.
THEOREM PeerStays == Spec => PeerNeverChanges
  <1>1. IInv /\ [Next]_vars => [rm.b # Nil => rm'.b = rm.b]_vars
    BY NextIInv
  <1> QED BY <1>1, Invariance, PTL DEF Spec, PeerNeverChanges
=============================================================================
