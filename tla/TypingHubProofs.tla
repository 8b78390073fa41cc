-------------------------- MODULE TypingHubProofs --------------------------
(***************************************************************************)
(* Proofs about TypingHub, for any subscriptions, goroutines, buffer size  *)
(* and TTLs: presences always have something that ends them, no timer ends *)
(* one early, no open stream misses one, and a subscription ends once.     *)
(***************************************************************************)
EXTENDS TypingHub, FiniteSetTheorems, TLAPS

\* What a goroutine holds while it waits for the mutex or broadcasts.
Calls ==
    \A c \in Callers :
        /\ At(c, "start") \/ At(c, "stop") => call[c].actor \in Agents
        /\ At(c, "start") => call[c].now <= clock
        /\ At(c, "send") => call[c].evs # <<>>

\* A presence is a start that expires no later than its timer is due.
Presences ==
    \A a \in Agents :
        presence[a] # Nil => presence[a].ev.state = "start" /\ presence[a].ev.exp <= presence[a].due

\* An expire call that waits is not early.
FiredLate == \A f \in fired : f.exp <= clock

IInv == TypeOK /\ Calls /\ Presences /\ FiredLate /\ PresenceHasTimer /\ NothingMissed

-----------------------------------------------------------------------------
(* Goroutines and events *)

\* A goroutine with nothing to do, and one with another place.
LEMMA IdleFacts == Idle \in Call /\ Idle.pc = "idle"
  <1>1. <<>> \in Seq(Event)
    OBVIOUS
  <1> QED BY <1>1 DEF Idle, Call

\* The events the hub sends are events.
LEMMA EventFacts ==
    /\ \A a \in Agents, n \in Nat :
         StartEvent(a, n) \in Event /\ StartEvent(a, n).state = "start" /\ StartEvent(a, n).exp = n
    /\ \A a \in Agents : StopEvent(a) \in Event
  BY DEF StartEvent, StopEvent, Event

\* A broadcast goes to every registered subscription, or is over at once.
LEMMA BroadcastFacts ==
    ASSUME NEW c, NEW evs \in Seq(Event), NEW next \in {"idle", "clear"}
    PROVE  LET x == Broadcast(c, evs, next)
           IN  /\ x \in Call
               /\ x.pc \in {next, "send"}
               /\ x.pc = "send" => x.evs # <<>>
               /\ evs # <<>> /\ Registered # {} =>
                    x.pc = "send" /\ x.evs = evs /\ x.left = Registered
  <1>1. Registered \in SUBSET Subs
    BY DEF Registered
  <1>2. <<>> \in Seq(Event)
    OBVIOUS
  <1> QED BY <1>1, <1>2 DEF Broadcast, Idle, Call

\* One goroutine's call is replaced.
LEMMA CallStep ==
    ASSUME call \in [Callers -> Call], NEW c \in Callers, NEW x \in Call,
           call' = [call EXCEPT ![c] = x]
    PROVE  /\ call' \in [Callers -> Call]
           /\ call'[c] = x
           /\ \A d \in Callers : d # c => call'[d] = call[d]
  OBVIOUS

\* Pruning removes presences and changes none.
LEMMA PrunedFacts ==
    ASSUME TypeOK, NEW n \in Nat
    PROVE  /\ Pruned(n) \in [Agents -> Presence \cup {Nil}]
           /\ \A a \in Agents : Pruned(n)[a] # Nil => Pruned(n)[a] = presence[a]
  BY DEF TypeOK, Pruned

-----------------------------------------------------------------------------
(* Steps that only remove presences, and that no broadcast takes *)

\* A stream has been sent the event or will be.
Told(ev, s) ==
    \/ ev \in shown[s] \cup cut
    \/ \E i \in DOMAIN ch[s] : ch[s][i] = ev
    \/ OnItsWay(ev, s)

\* One goroutine's part in OnItsWay.
Carries(c, ev, s) ==
    /\ At(c, "send")
    /\ \/ s \in call[c].left \cup call[c].full /\ ev = Head(call[c].evs)
       \/ s \in call[c].subs /\ \E i \in 2..Len(call[c].evs) : ev = call[c].evs[i]

\* What Told says of a presence is what NothingMissed asks for.
LEMMA ToldFacts ==
    /\ NothingMissed => \A s \in Subs, a \in Agents :
         sub[s] = "open" /\ presence[a] # Nil => Told(presence[a].ev, s)
    /\ \A ev, s : Told(ev, s) <=>
         \/ ev \in shown[s] \cup cut
         \/ \E i \in DOMAIN ch[s] : ch[s][i] = ev
         \/ \E c \in Callers : Carries(c, ev, s)
  BY DEF NothingMissed, Told, OnItsWay, Carries

\* To be told after a step: what was written stays written, and whoever carried the
\* event, a goroutine or the channel, still does or has handed it on.
LEMMA ToldStill ==
    ASSUME NEW e, NEW s \in Subs, Told(e, s),
           e \in shown[s] \cup cut => Told(e, s)',
           \A c \in Callers : Carries(c, e, s) => Told(e, s)',
           (\E i \in DOMAIN ch[s] : ch[s][i] = e) => Told(e, s)'
    PROVE  Told(e, s)'
  BY ToldFacts

\* A goroutine that carries the event will tell.
LEMMA CarriesTells ==
    ASSUME NEW e, NEW s \in Subs, NEW c \in Callers, Carries(c, e, s)'
    PROVE  Told(e, s)'
  BY DEF Told, OnItsWay, Carries

\* Nobody misses what was there before.
LEMMA NothingMissedStill ==
    ASSUME NothingMissed, sub' = sub, ch' = ch, shown' = shown, cut' = cut,
           \A d \in Callers : call'[d] = call[d] \/ call[d].pc # "send",
           \A a \in Agents : presence'[a] # Nil =>
               presence[a] # Nil /\ presence'[a].ev = presence[a].ev
    PROVE  NothingMissed'
  <1>1. \A ev, s : OnItsWay(ev, s) => OnItsWay(ev, s)'
    BY DEF OnItsWay, At
  <1> QED BY <1>1 DEF NothingMissed

\* The steps of handlers that check and read, and of the hub that end presences:
\* one call is replaced at most, presences go and none comes.
LEMMA RemovalIInv ==
    ASSUME IInv, NEW c \in Callers, NEW x \in Call, call[c].pc # "send",
           call' = [call EXCEPT ![c] = x],
           x.pc \in {"start", "stop"} => x.actor \in Agents,
           x.pc = "start" => x.now <= clock,
           x.pc = "send" => x.evs # <<>>,
           turn' \in Agents, active' \in BOOLEAN, fired' \subseteq fired,
           presence' \in [Agents -> Presence \cup {Nil}],
           \A a \in Agents : presence'[a] # Nil =>
               /\ presence'[a] = presence[a]
               /\ \A f \in fired \ fired' : f.actor = a => presence[a].ev.exp # f.exp,
           UNCHANGED <<clock, sub, ch, shown, cut, crashed>>
    PROVE  IInv'
  <1>1. /\ call' \in [Callers -> Call]
        /\ call'[c] = x
        /\ \A d \in Callers : d # c => call'[d] = call[d]
    BY CallStep DEF IInv, TypeOK
  <1>2. TypeOK'
    BY <1>1 DEF IInv, TypeOK
  <1>3. Calls'
    BY <1>1 DEF IInv, Calls, At
  <1>4. Presences' /\ FiredLate'
    BY DEF IInv, Presences, FiredLate
  <1>5. PresenceHasTimer'
    <2> SUFFICES ASSUME NEW a \in Agents, presence'[a] # Nil
                 PROVE  presence'[a].armed \/ [actor |-> a, exp |-> presence'[a].ev.exp] \in fired'
      BY DEF PresenceHasTimer
    <2> DEFINE f == [actor |-> a, exp |-> presence[a].ev.exp]
    <2>1. presence'[a] = presence[a] /\ (presence[a].armed \/ f \in fired)
      BY DEF IInv, PresenceHasTimer
    <2>2. f.actor = a /\ f.exp = presence[a].ev.exp
      OBVIOUS
    <2>3. f \in fired => f \in fired'
      BY <2>1, <2>2
    <2> QED BY <2>1, <2>3
  <1>6. NothingMissed'
    <2>1. \A d \in Callers : call'[d] = call[d] \/ call[d].pc # "send"
      BY <1>1
    <2> QED BY <2>1, NothingMissedStill DEF IInv
  <1> QED BY <1>2, <1>3, <1>4, <1>5, <1>6 DEF IInv

-----------------------------------------------------------------------------
(* One lemma per action *)

\* Time and the room's end do not touch the hub.
LEMMA TickIInv ==
    ASSUME IInv, Tick \/ RoomEnds
    PROVE  IInv'
  <1>1. /\ clock \in Nat /\ clock' \in Nat /\ clock <= clock' /\ active' \in BOOLEAN
        /\ UNCHANGED <<turn, presence, fired, sub, ch, shown, call, cut, crashed>>
    <2>1. clock \in Nat /\ active \in BOOLEAN
      BY DEF IInv, TypeOK
    <2>2. CASE Tick
      BY <2>1, <2>2 DEF Tick, room, hub, streams
    <2>3. CASE RoomEnds
      <3>1. active' = FALSE /\ UNCHANGED <<clock, turn, presence, fired, sub, ch, shown, call, cut, crashed>>
        BY <2>3 DEF RoomEnds, hub, streams
      <3>2. active' \in BOOLEAN
        BY <3>1
      <3>3. clock' \in Nat /\ clock <= clock'
        BY <2>1, <3>1
      <3> QED BY <2>1, <3>1, <3>2, <3>3
    <2> QED BY <2>2, <2>3
  <1>2. TypeOK'
    BY <1>1 DEF IInv, TypeOK
  <1>3. Calls' 
    <2>1. \A c \in Callers : call[c].now \in Nat
      BY DEF IInv, TypeOK, Call
    <2> QED BY <1>1, <2>1 DEF IInv, Calls, At
  <1>4. FiredLate'
    <2>1. \A f \in fired : f.exp \in Nat
      BY DEF IInv, TypeOK
    <2> QED BY <1>1, <2>1 DEF IInv, FiredLate
  <1>5. Presences' /\ PresenceHasTimer'
    BY <1>1 DEF IInv, Presences, PresenceHasTimer
  <1>6. NothingMissed'
    BY <1>1, NothingMissedStill DEF IInv
  <1> QED BY <1>2, <1>3, <1>4, <1>5, <1>6 DEF IInv

\* A handler that was idle has a call to make.
LEMMA CallerIInv ==
    ASSUME IInv, NEW h \in Handlers, NEW x \in Call, At(h, "idle"),
           call' = [call EXCEPT ![h] = x], x.pc \in {"start", "stop", "clear"},
           x.pc \in {"start", "stop"} => x.actor \in Agents, x.pc = "start" => x.now <= clock,
           turn' \in Agents, active' \in BOOLEAN,
           UNCHANGED <<clock, presence, fired, sub, ch, shown, cut, crashed>>
    PROVE  IInv'
  <1>1. h \in Callers /\ call[h].pc # "send"
    BY DEF Callers, At
  <1>2. presence' \in [Agents -> Presence \cup {Nil}] /\ presence' = presence
        /\ fired' \subseteq fired /\ fired \ fired' = {}
    BY DEF IInv, TypeOK
  <1> QED BY <1>1, <1>2, RemovalIInv

\* A request that has read what it needs waits for the hub.
LEMMA RequestIInv ==
    ASSUME IInv, NEW h \in Handlers, Request(h)
    PROVE  IInv'
  <1>1. clock \in Nat /\ turn \in Agents /\ active \in BOOLEAN
    BY DEF IInv, TypeOK
  <1>2. ASSUME NEW a \in Agents, NEW ttl \in TTLs, TypingStart(h, a, ttl) PROVE IInv'
    <2> DEFINE x == [Idle EXCEPT !.pc = "start", !.actor = a, !.now = clock, !.ttl = ttl]
    <2>1. ttl \in Nat
      BY TypingNumbersAssumption
    <2>2. x \in Call /\ x.pc = "start" /\ x.actor = a /\ x.now <= clock
      <3>1. x \in Call /\ x.pc = "start" /\ x.actor = a /\ x.now = clock
        BY <1>1, <2>1, IdleFacts DEF Call
      <3> HIDE DEF x
      <3> QED BY <1>1, <3>1
    <2>3. /\ call' = [call EXCEPT ![h] = x] /\ At(h, "idle")
          /\ UNCHANGED <<clock, turn, active, presence, fired, sub, ch, shown, cut, crashed>>
      BY <1>2 DEF TypingStart, room, hub, streams
    <2>4. turn' \in Agents /\ active' \in BOOLEAN
      BY <1>1, <2>3
    <2> HIDE DEF x
    <2> QED BY <2>2, <2>3, <2>4, CallerIInv
  <1>3. ASSUME NEW a \in Agents, TypingStop(h, a) PROVE IInv'
    <2> DEFINE x == [Idle EXCEPT !.pc = "stop", !.actor = a]
    <2>1. x \in Call /\ x.pc = "stop" /\ x.actor = a
      BY IdleFacts DEF Call
    <2>2. /\ call' = [call EXCEPT ![h] = x] /\ At(h, "idle")
          /\ UNCHANGED <<clock, turn, active, presence, fired, sub, ch, shown, cut, crashed>>
      BY <1>3 DEF TypingStop, room, hub, streams
    <2> HIDE DEF x
    <2> QED BY <1>1, <2>1, <2>2, CallerIInv
  <1>4. ASSUME NEW a \in Agents, Message(h, a) PROVE IInv'
    <2> DEFINE nx == IF active' THEN "idle" ELSE "clear"
               x == [Idle EXCEPT !.pc = "stop", !.actor = a, !.next = nx]
    <2>1. nx \in {"idle", "clear"}
      OBVIOUS
    <2>2. turn' \in Agents
      <3>1. \E b \in Agents : b # a
        <4>1. SUFFICES ASSUME Agents = {a} PROVE FALSE
          OBVIOUS
        <4> QED BY <4>1, FS_Singleton, TypingAgentsAssumption
      <3> QED BY <1>4, <3>1 DEF Message, Other
    <2>3. /\ call' = [call EXCEPT ![h] = x] /\ At(h, "idle") /\ active' \in BOOLEAN
          /\ UNCHANGED <<clock, presence, fired, sub, ch, shown, cut, crashed>>
      BY <1>4 DEF Message, hub, streams
    <2> HIDE DEF nx
    <2>4. x \in Call /\ x.pc = "stop" /\ x.actor = a
      BY <2>1, IdleFacts DEF Call
    <2> HIDE DEF x
    <2> QED BY <2>2, <2>3, <2>4, CallerIInv
  <1>5. ASSUME Close(h) PROVE IInv'
    <2> DEFINE x == [Idle EXCEPT !.pc = "clear"]
    <2>1. x \in Call /\ x.pc = "clear"
      BY IdleFacts DEF Call
    <2>2. /\ call' = [call EXCEPT ![h] = x] /\ At(h, "idle") /\ active' = FALSE
          /\ UNCHANGED <<clock, turn, presence, fired, sub, ch, shown, cut, crashed>>
      BY <1>5 DEF Close, hub, streams
    <2> HIDE DEF x
    <2> QED BY <1>1, <2>1, <2>2, CallerIInv
  <1> QED BY <1>2, <1>3, <1>4, <1>5 DEF Request

\* Stop, ClearRoom, expire and a start given up end presences or leave them.
LEMMA StopIInv ==
    ASSUME IInv, NEW h \in Callers, Stop(h) \/ StartTooLate(h) \/ ClearRoom(h)
    PROVE  IInv'
  <1>1. /\ call[h] \in Call /\ call[h].next \in {"idle", "clear"}
        /\ turn \in Agents /\ active \in BOOLEAN
        /\ presence \in [Agents -> Presence \cup {Nil}]
        /\ At(h, "stop") => call[h].actor \in Agents
    BY DEF IInv, TypeOK, Call, Calls
  <1>2. ASSUME Stop(h) PROVE IInv'
    <2> DEFINE a == call[h].actor
               evs == IF presence[a] = Nil THEN <<>> ELSE <<StopEvent(a)>>
               x == Broadcast(h, evs, call[h].next)
    <2>1. a \in Agents /\ call[h].pc # "send"
      BY <1>1, <1>2 DEF Stop, At
    <2>2. evs \in Seq(Event)
      BY <2>1, EventFacts
    <2> HIDE DEF evs
    <2>3. x \in Call /\ x.pc \in {call[h].next, "send"} /\ (x.pc = "send" => x.evs # <<>>)
      BY <1>1, <2>2, BroadcastFacts
    <2>4. /\ call' = [call EXCEPT ![h] = x] /\ presence' = [presence EXCEPT ![a] = Nil]
          /\ UNCHANGED <<clock, turn, active, fired, sub, ch, shown, cut, crashed>>
      BY <1>2 DEF Stop, room, streams, evs
    <2> HIDE DEF x, a
    <2> QED BY <1>1, <2>1, <2>3, <2>4, RemovalIInv
  <1>3. ASSUME StartTooLate(h) PROVE IInv'
    <2>1. /\ call' = [call EXCEPT ![h] = Idle] /\ call[h].pc # "send"
          /\ UNCHANGED <<clock, turn, active, presence, fired, sub, ch, shown, cut, crashed>>
      BY <1>3 DEF StartTooLate, At, room, hub, streams
    <2> QED BY <1>1, <2>1, IdleFacts, RemovalIInv
  <1>4. ASSUME ClearRoom(h) PROVE IInv'
    <2> DEFINE here == {a \in Agents : presence[a] # Nil}
    <2>1. Cardinality(here) \in Nat
      <3>1. IsFiniteSet(here)
        BY FS_Subset, TypingAgentsAssumption
      <3> QED BY <3>1, FS_CardinalityType
    <2>2. PICK order \in [1..Cardinality(here) -> here] :
            call' = [call EXCEPT ![h] =
                       Broadcast(h, [i \in DOMAIN order |-> StopEvent(order[i])], "idle")]
      BY <1>4 DEF ClearRoom
    <2> DEFINE evs == [i \in DOMAIN order |-> StopEvent(order[i])]
               x == Broadcast(h, evs, "idle")
    <2>3. evs \in Seq(Event)
      <3> DEFINE n == Cardinality(here)
      <3>1. DOMAIN order = 1..n /\ \A i \in 1..n : order[i] \in Agents
        OBVIOUS
      <3>2. evs \in [1..n -> Event]
        BY <3>1, EventFacts
      <3> QED BY <2>1, <3>2
    <2>4. x \in Call /\ x.pc \in {"idle", "send"} /\ (x.pc = "send" => x.evs # <<>>)
      BY <2>3, BroadcastFacts
    <2>5. /\ call' = [call EXCEPT ![h] = x] /\ call[h].pc # "send"
          /\ presence' = [a \in Agents |-> Nil]
          /\ UNCHANGED <<clock, turn, active, fired, sub, ch, shown, cut, crashed>>
      BY <1>4, <2>2 DEF ClearRoom, At, room, streams
    <2> HIDE DEF x
    <2> QED BY <1>1, <2>4, <2>5, RemovalIInv
  <1> QED BY <1>2, <1>3, <1>4

\* expire ends its own presence only.
LEMMA ExpireIInv ==
    ASSUME IInv, NEW t \in Timers, NEW f \in fired, Expire(t, f)
    PROVE  IInv'
  <1> DEFINE a == f.actor
             mine == presence[a] # Nil /\ presence[a].ev.exp = f.exp
             evs == IF mine THEN <<StopEvent(a)>> ELSE <<>>
             x == Broadcast(t, evs, "idle")
  <1>1. /\ t \in Callers /\ call[t].pc # "send" /\ a \in Agents
        /\ turn \in Agents /\ active \in BOOLEAN
        /\ presence \in [Agents -> Presence \cup {Nil}]
    BY DEF IInv, TypeOK, Callers, Expire, At
  <1>2. evs \in Seq(Event)
    BY <1>1, EventFacts
  <1>3. x \in Call /\ x.pc \in {"idle", "send"} /\ (x.pc = "send" => x.evs # <<>>)
    BY <1>2, BroadcastFacts
  <1>4. /\ call' = [call EXCEPT ![t] = x] /\ fired' = fired \ {f}
        /\ presence' = IF mine THEN [presence EXCEPT ![a] = Nil] ELSE presence
        /\ UNCHANGED <<clock, turn, active, sub, ch, shown, cut, crashed>>
    BY DEF Expire, room, streams
  <1>5. /\ presence' \in [Agents -> Presence \cup {Nil}]
        /\ \A b \in Agents : presence'[b] # Nil =>
             /\ presence'[b] = presence[b]
             /\ \A g \in fired \ fired' : g.actor = b => presence[b].ev.exp # g.exp
    BY <1>1, <1>4
  <1> HIDE DEF x, evs, mine
  <1> QED BY <1>1, <1>3, <1>4, <1>5, RemovalIInv

\* Start puts a presence with an armed timer and tells every open stream.
LEMMA StartIInv ==
    ASSUME IInv, NEW h \in Callers, Start(h)
    PROVE  IInv'
  <1> DEFINE a == call[h].actor
             ev == StartEvent(a, call[h].now + call[h].ttl)
             p == [ev |-> ev, due |-> clock + call[h].ttl, armed |-> TRUE]
             x == Broadcast(h, <<ev>>, "idle")
  <1>1. /\ call \in [Callers -> Call] /\ a \in Agents /\ call[h].now \in Nat /\ call[h].ttl \in Nat
        /\ clock \in Nat /\ call[h].now <= clock /\ call[h].pc = "start"
    BY DEF IInv, TypeOK, Call, Calls, Start, At
  <1>2. call[h].now + call[h].ttl \in Nat /\ clock + call[h].ttl \in Nat
        /\ call[h].now + call[h].ttl <= clock + call[h].ttl
    BY <1>1
  <1>3. /\ call' = [call EXCEPT ![h] = x] /\ presence' = [Pruned(call[h].now) EXCEPT ![a] = p]
        /\ UNCHANGED <<clock, turn, active, fired, sub, ch, shown, cut, crashed>>
    BY DEF Start, room, streams
  <1>4. ev \in Event /\ ev.state = "start" /\ ev.exp = call[h].now + call[h].ttl
    BY <1>1, <1>2, EventFacts
  <1> HIDE DEF ev
  <1>5. p \in Presence /\ p.ev = ev /\ p.armed /\ p.ev.exp <= p.due
    BY <1>2, <1>4 DEF Presence
  <1>6. <<ev>> \in Seq(Event) /\ <<ev>> # <<>> /\ Head(<<ev>>) = ev
    BY <1>4
  <1>7. /\ x \in Call /\ x.pc \in {"idle", "send"} /\ (x.pc = "send" => x.evs # <<>>)
        /\ Registered # {} => x.pc = "send" /\ x.evs = <<ev>> /\ x.left = Registered
    BY <1>6, BroadcastFacts
  <1> HIDE DEF p, x, a
  <1>8. /\ call' \in [Callers -> Call] /\ call'[h] = x
        /\ \A d \in Callers : d # h => call'[d] = call[d]
    BY <1>1, <1>3, <1>7, CallStep
  <1>9. /\ presence' \in [Agents -> Presence \cup {Nil}] /\ presence'[a] = p
        /\ \A b \in Agents : b # a /\ presence'[b] # Nil => presence'[b] = presence[b]
    BY <1>1, <1>3, <1>5, PrunedFacts DEF IInv
  <1>10. TypeOK'
    BY <1>3, <1>8, <1>9 DEF IInv, TypeOK
  <1>11. Calls'
    BY <1>3, <1>7, <1>8 DEF IInv, Calls, At
  <1>12. Presences' /\ FiredLate' /\ PresenceHasTimer'
    BY <1>3, <1>4, <1>5, <1>9 DEF IInv, Presences, FiredLate, PresenceHasTimer
  <1>13. NothingMissed'
    <2> SUFFICES ASSUME NEW s \in Subs, NEW b \in Agents, NEW e,
                        sub'[s] = "open", presence'[b] # Nil, e = presence'[b].ev
                 PROVE  Told(e, s)'
      BY DEF NothingMissed, Told
    <2>1. CASE b = a
      <3>1. s \in Registered
        BY <1>3 DEF Registered
      <3>2. call'[h].pc = "send" /\ s \in call'[h].left /\ ev = Head(call'[h].evs)
        BY <1>6, <1>7, <1>8, <3>1
      <3>3. e = ev
        BY <1>5, <1>9, <2>1
      <3> QED BY <3>2, <3>3 DEF Told, OnItsWay, At
    <2>2. CASE b # a
      <3>1. presence'[b] = presence[b] /\ sub[s] = "open"
        BY <1>3, <1>9, <2>2
      <3>2. Told(e, s)
        BY <3>1, ToldFacts DEF IInv
      <3>3. ASSUME NEW c \in Callers, Carries(c, e, s) PROVE Told(e, s)'
        <4>1. Carries(c, e, s)'
          BY <1>1, <1>8, <3>3 DEF Carries, At
        <4> QED BY <4>1, CarriesTells
      <3> QED BY <1>3, <3>2, <3>3, ToldStill DEF Told
    <2> QED BY <2>1, <2>2
  <1> QED BY <1>10, <1>11, <1>12, <1>13 DEF IInv

\* A timer that fires hands its presence to a waiting expire call.
LEMMA TimerFiresIInv ==
    ASSUME IInv, NEW a \in Agents, TimerFires(a)
    PROVE  IInv'
  <1> DEFINE f == [actor |-> a, exp |-> presence[a].ev.exp]
             p == [presence[a] EXCEPT !.armed = FALSE]
  <1>1. /\ presence[a] \in Presence /\ presence[a].due <= clock /\ clock \in Nat
        /\ presence \in [Agents -> Presence \cup {Nil}]
        /\ presence[a].ev.exp <= presence[a].due /\ presence[a].ev.state = "start"
    BY DEF IInv, TypeOK, TimerFires, Presences
  <1>2. /\ p \in Presence /\ p.ev = presence[a].ev /\ p.due = presence[a].due
        /\ presence[a].ev \in Event
    BY <1>1 DEF Presence
  <1>3. presence[a].ev.exp \in Nat /\ presence[a].due \in Nat
    BY <1>1, <1>2 DEF Presence, Event
  <1>4. f \in [actor : Agents, exp : Nat] /\ f.exp = presence[a].ev.exp /\ f.exp <= clock
    BY <1>1, <1>3
  <1>5. /\ presence' = [presence EXCEPT ![a] = p] /\ fired' = fired \cup {f}
        /\ UNCHANGED <<clock, turn, active, sub, ch, shown, call, cut, crashed>>
    BY DEF TimerFires, room, streams
  <1>6. f = [actor |-> a, exp |-> p.ev.exp]
    BY <1>2
  <1> HIDE DEF p, f
  <1>7. /\ presence' \in [Agents -> Presence \cup {Nil}] /\ presence'[a] = p
        /\ \A b \in Agents : b # a => presence'[b] = presence[b]
    BY <1>1, <1>2, <1>5
  <1>8. TypeOK'
    BY <1>4, <1>5, <1>7 DEF IInv, TypeOK
  <1>9. Calls' /\ FiredLate'
    BY <1>4, <1>5 DEF IInv, Calls, At, FiredLate
  <1>10. Presences'
    BY <1>1, <1>2, <1>7 DEF IInv, Presences
  <1>11. PresenceHasTimer'
    <2> SUFFICES ASSUME NEW b \in Agents, presence'[b] # Nil
                 PROVE  presence'[b].armed \/ [actor |-> b, exp |-> presence'[b].ev.exp] \in fired'
      BY DEF PresenceHasTimer
    <2>1. CASE b = a
      BY <1>5, <1>6, <1>7, <2>1
    <2>2. CASE b # a
      BY <1>5, <1>7, <2>2 DEF IInv, PresenceHasTimer
    <2> QED BY <2>1, <2>2
  <1>12. NothingMissed'
    <2>1. \A b \in Agents : presence'[b] # Nil =>
             presence[b] # Nil /\ presence'[b].ev = presence[b].ev
      BY <1>2, <1>7 DEF TimerFires
    <2> QED BY <1>5, <2>1, NothingMissedStill DEF IInv
  <1> QED BY <1>8, <1>9, <1>10, <1>11, <1>12 DEF IInv

-----------------------------------------------------------------------------
(* Broadcasts *)

\* A step of a broadcast leaves the hub's maps and the clock alone.
LEMMA BroadcastIInv ==
    ASSUME IInv, TypeOK', Calls', NothingMissed',
           UNCHANGED <<clock, presence, fired>>
    PROVE  IInv'
  BY DEF IInv, Presences, FiredLate, PresenceHasTimer

\* A send puts the event into the channel or the subscription on the list of the full.
LEMMA SendToIInv ==
    ASSUME IInv, NEW c \in Callers, NEW q \in Subs, SendTo(c, q)
    PROVE  IInv'
  <1> DEFINE me == call[c]
             ev == Head(me.evs)
             room1 == Len(ch[q]) < Buffer
             x == IF room1 THEN [me EXCEPT !.left = @ \ {q}]
                           ELSE [me EXCEPT !.left = @ \ {q}, !.full = @ \cup {q}]
             n == IF room1 THEN Append(ch[q], ev) ELSE ch[q]
  <1>1. /\ call \in [Callers -> Call] /\ me \in Call /\ me.pc = "send" /\ me.evs # <<>>
        /\ q \in me.left /\ ch \in [Subs -> Seq(Event)] /\ ch[q] \in Seq(Event)
        /\ Len(ch[q]) <= Buffer
    BY DEF IInv, TypeOK, Calls, SendTo, At
  <1>2. me.evs \in Seq(Event) /\ me.left \in SUBSET Subs /\ me.full \in SUBSET Subs
    BY <1>1 DEF Call
  <1>3. ev \in Event
    BY <1>1, <1>2
  <1>4. /\ UNCHANGED <<clock, turn, active, presence, fired, sub, shown, cut, crashed>>
        /\ call' = [call EXCEPT ![c] = x]
        /\ ch' = [ch EXCEPT ![q] = n]
    <2>1. UNCHANGED <<clock, turn, active, presence, fired, sub, shown, cut, crashed>>
      BY DEF SendTo, room, hub
    <2>2. CASE room1
      <3>1. /\ ch' = [ch EXCEPT ![q] = Append(@, Head(call[c].evs))]
            /\ call' = [call EXCEPT ![c].left = @ \ {q}]
        BY <2>2 DEF SendTo
      <3>2. call' = [call EXCEPT ![c] = [me EXCEPT !.left = @ \ {q}]]
        BY <1>1, <3>1 DEF Call
      <3> QED BY <1>1, <2>1, <2>2, <3>1, <3>2
    <2>3. CASE ~room1
      <3>1. call' = [call EXCEPT ![c].left = @ \ {q}, ![c].full = @ \cup {q}] /\ ch' = ch
        BY <2>3 DEF SendTo
      <3>2. call' = [call EXCEPT ![c] = [me EXCEPT !.left = @ \ {q}, !.full = @ \cup {q}]]
        BY <1>1, <3>1 DEF Call
      <3>3. ch' = [ch EXCEPT ![q] = ch[q]]
        BY <1>1, <3>1
      <3> QED BY <2>1, <2>3, <3>2, <3>3
    <2> QED BY <2>1, <2>2, <2>3
  <1>5. /\ x \in Call /\ x.pc = "send" /\ x.evs = me.evs /\ x.left = me.left \ {q}
        /\ x.subs = me.subs /\ me.full \subseteq x.full /\ (~room1 => q \in x.full)
    <2>1. CASE room1
      BY <1>1, <1>2, <2>1 DEF Call
    <2>2. CASE ~room1
      BY <1>1, <1>2, <2>2 DEF Call
    <2> QED BY <2>1, <2>2
  <1>6. /\ n \in Seq(Event) /\ Len(n) <= Buffer
        /\ \A i \in DOMAIN ch[q] : i \in DOMAIN n /\ n[i] = ch[q][i]
        /\ room1 => \E i \in DOMAIN n : n[i] = ev
    <2>1. CASE room1
      <3>1. PICK m \in Nat : m = Len(ch[q])
        BY <1>1
      <3> HIDE DEF ev
      <3>2. /\ n = Append(ch[q], ev) /\ n \in Seq(Event) /\ Len(n) = m + 1
            /\ DOMAIN n = 1..(m + 1) /\ DOMAIN ch[q] = 1..m
            /\ n[m + 1] = ev /\ \A i \in 1..m : n[i] = ch[q][i]
        BY <1>1, <1>3, <2>1, <3>1
      <3>3. m + 1 <= Buffer /\ m + 1 \in 1..(m + 1) /\ \A i \in 1..m : i \in 1..(m + 1)
        BY <2>1, <3>1, TypingNumbersAssumption
      <3> QED BY <3>2, <3>3
    <2>2. CASE ~room1
      BY <1>1, <2>2
    <2> QED BY <2>1, <2>2
  <1> HIDE DEF x, n, room1, ev
  <1>7. /\ call' \in [Callers -> Call] /\ call'[c] = x
        /\ \A d \in Callers : d # c => call'[d] = call[d]
    BY <1>1, <1>4, <1>5, CallStep
  <1>8. /\ ch' \in [Subs -> Seq(Event)] /\ ch'[q] = n
        /\ \A s \in Subs : s # q => ch'[s] = ch[s]
    BY <1>1, <1>4, <1>6
  <1>9. TypeOK'
    BY <1>4, <1>6, <1>7, <1>8 DEF IInv, TypeOK
  <1>10. Calls'
    BY <1>1, <1>4, <1>5, <1>7 DEF IInv, Calls, At
  <1>11. NothingMissed'
    <2> SUFFICES ASSUME NEW s \in Subs, NEW b \in Agents, NEW e,
                        sub'[s] = "open", presence'[b] # Nil, e = presence'[b].ev
                 PROVE  Told(e, s)'
      BY DEF NothingMissed, Told
    <2>1. Told(e, s)
      BY <1>4, ToldFacts DEF IInv
    <2>2. (\E i \in DOMAIN ch[s] : ch[s][i] = e) => Told(e, s)'
      BY <1>6, <1>8 DEF Told
    <2>3. ASSUME NEW d \in Callers, Carries(d, e, s) PROVE Told(e, s)'
      <3>1. CASE d # c
        <4>1. Carries(d, e, s)'
          BY <1>7, <2>3, <3>1 DEF Carries, At
        <4> QED BY <4>1, CarriesTells
      <3>2. CASE d = c /\ s = q /\ e = ev /\ room1
        BY <1>6, <1>8, <3>2 DEF Told
      <3>3. CASE d = c /\ ~(s = q /\ e = ev /\ room1)
        <4>1. CASE s \in me.left \cup me.full /\ e = ev
          <5>1. s \in x.left \cup x.full
            BY <1>5, <3>3, <4>1
          <5>2. Carries(c, e, s)'
            BY <1>5, <1>7, <4>1, <5>1 DEF Carries, At, ev
          <5> QED BY <5>2, CarriesTells
        <4>2. CASE s \in me.subs /\ \E i \in 2..Len(me.evs) : e = me.evs[i]
          <5>1. Carries(c, e, s)'
            BY <1>5, <1>7, <4>2 DEF Carries, At
          <5> QED BY <5>1, CarriesTells
        <4> QED BY <2>3, <3>3, <4>1, <4>2 DEF Carries, ev
      <3> QED BY <3>1, <3>2, <3>3
    <2> QED BY <1>4, <2>1, <2>2, <2>3, ToldStill DEF Told
  <1> QED BY <1>4, <1>9, <1>10, <1>11, BroadcastIInv

\* A panic of a handler: what it had still to send is on record.
LEMMA HandlerPanicsIInv ==
    ASSUME IInv, NEW c \in Callers, NEW q \in Subs, HandlerPanics(c, q)
    PROVE  IInv'
  <1> DEFINE evs == call[c].evs
  <1>1. /\ call \in [Callers -> Call] /\ call[c].pc = "send" /\ evs \in Seq(Event) /\ evs # <<>>
        /\ cut \subseteq Event /\ presence \in [Agents -> Presence \cup {Nil}]
    BY DEF IInv, TypeOK, Call, Calls, HandlerPanics, At
  <1>2. /\ UNCHANGED <<clock, turn, active, presence, fired, sub, ch, shown, crashed>>
        /\ call' = [call EXCEPT ![c] = Idle] /\ cut' = cut \cup Starts(evs)
    BY DEF HandlerPanics, room, hub, streams
  <1>3. /\ call' \in [Callers -> Call] /\ call'[c] = Idle
        /\ \A d \in Callers : d # c => call'[d] = call[d]
    BY <1>1, <1>2, IdleFacts, CallStep
  <1>4. Starts(evs) \subseteq Event
    BY <1>1 DEF Starts
  <1>5. TypeOK'
    BY <1>1, <1>2, <1>3, <1>4 DEF IInv, TypeOK
  <1>6. Calls'
    BY <1>2, <1>3, IdleFacts DEF IInv, Calls, At
  <1>7. NothingMissed'
    <2> SUFFICES ASSUME NEW s \in Subs, NEW b \in Agents, NEW e,
                        sub'[s] = "open", presence'[b] # Nil, e = presence'[b].ev
                 PROVE  Told(e, s)'
      BY DEF NothingMissed, Told
    <2>1. Told(e, s) /\ e.state = "start"
      BY <1>2, ToldFacts DEF IInv, Presences
    <2>2. ASSUME NEW d \in Callers, Carries(d, e, s) PROVE Told(e, s)'
      <3>1. CASE d # c
        <4>1. Carries(d, e, s)'
          BY <1>3, <2>2, <3>1 DEF Carries, At
        <4> QED BY <4>1, CarriesTells
      <3>2. CASE d = c
        <4>1. \E i \in DOMAIN evs : e = evs[i]
          <5>1. PICK m \in Nat : m = Len(evs) /\ m # 0 /\ DOMAIN evs = 1..m /\ Head(evs) = evs[1]
            BY <1>1
          <5>2. 1 \in 1..m /\ \A i \in 2..m : i \in 1..m
            BY <5>1
          <5> QED BY <2>2, <3>2, <5>1, <5>2 DEF Carries
        <4>2. e \in Starts(evs)
          BY <2>1, <4>1 DEF Starts
        <4> QED BY <1>2, <4>2 DEF Told
      <3> QED BY <3>1, <3>2
    <2> QED BY <1>2, <2>1, <2>2, ToldStill DEF Told
  <1> QED BY <1>2, <1>5, <1>6, <1>7, BroadcastIInv

\* A panic of a timer: the new process has an empty hub.
LEMMA TimerPanicsIInv ==
    ASSUME IInv, NEW c \in Callers, NEW q \in Subs, TimerPanics(c, q)
    PROVE  IInv'
  <1>1. /\ presence' = [a \in Agents |-> Nil] /\ fired' = {}
        /\ sub' = [x \in Subs |-> IF sub[x] = "open" THEN "closed" ELSE sub[x]]
        /\ ch' = [x \in Subs |-> <<>>] /\ call' = [x \in Callers |-> Idle]
        /\ shown' = [x \in Subs |-> {}] /\ crashed' = TRUE
        /\ UNCHANGED <<clock, turn, active, cut>>
    BY DEF TimerPanics, room
  <1>2. TypeOK'
    <2>1. sub' \in [Subs -> {"new", "open", "dropped", "closed"}]
      BY <1>1 DEF IInv, TypeOK
    <2>2. ch' \in [Subs -> Seq(Event)] /\ \A s \in Subs : Len(ch'[s]) <= Buffer
      BY <1>1, TypingNumbersAssumption
    <2>3. crashed' \in BOOLEAN
      BY <1>1
    <2> QED BY <1>1, <2>1, <2>2, <2>3, IdleFacts DEF IInv, TypeOK
  <1>3. Calls'
    BY <1>1, IdleFacts DEF Calls, At
  <1>4. Presences' /\ FiredLate' /\ PresenceHasTimer' /\ NothingMissed'
    BY <1>1 DEF Presences, FiredLate, PresenceHasTimer, NothingMissed
  <1> QED BY <1>2, <1>3, <1>4 DEF IInv

\* The end of one event's broadcast: who was full is open no longer, and the events
\* that are left go to the same subscriptions.
LEMMA BroadcastEndsIInv ==
    ASSUME IInv, NEW c \in Callers, BroadcastEnds(c)
    PROVE  IInv'
  <1> DEFINE me == call[c]
             rest == Tail(me.evs)
             x == IF rest = <<>> THEN [Idle EXCEPT !.pc = me.next]
                  ELSE [me EXCEPT !.evs = rest, !.left = me.subs, !.full = {}]
  <1>1. /\ call \in [Callers -> Call] /\ me \in Call /\ me.pc = "send" /\ me.evs # <<>>
        /\ me.left = {} /\ call' = [call EXCEPT ![c] = x]
        /\ sub' = [s \in Subs |-> IF s \in Dropping(c) THEN "dropped" ELSE sub[s]]
        /\ shown' = [s \in Subs |-> IF s \in Dropping(c) THEN {} ELSE shown[s]]
        /\ UNCHANGED <<clock, turn, active, presence, fired, ch, cut, crashed>>
    BY DEF IInv, TypeOK, Calls, BroadcastEnds, At, room, hub
  <1>2. /\ me.evs \in Seq(Event) /\ me.subs \in SUBSET Subs /\ me.next \in {"idle", "clear"}
    BY <1>1 DEF Call
  <1>3. rest \in Seq(Event)
    BY <1>1, <1>2
  <1> HIDE DEF rest
  <1>4. /\ x \in Call /\ x.pc \in {"idle", "clear", "send"}
        /\ x.pc = "send" => x.evs # <<>>
        /\ rest # <<>> => x.pc = "send" /\ x.evs = rest /\ x.left = me.subs /\ x.subs = me.subs
    <2>1. CASE rest = <<>>
      <3> DEFINE y == [Idle EXCEPT !.pc = me.next]
      <3>1. y \in Call /\ y.pc = me.next
        BY <1>2, IdleFacts DEF Call
      <3>2. x = y
        BY <2>1
      <3> QED BY <1>2, <2>1, <3>1, <3>2
    <2>2. CASE rest # <<>>
      BY <1>1, <1>2, <1>3, <2>2 DEF Call
    <2> QED BY <2>1, <2>2
  <1> HIDE DEF x
  <1>5. /\ call' \in [Callers -> Call] /\ call'[c] = x
        /\ \A d \in Callers : d # c => call'[d] = call[d]
    BY <1>1, <1>4, CallStep
  <1>6. TypeOK'
    BY <1>1, <1>5 DEF IInv, TypeOK
  <1>7. Calls'
    BY <1>1, <1>4, <1>5 DEF IInv, Calls, At
  <1>8. NothingMissed'
    <2> SUFFICES ASSUME NEW s \in Subs, NEW b \in Agents, NEW e,
                        sub'[s] = "open", presence'[b] # Nil, e = presence'[b].ev
                 PROVE  Told(e, s)'
      BY DEF NothingMissed, Told
    <2>1. sub[s] = "open" /\ s \notin Dropping(c) /\ s \notin me.full /\ shown'[s] = shown[s]
      <3>1. s \notin Dropping(c) /\ sub[s] = "open"
        BY <1>1
      <3> QED BY <1>1, <3>1 DEF Dropping, Registered
    <2>2. Told(e, s)
      BY <1>1, <2>1, ToldFacts DEF IInv
    <2>3. ASSUME NEW d \in Callers, Carries(d, e, s) PROVE Told(e, s)'
      <3>1. CASE d # c
        <4>1. Carries(d, e, s)'
          BY <1>5, <2>3, <3>1 DEF Carries, At
        <4> QED BY <4>1, CarriesTells
      <3>2. CASE d = c
        <4>1. PICK i \in 2..Len(me.evs) : e = me.evs[i] /\ s \in me.subs
          BY <1>1, <2>1, <2>3, <3>2 DEF Carries
        <4>2. PICK m \in Nat : m = Len(me.evs)
          BY <1>2
        <4>3. /\ rest # <<>> /\ Len(rest) = m - 1 /\ i - 1 \in 1..(m - 1)
              /\ rest[i - 1] = e /\ Head(rest) = rest[1]
          <5>1. /\ Len(rest) = m - 1 /\ \A j \in 1..(m - 1) : rest[j] = me.evs[j + 1]
            BY <1>1, <1>2, <4>2 DEF rest
          <5>2. i - 1 \in 1..(m - 1) /\ (i - 1) + 1 = i
            BY <4>1, <4>2
          <5>3. rest # <<>>
            BY <1>3, <5>1, <5>2
          <5> QED BY <1>3, <4>1, <5>1, <5>2, <5>3
        <4>4. CASE i = 2
          <5>1. s \in x.left /\ e = Head(x.evs) /\ x.pc = "send"
            BY <1>4, <4>1, <4>3, <4>4
          <5>2. Carries(c, e, s)'
            BY <1>5, <5>1 DEF Carries, At
          <5> QED BY <5>2, CarriesTells
        <4>5. CASE i # 2
          <5>1. i - 1 \in 2..Len(x.evs) /\ e = x.evs[i - 1] /\ s \in x.subs /\ x.pc = "send"
            BY <1>4, <4>1, <4>2, <4>3, <4>5
          <5>2. Carries(c, e, s)'
            BY <1>5, <5>1 DEF Carries, At
          <5> QED BY <5>2, CarriesTells
        <4> QED BY <4>4, <4>5
      <3> QED BY <3>1, <3>2
    <2> QED BY <1>1, <2>1, <2>2, <2>3, ToldStill DEF Told
  <1> QED BY <1>1, <1>6, <1>7, <1>8, BroadcastIInv

-----------------------------------------------------------------------------
(* Viewer streams *)

\* A new stream's snapshot has every presence.
LEMMA SubscribeIInv ==
    ASSUME IInv, NEW q \in Subs, SubscribeWithSnapshot(q)
    PROVE  IInv'
  <1> DEFINE snap == {presence'[a].ev : a \in {b \in Agents : presence'[b] # Nil}}
  <1>1. /\ presence' = Pruned(clock) /\ sub' = [sub EXCEPT ![q] = "open"]
        /\ shown' = [shown EXCEPT ![q] = snap] /\ sub[q] = "new"
        /\ UNCHANGED <<clock, turn, active, fired, ch, call, cut, crashed>>
    BY DEF SubscribeWithSnapshot, Admitted, room
  <1>2. clock \in Nat /\ TypeOK
    BY DEF IInv, TypeOK
  <1>3. /\ presence' \in [Agents -> Presence \cup {Nil}]
        /\ \A a \in Agents : presence'[a] # Nil => presence'[a] = presence[a]
    BY <1>1, <1>2, PrunedFacts
  <1>4. snap \in SUBSET Event
    BY <1>3 DEF Presence
  <1>5. \A a \in Agents : presence'[a] # Nil => presence'[a].ev \in snap
    OBVIOUS
  <1> HIDE DEF snap
  <1>6. TypeOK'
    BY <1>1, <1>2, <1>3, <1>4 DEF TypeOK
  <1>7. Calls' /\ FiredLate'
    BY <1>1 DEF IInv, Calls, At, FiredLate
  <1>8. Presences' /\ PresenceHasTimer'
    BY <1>1, <1>3 DEF IInv, Presences, PresenceHasTimer
  <1>9. NothingMissed'
    <2> SUFFICES ASSUME NEW s \in Subs, NEW b \in Agents, NEW e,
                        sub'[s] = "open", presence'[b] # Nil, e = presence'[b].ev
                 PROVE  Told(e, s)'
      BY DEF NothingMissed, Told
    <2>1. CASE s = q
      <3>1. e \in shown'[s]
        BY <1>1, <1>2, <1>5, <2>1 DEF TypeOK
      <3> QED BY <3>1 DEF Told
    <2>2. CASE s # q
      <3>1. sub[s] = "open" /\ shown'[s] = shown[s] /\ presence'[b] = presence[b]
        BY <1>1, <1>2, <1>3, <2>2 DEF TypeOK
      <3>2. Told(e, s)
        BY <3>1, ToldFacts DEF IInv
      <3>3. ASSUME NEW d \in Callers, Carries(d, e, s) PROVE Told(e, s)'
        <4>1. Carries(d, e, s)'
          BY <1>1, <3>3 DEF Carries, At
        <4> QED BY <4>1, CarriesTells
      <3> QED BY <1>1, <3>1, <3>2, <3>3, ToldStill DEF Told
    <2> QED BY <2>1, <2>2
  <1> QED BY <1>6, <1>7, <1>8, <1>9 DEF IInv

\* A stream writes what it reads; one that has ended is open no more.
LEMMA ViewerIInv ==
    ASSUME IInv, NEW q \in Subs, Receive(q) \/ Drain(q) \/ Leave(q)
    PROVE  IInv'
  <1>1. /\ UNCHANGED <<clock, turn, active, presence, fired, call, cut, crashed>>
        /\ ch \in [Subs -> Seq(Event)] /\ ch[q] \in Seq(Event) /\ Len(ch[q]) <= Buffer
        /\ sub \in [Subs -> {"new", "open", "dropped", "closed"}]
        /\ shown \in [Subs -> SUBSET Event]
    BY DEF IInv, TypeOK, Receive, Drain, Leave, room, hub
  <1>2. Calls'
    BY <1>1 DEF IInv, Calls, At
  <1>3. ASSUME ch[q] # <<>> PROVE Tail(ch[q]) \in Seq(Event) /\ Len(Tail(ch[q])) <= Buffer
                                  /\ Head(ch[q]) \in Event
    <2>1. PICK m \in Nat : m = Len(ch[q]) /\ Len(Tail(ch[q])) = m - 1 /\ m # 0
      BY <1>1, <1>3
    <2> QED BY <1>1, <1>3, <2>1, TypingNumbersAssumption
  <1>4. ASSUME NEW s \in Subs, NEW b \in Agents, NEW e, sub[s] = "open", presence[b] # Nil,
               e = presence[b].ev, ch'[s] = ch[s], shown'[s] = shown[s]
        PROVE  Told(e, s)'
    <2>1. Told(e, s)
      BY <1>4, ToldFacts DEF IInv
    <2>2. ASSUME NEW d \in Callers, Carries(d, e, s) PROVE Told(e, s)'
      <3>1. Carries(d, e, s)'
        BY <1>1, <2>2 DEF Carries, At
      <3> QED BY <3>1, CarriesTells
    <2> QED BY <1>1, <1>4, <2>1, <2>2, ToldStill DEF Told
  <1>5. CASE Receive(q)
    <2> DEFINE ev == Head(ch[q])
    <2>1. /\ sub' = sub /\ ch[q] # <<>> /\ ch' = [ch EXCEPT ![q] = Tail(ch[q])]
          /\ shown' = [shown EXCEPT ![q] = shown[q] \cup Starts(<<ev>>)]
      BY <1>1, <1>5 DEF Receive
    <2>2. ev \in Event /\ Starts(<<ev>>) \subseteq Event
          /\ (ev.state = "start" => ev \in Starts(<<ev>>))
      <3>1. ev \in Event
        BY <1>3, <2>1
      <3>2. DOMAIN <<ev>> = {1} /\ <<ev>>[1] = ev
        OBVIOUS
      <3> HIDE DEF ev
      <3> QED BY <3>1, <3>2 DEF Starts
    <2>3. TypeOK'
      <3> HIDE DEF ev
      <3>1. ch' \in [Subs -> Seq(Event)] /\ \A s \in Subs : Len(ch'[s]) <= Buffer
        BY <1>1, <1>3, <2>1 DEF IInv, TypeOK
      <3>2. shown' \in [Subs -> SUBSET Event]
        BY <1>1, <2>1, <2>2
      <3> QED BY <1>1, <2>1, <3>1, <3>2 DEF IInv, TypeOK
    <2>4. NothingMissed'
      <3> SUFFICES ASSUME NEW s \in Subs, NEW b \in Agents, NEW e,
                          sub'[s] = "open", presence'[b] # Nil, e = presence'[b].ev
                   PROVE  Told(e, s)'
        BY DEF NothingMissed, Told
      <3>1. CASE s # q
        BY <1>1, <1>4, <2>1, <3>1
      <3>2. CASE s = q
        <4>1. Told(e, s) /\ e.state = "start"
          BY <1>1, <2>1, ToldFacts DEF IInv, Presences
        <4>2. shown'[s] = shown[s] \cup Starts(<<ev>>) /\ ch'[s] = Tail(ch[s])
          BY <1>1, <2>1, <3>2
        <4>3. ASSUME NEW d \in Callers, Carries(d, e, s) PROVE Told(e, s)'
          <5>1. Carries(d, e, s)'
            BY <1>1, <4>3 DEF Carries, At
          <5> QED BY <5>1, CarriesTells
        <4>4. ASSUME NEW i \in DOMAIN ch[s], ch[s][i] = e PROVE Told(e, s)'
          <5>1. CASE i = 1
            <6>1. e = ev
              BY <1>1, <2>1, <3>2, <4>4, <5>1
            <6>2. e \in shown'[s]
              BY <2>2, <4>1, <4>2, <6>1
            <6> QED BY <6>2 DEF Told
          <5>2. CASE i # 1
            <6>1. PICK m \in Nat : m = Len(ch[s]) /\ DOMAIN ch[s] = 1..m
                     /\ DOMAIN Tail(ch[s]) = 1..(m - 1)
                     /\ \A j \in 1..(m - 1) : Tail(ch[s])[j] = ch[s][j + 1]
              BY <1>1, <2>1, <3>2
            <6>2. i - 1 \in 1..(m - 1) /\ (i - 1) + 1 = i
              BY <5>2, <6>1
            <6>3. \E j \in DOMAIN ch'[s] : ch'[s][j] = e
              BY <4>2, <4>4, <6>1, <6>2
            <6> QED BY <6>3 DEF Told
          <5> QED BY <5>1, <5>2
        <4>5. e \in shown[s] \cup cut => Told(e, s)'
          BY <1>1, <4>2 DEF Told
        <4> QED BY <4>1, <4>3, <4>4, <4>5, ToldStill
      <3> QED BY <3>1, <3>2
    <2> QED BY <1>1, <1>2, <2>3, <2>4, BroadcastIInv
  <1>6. CASE Drain(q) \/ Leave(q)
    <2>1. /\ \/ sub' = sub /\ sub[q] = "dropped" /\ ch[q] # <<>> /\ shown' = shown
                /\ ch' = [ch EXCEPT ![q] = Tail(ch[q])]
             \/ sub' = [sub EXCEPT ![q] = "closed"] /\ shown' = [shown EXCEPT ![q] = {}]
                /\ ch' = [ch EXCEPT ![q] = <<>>]
      BY <1>1, <1>6 DEF Drain, Leave
    <2>2. Len(<<>>) <= Buffer /\ <<>> \in Seq(Event)
      BY TypingNumbersAssumption
    <2>3. /\ ch' \in [Subs -> Seq(Event)]
          /\ \A s \in Subs : Len(ch'[s]) <= Buffer
          /\ sub' \in [Subs -> {"new", "open", "dropped", "closed"}]
          /\ shown' \in [Subs -> SUBSET Event]
          /\ sub'[q] # "open"
          /\ \A s \in Subs : s # q => sub'[s] = sub[s] /\ ch'[s] = ch[s] /\ shown'[s] = shown[s]
      BY <1>1, <1>3, <2>1, <2>2 DEF IInv, TypeOK
    <2>4. TypeOK'
      BY <1>1, <2>3 DEF IInv, TypeOK
    <2>5. NothingMissed'
      <3> SUFFICES ASSUME NEW s \in Subs, NEW b \in Agents, NEW e,
                          sub'[s] = "open", presence'[b] # Nil, e = presence'[b].ev
                   PROVE  Told(e, s)'
        BY DEF NothingMissed, Told
      <3> QED BY <1>1, <1>4, <2>3
    <2> QED BY <1>1, <1>2, <2>4, <2>5, BroadcastIInv
  <1> QED BY <1>5, <1>6

-----------------------------------------------------------------------------
(* The theorems *)

\* At first nobody types and nobody watches.
LEMMA InitIInv == ASSUME Init PROVE IInv
  <1>1. TypeOK
    <2>1. <<>> \in Seq(Event) /\ Len(<<>>) <= Buffer
      BY TypingNumbersAssumption
    <2>2. active \in BOOLEAN /\ crashed \in BOOLEAN
      BY DEF Init
    <2> QED BY <2>1, <2>2, IdleFacts DEF Init, TypeOK
  <1>2. Calls
    BY IdleFacts DEF Init, Calls, At
  <1>3. Presences /\ FiredLate /\ PresenceHasTimer /\ NothingMissed
    BY DEF Init, Presences, FiredLate, PresenceHasTimer, NothingMissed
  <1> QED BY <1>1, <1>2, <1>3 DEF IInv

\* Every step preserves the invariant.
LEMMA NextIInv == ASSUME IInv, [Next]_vars PROVE IInv'
  <1>1. CASE UNCHANGED vars
    <2>1. UNCHANGED <<clock, turn, active, presence, fired, sub, ch, shown, call, cut, crashed>>
      BY <1>1 DEF vars
    <2>2. TypeOK' /\ Calls'
      BY <2>1 DEF IInv, TypeOK, Calls, At
    <2>3. NothingMissed'
      BY <2>1, NothingMissedStill DEF IInv
    <2> QED BY <2>1, <2>2, <2>3, BroadcastIInv
  <1>2. CASE Tick \/ RoomEnds
    BY <1>2, TickIInv
  <1>3. CASE \E h \in Handlers : Request(h)
    BY <1>3, RequestIInv
  <1>4. CASE \E c \in Callers : HubStep(c)
    BY <1>4, StartIInv, StopIInv, BroadcastEndsIInv, SendToIInv, HandlerPanicsIInv,
       TimerPanicsIInv DEF HubStep
  <1>5. CASE \E a \in Agents : TimerFires(a)
    BY <1>5, TimerFiresIInv
  <1>6. CASE Expiry
    BY <1>6, ExpireIInv DEF Expiry
  <1>7. CASE \E s \in Subs : Viewer(s)
    BY <1>7, SubscribeIInv, ViewerIInv DEF Viewer
  <1> QED BY <1>1, <1>2, <1>3, <1>4, <1>5, <1>6, <1>7 DEF Next

\* The invariant holds throughout.
LEMMA SpecIInv == Spec => []IInv
  <1>1. Init => IInv
    BY InitIInv
  <1>2. IInv /\ [Next]_vars => IInv'
    BY NextIInv
  <1> QED BY <1>1, <1>2, PTL DEF Spec

\* The hub's maps, channels and goroutines keep their types, and non-blocking sends of
\* broadcasts that overlap never put more into a channel than it holds.
THEOREM TypingTypeCorrect == Spec => []TypeOK
  <1>1. IInv => TypeOK
    BY DEF IInv
  <1> QED BY <1>1, SpecIInv, PTL

\* Start, Stop, ClearRoom, prune and expire never leave a presence without a timer or
\* an expire call that matches it.
THEOREM PresencesHaveTimers == Spec => []PresenceHasTimer
  <1>1. IInv => PresenceHasTimer
    BY DEF IInv
  <1> QED BY <1>1, SpecIInv, PTL

\* No open viewer stream misses a typing agent, although broadcast works on a list
\* read before the unlock, unless a panic cut the broadcast short.
THEOREM StreamsMissNothing == Spec => []NothingMissed
  <1>1. IInv => NothingMissed
    BY DEF IInv
  <1> QED BY <1>1, SpecIInv, PTL

\* expire never ends a presence before its time, whatever starts and stops overlap; only
\* the end of the process does.
THEOREM NeverExpiresEarly == Spec => ExpireNotEarly
  <1> DEFINE A == \A f \in fired \ fired', a \in Agents :
                    presence[a] # Nil /\ presence'[a] = Nil /\ ~ProcessEnds => presence[a].ev.exp <= clock
  <1>1. ASSUME IInv, [Next]_vars PROVE [A]_vars
    <2> SUFFICES ASSUME NEW f \in fired \ fired', NEW a \in Agents, presence[a] # Nil,
                        presence'[a] = Nil, ~ProcessEnds
                 PROVE  presence[a].ev.exp <= clock
      OBVIOUS
    <2>1. fired' # fired /\ ~(fired \subseteq fired')
      OBVIOUS
    <2>2. CASE \E t \in Timers : \E g \in fired : Expire(t, g)
      <3>1. PICK t \in Timers, g \in fired : Expire(t, g)
        BY <2>2
      <3>2. g.actor \in Agents /\ presence \in [Agents -> Presence \cup {Nil}] /\ g.exp <= clock
        BY <1>1 DEF IInv, TypeOK, FiredLate
      <3>3. a = g.actor /\ presence[a].ev.exp = g.exp
        <4> DEFINE b == g.actor
                   mine == presence[b] # Nil /\ presence[b].ev.exp = g.exp
        <4>1. presence' = IF mine THEN [presence EXCEPT ![b] = Nil] ELSE presence
          BY <3>1 DEF Expire
        <4>2. mine
          BY <4>1
        <4>3. a = b
          BY <3>2, <4>1, <4>2
        <4> QED BY <4>2, <4>3
      <3> QED BY <3>2, <3>3
    <2>3. CASE UNCHANGED vars \/ Tick \/ RoomEnds \/ \E s \in Subs : Viewer(s)
      BY <2>1, <2>3 DEF vars, Tick, RoomEnds, Viewer, SubscribeWithSnapshot, Receive, Drain,
         Leave, hub
    <2>4. CASE \E h \in Handlers : Request(h)
      BY <2>1, <2>4 DEF Request, TypingStart, TypingStop, Message, Close, hub
    <2>5. CASE \E b \in Agents : TimerFires(b)
      BY <2>1, <2>5 DEF TimerFires
    <2>6. CASE \E c \in Callers : HubStep(c)
      <3>1. PICK c \in Callers : HubStep(c)
        BY <2>6
      <3>2. \A s \in Subs : ~TimerPanics(c, s)
        BY DEF ProcessEnds, TimerPanics
      <3> QED BY <2>1, <3>1, <3>2 DEF HubStep, Start, StartTooLate, Stop, ClearRoom,
              BroadcastEnds, SendTo, HandlerPanics, hub
    <2> QED BY <1>1, <2>2, <2>3, <2>4, <2>5, <2>6 DEF Next, Expiry
  <1>2. IInv /\ [Next]_vars => [A]_vars
    BY <1>1
  <1> QED BY <1>2, SpecIInv, PTL DEF Spec, ExpireNotEarly

\* A subscription is ended once: the viewer's Close and a broadcast that drops it never
\* both close its channel.
THEOREM SubscriptionsEndOnce == Spec => EndedOnce
  <1> DEFINE A == \A s \in Subs : Closed(s) => sub'[s] = sub[s]
  <1>1. ASSUME IInv, [Next]_vars PROVE [A]_vars
    <2> SUFFICES ASSUME NEW s \in Subs, Closed(s) PROVE sub'[s] = sub[s]
      OBVIOUS
    <2>1. sub[s] \in {"dropped", "closed"} /\ sub \in [Subs -> {"new", "open", "dropped", "closed"}]
      BY <1>1 DEF Closed, IInv, TypeOK
    <2>2. CASE UNCHANGED vars \/ Tick \/ RoomEnds \/ (\E a \in Agents : TimerFires(a)) \/ Expiry
      <3>1. sub' = sub
        BY <2>2 DEF vars, Tick, RoomEnds, TimerFires, Expiry, Expire, streams
      <3> QED BY <3>1
    <2>3. CASE \E h \in Handlers : Request(h)
      BY <2>3 DEF Request, TypingStart, TypingStop, Message, Close, streams
    <2>4. CASE \E c \in Callers : HubStep(c)
      BY <2>1, <2>4 DEF HubStep, Start, StartTooLate, Stop, ClearRoom, BroadcastEnds, SendTo,
         HandlerPanics, TimerPanics, Dropping, Registered, streams
    <2>5. CASE \E q \in Subs : Viewer(q)
      BY <2>1, <2>5 DEF Viewer, SubscribeWithSnapshot, Admitted, Receive, Drain, Leave
    <2> QED BY <1>1, <2>2, <2>3, <2>4, <2>5 DEF Next
  <1>2. IInv /\ [Next]_vars => [A]_vars
    BY <1>1
  <1> QED BY <1>2, SpecIInv, PTL DEF Spec, EndedOnce

=============================================================================
