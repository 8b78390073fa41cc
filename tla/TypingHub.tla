----------------------------- MODULE TypingHub -----------------------------
(***************************************************************************)
(* The typing indicator of one room in one API process: typingHub          *)
(* (internal/httpapi/typing_hub.go), the handlers of sql_handlers.go that  *)
(* drive it (typing, message, close) and the viewer streams it feeds.      *)
(*                                                                         *)
(* A hub method changes the hub's maps under typingHub.mu and broadcasts   *)
(* after it has unlocked: to each subscription it saw, one at a time.  In  *)
(* between other goroutines run, timers fire and viewers leave.  The room  *)
(* itself (module RoomService) is here only who speaks next and whether it *)
(* is ACTIVE.                                                              *)
(***************************************************************************)
EXTENDS Naturals, Sequences, FiniteSets

CONSTANTS
    Agents,    \* the two participants
    Subs,      \* subscriptions: one per opened viewer stream, ids are not reused
    Handlers,  \* request goroutines
    Timers,    \* goroutines in which time.AfterFunc runs expire
    Buffer,    \* capacity of a subscription's channel
    TTLs,      \* what ttl_ms becomes once clamped
    MaxClock,  \* bound on the clock
    Nil

ASSUME TypingAgentsAssumption ==
    IsFiniteSet(Agents) /\ Cardinality(Agents) = 2 /\ Nil \notin Agents
ASSUME TypingGoroutinesAssumption == Handlers \cap Timers = {}
ASSUME TypingNumbersAssumption ==
    Buffer \in Nat \ {0} /\ TTLs \subseteq Nat \ {0} /\ MaxClock \in Nat

VARIABLES
    clock,
    turn,      \* next_actor_id
    active,    \* the room is ACTIVE
    presence,  \* activeByRoom: per agent nothing, or the start event, when its timer is
               \* due and whether the timer is still armed
    fired,     \* expire calls whose timer has fired and that wait for the hub's mutex
    sub,       \* "new", "open" (in subsByRoom), "dropped" or "closed"
    ch,        \* the subscription's channel
    shown,     \* the start events an open stream has written
    call,      \* what each goroutine is doing
    cut,       \* start events whose broadcast was cut short by a panic
    crashed    \* a panic outside a request has ended the process once

hub == <<presence, fired>>
room == <<turn, active>>
streams == <<sub, ch, shown>>
vars == <<clock, turn, active, presence, fired, sub, ch, shown, call, cut, crashed>>

Callers == Handlers \cup Timers
Event == [actor : Agents, state : {"start", "stop"}, exp : Nat]
StartEvent(a, exp) == [actor |-> a, state |-> "start", exp |-> exp]
StopEvent(a) == [actor |-> a, state |-> "stop", exp |-> 0]
Starts(evs) == {evs[i] : i \in {j \in DOMAIN evs : evs[j].state = "start"}}
Presence == [ev : Event, due : Nat, armed : BOOLEAN]

\* A goroutine: where it is, the actor it acts for, the time it read and the TTL,
\* the events it broadcasts, to which subscriptions, the ones still to be sent the
\* first event, the ones found full, and what follows the broadcast.
Call == [pc : {"idle", "start", "stop", "clear", "send"}, actor : Agents \cup {Nil},
         now : Nat, ttl : Nat, evs : Seq(Event), subs : SUBSET Subs, left : SUBSET Subs,
         full : SUBSET Subs, next : {"idle", "clear"}]
Idle == [pc |-> "idle", actor |-> Nil, now |-> 0, ttl |-> 0, evs |-> <<>>, subs |-> {},
         left |-> {}, full |-> {}, next |-> "idle"]

At(c, pc) == call[c].pc = pc
Other(a) == CHOOSE b \in Agents : b # a
Registered == {s \in Subs : sub[s] = "open"}
Closed(s) == sub[s] \in {"dropped", "closed"}

-----------------------------------------------------------------------------
Init ==
    /\ clock = 0
    /\ turn \in Agents
    /\ active = TRUE
    /\ presence = [a \in Agents |-> Nil]
    /\ fired = {}
    /\ sub = [s \in Subs |-> "new"]
    /\ ch = [s \in Subs |-> <<>>]
    /\ shown = [s \in Subs |-> {}]
    /\ call = [c \in Callers |-> Idle]
    /\ cut = {}
    /\ crashed = FALSE

Tick ==
    /\ clock < MaxClock
    /\ clock' = clock + 1
    /\ UNCHANGED <<room, hub, streams, call, cut, crashed>>

\* The room ends without a message or a close request: its TTL passes.
RoomEnds ==
    /\ active
    /\ active' = FALSE
    /\ UNCHANGED <<clock, turn, hub, streams, call, cut, crashed>>

-----------------------------------------------------------------------------
(* The handlers: what they check and read before they call the hub. *)

\* handleRoomTyping, state start: ACTIVE, the speaker's turn, then time.Now().
TypingStart(h, a, ttl) ==
    /\ At(h, "idle")
    /\ active /\ turn = a
    /\ call' = [call EXCEPT ![h] = [Idle EXCEPT !.pc = "start", !.actor = a, !.now = clock,
                                                !.ttl = ttl]]
    /\ UNCHANGED <<clock, room, hub, streams, cut, crashed>>

\* handleRoomTyping, state stop.
TypingStop(h, a) ==
    /\ At(h, "idle")
    /\ call' = [call EXCEPT ![h] = [Idle EXCEPT !.pc = "stop", !.actor = a]]
    /\ UNCHANGED <<clock, room, hub, streams, cut, crashed>>

\* handleRoomMessage: SendMessage has committed; Stop for the sender follows and,
\* when the message was the last turn, ClearRoom.
Message(h, a) ==
    /\ At(h, "idle")
    /\ active /\ turn = a
    /\ turn' = Other(a)
    /\ active' \in BOOLEAN
    /\ call' = [call EXCEPT ![h] = [Idle EXCEPT !.pc = "stop", !.actor = a,
                                                !.next = IF active' THEN "idle" ELSE "clear"]]
    /\ UNCHANGED <<clock, hub, streams, cut, crashed>>

\* handleRoomClose: CloseRoom has committed (or found the room closed).
Close(h) ==
    /\ At(h, "idle")
    /\ active' = FALSE
    /\ call' = [call EXCEPT ![h] = [Idle EXCEPT !.pc = "clear"]]
    /\ UNCHANGED <<clock, turn, hub, streams, cut, crashed>>

-----------------------------------------------------------------------------
(* The hub's methods: one step each up to the unlock. *)

\* Mutant: prune stops the timer and leaves the presence.
PrunedTimerOnly(now) ==
    [a \in Agents |-> IF presence[a] # Nil /\ presence[a].ev.exp <= now
                        THEN [presence[a] EXCEPT !.armed = FALSE] ELSE presence[a]]

\* pruneExpiredLocked: the presences now has passed are removed and their timers
\* stopped; nobody is told.
Pruned(now) ==
    [a \in Agents |-> IF presence[a] # Nil /\ presence[a].ev.exp <= now
                        THEN Nil ELSE presence[a]]

\* subscribersLocked, then unlock: broadcast evs to the subscriptions there are.
Broadcast(c, evs, next) ==
    IF evs = <<>> \/ Registered = {}
      THEN [Idle EXCEPT !.pc = next]
      ELSE [Idle EXCEPT !.pc = "send", !.evs = evs, !.subs = Registered,
                        !.left = Registered, !.next = next]

\* Mutant: a refresh keeps the timer of the start before it.
StartKeepsTimer(h) ==
    LET me == call[h]
        ev == StartEvent(me.actor, me.now + me.ttl)
        old == Pruned(me.now)[me.actor]
    IN  /\ At(h, "start")
        /\ presence' = [Pruned(me.now) EXCEPT ![me.actor] =
                          IF old = Nil THEN [ev |-> ev, due |-> clock + me.ttl, armed |-> TRUE]
                                       ELSE [old EXCEPT !.ev = ev]]
        /\ call' = [call EXCEPT ![h] = Broadcast(h, <<ev>>, "idle")]
        /\ UNCHANGED <<clock, room, fired, streams, cut, crashed>>

\* Start: prune, stop the timer of the presence it replaces, arm a new one.  The
\* timer runs from here, ExpiresAt from the time the handler read.  The guard on the
\* clock bounds the model, not the code.
Start(h) ==
    LET me == call[h]
        ev == StartEvent(me.actor, me.now + me.ttl)
    IN  /\ At(h, "start")
        /\ clock + me.ttl <= MaxClock
        /\ presence' = [Pruned(me.now) EXCEPT ![me.actor] =
                          [ev |-> ev, due |-> clock + me.ttl, armed |-> TRUE]]
        /\ call' = [call EXCEPT ![h] = Broadcast(h, <<ev>>, "idle")]
        /\ UNCHANGED <<clock, room, fired, streams, cut, crashed>>

\* Bound of the model: a start whose timer would be due past MaxClock is given up.
StartTooLate(h) ==
    /\ At(h, "start")
    /\ clock + call[h].ttl > MaxClock
    /\ call' = [call EXCEPT ![h] = Idle]
    /\ UNCHANGED <<clock, room, hub, streams, cut, crashed>>

\* Stop: nothing to do without a presence.
Stop(h) ==
    LET a == call[h].actor
        next == call[h].next
    IN  /\ At(h, "stop")
        /\ presence' = [presence EXCEPT ![a] = Nil]
        /\ call' = [call EXCEPT ![h] =
                      Broadcast(h, IF presence[a] = Nil THEN <<>> ELSE <<StopEvent(a)>>, next)]
        /\ UNCHANGED <<clock, room, fired, streams, cut, crashed>>

\* ClearRoom: every presence, in whatever order the map gives.
ClearRoom(h) ==
    LET here == {a \in Agents : presence[a] # Nil}
    IN  /\ At(h, "clear")
        /\ presence' = [a \in Agents |-> Nil]
        /\ \E order \in [1..Cardinality(here) -> here] :
             /\ \A i, j \in DOMAIN order : order[i] = order[j] => i = j
             /\ call' = [call EXCEPT ![h] =
                           Broadcast(h, [i \in DOMAIN order |-> StopEvent(order[i])], "idle")]
        /\ UNCHANGED <<clock, room, fired, streams, cut, crashed>>

\* A presence's timer fires: from here timer.Stop comes too late.
TimerFires(a) ==
    /\ presence[a] # Nil
    /\ presence[a].armed
    /\ presence[a].due <= clock
    /\ presence' = [presence EXCEPT ![a].armed = FALSE]
    /\ fired' = fired \cup {[actor |-> a, exp |-> presence[a].ev.exp]}
    /\ UNCHANGED <<clock, room, streams, call, cut, crashed>>

\* Mutant: expire does not compare ExpiresAt.
ExpireAnyPresence(t, f) ==
    LET a == f.actor
    IN  /\ At(t, "idle")
        /\ f \in fired
        /\ fired' = fired \ {f}
        /\ presence' = [presence EXCEPT ![a] = Nil]
        /\ call' = [call EXCEPT ![t] =
                      Broadcast(t, IF presence[a] = Nil THEN <<>> ELSE <<StopEvent(a)>>, "idle")]
        /\ UNCHANGED <<clock, room, streams, cut, crashed>>

\* expire: only the presence it was armed for.
Expire(t, f) ==
    LET a == f.actor
        mine == presence[a] # Nil /\ presence[a].ev.exp = f.exp
    IN  /\ At(t, "idle")
        /\ f \in fired
        /\ fired' = fired \ {f}
        /\ presence' = IF mine THEN [presence EXCEPT ![a] = Nil] ELSE presence
        /\ call' = [call EXCEPT ![t] =
                      Broadcast(t, IF mine THEN <<StopEvent(a)>> ELSE <<>>, "idle")]
        /\ UNCHANGED <<clock, room, streams, cut, crashed>>

-----------------------------------------------------------------------------
(* broadcast: after the unlock, one non-blocking send per subscription. *)

\* Mutant: the send does not look at the buffer.
SendToUnbounded(c, s) ==
    /\ At(c, "send")
    /\ s \in call[c].left
    /\ ~Closed(s)
    /\ ch' = [ch EXCEPT ![s] = Append(@, Head(call[c].evs))]
    /\ call' = [call EXCEPT ![c].left = @ \ {s}]
    /\ UNCHANGED <<clock, room, hub, sub, shown, cut, crashed>>

\* The select with a default: into the buffer, or onto the list of the full ones.
SendTo(c, s) ==
    /\ At(c, "send")
    /\ s \in call[c].left
    /\ ~Closed(s)
    /\ IF Len(ch[s]) < Buffer
         THEN /\ ch' = [ch EXCEPT ![s] = Append(@, Head(call[c].evs))]
              /\ call' = [call EXCEPT ![c].left = @ \ {s}]
         ELSE /\ call' = [call EXCEPT ![c].left = @ \ {s}, ![c].full = @ \cup {s}]
              /\ UNCHANGED ch
    /\ UNCHANGED <<clock, room, hub, sub, shown, cut, crashed>>

\* A send on a closed channel panics.  net/http recovers a handler's panic, and the
\* rest of the handler is gone.
HandlerPanics(c, s) ==
    /\ c \in Handlers
    /\ At(c, "send")
    /\ s \in call[c].left
    /\ Closed(s)
    /\ cut' = cut \cup Starts(call[c].evs)
    /\ call' = [call EXCEPT ![c] = Idle]
    /\ UNCHANGED <<clock, room, hub, streams, crashed>>

\* Nothing recovers a panic in a timer's goroutine: the process ends.  The room
\* is in the database; a new process starts with an empty hub.
TimerPanics(c, s) ==
    /\ c \in Timers
    /\ At(c, "send")
    /\ s \in call[c].left
    /\ Closed(s)
    /\ presence' = [a \in Agents |-> Nil]
    /\ fired' = {}
    /\ sub' = [x \in Subs |-> IF sub[x] = "open" THEN "closed" ELSE sub[x]]
    /\ ch' = [x \in Subs |-> <<>>]
    /\ call' = [x \in Callers |-> Idle]
    /\ shown' = [x \in Subs |-> {}]
    /\ crashed' = TRUE
    /\ UNCHANGED <<clock, room, cut>>

\* Mutant: a subscription found full is dropped although it has left meanwhile.
DropAlways(c) == call[c].full

\* The ids in toDrop that subsByRoom still has.
Dropping(c) == call[c].full \cap Registered

\* The end of one event's broadcast: the full subscriptions are dropped, and the
\* next event of ClearRoom follows.
BroadcastEnds(c) ==
    LET rest == Tail(call[c].evs)
    IN  /\ At(c, "send")
        /\ call[c].left = {}
        /\ sub' = [s \in Subs |-> IF s \in Dropping(c) THEN "dropped" ELSE sub[s]]
        /\ shown' = [s \in Subs |-> IF s \in Dropping(c) THEN {} ELSE shown[s]]
        /\ call' = [call EXCEPT ![c] =
                      IF rest = <<>> THEN [Idle EXCEPT !.pc = call[c].next]
                      ELSE [call[c] EXCEPT !.evs = rest, !.left = call[c].subs, !.full = {}]]
        /\ UNCHANGED <<clock, room, hub, ch, cut, crashed>>

-----------------------------------------------------------------------------
(* handleRoomViewerEvents *)

\* The handler has found the viewer's token good and the room ACTIVE, at some time
\* before it subscribes: in this process's life the room was ACTIVE at first, or
\* still is.
Admitted(s) == sub[s] = "new" /\ (active \/ ~crashed)

\* Mutant: the stream subscribes and takes no snapshot.
SubscribeWithoutSnapshot(s) ==
    /\ Admitted(s)
    /\ presence' = Pruned(clock)
    /\ sub' = [sub EXCEPT ![s] = "open"]
    /\ UNCHANGED <<clock, room, fired, ch, shown, call, cut, crashed>>

\* SubscribeWithSnapshot: prune, register and copy under one lock; the handler
\* writes the snapshot before it reads the channel.
SubscribeWithSnapshot(s) ==
    /\ Admitted(s)
    /\ presence' = Pruned(clock)
    /\ sub' = [sub EXCEPT ![s] = "open"]
    /\ shown' = [shown EXCEPT ![s] = {presence'[a].ev : a \in {b \in Agents : presence'[b] # Nil}}]
    /\ UNCHANGED <<clock, room, fired, ch, call, cut, crashed>>

Receive(s) ==
    /\ sub[s] = "open"
    /\ ch[s] # <<>>
    /\ shown' = [shown EXCEPT ![s] = @ \cup Starts(<<Head(ch[s])>>)]
    /\ ch' = [ch EXCEPT ![s] = Tail(@)]
    /\ UNCHANGED <<clock, room, hub, sub, call, cut, crashed>>

\* A closed channel is read to its end before the handler returns.
Drain(s) ==
    /\ sub[s] = "dropped"
    /\ ch[s] # <<>>
    /\ ch' = [ch EXCEPT ![s] = Tail(@)]
    /\ UNCHANGED <<clock, room, hub, sub, shown, call, cut, crashed>>

\* The handler returns (the client went away, a write failed, the viewer or the room
\* is no longer good) and its deferred Close unsubscribes, once.
Leave(s) ==
    /\ sub[s] = "open"
    /\ sub' = [sub EXCEPT ![s] = "closed"]
    /\ ch' = [ch EXCEPT ![s] = <<>>]
    /\ shown' = [shown EXCEPT ![s] = {}]
    /\ UNCHANGED <<clock, room, hub, call, cut, crashed>>

-----------------------------------------------------------------------------
Request(h) ==
    \/ \E a \in Agents : TypingStop(h, a) \/ Message(h, a)
    \/ \E a \in Agents, ttl \in TTLs : TypingStart(h, a, ttl)
    \/ Close(h)

HubStep(c) ==
    \/ Start(c) \/ StartTooLate(c) \/ Stop(c) \/ ClearRoom(c) \/ BroadcastEnds(c)
    \/ \E s \in Subs : SendTo(c, s) \/ HandlerPanics(c, s) \/ TimerPanics(c, s)

Expiry == \E t \in Timers : \E f \in fired : Expire(t, f)

Viewer(s) == SubscribeWithSnapshot(s) \/ Receive(s) \/ Drain(s) \/ Leave(s)

Next ==
    \/ Tick
    \/ RoomEnds
    \/ \E h \in Handlers : Request(h)
    \/ \E c \in Callers : HubStep(c)
    \/ \E a \in Agents : TimerFires(a)
    \/ Expiry
    \/ \E s \in Subs : Viewer(s)

\* Time passes, the runtime fires due timers and runs goroutines.
Fairness ==
    /\ WF_vars(Tick)
    /\ \A a \in Agents : WF_vars(TimerFires(a))
    /\ \A c \in Callers : WF_vars(HubStep(c))
    /\ WF_vars(Expiry)

Spec == Init /\ [][Next]_vars /\ Fairness

-----------------------------------------------------------------------------
(* Properties *)

\* The hub's maps, the channels and the goroutines have their types; a channel is
\* never filled past its capacity.
TypeOK ==
    /\ clock \in Nat
    /\ turn \in Agents
    /\ active \in BOOLEAN
    /\ presence \in [Agents -> Presence \cup {Nil}]
    /\ fired \subseteq [actor : Agents, exp : Nat]
    /\ sub \in [Subs -> {"new", "open", "dropped", "closed"}]
    /\ ch \in [Subs -> Seq(Event)]
    /\ \A s \in Subs : Len(ch[s]) <= Buffer
    /\ shown \in [Subs -> SUBSET Event]
    /\ call \in [Callers -> Call]
    /\ cut \subseteq Event
    /\ crashed \in BOOLEAN

\* No presence is left without something that will end it: its own timer, or an
\* expire call that waits for the mutex and still matches it.  Start, Stop, prune
\* and expire stop and replace timers concurrently.
PresenceHasTimer ==
    \A a \in Agents :
        presence[a] # Nil =>
            \/ presence[a].armed
            \/ [actor |-> a, exp |-> presence[a].ev.exp] \in fired

OnItsWay(ev, s) ==
    \E c \in Callers :
        /\ At(c, "send")
        /\ \/ s \in call[c].left \cup call[c].full /\ ev = Head(call[c].evs)
           \/ s \in call[c].subs /\ \E i \in 2..Len(call[c].evs) : ev = call[c].evs[i]

\* An open viewer stream misses no typing agent: the start event of every presence
\* was in its snapshot, has been written, waits in its channel or is being broadcast
\* to it, unless a panic cut that broadcast short.
NothingMissed ==
    \A s \in Subs, a \in Agents :
        sub[s] = "open" /\ presence[a] # Nil =>
            LET ev == presence[a].ev
            IN  \/ ev \in shown[s] \cup cut
                \/ \E i \in DOMAIN ch[s] : ch[s][i] = ev
                \/ OnItsWay(ev, s)

\* A panic in a timer's goroutine ends the process, and every presence with it.
ProcessEnds == \E c \in Timers, s \in Subs : TimerPanics(c, s)

\* A timer never ends a presence before it expires, as long as its process lives: a
\* refresh is safe from the timer of the start it replaced.
ExpireNotEarly ==
    [][\A f \in fired \ fired', a \in Agents :
         presence[a] # Nil /\ presence'[a] = Nil /\ ~ProcessEnds => presence[a].ev.exp <= clock]_vars

\* A subscription is ended once, by its viewer or by a broadcast that found it full,
\* and what ended it stays on record.
EndedOnce == [][\A s \in Subs : Closed(s) => sub'[s] = sub[s]]_vars

\* Typing clears by itself: every presence ends or is refreshed.
PresenceEnds ==
    \A a \in Agents, e \in 1..MaxClock :
        (presence[a] # Nil /\ presence[a].ev.exp = e)
            ~> ~(presence[a] # Nil /\ presence[a].ev.exp = e)

=============================================================================
