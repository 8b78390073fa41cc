---------------------------- MODULE AgentStream ----------------------------
(***************************************************************************)
(* The path from "it is this agent's turn" to the agent being woken, for   *)
(* one agent that owns several rooms: agent_stream_deliveries and the      *)
(* transactions that write it, GET /v1/agent/stream with its resume and    *)
(* its polling, the ack and actionable-rooms endpoints, and BridgeDaemon   *)
(* (packages/aya-bridge/src/bridge.js), which keeps a cursor, the keys of  *)
(* the turns it has woken OpenClaw for and a queue of wake jobs on disk.   *)
(*                                                                         *)
(* The agent is agent A of each room, so even turns are its own.  A turn   *)
(* is named by its room and index, the bridge's wake key.                  *)
(*                                                                         *)
(* saveState is one step.  In the code it serialises this.state, awaits    *)
(* the file operations and renames, so a drain of the timer that saves     *)
(* while the loop saves may leave the older of the two on disk.  The saves *)
(* of openStream and of a disconnect, which change only the status, are    *)
(* left out.                                                               *)
(***************************************************************************)
EXTENDS Naturals, Sequences, FiniteSets

CONSTANTS
    Rooms,
    Timers,      \* overlapping drains the wake_retry_interval timer may start
    Page,        \* limit of ListPendingAgentStreamDeliveries
    Window,      \* agentStreamReplayWindow, in ticks of the clock
    MaxKeys,     \* completed_wake_keys kept
    MaxTurn,     \* bound on a room's turn_index
    MaxClock,    \* bound on the clock
    MaxFaults,   \* bound on crashes, broken streams and failed wakes
    Nil

ASSUME AgentStreamNumbersAssumption ==
    /\ Page \in Nat \ {0} /\ Window \in Nat \ {0} /\ MaxKeys \in Nat \ {0}
    /\ MaxTurn \in Nat /\ MaxClock \in Nat /\ MaxFaults \in Nat
    /\ "main" \notin Timers

VARIABLES
    clock,
    room,     \* the committed rooms rows: state, turn index, closed_at
    seq,      \* the sequence behind agent_stream_deliveries.seq, last value handed out
    tx,       \* per room, the row its running transaction has inserted, or Nil
    table,    \* the committed deliveries
    acked,    \* the seqs with status 'acked'
    conn,     \* handleAgentStream: connected, and lastSentSeq
    wire,     \* deliveries written to the stream and not yet read
    main,     \* the bridge's serve loop: place, delivery in hand, where its ack leads,
              \* recovery payload left
    drain,    \* the running calls of drainWakeQueue: files left, job in hand, place
    queue,    \* wake_queue/*.json
    mem,      \* this.state: last_acknowledged_delivery_id (0: none), completed_wake_keys
    disk,     \* state.json
    woken,    \* the turns OpenClaw has been woken for
    faults

server == <<room, seq, tx, table>>
files == <<queue, disk>>
vars == <<clock, room, seq, tx, table, acked, conn, wire, main, drain, queue, mem, disk,
          woken, faults>>

Drainers == {"main"} \cup Timers
Key == [room : Rooms, turn : Nat]
Row == [seq : Nat, room : Rooms, type : {"turn_ready", "closed", "purged"}, turn : Nat, exp : Nat]
\* A job file is named by its delivery, 0 standing for recovery-<room>-<turn>.
Job == [id : Nat, key : Key]
\* A room of the recovery payload.
Item == [room : Rooms, turn : Nat, over : BOOLEAN]
Keys(s) == {s[i] : i \in DOMAIN s}
KeyOf(d) == [room |-> d.room, turn |-> d.turn]

\* nextActorIDForRoom is this agent.
Ended(r) == room[r].state \in {"closed", "purged"}
MyTurn(r) == room[r].state = "active" /\ room[r].turn % 2 = 0
Current(k) == MyTurn(k.room) /\ room[k.room].turn = k.turn

NoDrain == [pc |-> "none", todo |-> {}, job |-> Nil]
At(pc) == main.pc = pc
Goto(pc) == main' = [main EXCEPT !.pc = pc]
Loop(pc) == [pc |-> pc, msg |-> Nil, then |-> "read", left |-> {}]

-----------------------------------------------------------------------------
Init ==
    /\ clock = 0
    /\ room = [r \in Rooms |-> [state |-> "open", turn |-> 0, endedAt |-> 0]]
    /\ seq = 0
    /\ tx = [r \in Rooms |-> Nil]
    /\ table = {}
    /\ acked = {}
    /\ conn = [on |-> FALSE, last |-> 0]
    /\ wire = <<>>
    /\ main = Loop("down")
    /\ drain = [d \in Drainers |-> NoDrain]
    /\ queue = {}
    /\ mem = [cursor |-> 0, keys |-> <<>>]
    /\ disk = mem
    /\ woken = {}
    /\ faults = 0

Tick ==
    /\ clock < MaxClock
    /\ clock' = clock + 1
    /\ UNCHANGED <<server, acked, conn, wire, main, drain, files, mem, woken, faults>>

Fault == faults < MaxFaults /\ faults' = faults + 1

-----------------------------------------------------------------------------
(* The API's transactions.  Each holds its room's row lock from the insert *)
(* to the commit; the sequence is advanced by the insert.                  *)

\* createAgentStreamDelivery with the row's expiry at the replay window.
Insert(r, type, turn) ==
    /\ tx[r] = Nil
    /\ seq' = seq + 1
    /\ tx' = [tx EXCEPT ![r] = [seq |-> seq + 1, room |-> r, type |-> type, turn |-> turn,
                                exp |-> clock + Window]]
    /\ UNCHANGED <<clock, room, table, acked, conn, wire, main, drain, files, mem, woken,
                   faults>>

\* The room becomes ACTIVE (connect), or the peer's message hands the turn back.
TurnReady(r) ==
    \/ room[r].state = "open" /\ Insert(r, "turn_ready", 0)
    \/ /\ room[r].state = "active" /\ room[r].turn % 2 = 1 /\ room[r].turn < MaxTurn
       /\ Insert(r, "turn_ready", room[r].turn + 1)

\* A close by a participant, by the last turn or by the TTL; then the purge.
Terminal(r) ==
    \/ room[r].state \in {"open", "active"} /\ Insert(r, "closed", room[r].turn)
    \/ room[r].state = "closed" /\ Insert(r, "purged", room[r].turn)

Commit(r) ==
    /\ tx[r] # Nil
    /\ table' = table \cup {tx[r]}
    /\ room' = [room EXCEPT ![r] =
          IF tx[r].type = "turn_ready" THEN [@ EXCEPT !.state = "active", !.turn = tx[r].turn]
          ELSE [@ EXCEPT !.state = tx[r].type, !.endedAt = clock]]
    /\ tx' = [tx EXCEPT ![r] = Nil]
    /\ UNCHANGED <<clock, seq, acked, conn, wire, main, drain, files, mem, woken, faults>>

\* OpenClaw, woken for the turn, sends its message; the peer gets the delivery.
Reply(r) ==
    /\ tx[r] = Nil /\ MyTurn(r) /\ room[r].turn < MaxTurn
    /\ [room |-> r, turn |-> room[r].turn] \in woken
    /\ room' = [room EXCEPT ![r].turn = @ + 1]
    /\ UNCHANGED <<clock, seq, tx, table, acked, conn, wire, main, drain, files, mem, woken,
                   faults>>

-----------------------------------------------------------------------------
(* handleAgentStream *)

\* ResolveAgentStreamResume: "fresh" without a cursor, "ok" after an acknowledged
\* delivery that has not expired, else "replay_required".
Resumable(c) ==
    c = 0 \/ \E d \in table : d.seq = c /\ d.exp > clock /\ c \in acked

\* Mutant: the position is taken for the first row still to send.
PendingOffByOne(after) ==
    {d \in table : d.seq > after + 1 /\ d.seq \notin acked /\ d.exp > clock}

\* ListPendingAgentStreamDeliveries.
Pending(after) == {d \in table : d.seq > after /\ d.seq \notin acked /\ d.exp > clock}
Batch(after) == {d \in Pending(after) :
                    Cardinality({e \in Pending(after) : e.seq < d.seq}) < Page}
InOrder(S) == CHOOSE s \in [1..Cardinality(S) -> S] :
                 \A i, j \in 1..Cardinality(S) : i < j => s[i].seq < s[j].seq

\* openStream: hello, then the first batch, or the demand to recover and the end.
OpenStream ==
    /\ At("wait")
    /\ IF Resumable(mem.cursor)
       THEN /\ conn' = [on |-> TRUE, last |-> mem.cursor]
            /\ Goto("read")
       ELSE /\ Goto("recover")
            /\ UNCHANGED conn
    /\ UNCHANGED <<clock, server, acked, wire, drain, files, mem, woken, faults>>

\* writePendingAgentStreamBatch, on connecting and then every second.
WriteBatch ==
    /\ conn.on /\ Batch(conn.last) # {}
    /\ LET s == InOrder(Batch(conn.last)) IN
          /\ wire' = wire \o s
          /\ conn' = [conn EXCEPT !.last = s[Len(s)].seq]
    /\ UNCHANGED <<clock, server, acked, main, drain, files, mem, woken, faults>>

\* The stream is over and serve goes to its backoff.
Disconnected ==
    /\ main' = Loop("wait")
    /\ conn' = [on |-> FALSE, last |-> 0]
    /\ wire' = <<>>

-----------------------------------------------------------------------------
(* The bridge's wake queue *)

\* s with the members of S filtered out.
Without(s, S) ==
    LET kept[i \in 0..Len(s)] == IF i = 0 THEN <<>>
                                 ELSE IF s[i] \in S THEN kept[i - 1]
                                 ELSE Append(kept[i - 1], s[i])
    IN kept[Len(s)]

\* Mutant: the list is never cut.
RememberAll(s, k) == <<k>> \o Without(s, {k})

\* rememberCompletedWakeKey: newest first, the oldest beyond MaxKeys forgotten.
Remember(s, k) ==
    LET t == <<k>> \o Without(s, {k})
    IN SubSeq(t, 1, IF Len(t) < MaxKeys THEN Len(t) ELSE MaxKeys)

\* forgetCompletedWakeKeysForRoom.
Forget(s, r) == Without(s, {k \in Keys(s) : k.room = r})

\* enqueueWakeJob: nothing for a completed turn, or when an equivalent job waits.
Enqueued(id, k) ==
    IF k \in Keys(mem.keys) \/ \E j \in queue : j.key = k THEN queue
    ELSE queue \cup {[id |-> id, key |-> k]}

\* dropWakeJobsForRoom.
Dropped(r) == {j \in queue : j.key.room # r}

\* drainWakeQueue lists the files.
StartDrain(d) == drain' = [drain EXCEPT ![d] = [pc |-> "next", todo |-> queue, job |-> Nil]]

\* The timer of serve; one call does not wait for the last.
TimerDrain(d) ==
    /\ main.pc \notin {"down", "start"}
    /\ drain[d].pc = "none" /\ queue # {}
    /\ StartDrain(d)
    /\ UNCHANGED <<clock, server, acked, conn, wire, main, files, mem, woken, faults>>

\* The next file is read; one that has gone is skipped.
ReadJob(d) ==
    /\ drain[d].pc = "next"
    /\ \E j \in drain[d].todo :
          drain' = [drain EXCEPT ![d] =
             [pc |-> IF j \in queue THEN "wake" ELSE "next", todo |-> @.todo \ {j},
              job |-> IF j \in queue THEN j ELSE Nil]]
    /\ UNCHANGED <<clock, server, acked, conn, wire, main, files, mem, woken, faults>>

\* wakeOpenClaw, the hook having answered.
Wake(d) ==
    /\ drain[d].pc = "wake"
    /\ woken' = woken \cup {drain[d].job.key}
    /\ drain' = [drain EXCEPT ![d].pc = "done"]
    /\ UNCHANGED <<clock, server, acked, conn, wire, main, files, mem, faults>>

\* The file is removed, the key remembered and the state saved; a save that fails is
\* only logged.
Woken(d) ==
    /\ drain[d].pc = "done"
    /\ queue' = queue \ {drain[d].job}
    /\ mem' = [mem EXCEPT !.keys = Remember(@, drain[d].job.key)]
    /\ \/ disk' = mem' /\ UNCHANGED faults
       \/ UNCHANGED disk /\ Fault
    /\ drain' = [drain EXCEPT ![d].pc = "next", ![d].job = Nil]
    /\ UNCHANGED <<clock, server, acked, conn, wire, main, woken>>

\* The hook or the token refresh failed (the refresh always does once the room has
\* closed): updateWakeJob writes the file again.
WakeFailed(d) ==
    /\ drain[d].pc = "wake"
    /\ \/ Fault
       \/ Ended(drain[d].job.key.room) /\ UNCHANGED faults
    /\ queue' = queue \cup {drain[d].job}
    /\ drain' = [drain EXCEPT ![d].pc = "next", ![d].job = Nil]
    /\ UNCHANGED <<clock, server, acked, conn, wire, main, mem, disk, woken>>

DrainDone(d) ==
    /\ d \in Timers
    /\ drain[d].pc = "next" /\ drain[d].todo = {}
    /\ drain' = [drain EXCEPT ![d] = NoDrain]
    /\ UNCHANGED <<clock, server, acked, conn, wire, main, files, mem, woken, faults>>

-----------------------------------------------------------------------------
(* The bridge's serve loop *)

\* fromDisk and the drain before the loop.
Start ==
    /\ At("down")
    /\ mem' = disk
    /\ Goto("start")
    /\ StartDrain("main")
    /\ UNCHANGED <<clock, server, acked, conn, wire, files, woken, faults>>

\* A drain awaited by the loop ends: serve goes to connect, a handler to the next
\* event, recovery to clearing the cursor and reconnecting.
MainDrained ==
    /\ main.pc \in {"start", "drain", "rdrain"}
    /\ drain["main"].pc = "next" /\ drain["main"].todo = {}
    /\ drain' = [drain EXCEPT !["main"] = NoDrain]
    /\ main' = [main EXCEPT !.pc = IF At("start") THEN "wait"
                                   ELSE IF At("drain") THEN "read" ELSE "clear"]
    /\ UNCHANGED <<clock, server, acked, conn, wire, files, mem, woken, faults>>

\* The next event; a turn already completed only has to be acknowledged.
ReadEvent ==
    /\ At("read") /\ wire # <<>>
    /\ wire' = Tail(wire)
    /\ main' = [main EXCEPT !.msg = Head(wire),
                   !.then = "read",
                   !.pc = IF Head(wire).type # "turn_ready" THEN "terminal"
                          ELSE IF KeyOf(Head(wire)) \in Keys(mem.keys) THEN "ack"
                          ELSE "token"]
    /\ UNCHANGED <<clock, server, acked, conn, drain, files, mem, woken, faults>>

\* refreshRoomToken: a room no longer OPEN or ACTIVE answers 410, the handler throws
\* and the stream is given up.
RefreshRoomToken ==
    /\ At("token")
    /\ \/ /\ ~Ended(main.msg.room)
          /\ Goto("enqueue")
          /\ UNCHANGED <<conn, wire>>
       \/ /\ Ended(main.msg.room)
          /\ Disconnected
    /\ UNCHANGED <<clock, server, acked, drain, files, mem, woken, faults>>

\* Mutant: the delivery is acknowledged and the job written afterwards.
EnqueueWakeJobLate ==
    /\ At("enqueue")
    /\ main' = [main EXCEPT !.pc = "ack", !.then = "drain"]
    /\ UNCHANGED <<clock, server, acked, conn, wire, drain, files, mem, woken, faults>>

EnqueueWakeJob ==
    /\ At("enqueue")
    /\ queue' = Enqueued(main.msg.seq, KeyOf(main.msg))
    /\ main' = [main EXCEPT !.pc = "ack", !.then = "drain"]
    /\ UNCHANGED <<clock, server, acked, conn, wire, drain, mem, disk, woken, faults>>

\* handleTerminal before its ack.
HandleTerminal ==
    /\ At("terminal")
    /\ queue' = Dropped(main.msg.room)
    /\ mem' = [mem EXCEPT !.keys = Forget(@, main.msg.room)]
    /\ disk' = mem'
    /\ Goto("ack")
    /\ UNCHANGED <<clock, server, acked, conn, wire, drain, woken, faults>>

\* AckAgentStreamDelivery.
AckDelivery ==
    /\ At("ack")
    /\ acked' = acked \cup {main.msg.seq}
    /\ Goto("acked")
    /\ UNCHANGED <<clock, server, conn, wire, drain, files, mem, woken, faults>>

\* The answer to the ack: the cursor moves and is saved; a new turn drains the queue.
SaveCursor ==
    /\ At("acked")
    /\ mem' = [mem EXCEPT !.cursor = main.msg.seq]
    /\ disk' = mem'
    /\ Goto(main.then)
    /\ IF main.then = "drain" THEN StartDrain("main") ELSE UNCHANGED drain
    /\ UNCHANGED <<clock, server, acked, conn, wire, queue, woken, faults>>

-----------------------------------------------------------------------------
(* processRecovery *)

\* GET /v1/agent/actionable-rooms: the rooms whose turn is this agent's, and those
\* that ended within the window.
FetchActionable ==
    /\ At("recover")
    /\ main' = [main EXCEPT !.pc = "rooms", !.left =
          {[room |-> r, turn |-> room[r].turn, over |-> FALSE] : r \in {q \in Rooms : MyTurn(q)}}
          \cup {[room |-> r, turn |-> room[r].turn, over |-> TRUE] :
                  r \in {q \in Rooms : Ended(q) /\ room[q].endedAt + Window >= clock}}]
    /\ UNCHANGED <<clock, server, acked, conn, wire, drain, files, mem, woken, faults>>

\* The jobs of the next room are dropped; terminal rooms come first.
DropRoom ==
    /\ At("rooms")
    /\ \E it \in main.left :
          /\ it.over \/ \A other \in main.left : ~other.over
          /\ queue' = Dropped(it.room)
          /\ mem' = IF it.over THEN [mem EXCEPT !.keys = Forget(@, it.room)] ELSE mem
          /\ disk' = IF it.over THEN mem' ELSE disk
          /\ main' = [main EXCEPT !.left = @ \ {it}, !.msg = it,
                         !.pc = IF it.over \/ KeyOf(it) \in Keys(mem.keys) THEN "rooms"
                                ELSE "requeue"]
    /\ UNCHANGED <<clock, server, acked, conn, wire, drain, woken, faults>>

Requeue ==
    /\ At("requeue")
    /\ queue' = Enqueued(0, KeyOf(main.msg))
    /\ Goto("rooms")
    /\ UNCHANGED <<clock, server, acked, conn, wire, drain, mem, disk, woken, faults>>

RecoveryDrain ==
    /\ At("rooms") /\ main.left = {}
    /\ Goto("rdrain")
    /\ StartDrain("main")
    /\ UNCHANGED <<clock, server, acked, conn, wire, files, mem, woken, faults>>

\* The cursor is given up and the bridge reconnects.
ClearCursor ==
    /\ At("clear")
    /\ mem' = [mem EXCEPT !.cursor = 0]
    /\ disk' = mem'
    /\ Disconnected
    /\ UNCHANGED <<clock, server, acked, drain, queue, woken, faults>>

-----------------------------------------------------------------------------
(* Faults *)

\* The stream breaks, or a request of a handler fails or loses its answer.
Break ==
    /\ main.pc \in {"read", "token", "ack", "acked", "recover"}
    /\ Fault
    /\ Disconnected
    /\ UNCHANGED <<clock, server, acked, drain, files, mem, woken>>

\* The bridge's process ends anywhere.
Crash ==
    /\ ~At("down")
    /\ Fault
    /\ main' = Loop("down")
    /\ conn' = [on |-> FALSE, last |-> 0]
    /\ wire' = <<>>
    /\ drain' = [d \in Drainers |-> NoDrain]
    /\ mem' = disk
    /\ UNCHANGED <<clock, server, acked, files, woken>>

Api == \E r \in Rooms : TurnReady(r) \/ Terminal(r) \/ Commit(r) \/ Reply(r)
Drain == \E d \in Drainers :
    (d \in Timers /\ TimerDrain(d)) \/ ReadJob(d) \/ Wake(d) \/ Woken(d) \/ WakeFailed(d)
    \/ DrainDone(d)
Handle == ReadEvent \/ RefreshRoomToken \/ EnqueueWakeJob \/ HandleTerminal \/ AckDelivery
          \/ SaveCursor
Recover == FetchActionable \/ DropRoom \/ Requeue \/ RecoveryDrain \/ ClearCursor
Serve == Start \/ MainDrained \/ OpenStream \/ Handle \/ Recover

Next == Tick \/ Api \/ WriteBatch \/ Drain \/ Serve \/ Break \/ Crash

\* Transactions end; the handler polls every second; the bridge is restarted and its
\* loop, timer and requests go on; OpenClaw's hook does not fail for ever.
Fairness ==
    /\ \A r \in Rooms : WF_vars(Commit(r))
    /\ WF_vars(WriteBatch)
    /\ WF_vars(Serve)
    /\ \A d \in Timers : WF_vars(TimerDrain(d)) /\ WF_vars(DrainDone(d))
    /\ \A d \in Drainers :
          /\ WF_vars(ReadJob(d)) /\ WF_vars(Woken(d))
          /\ WF_vars(Wake(d) \/ WakeFailed(d))

Spec == Init /\ [][Next]_vars /\ Fairness

-----------------------------------------------------------------------------
(* Properties *)

\* The tables, the stream and the bridge's files have their types; only deliveries
\* that were created are acknowledged, and the remembered wakes stay bounded.
TypeOK ==
    /\ clock \in Nat /\ seq \in Nat /\ faults \in Nat
    /\ room \in [Rooms -> [state : {"open", "active", "closed", "purged"}, turn : Nat,
                         endedAt : Nat]]
    /\ tx \in [Rooms -> Row \cup {Nil}]
    /\ table \subseteq Row
    /\ acked \subseteq 1..seq
    /\ conn \in [on : BOOLEAN, last : Nat]
    /\ wire \in Seq(Row)
    /\ main \in [pc : {"down", "start", "wait", "read", "token", "enqueue", "terminal", "ack",
                       "acked", "drain", "recover", "rooms", "requeue", "rdrain", "clear"},
                 msg : Row \cup Item \cup {Nil}, then : {"read", "drain"}, left : SUBSET Item]
    /\ drain \in [Drainers -> [pc : {"none", "next", "wake", "done"}, todo : SUBSET Job,
                              job : Job \cup {Nil}]]
    /\ queue \subseteq Job
    /\ \A s \in {mem, disk} :
          s \in [cursor : Nat, keys : Seq(Key)] /\ Len(s.keys) <= MaxKeys
    /\ woken \subseteq Key

\* A turn_ready delivery the server no longer offers because it was acknowledged has
\* left something behind that will wake the agent for the turn, as long as the turn
\* is still to be played: a job on disk, a wake already made, or a saved cursor
\* whose expiry forces recovery.  Acknowledging is never the last trace of a turn
\* (handleTurnReady writes the job first), whatever crashes, breaks or runs
\* concurrently.
AckedIsDurable ==
    \A d \in table :
        (d.type = "turn_ready" /\ d.seq \in acked /\ Current(KeyOf(d))) =>
            \/ \E j \in queue : j.key = KeyOf(d)
            \/ KeyOf(d) \in woken
            \/ ~Resumable(disk.cursor)

\* A turn delivered to the agent that stays its turn is woken for, unless the
\* delivery outlives the replay window.
AtLeastOnce ==
    \A r \in Rooms, t \in 0..MaxTurn : LET k == [room |-> r, turn |-> t] IN
        (\E d \in table : d.type = "turn_ready" /\ KeyOf(d) = k)
            ~> (k \in woken \/ ~Current(k) \/ \E d \in table : KeyOf(d) = k /\ d.exp <= clock)
=============================================================================
