---------------------------- MODULE EventStream ----------------------------
(***************************************************************************)
(* The event stream of one room: room_events in the database, the writers  *)
(* that append to it and publish what they appended, roomEventHub          *)
(* (internal/httpapi/event_hub.go) of one API process, handleRoomEvents    *)
(* with its replay and its live part, and the stream slots of one agent.   *)
(* Clients reconnect with the id of the last event they were sent.         *)
(*                                                                         *)
(* Every writer appends its events under the room's row lock (module       *)
(* RoomService), so ids are committed in order and event i is the i-th.    *)
(* Publishing is not under that lock: it follows the commit, in the        *)
(* process of the writer only.                                             *)
(*                                                                         *)
(* The server's WriteTimeout of 30 s (cmd/api/main.go) ends every stream   *)
(* before its 90 s lease; here a stream ends at any time or goes on, which *)
(* allows more than the code does.                                         *)
(***************************************************************************)
EXTENDS Naturals, Sequences, FiniteSets

CONSTANTS
    Clients,      \* streams of one agent in one room
    Writers,      \* request and worker goroutines of this process
    Buffer,       \* capacity of a subscription's channel
    Limit,        \* page size of the replay
    MaxEvents,    \* bound on the events of the room
    Batch,        \* numbers of events one transaction appends
    MaxActive,    \* maxActiveStreamsPerAgentRoom
    MaxConnects,  \* maxStreamConnectsPerMinuteRoomKey
    LeaseTTL,     \* a lease's 90 s, in ticks of the clock
    MaxClock      \* bound on the clock

ASSUME StreamNumbersAssumption ==
    /\ Buffer \in Nat \ {0} /\ Limit \in Nat \ {0} /\ MaxActive \in Nat \ {0}
    /\ MaxConnects \in Nat \ {0} /\ LeaseTTL \in Nat \ {0}
    /\ MaxEvents \in Nat /\ MaxClock \in Nat
    /\ Batch \subseteq Nat \ {0}
ASSUME StreamClientsAssumption == IsFiniteSet(Clients)

VARIABLES
    clock,
    shared,   \* the store keeps the leases (Postgres); FALSE: the process counts streams
    count,    \* events committed, ids 1..count
    remote,   \* the ids of events other processes wrote
    pub,      \* per writer, the committed events it has still to publish
    full,     \* per writer, toDrop: the subscriptions its last event found full
    conn,     \* per client, its handleRoomEvents: place, sinceID, page to write, when it
              \* began and the lease it took
    sub,      \* its subscription: "none", "open" (in subsByRoom), "dropped"
    ch,       \* the subscription's channel
    got,      \* the ids the client has been sent, over all its connections
    leases,   \* the slots taken: lease id, until when
    opens     \* the connects of the last minute

db == <<count, remote>>
hub == <<pub, full, sub, ch>>
slots == <<leases, opens>>
vars == <<clock, shared, count, remote, pub, full, conn, sub, ch, got, leases, opens>>

Ids == 1..MaxEvents
Conn == [pc : {"off", "slot", "replay", "live"}, since : Nat, page : Seq(Nat), start : Nat,
         lease : Nat]
Off == [pc |-> "off", since |-> 0, page |-> <<>>, start |-> 0, lease |-> 0]
Lease == [id : Nat, exp : Nat]

At(k, pc) == conn[k].pc = pc
Streaming == {k \in Clients : conn[k].pc # "off"}
Registered == {k \in Clients : sub[k] = "open"}
Last(k) == IF got[k] = <<>> THEN 0 ELSE got[k][Len(got[k])]
Holds(s, e) == \E i \in DOMAIN s : s[i] = e
Interval(m, n) == [i \in 1..(n - m) |-> m + i]

-----------------------------------------------------------------------------
Init ==
    /\ clock = 0
    /\ shared \in BOOLEAN
    /\ count = 0
    /\ remote = {}
    /\ pub = [w \in Writers |-> <<>>]
    /\ full = [w \in Writers |-> {}]
    /\ conn = [k \in Clients |-> Off]
    /\ sub = [k \in Clients |-> "none"]
    /\ ch = [k \in Clients |-> <<>>]
    /\ got = [k \in Clients |-> <<>>]
    /\ leases = {}
    /\ opens = 0

\* Time passes, in steps long enough that the connects so far leave the
\* window of one minute.
Tick ==
    /\ clock < MaxClock
    /\ clock' = clock + 1
    /\ opens' = 0
    /\ UNCHANGED <<shared, db, hub, conn, got, leases>>

-----------------------------------------------------------------------------
(* Writers *)

\* A transaction of this process has appended events and committed; its goroutine
\* goes on to publishRoomEvents.
Commit(w, n) ==
    /\ pub[w] = <<>> /\ full[w] = {}
    /\ count + n <= MaxEvents
    /\ count' = count + n
    /\ pub' = [pub EXCEPT ![w] = Interval(count, count + n)]
    /\ UNCHANGED <<clock, shared, remote, full, conn, sub, ch, got, slots>>

\* A transaction of another process: its hub has none of these subscriptions.
CommitElsewhere ==
    /\ count < MaxEvents
    /\ count' = count + 1
    /\ remote' = remote \cup {count + 1}
    /\ UNCHANGED <<clock, shared, hub, conn, got, slots>>

\* Mutant: the send does not look at the buffer.
PublishUnbounded(w) ==
    /\ pub[w] # <<>> /\ full[w] = {}
    /\ ch' = [k \in Clients |-> IF k \in Registered THEN Append(ch[k], Head(pub[w])) ELSE ch[k]]
    /\ pub' = [pub EXCEPT ![w] = Tail(@)]
    /\ UNCHANGED <<clock, shared, db, full, conn, sub, got, slots>>

\* Publish, under the read lock: one non-blocking send to every subscription.
\* Sends to different subscriptions commute, so the loop is one step.
Publish(w) ==
    /\ pub[w] # <<>> /\ full[w] = {}
    /\ ch' = [k \in Clients |-> IF k \in Registered /\ Len(ch[k]) < Buffer
                                  THEN Append(ch[k], Head(pub[w])) ELSE ch[k]]
    /\ full' = [full EXCEPT ![w] = {k \in Registered : Len(ch[k]) >= Buffer}]
    /\ pub' = [pub EXCEPT ![w] = Tail(@)]
    /\ UNCHANGED <<clock, shared, db, conn, sub, got, slots>>

\* Mutant: a full subscription is skipped and stays.
DropFullForgets(w) ==
    /\ full[w] # {}
    /\ full' = [full EXCEPT ![w] = {}]
    /\ UNCHANGED <<clock, shared, db, pub, conn, sub, ch, got, slots>>

\* The end of Publish, under the write lock: the subscriptions it found full are
\* dropped and closed, if subsByRoom still has them.
DropFull(w) ==
    /\ full[w] # {}
    /\ sub' = [k \in Clients |-> IF k \in full[w] \cap Registered THEN "dropped" ELSE sub[k]]
    /\ full' = [full EXCEPT ![w] = {}]
    /\ UNCHANGED <<clock, shared, db, pub, conn, ch, got, slots>>

-----------------------------------------------------------------------------
(* Stream slots: AcquireRoomEventStreamLease, or acquireStreamSlot's own count. *)

\* The leases a connect counts: the expired ones are deleted first.  The process's
\* own count never expires.
Counted == {l \in leases : shared => l.exp > clock}

\* The limit on active streams and the one on connects per minute (the one per IP
\* address is the same check under another key).
MayOpen == Cardinality(Counted) < MaxActive /\ opens < MaxConnects

\* newID: an id no lease has and no stream remembers.
NewLease ==
    CHOOSE n \in 1..(Cardinality(leases) + Cardinality(Clients) + 1) :
        /\ \A l \in leases : l.id # n
        /\ \A k \in Clients : conn[k].lease # n

Connect(k) ==
    /\ At(k, "off")
    /\ MayOpen
    /\ leases' = Counted \cup {[id |-> NewLease, exp |-> clock + LeaseTTL]}
    /\ opens' = opens + 1
    /\ conn' = [conn EXCEPT ![k] = [Off EXCEPT !.pc = "slot", !.since = Last(k),
                                               !.start = clock, !.lease = NewLease]]
    /\ UNCHANGED <<clock, shared, db, hub, got>>

\* The request is answered 429; the transaction with its deletions is rolled back.
ConnectDenied(k) ==
    /\ At(k, "off")
    /\ ~MayOpen
    /\ UNCHANGED vars

-----------------------------------------------------------------------------
(* handleRoomEvents *)

\* The subscription comes before the replay.
Subscribe(k) ==
    /\ At(k, "slot")
    /\ sub' = [sub EXCEPT ![k] = "open"]
    /\ conn' = [conn EXCEPT ![k].pc = "replay"]
    /\ UNCHANGED <<clock, shared, db, pub, full, ch, got, slots>>

\* ListRoomEventHistory: the next page after the last event written.  An empty page
\* ends the replay, and so does a short one once it is written.
ReplayPage(k) ==
    LET from == conn[k].since
        to == IF count < from + Limit THEN count ELSE from + Limit
    IN  /\ At(k, "replay")
        /\ conn[k].page = <<>>
        /\ conn' = [conn EXCEPT ![k].page = Interval(from, to),
                                ![k].pc = IF to < from + Limit THEN "live" ELSE "replay"]
        /\ UNCHANGED <<clock, shared, db, hub, got, slots>>

Write(k, id) ==
    got' = [got EXCEPT ![k] = Append(@, id)]

WritePage(k) ==
    LET id == Head(conn[k].page)
    IN  /\ conn[k].page # <<>>
        /\ Write(k, id)
        /\ conn' = [conn EXCEPT ![k].page = Tail(@), ![k].since = id]
        /\ UNCHANGED <<clock, shared, db, hub, slots>>

\* Mutant: what the replay has written is written again.
ReceiveAll(k) ==
    LET id == Head(ch[k])
    IN  /\ At(k, "live") /\ conn[k].page = <<>>
        /\ ch[k] # <<>>
        /\ ch' = [ch EXCEPT ![k] = Tail(@)]
        /\ Write(k, id)
        /\ conn' = [conn EXCEPT ![k].since = id]
        /\ UNCHANGED <<clock, shared, db, pub, full, sub, slots>>

\* The live loop: an event not above sinceID is skipped.
Receive(k) ==
    LET id == Head(ch[k])
    IN  /\ At(k, "live") /\ conn[k].page = <<>>
        /\ ch[k] # <<>>
        /\ ch' = [ch EXCEPT ![k] = Tail(@)]
        /\ IF id <= conn[k].since THEN UNCHANGED <<got, conn>>
           ELSE Write(k, id) /\ conn' = [conn EXCEPT ![k].since = id]
        /\ UNCHANGED <<clock, shared, db, pub, full, sub, slots>>

\* Mutant: a client that leaves before it is live keeps its slot.
ReleasedWhenLive(k) ==
    IF At(k, "live") THEN {l \in leases : l.id # conn[k].lease} ELSE leases

\* ReleaseRoomEventStreamLease, or the process's count taken back.
Released(k) == {l \in leases : l.id # conn[k].lease}

\* The handler returns: the client has gone, a write or the replay has failed, the
\* session is no longer good, or the channel was closed and is empty.  Its deferred
\* calls unsubscribe (the id, never used again, means nothing in a toDrop) and
\* release the slot.
Return(k) ==
    /\ ~At(k, "off")
    /\ conn' = [conn EXCEPT ![k] = Off]
    /\ sub' = [sub EXCEPT ![k] = "none"]
    /\ ch' = [ch EXCEPT ![k] = <<>>]
    /\ full' = [w \in Writers |-> full[w] \ {k}]
    /\ leases' = Released(k)
    /\ UNCHANGED <<clock, shared, db, pub, got, opens>>

\* As above, and the DELETE of the lease fails, which is only logged.
ReturnKeepingLease(k) ==
    /\ shared
    /\ ~At(k, "off")
    /\ conn' = [conn EXCEPT ![k] = Off]
    /\ sub' = [sub EXCEPT ![k] = "none"]
    /\ ch' = [ch EXCEPT ![k] = <<>>]
    /\ full' = [w \in Writers |-> full[w] \ {k}]
    /\ UNCHANGED <<clock, shared, db, pub, got, slots>>

\* The process ends and starts again.  What it had not published stays unpublished;
\* leases stay in the database, counts in memory do not.
Crash ==
    /\ Streaming # {} \/ \E w \in Writers : pub[w] # <<>>
    /\ pub' = [w \in Writers |-> <<>>]
    /\ full' = [w \in Writers |-> {}]
    /\ conn' = [k \in Clients |-> Off]
    /\ sub' = [k \in Clients |-> "none"]
    /\ ch' = [k \in Clients |-> <<>>]
    /\ leases' = IF shared THEN leases ELSE {}
    /\ opens' = IF shared THEN opens ELSE 0
    /\ UNCHANGED <<clock, shared, db, got>>

-----------------------------------------------------------------------------
Publishing(w) == Publish(w) \/ DropFull(w)
Handler(k) == Subscribe(k) \/ ReplayPage(k) \/ WritePage(k) \/ Receive(k)

\* Mutant: the live loop goes on when its channel is closed.
SpinOnClosed(k) ==
    /\ sub[k] = "dropped" /\ At(k, "live") /\ ch[k] = <<>> /\ conn[k].page = <<>>
    /\ UNCHANGED vars

\* A dropped subscription's channel is closed: once it is empty the handler returns.
ReturnDropped(k) == sub[k] = "dropped" /\ At(k, "live") /\ ch[k] = <<>>
                    /\ conn[k].page = <<>> /\ Return(k)

Next ==
    \/ Tick
    \/ \E w \in Writers, n \in Batch : Commit(w, n)
    \/ CommitElsewhere
    \/ \E w \in Writers : Publishing(w)
    \/ \E k \in Clients : Connect(k) \/ ConnectDenied(k)
    \/ \E k \in Clients : Handler(k) \/ Return(k) \/ ReturnKeepingLease(k)
    \/ Crash

\* Goroutines that can run are run, and clients read what is written to them.
\* Nothing makes a client connect or leave, or a process crash.
Fairness ==
    /\ WF_vars(Tick)
    /\ \A w \in Writers : WF_vars(Publishing(w))
    /\ \A k \in Clients : WF_vars(Handler(k)) /\ WF_vars(ReturnDropped(k))

Spec == Init /\ [][Next]_vars /\ Fairness

-----------------------------------------------------------------------------
(* Properties *)

\* Subscriptions, channels, handlers and slots have their types; no channel holds
\* more than its capacity.
TypeOK ==
    /\ clock \in Nat /\ shared \in BOOLEAN /\ count \in Nat /\ opens \in Nat
    /\ remote \subseteq Nat
    /\ pub \in [Writers -> Seq(Nat)]
    /\ full \in [Writers -> SUBSET Clients]
    /\ conn \in [Clients -> Conn]
    /\ sub \in [Clients -> {"none", "open", "dropped"}]
    /\ ch \in [Clients -> Seq(Nat)]
    /\ \A k \in Clients : Len(ch[k]) <= Buffer
    /\ got \in [Clients -> Seq(Nat)]
    /\ leases \subseteq Lease

\* A client is sent every event at most once and in the order of the ids, through
\* replay, live part and reconnects together, although the subscription is opened
\* before the replay and both see the same events.
InOrderOnce == \A k \in Clients : \A i, j \in DOMAIN got[k] : i < j => got[k][i] < got[k][j]

\* Nothing above a live stream's cursor falls between replay and subscription: such
\* an event waits in the page or the channel, or is still to be published by its
\* writer, or the stream is about to be dropped; only other processes' events are not
\* on their way.
LiveCoversLog ==
    \A k \in Clients :
        At(k, "live") /\ sub[k] # "dropped" =>
            \A e \in 1..count :
                \/ e <= conn[k].since \/ e \in remote
                \/ Holds(conn[k].page, e) \/ Holds(ch[k], e)
                \/ \E w \in Writers : Holds(pub[w], e) \/ k \in full[w]

\* A running stream holds a slot as long as its lease lasts, and the streams younger
\* than a lease, which with WriteTimeout are all there are, never exceed the limit.  In
\* a process that counts for itself no slot outlives its stream, however the stream
\* ends.
SlotPerStream ==
    /\ Cardinality({k \in Streaming : clock < conn[k].start + LeaseTTL}) <= MaxActive
    /\ ~shared => {l.id : l \in leases} = {conn[k].lease : k \in Streaming}
    /\ \A k \in Streaming :
         clock < conn[k].start + LeaseTTL => \E l \in leases : l.id = conn[k].lease

\* A slow client's stream ends: once dropped it is not left open and silent.
DroppedStreamsEnd == \A k \in Clients : sub[k] = "dropped" ~> sub[k] # "dropped"

=============================================================================
