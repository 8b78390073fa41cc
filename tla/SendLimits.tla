---------------------------- MODULE SendLimits -----------------------------
(***************************************************************************)
(* The limits on SendMessage: messages per minute of an agent and of a     *)
(* room, the temporary block after repeated policy violations, and the     *)
(* limit per client address of handleRoomMessage.  With a shared store     *)
(* (Postgres) several API processes decide from committed rows, inside a   *)
(* transaction that locks the room's row and then the agent; without one   *)
(* a single process keeps windows in memory.                               *)
(*                                                                         *)
(* What the message says and whose turn it is (module RoomService) is      *)
(* nondeterministic: it is fit to send, violates the policy, or is refused *)
(* for its turn, its size or its bundle hash.                              *)
(*                                                                         *)
(* There is one clock: the processes' time.Now() and the database's NOW()  *)
(* agree.  No message is deleted within its minute: a purge comes no       *)
(* earlier than the grace delay, 120 s by default, after the close.        *)
(***************************************************************************)
EXTENDS Naturals, Sequences, FiniteSets

CONSTANTS
    Procs,         \* API processes
    Solo,          \* the process that runs when the store is not shared
    Agents,
    Rooms,
    IPs,           \* client addresses
    Minute,        \* the window of the rate limits, in ticks of the clock
    MaxAgent,      \* maxMessagesPerMinuteAgent
    MaxRoom,       \* maxMessagesPerMinuteRoom
    MaxIP,         \* maxPerMinuteIP
    PolicyWindow,  \* policyViolationWindow
    Block,         \* policyBlockDuration
    MaxViolations, \* maxPolicyViolationsWindow
    Modes,         \* whether the store coordinates several instances: a subset of BOOLEAN
    MaxMessages,   \* bound on the messages sent
    MaxRefusals,   \* bound on the policy refusals of an agent
    MaxClock,
    Nil

ASSUME SendLimitsAssumption ==
    /\ {Minute, MaxAgent, MaxRoom, MaxIP, PolicyWindow, Block, MaxViolations} \subseteq Nat \ {0}
    /\ {MaxMessages, MaxRefusals, MaxClock} \subseteq Nat
    /\ Modes \subseteq BOOLEAN
    /\ Solo \in Procs

VARIABLES
    clock,
    shared,    \* supportsMultiInstanceCoordination
    messages,  \* committed messages in commit order: sender, room, created_at
    policy,    \* agent_policy_state: window_started_at, violation_count, blocked_until
    req,       \* per process, the request that holds s.mu and its transaction, or Nil
    roomLock,  \* holder of the lock on a rooms row
    agentLock, \* holder of the advisory lock "agent:<id>"
    win,       \* per process: messageWindows, roomWindows, ipWindows, policyWindows
    blocked,   \* per process: blockedAgents
    refusals   \* per agent, when its messages were refused for the policy

vars == <<clock, shared, messages, policy, req, roomLock, agentLock, win, blocked, refusals>>
memory == <<win, blocked>>
locks == <<roomLock, agentLock>>

Message == [sender : Agents, room : Rooms, at : Nat]
PolicyState == [start : Nat \cup {Nil}, count : Nat, until : Nat]
NoPolicy == [start |-> Nil, count |-> 0, until |-> 0]
SendRequest == [pc : {"begin", "lockRoom", "lockAgent", "check", "rollback", "commit"},
                agent : Agents, room : Rooms, now : Nat, at : Nat, wrote : PolicyState \cup {Nil}]
Policies == {<<"policy", a>> : a \in Agents}
Subjects == Agents \cup Rooms \cup IPs \cup Policies
Width(x) == IF x \in Policies THEN PolicyWindow ELSE Minute

\* One function holds the four maps of windows, so their keys are told apart.
ASSUME SubjectsAssumption ==
    /\ Agents \cap Rooms = {} /\ (Agents \cup Rooms) \cap IPs = {}
    /\ Policies \cap (Agents \cup Rooms \cup IPs) = {}

ASSUME NilAssumption == Nil \notin Procs \cup Nat \cup SendRequest

Init ==
    /\ clock = 0
    /\ shared \in Modes
    /\ messages = <<>>
    /\ policy = [a \in Agents |-> NoPolicy]
    /\ req = [p \in Procs |-> Nil]
    /\ roomLock = [r \in Rooms |-> Nil]
    /\ agentLock = [a \in Agents |-> Nil]
    /\ win = [p \in Procs |-> [x \in Subjects |-> <<>>]]
    /\ blocked = [p \in Procs |-> [a \in Agents |-> Nil]]
    /\ refusals = [a \in Agents |-> <<>>]

\* The timestamps still within the window, in order.
Fresh(s, width, now) ==
    LET kept[i \in 0..Len(s)] == IF i = 0 THEN <<>>
                                 ELSE IF s[i] + width > now THEN Append(kept[i - 1], s[i])
                                 ELSE kept[i - 1]
    IN kept[Len(s)]

\* Time passes.  A timestamp that has left its window is dropped at once; the code
\* drops it when it next looks.
Tick ==
    /\ clock < MaxClock
    /\ clock' = clock + 1
    /\ win' = [p \in Procs |-> [x \in Subjects |-> Fresh(win[p][x], Width(x), clock + 1)]]
    /\ UNCHANGED <<shared, messages, policy, req, locks, blocked, refusals>>

-----------------------------------------------------------------------------
(* Windows kept in memory *)

Kept(s, width) == Fresh(s, width, clock)

\* allowAgentMessageLocked, allowRoomMessageLocked and allowIPMessage: TRUE with the
\* timestamp added, or FALSE with the window only pruned.
Allow(s, max) == Len(Kept(s, Minute)) < max

\* Mutant: the timestamp is added before the decision.
CountedAlways(s, max) == Append(Kept(s, Minute), clock)

Counted(s, max) ==
    IF Allow(s, max) THEN Append(Kept(s, Minute), clock) ELSE Kept(s, Minute)

\* blockedUntilLocked.
BlockedNow(p, a) == blocked[p][a] # Nil /\ clock <= blocked[p][a]

-----------------------------------------------------------------------------
(* One process without a shared store: the whole request under s.mu *)

Refused(a, now) ==
    /\ Len(refusals[a]) < MaxRefusals
    /\ refusals' = [refusals EXCEPT ![a] = Append(@, now)]

Send(a, r, at) == messages' = Append(messages, [sender |-> a, room |-> r, at |-> at])

\* Mutant: the violation is noted, the block is not.
RecordViolationOnly(p, a, w) ==
    /\ win' = [w EXCEPT ![p][<<"policy", a>>] = Append(Kept(@, PolicyWindow), clock)]
    /\ blocked' = blocked
    /\ Refused(a, clock)

\* recordPolicyViolationLocked.
RecordViolation(p, a, w) ==
    LET kept == Append(Kept(w[p][<<"policy", a>>], PolicyWindow), clock) IN
    /\ win' = [w EXCEPT ![p][<<"policy", a>>] = kept]
    /\ blocked' = IF Len(kept) >= MaxViolations
                  THEN [blocked EXCEPT ![p][a] = clock + Block] ELSE blocked
    /\ Refused(a, clock)

\* SendMessage from the block to the insert.  A message that is then refused has
\* already been counted.
LocalSend(p, a, r, w) ==
    LET w1 == [w EXCEPT ![p][a] = Counted(@, MaxAgent)]
        w2 == [w1 EXCEPT ![p][r] = Counted(@, MaxRoom)]
    IN \/ /\ BlockedNow(p, a)
          /\ win' = w /\ UNCHANGED <<messages, blocked, refusals>>
       \/ /\ ~BlockedNow(p, a) /\ ~Allow(w[p][a], MaxAgent)
          /\ win' = w1 /\ UNCHANGED <<messages, blocked, refusals>>
       \/ /\ ~BlockedNow(p, a) /\ Allow(w[p][a], MaxAgent) /\ ~Allow(w[p][r], MaxRoom)
          /\ win' = w2 /\ UNCHANGED <<messages, blocked, refusals>>
       \/ /\ ~BlockedNow(p, a) /\ Allow(w[p][a], MaxAgent) /\ Allow(w[p][r], MaxRoom)
          /\ \/ Send(a, r, clock) /\ win' = w2 /\ UNCHANGED <<blocked, refusals>>
             \/ win' = w2 /\ UNCHANGED <<messages, blocked, refusals>>
             \/ RecordViolation(p, a, w2) /\ UNCHANGED messages

-----------------------------------------------------------------------------
(* handleRoomMessage *)

\* Over the limit of its address the request ends with 429; else SendMessage takes
\* s.mu and reads the clock, and with a shared store goes on to a transaction unless
\* it is refused before one.
Request(p, a, r, ip) ==
    LET w == [win EXCEPT ![p][ip] = Counted(@, MaxIP)] IN
    /\ req[p] = Nil
    /\ shared \/ p = Solo
    /\ Len(messages) < MaxMessages
    /\ \/ /\ ~Allow(win[p][ip], MaxIP)
          /\ win' = w
          /\ UNCHANGED <<messages, req, blocked, refusals>>
       \/ /\ Allow(win[p][ip], MaxIP) /\ ~shared
          /\ LocalSend(p, a, r, w)
          /\ UNCHANGED req
       \/ /\ Allow(win[p][ip], MaxIP) /\ shared
          /\ req' = [req EXCEPT ![p] = [pc |-> "begin", agent |-> a, room |-> r,
                                        now |-> clock, at |-> 0, wrote |-> Nil]]
          /\ win' = w
          /\ UNCHANGED <<messages, blocked, refusals>>
    /\ UNCHANGED <<clock, shared, policy, locks>>

-----------------------------------------------------------------------------
(* The transaction of SendMessage with a shared store *)

In(p, pc) == req[p] # Nil /\ req[p].pc = pc
Goto(p, pc) == req' = [req EXCEPT ![p].pc = pc]

\* WithTx: created_at will be NOW(), the start of the transaction.
BeginTx(p) ==
    /\ In(p, "begin")
    /\ req' = [req EXCEPT ![p].pc = "lockRoom", ![p].at = clock]
    /\ UNCHANGED <<clock, shared, messages, policy, locks, memory, refusals>>

LockRoom(p) ==
    /\ In(p, "lockRoom") /\ roomLock[req[p].room] = Nil
    /\ roomLock' = [roomLock EXCEPT ![req[p].room] = p]
    /\ Goto(p, "lockAgent")
    /\ UNCHANGED <<clock, shared, messages, policy, agentLock, memory, refusals>>

\* Mutant: lockSharedMessageCoordination without the advisory lock.
LockNoAgent(p) ==
    /\ In(p, "lockAgent")
    /\ agentLock' = [agentLock EXCEPT ![req[p].agent] = p]
    /\ Goto(p, "check")
    /\ UNCHANGED <<clock, shared, messages, policy, roomLock, memory, refusals>>

LockAgent(p) ==
    /\ In(p, "lockAgent") /\ agentLock[req[p].agent] = Nil
    /\ agentLock' = [agentLock EXCEPT ![req[p].agent] = p]
    /\ Goto(p, "check")
    /\ UNCHANGED <<clock, shared, messages, policy, roomLock, memory, refusals>>

\* CountMessagesBySenderSince and CountMessagesByRoomSince: the messages of an agent or
\* of a room.
CountSince(x, since) ==
    Cardinality({i \in DOMAIN messages : /\ x \in {messages[i].sender, messages[i].room}
                                         /\ messages[i].at + Minute >= since})

OverLimit(q) ==
    CountSince(q.agent, q.now) >= MaxAgent \/ CountSince(q.room, q.now) >= MaxRoom

\* RecordAgentPolicyViolation: a window that starts with its first violation.
Recorded(ps, now) ==
    LET stale == ps.start # Nil /\ now - ps.start > PolicyWindow
        count == IF stale THEN 1 ELSE ps.count + 1
    IN [start |-> IF stale \/ ps.start = Nil THEN now ELSE ps.start,
        count |-> count,
        until |-> IF count >= MaxViolations THEN now + Block
                  ELSE IF stale THEN 0 ELSE ps.until]

\* The block, the counts, the policy, then the insert.  Every refusal is an error of
\* the transaction's function, so WithTx rolls back.
Check(p) ==
    LET q == req[p] IN
    /\ In(p, "check")
    /\ \/ /\ q.now < policy[q.agent].until \/ OverLimit(q)
          /\ Goto(p, "rollback") /\ UNCHANGED refusals
       \/ /\ q.now >= policy[q.agent].until /\ ~OverLimit(q)
          /\ \/ Goto(p, "commit") /\ UNCHANGED refusals
             \/ Goto(p, "rollback") /\ UNCHANGED refusals
             \/ /\ req' = [req EXCEPT ![p].wrote = Recorded(policy[q.agent], q.now),
                                      ![p].pc = "rollback"]
                /\ Refused(q.agent, q.now)
    /\ UNCHANGED <<clock, shared, messages, policy, locks, memory>>

Release(p) ==
    /\ roomLock' = [r \in Rooms |-> IF roomLock[r] = p THEN Nil ELSE roomLock[r]]
    /\ agentLock' = [a \in Agents |-> IF agentLock[a] = p THEN Nil ELSE agentLock[a]]
    /\ req' = [req EXCEPT ![p] = Nil]

Commit(p) ==
    /\ In(p, "commit")
    /\ Send(req[p].agent, req[p].room, req[p].at)
    /\ policy' = IF req[p].wrote = Nil THEN policy
                 ELSE [policy EXCEPT ![req[p].agent] = req[p].wrote]
    /\ Release(p)
    /\ UNCHANGED <<clock, shared, memory, refusals>>

\* Whatever the transaction wrote is gone, a recorded violation included.
Rollback(p) ==
    /\ req[p] # Nil /\ req[p].pc \in {"lockRoom", "lockAgent", "check", "rollback", "commit"}
    /\ Release(p)
    /\ UNCHANGED <<clock, shared, messages, policy, memory, refusals>>

Step(p) == BeginTx(p) \/ LockRoom(p) \/ LockAgent(p) \/ Check(p) \/ Commit(p) \/ Rollback(p)

Next ==
    \/ Tick
    \/ \E p \in Procs :
          \/ Step(p)
          \/ \E a \in Agents, r \in Rooms, ip \in IPs : Request(p, a, r, ip)

Spec == Init /\ [][Next]_vars

-----------------------------------------------------------------------------
(* Properties *)

\* Rows, locks and requests have their types; no rate window a process keeps holds more
\* timestamps than its limit.  (Policy windows have no such limit, and the maps keep
\* one window per agent, room and address ever seen.)
TypeOK ==
    /\ clock \in Nat /\ shared \in BOOLEAN
    /\ messages \in Seq(Message)
    /\ policy \in [Agents -> PolicyState]
    /\ req \in [Procs -> SendRequest \cup {Nil}]
    /\ win \in [Procs -> [Subjects -> Seq(Nat)]]
    /\ blocked \in [Procs -> [Agents -> Nat \cup {Nil}]]
    /\ refusals \in [Agents -> Seq(Nat)]
    /\ \A p \in Procs :
          /\ \A a \in Agents : Len(win[p][a]) <= MaxAgent
          /\ \A r \in Rooms : Len(win[p][r]) <= MaxRoom
          /\ \A ip \in IPs : Len(win[p][ip]) <= MaxIP
    /\ roomLock \in [Rooms -> Procs \cup {Nil}]
    /\ agentLock \in [Agents -> Procs \cup {Nil}]

\* In no minute are more than MaxAgent messages of one agent, or more than MaxRoom
\* messages of one room, accepted, however many processes serve the agent, in
\* however many rooms, and however long a request waited for its locks between
\* reading the clock and counting.
RateHolds ==
    \A t \in 0..clock :
        LET within == {i \in DOMAIN messages :
                          messages[i].at \in (IF shared THEN t ELSE t + 1)..(t + Minute)} IN
        /\ \A a \in Agents : Cardinality({i \in within : messages[i].sender = a}) <= MaxAgent
        /\ \A r \in Rooms : Cardinality({i \in within : messages[i].room = r}) <= MaxRoom

\* An agent with MaxViolations refusals within the window, the last of them less than
\* the block ago.
MustBeBlocked(a) ==
    \E i, j \in DOMAIN refusals[a] :
        /\ j + 1 - i >= MaxViolations
        /\ refusals[a][i] + PolicyWindow > refusals[a][j]
        /\ clock < refusals[a][j] + Block

Sends(a) == Len(messages') > Len(messages) /\ messages'[Len(messages')].sender = a

\* An agent that has violated the policy MaxViolations times within the window sends
\* nothing until the block is over.
BlockHolds == [][\A a \in Agents : Sends(a) => ~MustBeBlocked(a)]_vars

\* The same where one process keeps the windows.
LocalBlockHolds == [][\A a \in Agents : ~shared /\ Sends(a) => ~MustBeBlocked(a)]_vars
=============================================================================
