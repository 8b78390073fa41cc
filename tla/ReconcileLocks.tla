--------------------------- MODULE ReconcileLocks ---------------------------
(***************************************************************************)
(* The mutexes of one API process of the SQL-mode service                  *)
(* (internal/service/a2a/service.go): Service.mu, one reconcile mutex per  *)
(* room, and the goroutines that take them, which are request handlers and *)
(* the purge worker.  Module RoomService says what the handlers do to the  *)
(* database; here a room is only where it stands between live and purged.  *)
(*                                                                         *)
(* reconcileRoom is a subroutine: lock, reconcile, unlock.  A goroutine    *)
(* keeps the places its calls return to in a stack.  It decides on the     *)
(* rows its caller read before it took the mutex, and on the time it is.   *)
(* Go mutexes are not re-entrant, and hand over to a waiter that has       *)
(* starved for 1 ms.                                                       *)
(***************************************************************************)
EXTENDS Sequences, Naturals

CONSTANTS
    Handlers,  \* request goroutines
    Sweeper,   \* the purge worker's goroutine
    Rooms,
    Expiring,  \* the rooms whose TTL may pass
    Ops,       \* operations clients call
    Nil

AllOps == {"read", "history", "join", "send", "close"}

ASSUME GoroutineAssumption == Sweeper \notin Handlers /\ Nil \notin Handlers \cup {Sweeper}
ASSUME RoomAssumption == Expiring \subseteq Rooms
ASSUME OpAssumption == Ops \subseteq AllOps

VARIABLES
    state,  \* "live", "expired" (live, TTL passed), "closed", "due" (closed, past the
            \* grace delay, no viewer left) or "purged"
    mu,     \* who holds Service.mu
    lock,   \* who holds each room's reconcile mutex
    gor     \* the goroutines: operation, room, place in the code, stack, rooms to sweep,
            \* the rows read and not yet reconciled

vars == <<state, mu, lock, gor>>

Goroutines == Handlers \cup {Sweeper}
States == {"live", "expired", "closed", "due", "purged"}
Places == {"idle", "mu", "call", "lock", "reconcile", "unlock", "body", "unmu", "next"}

Goroutine == [op : AllOps \cup {"none", "sweep"}, room : Rooms \cup {Nil}, pc : Places,
              stack : Seq(Places), todo : SUBSET Rooms, 
              seen : [Rooms -> States \cup {Nil}]]
Idle == [op |-> "none", room |-> Nil, pc |-> "idle", stack |-> <<>>, todo |-> {},
         seen |-> [r \in Rooms |-> Nil]]

At(g, pc) == gor[g].pc = pc
Goto(g, pc) == gor' = [gor EXCEPT ![g].pc = pc]
\* reconcileRoom is called with the room's row and returns to ret ...
Call(g, ret, row) ==
    gor' = [gor EXCEPT ![g].pc = "lock", ![g].stack = <<ret>> \o @,
                       ![g].seen[gor[g].room] = row]
\* ... and is done with the row.
Reconciled(g, pc) == gor' = [gor EXCEPT ![g].pc = pc, ![g].seen[gor[g].room] = Nil]

-----------------------------------------------------------------------------
Init ==
    /\ state = [r \in Rooms |-> "live"]
    /\ mu = Nil
    /\ lock = [r \in Rooms |-> Nil]
    /\ gor = [g \in Goroutines |-> Idle]

\* Time passes: a live room's TTL, a closed room's grace delay.
TTLPasses(r) ==
    /\ r \in Expiring
    /\ state[r] = "live"
    /\ state' = [state EXCEPT ![r] = "expired"]
    /\ UNCHANGED <<mu, lock, gor>>

GracePasses(r) ==
    /\ state[r] = "closed"
    /\ state' = [state EXCEPT ![r] = "due"]
    /\ UNCHANGED <<mu, lock, gor>>

\* SendMessage takes Service.mu first; every other handler reads the room and
\* reconciles it first.
Begin(h, op, r) ==
    /\ At(h, "idle")
    /\ op \in Ops
    /\ gor' = [gor EXCEPT ![h] = [Idle EXCEPT !.op = op, !.room = r,
                                             !.pc = IF op = "send" THEN "mu" ELSE "call",
                                             !.seen[r] = state[r]]]
    /\ UNCHANGED <<state, mu, lock>>

\* Mutant: the sweep lists only rooms whose TTL has passed.
SweepBeginExpiredOnly ==
    LET found == {r \in Rooms : state[r] = "expired"}
    IN  /\ At(Sweeper, "idle")
        /\ found # {}
        /\ gor' = [gor EXCEPT ![Sweeper] = [Idle EXCEPT !.op = "sweep", !.pc = "next",
                                                        !.todo = found, !.seen = state]]
        /\ UNCHANGED <<state, mu, lock>>

\* SweepLifecycle lists the closed and the expired rooms and reconciles each.
SweepBegin ==
    LET found == {r \in Rooms : state[r] \in {"expired", "closed", "due"}}
    IN  /\ At(Sweeper, "idle")
        /\ found # {}
        /\ gor' = [gor EXCEPT ![Sweeper] = [Idle EXCEPT !.op = "sweep", !.pc = "next",
                                                        !.todo = found, !.seen = state]]
        /\ UNCHANGED <<state, mu, lock>>

SweepNext(r) ==
    /\ At(Sweeper, "next")
    /\ r \in gor[Sweeper].todo
    /\ gor' = [gor EXCEPT ![Sweeper].room = r, ![Sweeper].pc = "call",
                          ![Sweeper].todo = @ \ {r}]
    /\ UNCHANGED <<state, mu, lock>>

SweepEnd ==
    /\ At(Sweeper, "next")
    /\ gor[Sweeper].todo = {}
    /\ gor' = [gor EXCEPT ![Sweeper] = Idle]
    /\ UNCHANGED <<state, mu, lock>>

-----------------------------------------------------------------------------
(* reconcileRoom *)

\* Mutant: close reconciles again and again.
AfterReconcileRetries(g) ==
    CASE gor[g].op = "sweep" -> "next"
      [] gor[g].op \in {"join", "history"} -> "mu"
      [] gor[g].op = "close" -> "call"
      [] OTHER               -> "idle"

\* Where a handler goes on once its room is reconciled.
AfterReconcile(g) ==
    CASE gor[g].op = "sweep" -> "next"
      [] gor[g].op \in {"join", "history"} -> "mu"
      [] gor[g].op = "close" -> "body"
      [] OTHER               -> "idle"

CallReconcile(g) ==
    /\ At(g, "call")
    /\ Call(g, AfterReconcile(g), gor[g].seen[gor[g].room])
    /\ UNCHANGED <<state, mu, lock>>

LockRoom(g) ==
    LET r == gor[g].room
    IN  /\ At(g, "lock")
        /\ lock[r] = Nil
        /\ lock' = [lock EXCEPT ![r] = g]
        /\ Goto(g, "reconcile")
        /\ UNCHANGED <<state, mu>>

\* The TTL of a room read live has passed for certain, or may have: that of a room
\* closed meanwhile is no longer followed.
HasExpired(g) ==
    LET r == gor[g].room
    IN  \/ gor[g].seen[r] = "expired"
        \/ gor[g].seen[r] = "live" /\ state[r] = "expired"
MayHaveExpired(g) ==
    LET r == gor[g].room
    IN  \/ HasExpired(g)
        \/ gor[g].seen[r] = "live" /\ r \in Expiring /\ state[r] # "live"

\* The room was read closed and its grace delay has passed.
IsDue(g) ==
    LET r == gor[g].room
    IN  \/ gor[g].seen[r] = "due"
        \/ gor[g].seen[r] = "closed" /\ state[r] \in {"due", "purged"}

\* reconcileRoomLocked.  The TTL close looks at the state again in its transaction
\* and is followed, either way, by upsertRoomContext, which reads the room and calls
\* reconcileRoom for it; SendMessage comes here without the room's mutex and, if the
\* room lives, goes on to its transaction.
ReconcileClose(g) ==
    LET r == gor[g].room
    IN  /\ At(g, "reconcile")
        /\ MayHaveExpired(g)
        /\ state' = [state EXCEPT ![r] = IF @ \in {"live", "expired"} THEN "closed" ELSE @]
        /\ Call(g, IF lock[r] = g THEN "unlock" ELSE "unmu", state'[r])
        /\ UNCHANGED <<mu, lock>>

\* Mutant: a state the schema does not know.
ReconcilePurgeDeletes(g) ==
    LET r == gor[g].room
    IN  /\ At(g, "reconcile")
        /\ IsDue(g)
        /\ state' = [state EXCEPT ![r] = "deleted"]
        /\ Reconciled(g, IF lock[r] = g THEN "unlock" ELSE "unmu")
        /\ UNCHANGED <<mu, lock>>

\* The purge looks at the state again: only a CLOSED room is purged.
ReconcilePurge(g) ==
    LET r == gor[g].room
    IN  /\ At(g, "reconcile")
        /\ IsDue(g)
        /\ state' = [state EXCEPT ![r] = IF @ \in {"closed", "due"} THEN "purged" ELSE @]
        /\ Reconciled(g, IF lock[r] = g THEN "unlock" ELSE "unmu")
        /\ UNCHANGED <<mu, lock>>

ReconcileNothing(g) ==
    LET r == gor[g].room
    IN  /\ At(g, "reconcile")
        /\ ~HasExpired(g) /\ ~IsDue(g)
        /\ Reconciled(g, IF lock[r] = g THEN "unlock"
                         ELSE IF gor[g].seen[r] = "live" THEN "body" ELSE "unmu")
        /\ UNCHANGED <<state, mu, lock>>

\* A handler that has no more to do ends.
Return(g) ==
    LET caller == [gor[g] EXCEPT !.pc = Head(gor[g].stack), !.stack = Tail(@)]
    IN  gor' = [gor EXCEPT ![g] = IF caller.pc = "idle" THEN Idle ELSE caller]

\* Mutant: the mutex is not released on the way out.
UnlockRoomForgotten(g) ==
    /\ At(g, "unlock")
    /\ Return(g)
    /\ UNCHANGED <<state, mu, lock>>

\* The deferred Unlock, and the return to the caller.
UnlockRoom(g) ==
    /\ At(g, "unlock")
    /\ lock' = [lock EXCEPT ![gor[g].room] = Nil]
    /\ Return(g)
    /\ UNCHANGED <<state, mu>>

-----------------------------------------------------------------------------
(* The rest of the handlers *)

\* JoinRoom and SendMessage take Service.mu and keep it to their end; SendMessage
\* reads the room under it, JoinRoom goes on to upsertRoomContext.
\* ListRoomEventHistory only looks at who has joined.
LockMu(g) ==
    LET r == gor[g].room IN
    /\ At(g, "mu")
    /\ mu = Nil
    /\ mu' = g
    /\ \/ /\ gor[g].op = "send"
          /\ gor' = [gor EXCEPT ![g].pc = "reconcile", ![g].seen[r] = state[r]]
       \/ gor[g].op = "join" /\ Call(g, "unmu", state[r])
       \/ gor[g].op = "history" /\ Goto(g, "unmu")
    /\ UNCHANGED <<state, lock>>

\* Mutant: a return that leaves Service.mu locked.
UnlockMuForgotten(g) ==
    /\ At(g, "unmu")
    /\ gor' = [gor EXCEPT ![g] = Idle]
    /\ UNCHANGED <<state, mu, lock>>

\* The deferred Unlock of Service.mu; the handler returns.
UnlockMu(g) ==
    /\ At(g, "unmu")
    /\ mu' = Nil
    /\ gor' = [gor EXCEPT ![g] = Idle]
    /\ UNCHANGED <<state, lock>>

\* The transaction of SendMessage, which closes the room when the turn was the last
\* and does not look at its state again, or of CloseRoom, which does; then
\* upsertRoomContext.
Body(g) ==
    LET r == gor[g].room
    IN  /\ At(g, "body")
        /\ \/ gor[g].op = "send" /\ UNCHANGED state
           \/ gor[g].op = "close" /\ state[r] \in {"closed", "due"} /\ UNCHANGED state
           \/ /\ gor[g].op = "send" \/ state[r] \in {"live", "expired"}
              /\ state' = [state EXCEPT ![r] = "closed"]
        /\ Call(g, IF gor[g].op = "send" THEN "unmu" ELSE "idle", state'[r])
        /\ UNCHANGED <<mu, lock>>

\* A handler returns early: not a participant, room ended, bad turn, error.
ReturnEarly(h) ==
    /\ \/ At(h, "mu") /\ gor[h].op \in {"join", "history"} /\ gor' = [gor EXCEPT ![h] = Idle]
       \/ At(h, "body") /\ gor[h].op = "close" /\ gor' = [gor EXCEPT ![h] = Idle]
       \/ At(h, "body") /\ gor[h].op = "send" /\ Goto(h, "unmu")
    /\ UNCHANGED <<state, mu, lock>>

-----------------------------------------------------------------------------
Acquire(g) == LockRoom(g) \/ LockMu(g)

Run(g) ==
    \/ CallReconcile(g)
    \/ ReconcileClose(g) \/ ReconcilePurge(g) \/ ReconcileNothing(g) \/ UnlockRoom(g)
    \/ UnlockMu(g) \/ Body(g) \/ ReturnEarly(g)

Sweep == SweepBegin \/ SweepEnd \/ \E r \in Rooms : SweepNext(r)

Next ==
    \/ \E r \in Rooms : TTLPasses(r) \/ GracePasses(r)
    \/ \E h \in Handlers, op \in AllOps, r \in Rooms : Begin(h, op, r)
    \/ Sweep
    \/ \E g \in Goroutines : Acquire(g) \/ Run(g)

\* Time passes, the worker's ticker fires, a goroutine that can run is run and
\* the database answers; a mutex that is free again and again goes to every waiter
\* in the end.  Nothing makes clients call.
Fairness ==
    /\ WF_vars(Sweep)
    /\ \A r \in Rooms : WF_vars(TTLPasses(r)) /\ WF_vars(GracePasses(r))
    /\ \A g \in Goroutines : SF_vars(Acquire(g)) /\ WF_vars(Run(g))

Spec == Init /\ [][Next]_vars /\ Fairness

-----------------------------------------------------------------------------
(* Properties *)

\* State, mutexes and goroutines have their types.
TypeOK ==
    /\ state \in [Rooms -> States]
    /\ mu \in Goroutines \cup {Nil}
    /\ lock \in [Rooms -> Goroutines \cup {Nil}]
    /\ gor \in [Goroutines -> Goroutine]

\* The lock order that rules out a cycle of waiting goroutines: Service.mu is
\* taken before a room's mutex and never while one is held (reconcileRoomLocked and
\* what it calls stay clear of Service.mu), and a goroutine that holds one room's
\* mutex waits for no other room's.
LockOrder ==
    \A g \in Goroutines, r \in Rooms :
        lock[r] = g => ~At(g, "mu") /\ gor[g].room = r

\* Whoever is waited for can run or waits for its own mutex: besides reconcileRoom
\* called from within itself nothing can make goroutines of the process wait for
\* each other forever.
OnlyReentryBlocks ==
    \A g \in Goroutines :
        /\ At(g, "lock") /\ lock[gor[g].room] # Nil =>
             LET p == lock[gor[g].room] IN At(p, "lock") => lock[gor[p].room] = p
        /\ At(g, "mu") /\ mu # Nil => ~At(mu, "mu")

\* A goroutine waits for a mutex it holds: reconcileRoom has been called from within
\* itself.
Reentered == \E g \in Goroutines : At(g, "lock") /\ lock[gor[g].room] = g

\* Every handler and every sweep returns, whatever others run, unless the TTL close
\* has called reconcileRoom from within itself.
RequestsReturn == \A g \in Goroutines : ~At(g, "idle") ~> (At(g, "idle") \/ Reentered)

\* The purge worker purges a closed room once its grace delay has passed, whichever
\* handlers compete with it for the room's mutex, unless that call is made.
ClosedRoomsPurged ==
    \A r \in Rooms : state[r] = "closed" ~> (state[r] = "purged" \/ Reentered)

\* README.md: purge happens later, after viewer and grace conditions pass; for a
\* room that ended because its TTL passed.
ExpiredRoomsPurged == \A r \in Rooms : state[r] = "expired" ~> state[r] = "purged"

=============================================================================
