------------------------ MODULE ReconcileLocksProofs ------------------------
(***************************************************************************)
(* Safety of the lock discipline of ReconcileLocks for any rooms, any      *)
(* number of handlers and any operations.                                  *)
(***************************************************************************)
EXTENDS ReconcileLocks, SequenceTheorems, TLAPS

Returns == {"idle", "mu", "body", "unmu", "next"}

\* The goroutine will leave reconcileRoom by the top of its stack: it waits for a
\* mutex another goroutine may hold, or works under the one it holds.
Returning(g) ==
    \/ At(g, "unlock")
    \/ At(g, "lock") /\ lock[gor[g].room] # g
    \/ At(g, "reconcile") /\ lock[gor[g].room] = g

\* A goroutine works on a room, holds that room's mutex only within
\* reconcileRoom, and releases only the mutex it holds.
HoldsOne(g) ==
    /\ ~At(g, "idle") /\ ~At(g, "next") => gor[g].room \in Rooms
    /\ \A r \in Rooms : lock[r] = g =>
          gor[g].room = r /\ gor[g].pc \in {"lock", "reconcile", "unlock"}
    /\ At(g, "unlock") => lock[gor[g].room] = g

\* reconcileRoom returns to a place of its caller; only SendMessage reconciles without
\* the room's mutex.
ReturnsToCaller(g) ==
    /\ Returning(g) => gor[g].stack # <<>> /\ Head(gor[g].stack) \in Returns
    /\ At(g, "reconcile") /\ lock[gor[g].room] # g => gor[g].op = "send"

\* The holder of Service.mu never asks for it again before it releases it.
MuHolder(g) ==
    mu = g => /\ gor[g].pc \in {"lock", "reconcile", "unlock", "body", "unmu"}
              /\ Returning(g) => Head(gor[g].stack) = "unmu"
              /\ At(g, "body") => gor[g].op = "send"

Disciplined(g) == HoldsOne(g) /\ ReturnsToCaller(g) /\ MuHolder(g)

IInv == TypeOK /\ \A g \in Goroutines : Disciplined(g)

-----------------------------------------------------------------------------
\* Calling pushes the place to return to.
LEMMA Pushed ==
    ASSUME NEW ret \in Places, NEW s \in Seq(Places)
    PROVE  /\ <<ret>> \o s \in Seq(Places)
           /\ <<ret>> \o s # <<>>
           /\ Head(<<ret>> \o s) = ret
  OBVIOUS

\* Returning pops it.
LEMMA Popped ==
    ASSUME NEW s \in Seq(Places), s # <<>>
    PROVE  Head(s) \in Places /\ Tail(s) \in Seq(Places)
  OBVIOUS

\* Nobody is both a goroutine and nobody.
LEMMA NilIsNobody == Nil \notin Goroutines
  BY GoroutineAssumption DEF Goroutines

\* What a goroutine may rely on is not disturbed by a step that leaves it where it is
\* and neither gives it a mutex nor takes one away.
LEMMA Frame ==
    ASSUME NEW g \in Goroutines, Disciplined(g), gor'[g] = gor[g],
           \A r \in Rooms : (lock'[r] = g) <=> (lock[r] = g),
           mu' = g => mu = g
    PROVE  Disciplined(g)'
  BY DEF Disciplined, HoldsOne, ReturnsToCaller, MuHolder, Returning, At

\* A goroutine between requests.
LEMMA IdleGoroutine == Idle \in Goroutine /\ Idle.pc = "idle"
  BY DEF Idle, Goroutine, Places

\* What is stored in a goroutine, field by field.
LEMMA Fields ==
    ASSUME NEW y \in Goroutine
    PROVE  /\ y.op \in AllOps \cup {"none", "sweep"} /\ y.room \in Rooms \cup {Nil}
           /\ y.pc \in Places /\ y.stack \in Seq(Places) /\ y.todo \in SUBSET Rooms
           /\ y.seen \in [Rooms -> States \cup {Nil}]
           /\ y = [op |-> y.op, room |-> y.room, pc |-> y.pc, stack |-> y.stack,
                   todo |-> y.todo, seen |-> y.seen]
  BY DEF Goroutine

-----------------------------------------------------------------------------
\* One goroutine moves on, others keep theirs: the shape of every step's proof.
LEMMA OneMoves ==
    ASSUME TypeOK, \A p \in Goroutines : Disciplined(p),
           NEW g \in Goroutines,
           NEW x \in Goroutine, gor' = [gor EXCEPT ![g] = x],
           state' \in [Rooms -> States],
           mu' \in Goroutines \cup {Nil}, mu' \in {mu, g, Nil},
           lock' \in [Rooms -> Goroutines \cup {Nil}],
           \A p \in Goroutines \ {g}, r \in Rooms : (lock'[r] = p) <=> (lock[r] = p),
           Disciplined(g)'
    PROVE  IInv'
  <1>1. gor' \in [Goroutines -> Goroutine]
    BY DEF TypeOK
  <1>2. ASSUME NEW p \in Goroutines, p # g PROVE Disciplined(p)'
    <2>1. gor'[p] = gor[p]
      BY <1>2 DEF TypeOK
    <2>2. mu' = p => mu = p
      BY <1>2, NilIsNobody
    <2> QED BY <2>1, <2>2, <1>2, Frame
  <1> QED BY <1>1, <1>2 DEF IInv, TypeOK

-----------------------------------------------------------------------------
\* Before the first request.
LEMMA InitIInv == Init => IInv
  <1> SUFFICES ASSUME Init PROVE IInv
    OBVIOUS
  <1>2. TypeOK
    BY IdleGoroutine DEF Init, TypeOK, States
  <1>3. ASSUME NEW g \in Goroutines PROVE Disciplined(g)
    BY <1>3, NilIsNobody DEF Init, Idle, Disciplined, HoldsOne, ReturnsToCaller, MuHolder, Returning, At
  <1> QED BY <1>2, <1>3 DEF IInv

\* Time passes.
LEMMA TimeIInv ==
    ASSUME IInv, NEW r \in Rooms, TTLPasses(r) \/ GracePasses(r)
    PROVE  IInv'
  <1>1. TypeOK'
    BY DEF IInv, TypeOK, TTLPasses, GracePasses, States
  <1>2. UNCHANGED <<mu, lock, gor>>
    BY DEF TTLPasses, GracePasses
  <1>3. ASSUME NEW g \in Goroutines PROVE Disciplined(g)'
    BY <1>2, Frame DEF IInv
  <1> QED BY <1>1, <1>3 DEF IInv

\* A handler begins.
LEMMA BeginIInv ==
    ASSUME IInv, NEW h \in Handlers, NEW op \in AllOps, NEW r \in Rooms, Begin(h, op, r)
    PROVE  IInv'
  <1> DEFINE pc == IF op = "send" THEN "mu" ELSE "call"
             x == [Idle EXCEPT !.op = op, !.room = r, !.pc = pc, !.seen[r] = state[r]]
  <1>1. h \in Goroutines
    BY DEF Goroutines
  <1>2. x \in Goroutine /\ x.pc = pc /\ x.room = r
    <2>1. state[r] \in States
      BY DEF IInv, TypeOK
    <2>2. [Idle.seen EXCEPT ![r] = state[r]] \in [Rooms -> States \cup {Nil}]
      BY <2>1, IdleGoroutine, Fields
    <2> QED BY <2>2, IdleGoroutine DEF Goroutine, Places, AllOps
  <1>3. gor' = [gor EXCEPT ![h] = x]
    BY DEF Begin
  <1> HIDE DEF x
  <1>4. gor'[h] = x /\ UNCHANGED <<state, mu, lock>> /\ gor[h].pc = "idle"
    BY <1>1, <1>3 DEF Begin, IInv, TypeOK, At
  <1>5. Disciplined(h)'
    BY <1>1, <1>2, <1>4 DEF IInv, Disciplined, HoldsOne, ReturnsToCaller, MuHolder, Returning, At
  <1> QED BY <1>1, <1>2, <1>3, <1>4, <1>5, OneMoves DEF IInv, TypeOK

\* The sweep lists rooms, takes the next, ends.
LEMMA SweepIInv == ASSUME IInv, Sweep PROVE IInv'
  <1> DEFINE found == {r \in Rooms : state[r] \in {"expired", "closed", "due"}}
  <1>1. Sweeper \in Goroutines
    BY DEF Goroutines
  <1>2. UNCHANGED <<state, mu, lock>> /\ gor[Sweeper].pc \in {"idle", "next"}
    BY DEF Sweep, SweepBegin, SweepNext, SweepEnd, At
  <1>3. ASSUME NEW x \in Goroutine, gor' = [gor EXCEPT ![Sweeper] = x],
               x.pc \in {"idle", "next", "call"}, x.pc = "call" => x.room \in Rooms
        PROVE  IInv'
    <2>1. gor'[Sweeper] = x
      BY <1>1, <1>3 DEF IInv, TypeOK
    <2>2. Disciplined(Sweeper)'
      BY <1>1, <1>2, <1>3, <2>1
         DEF IInv, Disciplined, HoldsOne, ReturnsToCaller, MuHolder, Returning, At
    <2> QED BY <1>1, <1>2, <1>3, <2>2, OneMoves DEF IInv, TypeOK
  <1>4. CASE SweepBegin
    <2> DEFINE x == [Idle EXCEPT !.op = "sweep", !.pc = "next", !.todo = found,
                              !.seen = state]
    <2>1. gor' = [gor EXCEPT ![Sweeper] = x]
      BY <1>4 DEF SweepBegin
    <2>2. x \in Goroutine /\ x.pc = "next"
      BY IdleGoroutine DEF Goroutine, Places, IInv, TypeOK
    <2> HIDE DEF x
    <2> QED BY <1>3, <2>1, <2>2
  <1>5. CASE SweepEnd
    <2>1. gor' = [gor EXCEPT ![Sweeper] = Idle]
      BY <1>5 DEF SweepEnd
    <2> QED BY <1>3, <2>1, IdleGoroutine
  <1>6. ASSUME NEW r \in Rooms, SweepNext(r) PROVE IInv'
    <2> DEFINE y == gor[Sweeper]
               x == [y EXCEPT !.room = r, !.pc = "call", !.todo = @ \ {r}]
    <2>1. y \in Goroutine
      BY <1>1 DEF IInv, TypeOK
    <2>2. gor' = [gor EXCEPT ![Sweeper] = x]
      BY <1>6, <1>1 DEF SweepNext, IInv, TypeOK
    <2>3. x \in Goroutine /\ x.pc = "call" /\ x.room = r
      BY <2>1 DEF Goroutine, Places
    <2> HIDE DEF x
    <2> QED BY <1>3, <2>2, <2>3
  <1> QED BY <1>4, <1>5, <1>6 DEF Sweep

-----------------------------------------------------------------------------
\* A goroutine calls reconcileRoom from a place that is not under the room's mutex,
\* or, as the TTL close does, from under it: then it never gets it.
LEMMA CallIInv ==
    ASSUME IInv, NEW g \in Goroutines, gor[g].pc \in {"call", "reconcile", "body", "mu"},
           NEW ret \in Places, NEW row \in States \cup {Nil}, Call(g, ret, row),
           gor[g].room \in Rooms,
           lock[gor[g].room] # g => ret \in Returns,
           state' \in [Rooms -> States],
           mu' \in {mu, g}, mu' = g => ret = "unmu" \/ lock[gor[g].room] = g,
           UNCHANGED lock
    PROVE  IInv'
  <1> DEFINE y == gor[g]
             seen == [y.seen EXCEPT ![y.room] = row]
             x == [y EXCEPT !.pc = "lock", !.stack = <<ret>> \o @, !.seen = seen]
  <1>1. y \in Goroutine
    BY DEF IInv, TypeOK
  <1>2. y.stack \in Seq(Places) /\ y.op \in AllOps \cup {"none", "sweep"}
        /\ y.room \in Rooms \cup {Nil} /\ y.todo \in SUBSET Rooms
        /\ y.seen \in [Rooms -> States \cup {Nil}]
    BY <1>1 DEF Goroutine
  <1>s. seen \in [Rooms -> States \cup {Nil}]
    BY <1>2
  <1>3. x \in Goroutine /\ x.pc = "lock" /\ x.room = y.room /\ x.stack = <<ret>> \o y.stack
    <2> HIDE DEF seen
    <2> QED BY <1>1, <1>2, <1>s, Pushed DEF Goroutine, Places
  <1>4. gor' = [gor EXCEPT ![g] = x]
    <2>1. [y EXCEPT !.pc = "lock", !.stack = <<ret>> \o @, !.seen[y.room] = row] = x
      BY <1>1 DEF Goroutine
    <2> HIDE DEF x
    <2> QED BY <2>1 DEF Call, IInv, TypeOK
  <1> HIDE DEF x
  <1>5. gor'[g] = x
    BY <1>4 DEF IInv, TypeOK
  <1>6. x.stack # <<>> /\ Head(x.stack) = ret
    BY <1>2, <1>3, Pushed
  <1>7. gor'[g].pc = "lock" /\ gor'[g].room = y.room /\ gor'[g].stack # <<>>
        /\ Head(gor'[g].stack) = ret
    BY <1>3, <1>5, <1>6
  <1>8. Disciplined(g)'
    BY <1>7 DEF IInv, Disciplined, HoldsOne, ReturnsToCaller, MuHolder, Returning, At
  <1>9. mu' \in Goroutines \cup {Nil}
    BY DEF IInv, TypeOK
  <1> QED BY <1>3, <1>4, <1>8, <1>9, OneMoves DEF IInv, TypeOK

\* A goroutine moves to another place, perhaps with a row read or used, and keeps the
\* rest.
Moves(g, pc) ==
    \E seen \in [Rooms -> States \cup {Nil}] :
        gor' = [gor EXCEPT ![g] = [gor[g] EXCEPT !.pc = pc, !.seen = seen]]

\* Such a move keeps the invariant if it keeps the goroutine's own part of it.
LEMMA MoveIInv ==
    ASSUME IInv, NEW g \in Goroutines, NEW pc \in Places, Moves(g, pc),
           state' \in [Rooms -> States],
           mu' \in {mu, g},
           lock' \in [Rooms -> Goroutines \cup {Nil}],
           \A p \in Goroutines \ {g}, r \in Rooms : (lock'[r] = p) <=> (lock[r] = p),
           (/\ gor'[g].pc = pc /\ gor'[g].room = gor[g].room
            /\ gor'[g].stack = gor[g].stack /\ gor'[g].op = gor[g].op)
              => Disciplined(g)'
    PROVE  IInv'
  <1>0. PICK seen \in [Rooms -> States \cup {Nil}] :
           gor' = [gor EXCEPT ![g] = [gor[g] EXCEPT !.pc = pc, !.seen = seen]]
    BY DEF Moves
  <1> DEFINE y == gor[g]
             x == [y EXCEPT !.pc = pc, !.seen = seen]
  <1>1. y \in Goroutine
    BY DEF IInv, TypeOK
  <1>2. /\ x \in Goroutine
        /\ x.pc = pc /\ x.room = y.room /\ x.stack = y.stack /\ x.op = y.op
    BY <1>1 DEF Goroutine
  <1> HIDE DEF x
  <1>3. gor' = [gor EXCEPT ![g] = x]
    BY <1>0 DEF x
  <1>4. gor'[g] = x
    BY <1>3 DEF IInv, TypeOK
  <1>5. Disciplined(g)'
    BY <1>2, <1>4
  <1>6. mu' \in Goroutines \cup {Nil}
    BY DEF IInv, TypeOK
  <1> QED BY <1>2, <1>3, <1>5, <1>6, OneMoves DEF IInv, TypeOK

\* Goto is such a move.
LEMMA GotoMoves ==
    ASSUME IInv, NEW g \in Goroutines, NEW pc, Goto(g, pc)
    PROVE  Moves(g, pc)
  <1>1. gor[g] \in Goroutine
    BY DEF IInv, TypeOK
  <1>2. [gor[g] EXCEPT !.pc = pc] = [gor[g] EXCEPT !.pc = pc, !.seen = gor[g].seen]
    BY <1>1 DEF Goroutine
  <1>3. gor[g].seen \in [Rooms -> States \cup {Nil}]
    BY <1>1, Fields
  <1>4. gor' = [gor EXCEPT ![g] = [gor[g] EXCEPT !.pc = pc]]
    BY DEF Goto, IInv, TypeOK
  <1> QED BY <1>2, <1>3, <1>4 DEF Moves

\* A row is read or used up on the way.
Reads(g, pc, row) == gor' = [gor EXCEPT ![g].pc = pc, ![g].seen[gor[g].room] = row]

\* That, too, is such a move.
LEMMA ReadMoves ==
    ASSUME IInv, NEW g \in Goroutines, NEW pc, NEW row \in States \cup {Nil},
           gor[g].room \in Rooms, Reads(g, pc, row)
    PROVE  Moves(g, pc)
  <1> DEFINE seen == [gor[g].seen EXCEPT ![gor[g].room] = row]
  <1>1. gor[g] \in Goroutine
    BY DEF IInv, TypeOK
  <1>2. seen \in [Rooms -> States \cup {Nil}]
    BY <1>1, Fields
  <1>3. [gor[g] EXCEPT !.pc = pc, !.seen[gor[g].room] = row]
           = [gor[g] EXCEPT !.pc = pc, !.seen = seen]
    BY <1>1 DEF Goroutine
  <1>4. gor' = [gor EXCEPT ![g] = [gor[g] EXCEPT !.pc = pc, !.seen[gor[g].room] = row]]
    BY DEF Reads, IInv, TypeOK
  <1> HIDE DEF seen
  <1> QED BY <1>2, <1>3, <1>4 DEF Moves

\* A goroutine returns to its client or ends: it holds no room's mutex.
LEMMA IdleIInv ==
    ASSUME IInv, NEW g \in Goroutines, gor[g].pc \in {"mu", "body", "unmu"},
           gor' = [gor EXCEPT ![g] = Idle], UNCHANGED <<state, lock>>,
           mu' \in {mu, Nil}, mu' # g
    PROVE  IInv'
  <1>2. gor'[g].pc = "idle"
    BY IdleGoroutine DEF IInv, TypeOK
  <1>3. Disciplined(g)'
    BY <1>2 DEF IInv, Disciplined, HoldsOne, ReturnsToCaller, MuHolder, Returning, At
  <1>4. mu' \in Goroutines \cup {Nil}
    BY DEF IInv, TypeOK
  <1> QED BY IdleGoroutine, <1>3, <1>4, NilIsNobody, OneMoves DEF IInv, TypeOK

-----------------------------------------------------------------------------
\* A goroutine calls, locks, reconciles, unlocks or goes on.
LEMMA RunIInv ==
    ASSUME IInv, NEW g \in Goroutines, Acquire(g) \/ Run(g)
    PROVE  IInv'
  <1> DEFINE r == gor[g].room
  <1> USE DEF At
  <1>1. Disciplined(g) /\ TypeOK
    BY DEF IInv
  <1>2. gor[g] \in Goroutine /\ gor[g].stack \in Seq(Places)
    BY <1>1 DEF TypeOK, Goroutine
  <1>3. g # Nil
    BY NilIsNobody
  <1>4. ~At(g, "idle") /\ ~At(g, "next") => r \in Rooms
    BY <1>1 DEF Disciplined, HoldsOne
  <1>5. CASE CallReconcile(g)
    <2>1. AfterReconcile(g) \in Returns
      BY DEF AfterReconcile, Returns
    <2>2. mu # g
      BY <1>1, <1>5 DEF CallReconcile, Disciplined, MuHolder
    <2>3. r \in Rooms /\ gor[g].seen[r] \in States \cup {Nil}
      BY <1>2, <1>4, <1>5, Fields DEF CallReconcile
    <2> QED BY <1>1, <1>5, <2>1, <2>2, <2>3, CallIInv DEF CallReconcile, TypeOK, Returns, Places
  <1>6. CASE LockRoom(g)
    <2>1. r \in Rooms /\ lock[r] = Nil /\ lock' = [lock EXCEPT ![r] = g] /\ gor[g].pc = "lock"
          /\ Goto(g, "reconcile") /\ UNCHANGED <<state, mu>>
      BY <1>4, <1>6 DEF LockRoom
    <2>2. gor[g].stack # <<>> /\ Head(gor[g].stack) \in Returns
          /\ (mu = g => Head(gor[g].stack) = "unmu")
      BY <1>1, <1>3, <2>1 DEF Disciplined, ReturnsToCaller, MuHolder, Returning
    <2>3. lock' \in [Rooms -> Goroutines \cup {Nil}] /\ lock'[r] = g
      BY <1>1, <2>1 DEF TypeOK
    <2>4. \A s \in Rooms : lock'[s] = g => s = r
      BY <1>1, <2>1 DEF TypeOK, Disciplined, HoldsOne
    <2>5. \A p \in Goroutines \ {g}, s \in Rooms : (lock'[s] = p) <=> (lock[s] = p)
      BY <1>1, <1>3, <2>1, NilIsNobody DEF TypeOK
    <2>6. ASSUME gor'[g].pc = "reconcile", gor'[g].room = r, gor'[g].stack = gor[g].stack
          PROVE  Disciplined(g)'
      BY <2>1, <2>2, <2>3, <2>4, <2>6
         DEF Disciplined, HoldsOne, ReturnsToCaller, MuHolder, Returning
    <2>7. "reconcile" \in Places
      BY DEF Places
    <2>8. Moves(g, "reconcile")
      BY <2>1, GotoMoves
    <2> QED BY <1>1, <2>1, <2>3, <2>5, <2>6, <2>7, <2>8, MoveIInv DEF TypeOK
  <1>7. CASE LockMu(g)
    <2>1. mu = Nil /\ mu' = g /\ gor[g].pc = "mu" /\ UNCHANGED <<state, lock>>
      BY <1>7 DEF LockMu
    <2>2. \A s \in Rooms : lock[s] # g
      BY <1>1, <2>1 DEF Disciplined, HoldsOne
    <2>3. r \in Rooms /\ state[r] \in States
      BY <1>1, <1>4, <2>1 DEF TypeOK
    <2>4. CASE gor[g].op = "send"
      <3>1. Reads(g, "reconcile", state[r])
        BY <1>7, <2>4 DEF LockMu, Reads
      <3>2. ASSUME gor'[g].pc = "reconcile", gor'[g].room = r, gor'[g].op = gor[g].op
            PROVE  Disciplined(g)'
        BY <1>4, <2>1, <2>2, <2>4, <3>2
           DEF Disciplined, HoldsOne, ReturnsToCaller, MuHolder, Returning
      <3>3. Moves(g, "reconcile")
        BY <2>3, <3>1, ReadMoves
      <3>4. "reconcile" \in Places
        BY DEF Places
      <3> QED BY <1>1, <2>1, <3>2, <3>3, <3>4, MoveIInv DEF TypeOK
    <2>5. CASE gor[g].op = "join"
      <3>1. Call(g, "unmu", state[r])
        BY <1>7, <2>5 DEF LockMu
      <3> QED BY <1>1, <2>1, <2>3, <3>1, CallIInv DEF TypeOK, Places, Returns
    <2>6. CASE gor[g].op = "history"
      <3>1. Goto(g, "unmu")
        BY <1>7, <2>6 DEF LockMu
      <3>2. ASSUME gor'[g].pc = "unmu", gor'[g].room = r PROVE Disciplined(g)'
        BY <1>4, <2>1, <2>2, <3>2
           DEF Disciplined, HoldsOne, ReturnsToCaller, MuHolder, Returning
      <3> QED BY <1>1, <2>1, <3>1, <3>2, GotoMoves, MoveIInv DEF TypeOK, Places
    <2> QED BY <1>7, <2>4, <2>5, <2>6 DEF LockMu
  <1>8. CASE ReconcileClose(g)
    <2>1. gor[g].pc = "reconcile" /\ r \in Rooms /\ UNCHANGED <<mu, lock>>
          /\ Call(g, IF lock[r] = g THEN "unlock" ELSE "unmu", state'[r])
      BY <1>4, <1>8 DEF ReconcileClose
    <2>2. state' \in [Rooms -> States]
      BY <1>1, <1>8 DEF ReconcileClose, TypeOK, States
    <2>3. state'[r] \in States
      BY <2>1, <2>2
    <2> QED BY <2>1, <2>2, <2>3, CallIInv DEF Places, Returns
  <1>9. CASE ReconcilePurge(g) \/ ReconcileNothing(g)
    <2>1. PICK pc \in {"unlock", "unmu", "body"} :
             /\ Reconciled(g, pc)
             /\ pc = "unlock" <=> lock[r] = g
      BY <1>9 DEF ReconcilePurge, ReconcileNothing
    <2>2. gor[g].pc = "reconcile" /\ r \in Rooms /\ UNCHANGED <<mu, lock>>
          /\ state' \in [Rooms -> States]
      BY <1>1, <1>4, <1>9 DEF ReconcilePurge, ReconcileNothing, TypeOK, States
    <2>3. ASSUME gor'[g].pc = pc, gor'[g].room = r, gor'[g].op = gor[g].op,
                 gor'[g].stack = gor[g].stack
          PROVE  Disciplined(g)'
      BY <1>1, <1>4, <2>1, <2>2, <2>3
         DEF Disciplined, HoldsOne, ReturnsToCaller, MuHolder, Returning
    <2>4. pc \in Places
      BY <2>1 DEF Places
    <2>5. Moves(g, pc)
      <3>1. Reads(g, pc, Nil)
        BY <2>1 DEF Reconciled, Reads
      <3> QED BY <2>2, <3>1, ReadMoves
    <2> QED BY <1>1, <2>2, <2>3, <2>4, <2>5, MoveIInv DEF TypeOK
  <1>10. CASE UnlockRoom(g)
    <2> DEFINE y == gor[g]
               caller == [y EXCEPT !.pc = Head(y.stack), !.stack = Tail(@)]
               x == IF caller.pc = "idle" THEN Idle ELSE caller
    <2>1. y.pc = "unlock" /\ r \in Rooms /\ UNCHANGED <<state, mu>>
          /\ lock' = [lock EXCEPT ![r] = Nil] /\ gor' = [gor EXCEPT ![g] = x]
      BY <1>4, <1>10 DEF UnlockRoom, Return, TypeOK
    <2>2. y.stack # <<>> /\ Head(y.stack) \in Returns /\ lock[r] = g
          /\ (mu = g => Head(y.stack) = "unmu")
      BY <1>1, <2>1 DEF Disciplined, HoldsOne, ReturnsToCaller, MuHolder, Returning
    <2>3. Tail(y.stack) \in Seq(Places) /\ Head(y.stack) \in Places
      BY <1>2, <2>2, Popped
    <2>4. caller \in Goroutine /\ caller.pc = Head(y.stack) /\ caller.room = r
      BY <1>2, <2>3 DEF Goroutine
    <2> HIDE DEF caller
    <2>5. x \in Goroutine /\ x.pc = Head(y.stack) /\ (x.pc # "idle" => x.room = r)
      BY <2>4, IdleGoroutine
    <2> HIDE DEF x
    <2>6. gor'[g] = x
      BY <1>1, <2>1 DEF TypeOK
    <2>7. lock' \in [Rooms -> Goroutines \cup {Nil}] /\ \A s \in Rooms : lock'[s] # g
      BY <1>1, <1>3, <2>1 DEF TypeOK, Disciplined, HoldsOne
    <2>8. \A p \in Goroutines \ {g}, s \in Rooms : (lock'[s] = p) <=> (lock[s] = p)
      BY <1>1, <2>1, <2>2, NilIsNobody DEF TypeOK
    <2>9. Disciplined(g)'
      BY <2>1, <2>2, <2>5, <2>6, <2>7
         DEF Disciplined, HoldsOne, ReturnsToCaller, MuHolder, Returning, Returns
    <2> QED BY <1>1, <2>1, <2>5, <2>7, <2>8, <2>9, OneMoves DEF IInv, TypeOK
  <1>11. CASE UnlockMu(g)
    BY <1>1, <1>3, <1>11, IdleIInv DEF UnlockMu
  <1>12. CASE Body(g)
    <2>1. gor[g].pc = "body" /\ r \in Rooms /\ UNCHANGED <<mu, lock>>
          /\ Call(g, IF gor[g].op = "send" THEN "unmu" ELSE "idle", state'[r])
      BY <1>4, <1>12 DEF Body
    <2>2. state' \in [Rooms -> States]
      BY <1>1, <1>12 DEF Body, TypeOK, States
    <2>3. mu = g => gor[g].op = "send"
      BY <1>1, <2>1 DEF Disciplined, MuHolder
    <2>4. state'[r] \in States
      BY <2>1, <2>2
    <2> QED BY <2>1, <2>2, <2>3, <2>4, CallIInv DEF Places, Returns
  <1>13. CASE ReturnEarly(g)
    <2>1. CASE gor' = [gor EXCEPT ![g] = Idle] /\ gor[g].pc \in {"mu", "body"}
               /\ gor[g].op # "send"
      <3>1. mu # g
        BY <1>1, <2>1 DEF Disciplined, MuHolder
      <3> QED BY <1>13, <2>1, <3>1, IdleIInv DEF ReturnEarly
    <2>2. CASE gor[g].pc = "body" /\ gor[g].op = "send" /\ Goto(g, "unmu")
      <3>1. UNCHANGED <<state, mu, lock>>
        BY <1>13 DEF ReturnEarly
      <3>2. ASSUME gor'[g].pc = "unmu", gor'[g].room = r PROVE Disciplined(g)'
        BY <1>1, <2>2, <3>1, <3>2
           DEF Disciplined, HoldsOne, ReturnsToCaller, MuHolder, Returning
      <3> QED BY <1>1, <2>2, <3>1, <3>2, GotoMoves, MoveIInv DEF TypeOK, Places
    <2> QED BY <1>13, <2>1, <2>2 DEF ReturnEarly
  <1> QED BY <1>5, <1>6, <1>7, <1>8, <1>9, <1>10, <1>11, <1>12, <1>13 DEF Acquire, Run

-----------------------------------------------------------------------------
\* The invariant is inductive.
LEMMA NextIInv == IInv /\ [Next]_vars => IInv'
  <1> SUFFICES ASSUME IInv, [Next]_vars PROVE IInv'
    OBVIOUS
  <1>1. CASE UNCHANGED vars
    <2>1. TypeOK'
      BY <1>1 DEF IInv, TypeOK, vars
    <2>2. ASSUME NEW g \in Goroutines PROVE Disciplined(g)'
      BY <1>1, Frame DEF IInv, vars
    <2> QED BY <2>1, <2>2 DEF IInv
  <1>2. CASE Next
    BY <1>2, TimeIInv, BeginIInv, SweepIInv, RunIInv DEF Next
  <1> QED BY <1>1, <1>2

\* So it holds throughout.
LEMMA Invariance == Spec => []IInv
  BY InitIInv, NextIInv, PTL DEF Spec

\* Every goroutine of an API process keeps to the places of its handler, for any
\* number of rooms and requests: reconcileRoom always finds a place to return to.
THEOREM LocksTypeCorrect == Spec => []TypeOK
  <1>1. IInv => TypeOK
    BY DEF IInv
  <1> QED BY <1>1, Invariance, PTL

\* Service.mu is taken before a room's reconcile mutex and a goroutine holds at
\* most the mutex of the room it works on, for any number of rooms and requests.
THEOREM LocksOrdered == Spec => []LockOrder
  <1>1. IInv => LockOrder
    BY DEF IInv, Disciplined, HoldsOne, LockOrder, At
  <1> QED BY <1>1, Invariance, PTL

\* In any process, with any number of rooms and requests, the only goroutine that
\* can wait and never be served by others is one that has called reconcileRoom from
\* within reconcileRoom for the same room.
THEOREM NoOtherDeadlock == Spec => []OnlyReentryBlocks
  <1>1. ASSUME IInv, NEW g \in Goroutines, At(g, "lock"), lock[gor[g].room] # Nil
        PROVE  At(lock[gor[g].room], "lock") =>
                  lock[gor[lock[gor[g].room]].room] = lock[gor[g].room]
    <2>1. gor[g].room \in Rooms
      BY <1>1 DEF IInv, Disciplined, HoldsOne, At
    <2>2. PICK p \in Goroutines : p = lock[gor[g].room]
      BY <1>1, <2>1 DEF IInv, TypeOK
    <2>3. gor[p].room = gor[g].room
      BY <1>1, <2>1, <2>2 DEF IInv, Disciplined, HoldsOne
    <2> QED BY <2>2, <2>3
  <1>2. ASSUME IInv, NEW g \in Goroutines, At(g, "mu"), mu # Nil PROVE ~At(mu, "mu")
    <2>1. PICK p \in Goroutines : p = mu
      BY <1>2 DEF IInv, TypeOK
    <2> QED BY <1>2, <2>1 DEF IInv, Disciplined, MuHolder, At
  <1>3. IInv => OnlyReentryBlocks
    BY <1>1, <1>2 DEF OnlyReentryBlocks
  <1> QED BY <1>3, Invariance, PTL
=============================================================================
