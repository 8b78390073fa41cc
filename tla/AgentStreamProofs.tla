-------------------------- MODULE AgentStreamProofs ------------------------
(***************************************************************************)
(* Proofs about AgentStream.                                               *)
(***************************************************************************)
EXTENDS AgentStream, FiniteSetTheorems, SequenceTheorems, TLAPS

-----------------------------------------------------------------------------
(* The lists of keys and of deliveries *)

\* Every non-empty set of natural numbers has a least member: the form of induction
\* the proofs about Without and InOrder use.
LEMMA LeastMember ==
    ASSUME NEW T, T \subseteq Nat, T # {}
    PROVE  \E x \in T : \A y \in T : x <= y
<1> DEFINE R == OpToRel(<, Nat)
<1>1. R = {ss \in Nat \X Nat : ss[1] < ss[2]}
  BY DEF OpToRel
<1>2. IsWellFoundedOn(R, Nat)
  BY NatLessThanWellFounded
<1> HIDE DEF R
<1>3. PICK x \in T : \A y \in T : ~(<<y, x>> \in R)
  BY <1>2, WFMin, Zenon
<1>4. \A y \in Nat, z \in Nat : y < z => <<y, z>> \in R
  BY <1>1
<1>5. \A y \in T : x \in Nat /\ y \in Nat /\ ~(y < x)
  BY <1>3, <1>4
<1>6. \A y \in T : x <= y
  BY <1>5
<1> QED
  BY <1>6

\* f is the function Without is defined by, up to n.
Filters(f, s, S, n) ==
    f = [i \in 0..n |-> IF i = 0 THEN <<>>
                        ELSE IF s[i] \in S THEN f[i - 1]
                        ELSE Append(f[i - 1], s[i])]

\* The recursion of Without has a solution.
LEMMA FiltersExists ==
    ASSUME NEW s, NEW S, NEW n \in Nat
    PROVE  \E f : Filters(f, s, S, n)
<1> DEFINE T == {m \in Nat : ~\E f : Filters(f, s, S, m)}
<1> SUFFICES ASSUME T # {} PROVE FALSE
  OBVIOUS
<1>1. PICK m \in T : \A y \in T : m <= y
  BY LeastMember
<1>2. m # 0
  <2> DEFINE g == [i \in 0..0 |-> <<>>]
  <2>1. Filters(g, s, S, 0)
    BY DEF Filters
  <2> QED
    BY <2>1
<1>3. m \in Nat /\ m - 1 \in Nat /\ m - 1 \notin T
  BY <1>1, <1>2
<1>4. PICK f : Filters(f, s, S, m - 1)
  BY <1>3
<1> DEFINE v == IF s[m] \in S THEN f[m - 1] ELSE Append(f[m - 1], s[m])
           g == [i \in 0..m |-> IF i = m THEN v ELSE f[i]]
<1>5. \A i \in 0..(m - 1) : f[i] = IF i = 0 THEN <<>>
                                   ELSE IF s[i] \in S THEN f[i - 1]
                                   ELSE Append(f[i - 1], s[i])
  BY <1>4 DEF Filters
<1>6. \A i \in 0..(m - 1) : g[i] = f[i]
  BY <1>3
<1>7. g[m] = v
  BY <1>3
<1> HIDE DEF v
<1>8. \A i \in 0..m : g[i] = IF i = 0 THEN <<>>
                             ELSE IF s[i] \in S THEN g[i - 1]
                             ELSE Append(g[i - 1], s[i])
  <2> TAKE i \in 0..m
  <2>1. CASE i = m
    BY <2>1, <1>2, <1>3, <1>6, <1>7 DEF v
  <2>2. CASE i # m
    <3>1. i \in 0..(m - 1) /\ (i # 0 => i - 1 \in 0..(m - 1))
      BY <2>2, <1>3
    <3>2. i # 0 => g[i - 1] = f[i - 1]
      BY <3>1, <1>6
    <3> HIDE DEF g
    <3> QED
      BY <3>1, <3>2, <1>5, <1>6
  <2> QED
    BY <2>1, <2>2
<1>9. g = [i \in 0..m |-> g[i]]
  OBVIOUS
<1> HIDE DEF g
<1>10. Filters(g, s, S, m)
  BY <1>8, <1>9 DEF Filters
<1> QED
  BY <1>10, <1>1

\* Without returns a list of the same members that is no longer.
LEMMA WithoutType ==
    ASSUME NEW X, NEW s \in Seq(X), NEW S
    PROVE  Without(s, S) \in Seq(X) /\ Len(Without(s, S)) <= Len(s)
<1> DEFINE f == CHOOSE f : Filters(f, s, S, Len(s))
           T == {n \in 0..Len(s) : ~(f[n] \in Seq(X) /\ Len(f[n]) <= n)}
<1>1. Without(s, S) = f[Len(s)]
  BY DEF Without, Filters
<1>2. Len(s) \in Nat
  OBVIOUS
<1>3. Filters(f, s, S, Len(s))
  BY <1>2, FiltersExists
<1> HIDE DEF f
<1>4. f = [i \in 0..Len(s) |-> IF i = 0 THEN <<>>
                               ELSE IF s[i] \in S THEN f[i - 1]
                               ELSE Append(f[i - 1], s[i])]
  BY <1>3 DEF Filters
<1>5. f[0] = <<>>
  BY <1>2, <1>4
<1>6. \A i \in 1..Len(s) :
         f[i] = IF s[i] \in S THEN f[i - 1] ELSE Append(f[i - 1], s[i])
  <2> TAKE i \in 1..Len(s)
  <2>1. i \in 0..Len(s) /\ i # 0
    BY <1>2
  <2> QED
    BY <1>4, <2>1
<1>7. SUFFICES ASSUME T # {} PROVE FALSE
  BY <1>1, <1>2
<1>8. PICK n \in T : \A y \in T : n <= y
  <2>1. T \subseteq Nat
    BY <1>2
  <2> HIDE DEF T
  <2> QED
    BY <1>7, <2>1, LeastMember
<1>9. n # 0
  <2>1. <<>> \in Seq(X) /\ Len(<<>>) = 0
    BY EmptySeq
  <2>2. f[0] \in Seq(X) /\ Len(f[0]) <= 0
    BY <1>5, <2>1
  <2> QED
    BY <1>8, <2>2
<1>10. n \in 1..Len(s) /\ n - 1 \in 0..Len(s) /\ ~(n - 1 \in T)
  BY <1>2, <1>8, <1>9
<1>11. f[n - 1] \in Seq(X) /\ Len(f[n - 1]) <= n - 1 /\ Len(f[n - 1]) \in Nat /\ n \in Nat
  BY <1>10
<1>12. s[n] \in X
  BY <1>10
<1>13. /\ Append(f[n - 1], s[n]) \in Seq(X)
       /\ Len(Append(f[n - 1], s[n])) = Len(f[n - 1]) + 1
  BY <1>11, <1>12, AppendProperties
<1>14. f[n] = f[n - 1] \/ f[n] = Append(f[n - 1], s[n])
  BY <1>6, <1>10
<1>15. f[n] \in Seq(X) /\ Len(f[n]) <= n
  <2>1. CASE f[n] = f[n - 1]
    BY <1>11, <2>1
  <2>2. CASE f[n] = Append(f[n - 1], s[n])
    <3>1. Len(f[n]) = Len(f[n - 1]) + 1
      BY <1>13, <2>2
    <3>2. f[n] \in Seq(X)
      BY <1>13, <2>2
    <3> QED
      BY <1>11, <3>1, <3>2
  <2> QED
    BY <1>14, <2>1, <2>2
<1> QED
  BY <1>8, <1>15

\* Members of a list are in the set the list is over.
LEMMA KeysOf ==
    ASSUME NEW X, NEW s \in Seq(X)
    PROVE  Keys(s) \subseteq X /\ s \in Seq(Keys(s))
<1>1. DOMAIN s = 1..Len(s) /\ Len(s) \in Nat /\ s = [i \in 1..Len(s) |-> s[i]]
  BY LenProperties
<1>2. \A i \in 1..Len(s) : s[i] \in X
  BY ElementOfSeq
<1>3. \A i \in 1..Len(s) : s[i] \in Keys(s)
  BY <1>1 DEF Keys
<1>4. s \in [1..Len(s) -> Keys(s)]
  BY <1>1, <1>3
<1>5. s \in Seq(Keys(s))
  BY <1>1, <1>4
<1> QED
  BY <1>1, <1>2, <1>5 DEF Keys

\* rememberCompletedWakeKey keeps the list within its limit and adds only the key.
LEMMA RememberType ==
    ASSUME NEW s \in Seq(Key), NEW k \in Key
    PROVE  /\ Remember(s, k) \in Seq(Key) /\ Len(Remember(s, k)) <= MaxKeys
           /\ Keys(Remember(s, k)) \subseteq Keys(s) \cup {k}
<1> DEFINE w == Without(s, {k})
           t == <<k>> \o w
           n == IF Len(t) < MaxKeys THEN Len(t) ELSE MaxKeys
           X == Keys(s) \cup {k}
<1>1. s \in Seq(Keys(s)) /\ Keys(s) \subseteq Key
  BY KeysOf
<1>2. w \in Seq(Keys(s))
  BY <1>1, WithoutType
<1>3. w \in Seq(X)
  BY <1>2, SeqMonotonic
<1>4. <<k>> \in Seq(X)
  OBVIOUS
<1> HIDE DEF w, X
<1>5. t \in Seq(X) /\ Len(t) \in Nat
  BY <1>3, <1>4, ConcatProperties, LenProperties
<1>6. MaxKeys \in Nat
  BY AgentStreamNumbersAssumption
<1>7. Remember(s, k) = SubSeq(t, 1, n)
  BY DEF Remember, w
<1> HIDE DEF t
<1>8. n \in Nat /\ n <= Len(t) /\ n <= MaxKeys
  BY <1>5, <1>6
<1> HIDE DEF n
<1>9. \A i \in 1..n : t[i] \in X
  BY <1>5, <1>8, ElementOfSeq
<1>10. /\ SubSeq(t, 1, n) \in Seq(X)
       /\ Len(SubSeq(t, 1, n)) = IF 1 <= n THEN n - 1 + 1 ELSE 0
  BY <1>8, <1>9, SubSeqProperties
<1>11. Keys(SubSeq(t, 1, n)) \subseteq X
  BY <1>10, KeysOf
<1>12. X \subseteq Key
  BY <1>1 DEF X
<1>13. SubSeq(t, 1, n) \in Seq(Key)
  BY <1>10, <1>12, SeqMonotonic
<1>14. Len(SubSeq(t, 1, n)) <= MaxKeys
  BY <1>6, <1>8, <1>10
<1> QED
  BY <1>7, <1>11, <1>13, <1>14 DEF X

\* forgetCompletedWakeKeysForRoom only removes keys.
LEMMA ForgetType ==
    ASSUME NEW s \in Seq(Key), Len(s) <= MaxKeys, NEW r
    PROVE  /\ Forget(s, r) \in Seq(Key) /\ Len(Forget(s, r)) <= MaxKeys
           /\ Keys(Forget(s, r)) \subseteq Keys(s)
<1> DEFINE S == {k \in Keys(s) : k.room = r}
           w == Without(s, S)
<1>1. s \in Seq(Keys(s)) /\ Keys(s) \subseteq Key /\ Len(s) \in Nat
  BY KeysOf
<1>2. w \in Seq(Keys(s)) /\ Len(w) <= Len(s)
  BY <1>1, WithoutType
<1>3. Forget(s, r) = w
  BY DEF Forget
<1> HIDE DEF w
<1>4. w \in Seq(Key) /\ Keys(w) \subseteq Keys(s) /\ Len(w) \in Nat
  BY <1>1, <1>2, SeqMonotonic, KeysOf, LenProperties
<1>5. MaxKeys \in Nat
  BY AgentStreamNumbersAssumption
<1> QED
  BY <1>1, <1>2, <1>3, <1>4, <1>5

\* No two rows of S have the same seq.
Distinct(S) == \A d \in S, e \in S : d.seq = e.seq => d = e
Ordered(s, S) ==
    /\ s \in [1..Cardinality(S) -> S]
    /\ \A i, j \in 1..Cardinality(S) : i < j => s[i].seq < s[j].seq

\* Finitely many rows with different seqs can be listed in the order of their seqs.
LEMMA OrderedExists ==
    ASSUME NEW S \in SUBSET Row, IsFiniteSet(S), Distinct(S)
    PROVE  \E s : Ordered(s, S)
<1> DEFINE P == {Q \in SUBSET Row : IsFiniteSet(Q) /\ Distinct(Q) /\ ~\E s : Ordered(s, Q)}
           T == {n \in Nat : \E Q \in P : Cardinality(Q) = n}
<1> SUFFICES ASSUME S \in P PROVE FALSE
  OBVIOUS
<1>1. Cardinality(S) \in T
  BY FS_CardinalityType
<1>2. PICK n \in T : \A y \in T : n <= y
  <2>1. T \subseteq Nat /\ T # {}
    BY <1>1
  <2> HIDE DEF T
  <2> QED
    BY <2>1, LeastMember
<1>3. PICK Q \in P : Cardinality(Q) = n
  BY <1>2
<1>4. Q \in SUBSET Row /\ IsFiniteSet(Q) /\ Distinct(Q) /\ ~\E s : Ordered(s, Q)
  BY <1>3
<1>5. n \in Nat
  BY <1>2
<1>6. n # 0
  <2> SUFFICES ASSUME n = 0 PROVE FALSE
    OBVIOUS
  <2>1. Q = {}
    BY <1>3, <1>4, FS_EmptySet
  <2> DEFINE s == [i \in 1..0 |-> 0]
  <2>2. 1..0 = {}
    OBVIOUS
  <2>3. s \in [1..0 -> {}]
    BY <2>2
  <2>4. Ordered(s, Q)
    BY <2>1, <2>2, <2>3, FS_EmptySet DEF Ordered
  <2> QED
    BY <2>4, <1>4
<1>7. Q # {}
  BY <1>3, <1>4, <1>6, FS_EmptySet
<1> DEFINE N == {d.seq : d \in Q}
<1>8. N \subseteq Nat /\ N # {}
  BY <1>4, <1>7 DEF Row
<1>9. PICK x \in N : \A y \in N : x <= y
  <2> HIDE DEF N
  <2> QED
    BY <1>8, LeastMember
<1>10. PICK d \in Q : d.seq = x
  BY <1>9
<1>11. \A e \in Q : e # d => d.seq < e.seq
  <2> TAKE e \in Q
  <2>1. e.seq \in N /\ d.seq <= e.seq /\ e.seq \in Nat /\ d.seq \in Nat
    BY <1>4, <1>9, <1>10 DEF Row
  <2>2. e # d => e.seq # d.seq
    BY <1>4, <1>10 DEF Distinct
  <2> QED
    BY <2>1, <2>2
<1> DEFINE U == Q \ {d}
<1>12. IsFiniteSet(U) /\ Cardinality(U) = n - 1 /\ Distinct(U) /\ U \in SUBSET Row
  BY <1>3, <1>4, <1>10, FS_RemoveElement DEF Distinct
<1>13. U \notin P
  <2> SUFFICES ASSUME U \in P PROVE FALSE
    OBVIOUS
  <2>1. n - 1 \in T
    BY <1>5, <1>6, <1>12
  <2> HIDE DEF T
  <2> QED
    BY <2>1, <1>2, <1>5
<1>14. PICK s : Ordered(s, U)
  BY <1>12, <1>13
<1> HIDE DEF P, T, N, U
<1>15. /\ s \in [1..(n - 1) -> U]
       /\ \A i, j \in 1..(n - 1) : i < j => s[i].seq < s[j].seq
  BY <1>12, <1>14 DEF Ordered
<1> DEFINE t == [i \in 1..n |-> IF i = 1 THEN d ELSE s[i - 1]]
<1>16. \A i \in 1..n : /\ i = 1 => t[i] = d
                       /\ i # 1 => i - 1 \in 1..(n - 1) /\ t[i] = s[i - 1] /\ t[i] \in U
  BY <1>5, <1>15
<1>17. t \in [1..n -> Q]
  BY <1>10, <1>16 DEF U
<1> HIDE DEF t
<1>18. ASSUME NEW i \in 1..n, NEW j \in 1..n, i < j PROVE t[i].seq < t[j].seq
  <2>1. j # 1 /\ i \in Nat /\ j \in Nat /\ i >= 1
    BY <1>5, <1>18
  <2>2. CASE i = 1
    BY <2>1, <2>2, <1>11, <1>16 DEF U
  <2>3. CASE i # 1
    BY <2>1, <2>3, <1>15, <1>16, <1>18
  <2> QED
    BY <2>2, <2>3
<1>19. Ordered(t, Q)
  BY <1>3, <1>17, <1>18 DEF Ordered
<1> QED
  BY <1>4, <1>19

\* InOrder lists the rows it is given.
LEMMA InOrderType ==
    ASSUME NEW S \in SUBSET Row, IsFiniteSet(S), Distinct(S), S # {}
    PROVE  /\ InOrder(S) \in Seq(S)
           /\ Len(InOrder(S)) \in Nat \ {0}
           /\ InOrder(S)[Len(InOrder(S))] \in S
<1> DEFINE n == Cardinality(S)
           s == InOrder(S)
<1>1. n \in Nat /\ n # 0
  BY FS_CardinalityType, FS_EmptySet
<1>2. \E t \in [1..n -> S] : \A i, j \in 1..n : i < j => t[i].seq < t[j].seq
  BY OrderedExists DEF Ordered
<1>3. s \in [1..n -> S]
  BY <1>2 DEF InOrder
<1> HIDE DEF s, n
<1>4. s \in Seq(S) /\ Len(s) = n
  BY <1>1, <1>3
<1>5. s[n] \in S
  BY <1>1, <1>3
<1> QED
  BY <1>1, <1>4, <1>5 DEF s

-----------------------------------------------------------------------------
(* The inductive invariant *)

\* The delivery rows: finitely many, each with its own seq; only rows are acknowledged;
\* a row is the trace of a turn its room has reached, or of its end; an OPEN room is at
\* turn 0.
Rows ==
    /\ IsFiniteSet(table)
    /\ \A d \in table : d.seq \in 1..seq
    /\ Distinct(table)
    /\ acked \subseteq {d.seq : d \in table}
    /\ \A d \in table :
          /\ d.type = "turn_ready" => room[d.room].state # "open" /\ d.turn <= room[d.room].turn
          /\ d.type # "turn_ready" => Ended(d.room)
    /\ \A r \in Rooms : room[r].state = "open" => room[r].turn = 0

\* The row of a running transaction: a seq of its own, and the turn or end its commit
\* brings about.
Pendings ==
    \A r \in Rooms : tx[r] # Nil =>
        /\ tx[r].room = r
        /\ tx[r].seq \in 1..seq
        /\ \A d \in table : d.seq # tx[r].seq
        /\ \A q \in Rooms \ {r} : tx[q] # Nil => tx[q].seq # tx[r].seq
        /\ tx[r].type = "turn_ready" =>
              \/ room[r].state = "open" /\ tx[r].turn = 0
              \/ room[r].state = "active" /\ tx[r].turn = room[r].turn + 1
        /\ tx[r].type = "closed" => room[r].state # "purged"

\* A job on disk or a wake made: the turn is not lost with the bridge.
Safe(k) == (\E j \in queue : j.key = k) \/ k \in woken
\* An acknowledged delivery whose turn is still to be played.
Owed(d) == d.type = "turn_ready" /\ d.seq \in acked /\ Current(KeyOf(d))

\* What is on the wire and in the serve loop's hands.
Hands ==
    /\ \A i \in DOMAIN wire : wire[i] \in table
    /\ main.pc \in {"token", "enqueue", "terminal", "ack", "acked"} => main.msg \in table
    /\ main.pc = "terminal" => main.msg.type # "turn_ready"
    /\ main.pc \in {"token", "enqueue"} => main.msg.type = "turn_ready"
    /\ main.pc = "requeue" => main.msg \in Item
    /\ main.pc = "ack" /\ main.msg.type = "turn_ready" => Safe(KeyOf(main.msg))
    /\ main.pc = "acked" => main.msg.seq \in acked

\* The jobs in the hands of the drains.
Drains ==
    \A d \in Drainers :
        /\ drain[d].pc \in {"wake", "done"} => drain[d].job \in Job
        /\ drain[d].pc = "done" => drain[d].job.key \in woken

\* The state of the bridge and its file: only turns woken for are completed, and the
\* cursor is that of an acknowledged delivery.
Saved ==
    /\ Keys(mem.keys) \subseteq woken /\ Keys(disk.keys) \subseteq woken
    /\ mem.cursor = disk.cursor
    /\ disk.cursor = 0 \/ disk.cursor \in acked

Idle == {"down", "start", "wait", "recover"}
Connected == {"read", "token", "enqueue", "terminal", "ack", "acked", "drain"}
Recovering == {"rooms", "requeue", "rdrain", "clear"}

\* The rooms the recovery has still to visit: those over have ended; the others carry a
\* turn no acknowledged delivery is ahead of.
Payload ==
    main.pc \in Recovering =>
        \A it \in main.left :
            /\ it.over => Ended(it.room)
            /\ it.turn <= room[it.room].turn
            /\ ~it.over => \A d \in table :
                  d.type = "turn_ready" /\ d.seq \in acked /\ d.room = it.room => d.turn <= it.turn

\* While the stream is open every owed turn is safe; between streams it is safe or the
\* cursor forces recovery; during recovery it is safe, in the payload or in hand, and
\* the cursor still forces recovery should the bridge stop.
Durable ==
    /\ main.pc \in Idle =>
          \A d \in table : Owed(d) => Safe(KeyOf(d)) \/ ~Resumable(disk.cursor)
    /\ main.pc \in Connected => \A d \in table : Owed(d) => Safe(KeyOf(d))
    /\ main.pc \in Recovering \cup {"recover"} => ~Resumable(disk.cursor)
    /\ main.pc \in Recovering => \A d \in table : Owed(d) =>
          \/ Safe(KeyOf(d))
          \/ \E it \in main.left : ~it.over /\ KeyOf(it) = KeyOf(d)
          \/ main.pc = "requeue" /\ KeyOf(main.msg) = KeyOf(d)
    /\ main.pc \in {"rdrain", "clear"} => main.left = {}

IInv == TypeOK /\ Rows /\ Pendings /\ Hands /\ Drains /\ Saved /\ Payload /\ Durable

-----------------------------------------------------------------------------
(* Types *)

Place == {"down", "start", "wait", "read", "token", "enqueue", "terminal", "ack", "acked",
          "drain", "recover", "rooms", "requeue", "rdrain", "clear"}
MainType == [pc : Place, msg : Row \cup Item \cup {Nil}, then : {"read", "drain"},
             left : SUBSET Item]
DrainRecord == [pc : {"none", "next", "wake", "done"}, todo : SUBSET Job, job : Job \cup {Nil}]
StateRecord == [cursor : Nat, keys : Seq(Key)]
RoomRecord == [state : {"open", "active", "closed", "purged"}, turn : Nat, endedAt : Nat]

\* TypeOK over the parts named above.
LEMMA TypeParts ==
    TypeOK <=> /\ clock \in Nat /\ seq \in Nat /\ faults \in Nat
               /\ room \in [Rooms -> RoomRecord]
               /\ tx \in [Rooms -> Row \cup {Nil}]
               /\ table \subseteq Row
               /\ acked \subseteq 1..seq
               /\ conn \in [on : BOOLEAN, last : Nat]
               /\ wire \in Seq(Row)
               /\ main \in MainType
               /\ drain \in [Drainers -> DrainRecord]
               /\ queue \subseteq Job
               /\ mem \in StateRecord /\ Len(mem.keys) <= MaxKeys
               /\ disk \in StateRecord /\ Len(disk.keys) <= MaxKeys
               /\ woken \subseteq Key
BY DEF TypeOK, MainType, DrainRecord, StateRecord, RoomRecord, Place

\* The same after a step.
LEMMA TypeNext ==
    TypeOK' <=> /\ clock' \in Nat /\ seq' \in Nat /\ faults' \in Nat
                /\ room' \in [Rooms -> RoomRecord]
                /\ tx' \in [Rooms -> Row \cup {Nil}]
                /\ table' \subseteq Row
                /\ acked' \subseteq 1..seq'
                /\ conn' \in [on : BOOLEAN, last : Nat]
                /\ wire' \in Seq(Row)
                /\ main' \in MainType
                /\ drain' \in [Drainers -> DrainRecord]
                /\ queue' \subseteq Job
                /\ mem' \in StateRecord /\ Len(mem'.keys) <= MaxKeys
                /\ disk' \in StateRecord /\ Len(disk'.keys) <= MaxKeys
                /\ woken' \subseteq Key
BY DEF TypeOK, MainType, DrainRecord, StateRecord, RoomRecord, Place

\* The serve loop's next place.
LEMMA GotoMain ==
    ASSUME main \in MainType, NEW pc \in Place, Goto(pc)
    PROVE  /\ main' \in MainType /\ main'.pc = pc /\ main'.msg = main.msg
           /\ main'.then = main.then /\ main'.left = main.left
BY DEF Goto, MainType

\* The serve loop starts over.
LEMMA LoopMain ==
    ASSUME NEW pc \in Place, main' = Loop(pc)
    PROVE  /\ main' \in MainType /\ main'.pc = pc /\ main'.msg = Nil
           /\ main'.then = "read" /\ main'.left = {}
BY DEF Loop, MainType

\* One drain changes.
LEMMA DrainMoves ==
    ASSUME drain \in [Drainers -> DrainRecord], NEW d \in Drainers, NEW e \in DrainRecord,
           drain' = [drain EXCEPT ![d] = e]
    PROVE  /\ drain' \in [Drainers -> DrainRecord] /\ drain'[d] = e
           /\ \A c \in Drainers : c # d => drain'[c] = drain[c]
OBVIOUS

\* drainWakeQueue starts with the files there are.
LEMMA DrainStarts ==
    ASSUME drain \in [Drainers -> DrainRecord], NEW d \in Drainers, queue \subseteq Job,
           StartDrain(d)
    PROVE  /\ drain' \in [Drainers -> DrainRecord]
           /\ drain'[d] = [pc |-> "next", todo |-> queue, job |-> Nil]
           /\ \A c \in Drainers : c # d => drain'[c] = drain[c]
<1>1. [pc |-> "next", todo |-> queue, job |-> Nil] \in DrainRecord
  BY DEF DrainRecord
<1> QED
  BY <1>1, DrainMoves DEF StartDrain

\* The state after the cursor or the keys change.
LEMMA StateMoves ==
    ASSUME NEW s \in StateRecord, NEW c \in Nat, NEW ks \in Seq(Key)
    PROVE  /\ [s EXCEPT !.cursor = c] \in StateRecord
           /\ [s EXCEPT !.cursor = c].cursor = c /\ [s EXCEPT !.cursor = c].keys = s.keys
           /\ [s EXCEPT !.keys = ks] \in StateRecord
           /\ [s EXCEPT !.keys = ks].keys = ks /\ [s EXCEPT !.keys = ks].cursor = s.cursor
           /\ s.cursor \in Nat /\ s.keys \in Seq(Key)
BY DEF StateRecord

\* The configuration, number by number.
LEMMA Numbers ==
    /\ Page \in Nat /\ Page > 0 /\ Window \in Nat /\ MaxKeys \in Nat /\ MaxTurn \in Nat
    /\ MaxClock \in Nat /\ "main" \in Drainers /\ Timers \subseteq Drainers
BY AgentStreamNumbersAssumption DEF Drainers

\* The initial state satisfies the invariant.
LEMMA InitInv == Init => IInv
<1> SUFFICES ASSUME Init PROVE IInv
  OBVIOUS
<1>1. TypeOK
  <2>1. main \in MainType
    BY DEF Init, MainType, Loop, Place
  <2>2. drain \in [Drainers -> DrainRecord]
    BY DEF Init, DrainRecord, NoDrain
  <2>3. mem \in StateRecord /\ Len(mem.keys) <= MaxKeys /\ disk = mem
    BY Numbers DEF Init, StateRecord
  <2>4. room \in [Rooms -> RoomRecord]
    BY DEF Init, RoomRecord
  <2> QED
    BY <2>1, <2>2, <2>3, <2>4, TypeParts DEF Init
<1>2. Rows
  BY FS_EmptySet DEF Init, Rows, Distinct
<1>3. Pendings
  BY DEF Init, Pendings
<1>4. main.pc = "down"
  BY DEF Init, Loop
<1>5. Hands
  BY <1>4 DEF Init, Hands
<1>6. Drains
  BY DEF Init, Drains, NoDrain
<1>7. Saved
  BY DEF Init, Saved, Keys
<1>8. Payload
  BY <1>4 DEF Payload, Recovering
<1>9. Durable
  BY <1>4 DEF Init, Durable, Recovering, Connected
<1> QED
  BY <1>1, <1>2, <1>3, <1>5, <1>6, <1>7, <1>8, <1>9 DEF IInv

-----------------------------------------------------------------------------
(* The clock and the API's transactions *)

bridge == <<conn, wire, main, drain, queue, mem, disk, woken, faults>>

\* A step of the clock or the API that brings no new owed delivery, makes no expired
\* cursor good again and reopens no room leaves the bridge's part of the invariant
\* alone.
LEMMA ServerKeeps ==
    ASSUME IInv, UNCHANGED bridge, UNCHANGED acked, TypeOK',
           table \subseteq table',
           \A d \in table' : d.seq \in acked => d \in table,
           \A d \in table' : Owed(d)' => d \in table /\ Owed(d),
           Resumable(disk.cursor)' => Resumable(disk.cursor),
           \A r \in Rooms : /\ Ended(r) => Ended(r)'
                            /\ room[r].turn <= room'[r].turn
    PROVE  Hands' /\ Drains' /\ Saved' /\ Payload' /\ Durable'
<1> USE DEF bridge
<1>1. /\ TypeOK /\ Hands /\ Drains /\ Saved /\ Payload /\ Durable
      /\ disk' = disk /\ main' = main /\ queue' = queue /\ woken' = woken
  BY DEF IInv
<1>2. \A k : Safe(k)' <=> Safe(k)
  BY DEF Safe
<1>3. Hands'
  BY <1>1, <1>2 DEF Hands, KeyOf
<1>4. Drains'
  BY <1>1 DEF Drains
<1>5. Saved'
  BY <1>1 DEF Saved, Keys
<1>6. Payload'
  <2> SUFFICES ASSUME main.pc \in Recovering, NEW it \in main.left
               PROVE  /\ it.over => Ended(it.room)'
                      /\ it.turn <= room'[it.room].turn
                      /\ ~it.over => \A d \in table' :
                            d.type = "turn_ready" /\ d.seq \in acked /\ d.room = it.room
                              => d.turn <= it.turn
    BY <1>1 DEF Payload
  <2>1. it \in Item /\ it.room \in Rooms /\ it.turn \in Nat
    BY <1>1, TypeParts DEF MainType, Item
  <2>2. room[it.room].turn \in Nat /\ room'[it.room].turn \in Nat
    BY <1>1, <2>1, TypeParts, TypeNext DEF RoomRecord
  <2>3. it.over => Ended(it.room)'
    BY <1>1, <2>1 DEF Payload
  <2>4. it.turn <= room'[it.room].turn
    <3>1. it.turn <= room[it.room].turn
      BY <1>1 DEF Payload
    <3> QED
      BY <3>1, <2>1, <2>2
  <2>5. ~it.over => \A d \in table' :
              d.type = "turn_ready" /\ d.seq \in acked /\ d.room = it.room => d.turn <= it.turn
    BY <1>1 DEF Payload
  <2> QED
    BY <2>3, <2>4, <2>5
<1>7. Durable'
  <2>1. main.pc \in Idle =>
          \A d \in table' : Owed(d)' => Safe(KeyOf(d))' \/ ~Resumable(disk.cursor)'
    BY <1>1, <1>2 DEF Durable
  <2>2. main.pc \in Connected => \A d \in table' : Owed(d)' => Safe(KeyOf(d))'
    BY <1>1, <1>2 DEF Durable
  <2>3. main.pc \in Recovering \cup {"recover"} => ~Resumable(disk.cursor)'
    BY <1>1 DEF Durable
  <2>4. main.pc \in Recovering => \A d \in table' : Owed(d)' =>
          \/ Safe(KeyOf(d))'
          \/ \E it \in main.left : ~it.over /\ KeyOf(it) = KeyOf(d)
          \/ main.pc = "requeue" /\ KeyOf(main.msg) = KeyOf(d)
    BY <1>1, <1>2 DEF Durable
  <2>5. main.pc \in {"rdrain", "clear"} => main.left = {}
    BY <1>1 DEF Durable
  <2> QED
    BY <1>1, <2>1, <2>2, <2>3, <2>4, <2>5 DEF Durable, KeyOf
<1> QED
  BY <1>3, <1>4, <1>5, <1>6, <1>7

\* The clock.
LEMMA TickStep == IInv /\ Tick => IInv'
<1> SUFFICES ASSUME IInv, Tick PROVE IInv'
  OBVIOUS
<1> USE DEF Tick, server, files
<1>1. TypeOK /\ Rows /\ Pendings
  BY DEF IInv
<1>2. clock \in Nat /\ clock' = clock + 1
  BY <1>1 DEF TypeOK
<1>3. TypeOK'
  BY <1>1, <1>2, TypeParts, TypeNext
<1>4. Rows'
  BY <1>1 DEF Rows, Ended
<1>5. Pendings'
  BY <1>1 DEF Pendings
<1>6. \A d : Owed(d)' <=> Owed(d)
  BY DEF Owed, Current, MyTurn
<1>7. Resumable(disk.cursor)' => Resumable(disk.cursor)
  <2>1. \A d \in table : d.exp \in Nat
    BY <1>1, TypeParts DEF Row
  <2> QED
    BY <1>2, <2>1 DEF Resumable
<1>8. \A r \in Rooms : (Ended(r) => Ended(r)') /\ room[r].turn <= room'[r].turn
  BY <1>1, TypeParts DEF Ended, RoomRecord
<1>9. UNCHANGED bridge /\ UNCHANGED acked /\ table' = table
  BY DEF bridge
<1>10. Hands' /\ Drains' /\ Saved' /\ Payload' /\ Durable'
  <2> HIDE DEF Tick
  <2> QED
    BY <1>3, <1>6, <1>7, <1>8, <1>9, ServerKeeps
<1> QED
  BY <1>3, <1>4, <1>5, <1>10 DEF IInv

\* createAgentStreamDelivery hands out a seq no row and no transaction has.
LEMMA InsertStep ==
    ASSUME IInv, NEW r \in Rooms, NEW type \in {"turn_ready", "closed", "purged"},
           NEW turn \in Nat, Insert(r, type, turn),
           type = "turn_ready" => \/ room[r].state = "open" /\ turn = 0
                                  \/ room[r].state = "active" /\ turn = room[r].turn + 1,
           type = "closed" => room[r].state # "purged"
    PROVE  IInv'
<1> USE DEF Insert, files
<1> DEFINE e == [seq |-> seq + 1, room |-> r, type |-> type, turn |-> turn,
                 exp |-> clock + Window]
<1>1. TypeOK /\ Rows /\ Pendings
  BY DEF IInv
<1>2. seq \in Nat /\ seq' = seq + 1 /\ clock \in Nat /\ Window \in Nat
  BY <1>1, Numbers DEF TypeOK
<1>3. /\ e \in Row /\ e.room = r /\ e.seq = seq + 1 /\ e.type = type /\ e.turn = turn
      /\ tx[r] = Nil /\ tx' = [tx EXCEPT ![r] = e]
  BY <1>2 DEF Row
<1> HIDE DEF e
<1>4. /\ tx \in [Rooms -> Row \cup {Nil}] /\ tx' \in [Rooms -> Row \cup {Nil}] /\ tx'[r] = e
      /\ \A q \in Rooms : q # r => tx'[q] = tx[q]
  BY <1>1, <1>3, TypeParts
<1>5. TypeOK'
  <2>1. acked \subseteq 1..(seq + 1)
    BY <1>1, <1>2, TypeParts
  <2> QED
    BY <1>1, <1>2, <1>4, <2>1, TypeParts, TypeNext
<1>6. Rows'
  <2>1. \A n \in 1..seq : n \in 1..(seq + 1)
    BY <1>2
  <2> QED
    BY <1>1, <1>2, <2>1 DEF Rows, Ended
<1>7. Pendings'
  <2> SUFFICES ASSUME NEW q \in Rooms, tx'[q] # Nil
               PROVE  /\ tx'[q].room = q
                      /\ tx'[q].seq \in 1..(seq + 1)
                      /\ \A d \in table : d.seq # tx'[q].seq
                      /\ \A p \in Rooms \ {q} : tx'[p] # Nil => tx'[p].seq # tx'[q].seq
                      /\ tx'[q].type = "turn_ready" =>
                            \/ room[q].state = "open" /\ tx'[q].turn = 0
                            \/ room[q].state = "active" /\ tx'[q].turn = room[q].turn + 1
                      /\ tx'[q].type = "closed" => room[q].state # "purged"
    BY <1>2 DEF Pendings
  <2>1. \A n \in 1..seq : n \in 1..(seq + 1) /\ n # seq + 1
    BY <1>2
  <2>2. \A p \in Rooms : tx[p] # Nil => tx[p].seq \in 1..seq
    BY <1>1 DEF Pendings
  <2>3. \A d \in table : d.seq \in 1..seq
    BY <1>1 DEF Rows
  <2>4. CASE q = r
    <3>1. seq + 1 \in 1..(seq + 1)
      BY <1>2
    <3> QED
      BY <1>3, <1>4, <2>1, <2>2, <2>3, <2>4, <3>1
  <2>5. CASE q # r
    <3>1. tx'[q] = tx[q] /\ tx[q] # Nil
      BY <1>4, <2>5
    <3>2. /\ tx[q].room = q
          /\ tx[q].seq \in 1..(seq + 1)
          /\ \A d \in table : d.seq # tx[q].seq
          /\ tx[q].type = "turn_ready" =>
                \/ room[q].state = "open" /\ tx[q].turn = 0
                \/ room[q].state = "active" /\ tx[q].turn = room[q].turn + 1
          /\ tx[q].type = "closed" => room[q].state # "purged"
      BY <1>1, <2>1, <3>1 DEF Pendings
    <3>3. ASSUME NEW p \in Rooms \ {q}, tx'[p] # Nil PROVE tx'[p].seq # tx[q].seq
      <4>1. CASE p = r
        BY <1>3, <1>4, <2>1, <2>2, <3>1, <4>1
      <4>2. CASE p # r
        BY <1>1, <1>4, <3>1, <3>3, <4>2 DEF Pendings
      <4> QED
        BY <4>1, <4>2
    <3> QED
      BY <3>1, <3>2, <3>3
  <2> QED
    BY <2>4, <2>5
<1>8. \A d : Owed(d)' <=> Owed(d)
  BY DEF Owed, Current, MyTurn
<1>9. Resumable(disk.cursor)' => Resumable(disk.cursor)
  BY DEF Resumable
<1>10. \A q \in Rooms : (Ended(q) => Ended(q)') /\ room[q].turn <= room'[q].turn
  BY <1>1, TypeParts DEF Ended, RoomRecord
<1>11. UNCHANGED bridge /\ UNCHANGED acked /\ table' = table
  BY DEF bridge
<1>12. Hands' /\ Drains' /\ Saved' /\ Payload' /\ Durable'
  <2> HIDE DEF Insert
  <2> QED
    BY <1>5, <1>8, <1>9, <1>10, <1>11, ServerKeeps
<1> QED
  BY <1>5, <1>6, <1>7, <1>12 DEF IInv

\* The delivery of a turn.
LEMMA TurnReadyStep == ASSUME IInv, NEW r \in Rooms, TurnReady(r) PROVE IInv'
<1>1. room[r].turn \in Nat /\ room[r].turn + 1 \in Nat /\ 0 \in Nat
  BY TypeParts DEF IInv, RoomRecord
<1> QED
  BY <1>1, InsertStep DEF TurnReady

\* The delivery of an end.
LEMMA TerminalStep == ASSUME IInv, NEW r \in Rooms, Terminal(r) PROVE IInv'
<1>1. room[r].turn \in Nat
  BY TypeParts DEF IInv, RoomRecord
<1> QED
  BY <1>1, InsertStep DEF Terminal

\* The commit: the row's seq is not acknowledged, and the turns acknowledged before it
\* are behind the room's new turn.
LEMMA CommitStep == ASSUME IInv, NEW r \in Rooms, Commit(r) PROVE IInv'
<1> USE DEF Commit, files
<1> DEFINE e == tx[r]
           row == IF e.type = "turn_ready"
                  THEN [room[r] EXCEPT !.state = "active", !.turn = e.turn]
                  ELSE [room[r] EXCEPT !.state = e.type, !.endedAt = clock]
<1>1. TypeOK /\ Rows /\ Pendings /\ Saved
  BY DEF IInv
<1>2. clock \in Nat /\ seq \in Nat /\ room[r] \in RoomRecord /\ room[r].turn \in Nat
  BY <1>1, TypeParts DEF RoomRecord
<1>3. e \in Row /\ e # Nil
  BY <1>1, TypeParts
<1>4. /\ e.room = r /\ e.seq \in 1..seq /\ (\A d \in table : d.seq # e.seq)
      /\ \A q \in Rooms \ {r} : tx[q] # Nil => tx[q].seq # e.seq
      /\ e.type = "turn_ready" => \/ room[r].state = "open" /\ e.turn = 0
                                  \/ room[r].state = "active" /\ e.turn = room[r].turn + 1
      /\ e.type \in {"turn_ready", "closed", "purged"} /\ e.turn \in Nat
      /\ e.type = "closed" => room[r].state # "purged"
  <2>1. e.type \in {"turn_ready", "closed", "purged"} /\ e.turn \in Nat
    BY <1>3 DEF Row
  <2> QED
    BY <1>1, <1>3, <2>1 DEF Pendings
<1>5. table' = table \cup {e} /\ tx' = [tx EXCEPT ![r] = Nil] /\ room' = [room EXCEPT ![r] = row]
  OBVIOUS
<1> HIDE DEF e
<1>6. /\ row \in RoomRecord
      /\ e.type = "turn_ready" => row.state = "active" /\ row.turn = e.turn
      /\ e.type # "turn_ready" => row.state \in {"closed", "purged"} /\ row.turn = room[r].turn
  BY <1>2, <1>4 DEF RoomRecord
<1> HIDE DEF row
<1>7. /\ room' \in [Rooms -> RoomRecord] /\ room'[r] = row
      /\ \A q \in Rooms : q # r => room'[q] = room[q]
  BY <1>1, <1>5, <1>6, TypeParts
<1>8. /\ tx' \in [Rooms -> Row \cup {Nil}] /\ tx'[r] = Nil
      /\ \A q \in Rooms : q # r => tx'[q] = tx[q]
  BY <1>1, <1>5, TypeParts
<1>9. table' \subseteq Row
  BY <1>1, <1>3, <1>5, TypeParts
<1>10. TypeOK'
  <2> HIDE DEF Commit
  <2>1. UNCHANGED <<clock, seq, acked, conn, wire, main, drain, files, mem, woken, faults>>
    BY DEF Commit
  <2> QED
    BY <1>1, <1>7, <1>8, <1>9, <2>1, TypeParts, TypeNext
<1>11. room[r].turn <= row.turn /\ row.turn \in Nat
  <2>1. CASE e.type = "turn_ready"
    <3>1. row.turn = e.turn
      BY <1>6, <2>1
    <3>2. (e.turn = 0 /\ room[r].turn = 0) \/ e.turn = room[r].turn + 1
      BY <1>1, <1>4, <2>1 DEF Rows
    <3> QED
      BY <1>2, <3>1, <3>2
  <2>2. CASE e.type # "turn_ready"
    BY <1>2, <1>6, <2>2
  <2> QED
    BY <2>1, <2>2
<1>12. \A q \in Rooms : (Ended(q) => Ended(q)') /\ room[q].turn <= room'[q].turn
  <2> TAKE q \in Rooms
  <2>1. room[q].turn \in Nat
    BY <1>1, TypeParts DEF RoomRecord
  <2>2. CASE q = r
    <3>1. Ended(r) => e.type # "turn_ready"
      BY <1>4 DEF Ended
    <3> QED
      BY <1>6, <1>7, <1>11, <2>2, <3>1 DEF Ended
  <2>3. CASE q # r
    BY <1>7, <2>1, <2>3 DEF Ended
  <2> QED
    BY <2>2, <2>3
<1>13. \A d \in table' : d.seq \in acked => d \in table
  <2>1. e.seq \notin acked
    BY <1>1, <1>4 DEF Rows
  <2> QED
    BY <1>5, <2>1
<1>14. Rows'
  <2>1. IsFiniteSet(table')
    BY <1>1, <1>5, FS_AddElement DEF Rows
  <2>2. \A d \in table' : d.seq \in 1..seq'
    BY <1>1, <1>4, <1>5 DEF Rows
  <2>3. Distinct(table')
    BY <1>1, <1>4, <1>5 DEF Rows, Distinct
  <2>4. acked' \subseteq {d.seq : d \in table'}
    BY <1>1, <1>5 DEF Rows
  <2>5. \A q \in Rooms : room'[q].state = "open" => room'[q].turn = 0
    BY <1>1, <1>4, <1>6, <1>7 DEF Rows
  <2>6. ASSUME NEW d \in table'
        PROVE  /\ d.type = "turn_ready" => /\ room'[d.room].state # "open"
                                           /\ d.turn <= room'[d.room].turn
               /\ d.type # "turn_ready" => Ended(d.room)'
    <3>1. CASE d = e
      BY <1>4, <1>6, <1>7, <1>11, <3>1 DEF Ended
    <3>2. CASE d # e
      <4>1. d \in table /\ d \in Row /\ d.room \in Rooms /\ d.turn \in Nat
        BY <1>1, <1>5, <3>2, TypeParts DEF Row
      <4>2. /\ d.type = "turn_ready" => /\ room[d.room].state # "open"
                                        /\ d.turn <= room[d.room].turn
            /\ d.type # "turn_ready" => Ended(d.room)
        BY <1>1, <4>1 DEF Rows
      <4>3. room[d.room].turn \in Nat /\ room'[d.room].turn \in Nat
        BY <1>1, <1>7, <4>1, TypeParts DEF RoomRecord
      <4>4. d.turn <= room[d.room].turn => d.turn <= room'[d.room].turn
        BY <1>12, <4>1, <4>3
      <4>5. room[d.room].state # "open" => room'[d.room].state # "open"
        BY <1>6, <1>7, <4>1
      <4> QED
        BY <1>12, <4>1, <4>2, <4>4, <4>5
    <3> QED
      BY <3>1, <3>2
  <2> QED
    BY <2>1, <2>2, <2>3, <2>4, <2>5, <2>6 DEF Rows
<1>15. Pendings'
  <2> SUFFICES ASSUME NEW q \in Rooms, tx'[q] # Nil
               PROVE  /\ tx'[q].room = q
                      /\ tx'[q].seq \in 1..seq
                      /\ \A d \in table' : d.seq # tx'[q].seq
                      /\ \A p \in Rooms \ {q} : tx'[p] # Nil => tx'[p].seq # tx'[q].seq
                      /\ tx'[q].type = "turn_ready" =>
                            \/ room'[q].state = "open" /\ tx'[q].turn = 0
                            \/ room'[q].state = "active" /\ tx'[q].turn = room'[q].turn + 1
                      /\ tx'[q].type = "closed" => room'[q].state # "purged"
    BY DEF Pendings
  <2>1. q # r /\ tx'[q] = tx[q] /\ tx[q] # Nil /\ room'[q] = room[q]
    BY <1>7, <1>8
  <2>2. \A d \in table' : d.seq # tx[q].seq
    BY <1>1, <1>4, <1>5, <2>1 DEF Pendings
  <2>3. \A p \in Rooms \ {q} : tx'[p] # Nil => tx'[p].seq # tx[q].seq
    BY <1>1, <1>8, <2>1 DEF Pendings
  <2> QED
    BY <1>1, <2>1, <2>2, <2>3 DEF Pendings
<1>16. \A d \in table' : Owed(d)' => d \in table /\ Owed(d)
  <2> SUFFICES ASSUME NEW d \in table', Owed(d)' PROVE d \in table /\ Owed(d)
    OBVIOUS
  <2>1. d \in table /\ d.type = "turn_ready" /\ d.seq \in acked /\ d \in Row /\ d.room \in Rooms
        /\ d.turn \in Nat
    <3>1. d \in table /\ d.type = "turn_ready" /\ d.seq \in acked
      BY <1>13 DEF Owed
    <3> QED
      BY <1>1, <3>1, TypeParts DEF Row
  <2>2. MyTurn(d.room)' /\ room'[d.room].turn = d.turn
    BY DEF Owed, Current, KeyOf
  <2>3. room[d.room].state # "open" /\ d.turn <= room[d.room].turn
    BY <1>1, <2>1 DEF Rows
  <2>4. d.room # r
    <3> SUFFICES ASSUME d.room = r PROVE FALSE
      OBVIOUS
    <3>1. row.state = "active"
      BY <1>7, <2>2 DEF MyTurn
    <3>2. row.turn = room[r].turn + 1
      BY <1>4, <1>6, <2>3, <3>1
    <3>3. d.turn = room[r].turn + 1 /\ d.turn <= room[r].turn
      BY <1>7, <2>2, <2>3, <3>2
    <3> HIDE DEF Commit
    <3> QED
      BY <1>2, <2>1, <3>3
  <2>5. room'[d.room] = room[d.room]
    BY <1>7, <2>1, <2>4
  <2> QED
    BY <2>1, <2>2, <2>5 DEF Owed, Current, KeyOf, MyTurn
<1>17. Resumable(disk.cursor)' => Resumable(disk.cursor)
  BY <1>13 DEF Resumable
<1>18. UNCHANGED bridge /\ UNCHANGED acked /\ table \subseteq table'
  BY DEF bridge
<1>19. Hands' /\ Drains' /\ Saved' /\ Payload' /\ Durable'
  <2> HIDE DEF Commit
  <2> QED
    BY <1>10, <1>12, <1>13, <1>16, <1>17, <1>18, ServerKeeps
<1> QED
  BY <1>10, <1>14, <1>15, <1>19 DEF IInv

\* The agent's own message takes the room past every delivered turn.
LEMMA ReplyStep == ASSUME IInv, NEW r \in Rooms, Reply(r) PROVE IInv'
<1> USE DEF Reply, files
<1>1. TypeOK /\ Rows /\ Pendings
  BY DEF IInv
<1>2. /\ tx[r] = Nil /\ room[r].state = "active" /\ room[r].turn \in Nat
      /\ room[r] \in RoomRecord /\ room \in [Rooms -> RoomRecord]
  BY <1>1, TypeParts DEF RoomRecord, MyTurn
<1> DEFINE row == [room[r] EXCEPT !.turn = room[r].turn + 1]
<1>3. row \in RoomRecord /\ row.state = "active" /\ row.turn = room[r].turn + 1
  BY <1>2 DEF RoomRecord
<1>4. room' = [room EXCEPT ![r] = row]
  BY <1>2
<1> HIDE DEF row
<1>5. /\ room' \in [Rooms -> RoomRecord] /\ room'[r] = row
      /\ \A q \in Rooms : q # r => room'[q] = room[q]
  BY <1>2, <1>3, <1>4
<1>6. TypeOK'
  <2> HIDE DEF Reply
  <2>1. UNCHANGED <<clock, seq, tx, table, acked, conn, wire, main, drain, files, mem, woken,
                    faults>>
    BY DEF Reply
  <2> QED
    BY <1>1, <1>5, <2>1, TypeParts, TypeNext
<1>7. \A q \in Rooms : /\ Ended(q) => Ended(q)'
                       /\ room[q].turn \in Nat /\ room'[q].turn \in Nat
                       /\ room[q].turn <= room'[q].turn
                       /\ room'[q].state = room[q].state
  <2> TAKE q \in Rooms
  <2>1. room[q].turn \in Nat
    BY <1>1, TypeParts DEF RoomRecord
  <2>2. CASE q = r
    BY <1>2, <1>3, <1>5, <2>2 DEF Ended
  <2>3. CASE q # r
    BY <1>5, <2>1, <2>3 DEF Ended
  <2> QED
    BY <2>2, <2>3
<1>8. \A d \in table : d \in Row /\ d.room \in Rooms /\ d.turn \in Nat
  BY <1>1, TypeParts DEF Row
<1>9. Rows'
  <2>1. \A d \in table : d.turn <= room[d.room].turn => d.turn <= room'[d.room].turn
    BY <1>7, <1>8
  <2>2. \A q \in Rooms : room'[q].state = "open" => room'[q].turn = 0
    BY <1>1, <1>2, <1>5, <1>7 DEF Rows
  <2>3. \A d \in table :
          /\ d.type = "turn_ready" => /\ room'[d.room].state # "open"
                                      /\ d.turn <= room'[d.room].turn
          /\ d.type # "turn_ready" => Ended(d.room)'
    BY <1>1, <1>7, <1>8, <2>1 DEF Rows
  <2> QED
    BY <1>1, <2>2, <2>3 DEF Rows
<1>10. Pendings'
  <2>1. \A q \in Rooms : tx[q] # Nil => room'[q] = room[q]
    BY <1>2, <1>5
  <2> QED
    BY <1>1, <2>1 DEF Pendings
<1>11. \A d \in table : Owed(d)' => Owed(d)
  <2> SUFFICES ASSUME NEW d \in table, Owed(d)' PROVE Owed(d)
    OBVIOUS
  <2>1. d.type = "turn_ready" /\ d.seq \in acked /\ MyTurn(d.room)' /\ room'[d.room].turn = d.turn
    BY DEF Owed, Current, KeyOf
  <2>2. d.turn <= room[d.room].turn
    BY <1>1, <2>1 DEF Rows
  <2>3. d.room # r
    BY <1>2, <1>3, <1>5, <1>8, <2>1, <2>2
  <2> QED
    BY <1>5, <1>8, <2>1, <2>3 DEF Owed, Current, KeyOf, MyTurn
<1>12. Resumable(disk.cursor)' => Resumable(disk.cursor)
  BY DEF Resumable
<1>13. UNCHANGED bridge /\ UNCHANGED acked /\ table' = table
  BY DEF bridge
<1>14. Hands' /\ Drains' /\ Saved' /\ Payload' /\ Durable'
  <2> HIDE DEF Reply
  <2> QED
    BY <1>6, <1>7, <1>11, <1>12, <1>13, ServerKeeps
<1> QED
  BY <1>6, <1>9, <1>10, <1>14 DEF IInv

-----------------------------------------------------------------------------
(* The stream and the drains *)

\* A step of the stream or the bridge leaves the rooms and deliveries alone.
LEMMA BridgeQuiet ==
    ASSUME IInv, UNCHANGED <<clock, server, acked>>
    PROVE  /\ Rows' /\ Pendings'
           /\ \A d : Owed(d)' <=> Owed(d)
           /\ \A c : Resumable(c)' <=> Resumable(c)
           /\ \A r : Ended(r)' <=> Ended(r)
<1> USE DEF server
<1>1. Rows /\ Pendings
  BY DEF IInv
<1>2. Rows'
  BY <1>1 DEF Rows, Ended
<1>3. Pendings'
  BY <1>1 DEF Pendings
<1>4. \A d : Owed(d)' <=> Owed(d)
  BY DEF Owed, Current, MyTurn
<1>5. \A c : Resumable(c)' <=> Resumable(c)
  BY DEF Resumable
<1> QED
  BY <1>2, <1>3, <1>4, <1>5 DEF Ended

\* A step that neither moves the serve loop nor takes a trace of a turn away leaves
\* what the loop holds and what is owed alone.
LEMMA LoopKeeps ==
    ASSUME IInv, UNCHANGED <<clock, server, acked, main>>,
           \A i \in DOMAIN wire' : wire'[i] \in table,
           disk'.cursor = disk.cursor,
           \A k \in Key : Safe(k) => Safe(k)'
    PROVE  Rows' /\ Pendings' /\ Hands' /\ Payload' /\ Durable'
<1>1. TypeOK /\ Hands /\ Payload /\ Durable /\ main' = main /\ table' = table /\ acked' = acked
      /\ room' = room
  BY DEF IInv, server
<1>2. /\ Rows' /\ Pendings'
      /\ \A d : Owed(d)' <=> Owed(d)
      /\ \A c : Resumable(c)' <=> Resumable(c)
      /\ \A r : Ended(r)' <=> Ended(r)
  BY BridgeQuiet
<1>3. \A d \in Row : KeyOf(d) \in Key
  BY DEF Row, Key, KeyOf
<1>4. table \subseteq Row
  BY <1>1, TypeParts
<1>5. \A d \in table : Safe(KeyOf(d)) => Safe(KeyOf(d))'
  <2> TAKE d \in table
  <2>1. KeyOf(d) \in Key
    BY <1>3, <1>4
  <2>2. PICK k \in Key : k = KeyOf(d)
    BY <2>1
  <2>3. Safe(k) => Safe(k)'
    OBVIOUS
  <2> QED
    BY <2>2, <2>3 DEF Safe, KeyOf
<1>6. Hands'
  <2>1. main.pc = "ack" /\ main.msg.type = "turn_ready" => Safe(KeyOf(main.msg))'
    BY <1>1, <1>5 DEF Hands
  <2> QED
    BY <1>1, <2>1 DEF Hands, KeyOf, Safe
<1>7. Payload'
  BY <1>1, <1>2 DEF Payload
<1>8. Durable'
  <2>1. main.pc \in Idle =>
          \A d \in table : Owed(d)' => Safe(KeyOf(d))' \/ ~Resumable(disk.cursor)'
    <3>1. Resumable(disk.cursor)' <=> Resumable(disk.cursor)
      <4>1. PICK c : c = disk.cursor
        OBVIOUS
      <4>2. Resumable(c)' <=> Resumable(c)
        BY <1>2
      <4> QED
        BY <4>1, <4>2 DEF Resumable
    <3> QED
      BY <1>1, <1>2, <1>5, <3>1 DEF Durable
  <2>2. main.pc \in Connected => \A d \in table : Owed(d)' => Safe(KeyOf(d))'
    BY <1>1, <1>2, <1>5 DEF Durable
  <2>3. main.pc \in Recovering \cup {"recover"} => ~Resumable(disk.cursor)'
    <3>1. PICK c : c = disk.cursor
      OBVIOUS
    <3>2. Resumable(c)' <=> Resumable(c)
      BY <1>2
    <3> QED
      BY <1>1, <3>1, <3>2 DEF Durable, Resumable
  <2>4. main.pc \in Recovering => \A d \in table : Owed(d)' =>
          \/ Safe(KeyOf(d))'
          \/ \E it \in main.left : ~it.over /\ KeyOf(it) = KeyOf(d)
          \/ main.pc = "requeue" /\ KeyOf(main.msg) = KeyOf(d)
    BY <1>1, <1>2, <1>5 DEF Durable
  <2>5. main.pc \in {"rdrain", "clear"} => main.left = {}
    BY <1>1 DEF Durable
  <2> QED
    BY <1>1, <2>1, <2>2, <2>3, <2>4, <2>5 DEF Durable, KeyOf
<1> QED
  BY <1>2, <1>6, <1>7, <1>8

\* writePendingAgentStreamBatch puts rows on the wire.
LEMMA WriteBatchStep == IInv /\ WriteBatch => IInv'
<1> SUFFICES ASSUME IInv, WriteBatch PROVE IInv'
  OBVIOUS
<1> DEFINE S == Batch(conn.last)
           s == InOrder(S)
<1>1. TypeOK /\ Rows /\ Hands /\ Drains /\ Saved
  BY DEF IInv
<1>2. /\ S # {} /\ wire' = wire \o s /\ conn' = [conn EXCEPT !.last = s[Len(s)].seq]
      /\ UNCHANGED <<clock, server, acked, main, drain, files, mem, woken, faults>>
  BY DEF WriteBatch
<1>3. S \subseteq table
  BY DEF Batch, Pending
<1>4. table \subseteq Row /\ IsFiniteSet(table) /\ Distinct(table)
  BY <1>1, TypeParts DEF Rows
<1>5. S \in SUBSET Row /\ IsFiniteSet(S) /\ Distinct(S)
  BY <1>3, <1>4, FS_Subset DEF Distinct
<1> HIDE DEF S
<1>6. s \in Seq(S) /\ Len(s) \in Nat \ {0} /\ s[Len(s)] \in S
  BY <1>2, <1>5, InOrderType
<1> HIDE DEF s
<1>7. s \in Seq(table) /\ s \in Seq(Row)
  BY <1>3, <1>4, <1>6, SeqMonotonic
<1>8. wire \in Seq(Row) /\ conn \in [on : BOOLEAN, last : Nat]
  BY <1>1, TypeParts
<1>9. wire \in Seq(table)
  <2>1. Keys(wire) \subseteq table
    BY <1>1 DEF Hands, Keys
  <2> QED
    BY <1>8, <2>1, KeysOf, SeqMonotonic
<1>10. wire' \in Seq(table) /\ wire' \in Seq(Row)
  BY <1>2, <1>7, <1>8, <1>9, ConcatProperties
<1>11. conn' \in [on : BOOLEAN, last : Nat]
  <2>1. s[Len(s)].seq \in Nat
    BY <1>5, <1>6 DEF Row
  <2> QED
    BY <1>2, <1>8, <2>1
<1>12. TypeOK'
  BY <1>1, <1>2, <1>10, <1>11, TypeParts, TypeNext DEF server, files
<1>13. \A i \in DOMAIN wire' : wire'[i] \in table
  BY <1>10, LenProperties, ElementOfSeq
<1>14. \A k \in Key : Safe(k) => Safe(k)'
  BY <1>2 DEF Safe, files
<1>15. Rows' /\ Pendings' /\ Hands' /\ Payload' /\ Durable'
  <2>1. disk'.cursor = disk.cursor
    BY <1>2 DEF files
  <2> QED
    BY <1>2, <1>13, <1>14, <2>1, LoopKeeps
<1>16. Drains'
  BY <1>1, <1>2 DEF Drains
<1>17. Saved'
  BY <1>1, <1>2 DEF Saved, files, Keys
<1> QED
  BY <1>12, <1>15, <1>16, <1>17 DEF IInv

\* A step of a drain that leaves the files and the state alone.
LEMMA DrainQuiet ==
    ASSUME IInv, NEW d \in Drainers, NEW e \in DrainRecord,
           drain' = [drain EXCEPT ![d] = e],
           UNCHANGED <<clock, server, acked, conn, wire, main, files, mem, faults>>,
           woken \subseteq woken', woken' \subseteq Key,
           e.pc \in {"wake", "done"} => e.job \in Job,
           e.pc = "done" => e.job.key \in woken'
    PROVE  IInv'
<1> USE DEF files
<1>1. TypeOK /\ Hands /\ Drains /\ Saved
  BY DEF IInv
<1>2. drain' \in [Drainers -> DrainRecord] /\ drain'[d] = e
      /\ \A c \in Drainers : c # d => drain'[c] = drain[c]
  BY <1>1, TypeParts, DrainMoves
<1>3. TypeOK'
  BY <1>1, <1>2, TypeParts, TypeNext DEF server
<1>4. Rows' /\ Pendings' /\ Hands' /\ Payload' /\ Durable'
  <2>1. \A k \in Key : Safe(k) => Safe(k)'
    BY DEF Safe
  <2>2. \A i \in DOMAIN wire' : wire'[i] \in table
    BY <1>1 DEF Hands
  <2>3. disk'.cursor = disk.cursor
    OBVIOUS
  <2> QED
    BY <2>1, <2>2, <2>3, LoopKeeps
<1>5. Drains'
  BY <1>1, <1>2 DEF Drains
<1>6. Saved'
  BY <1>1 DEF Saved, Keys
<1> QED
  BY <1>3, <1>4, <1>5, <1>6 DEF IInv

\* The timer starts a drain.
LEMMA TimerDrainStep == ASSUME IInv, NEW d \in Drainers, TimerDrain(d) PROVE IInv'
<1>1. [pc |-> "next", todo |-> queue, job |-> Nil] \in DrainRecord
  BY TypeParts DEF IInv, DrainRecord
<1>2. woken' = woken /\ woken \subseteq Key
  BY TypeParts DEF IInv, TimerDrain
<1> QED
  BY <1>1, <1>2, DrainQuiet DEF TimerDrain, StartDrain

\* A drain reads its next file.
LEMMA ReadJobStep == ASSUME IInv, NEW d \in Drainers, ReadJob(d) PROVE IInv'
<1>1. PICK j \in drain[d].todo :
         drain' = [drain EXCEPT ![d] =
             [pc |-> IF j \in queue THEN "wake" ELSE "next", todo |-> @.todo \ {j},
              job |-> IF j \in queue THEN j ELSE Nil]]
  BY DEF ReadJob
<1>2. drain \in [Drainers -> DrainRecord] /\ drain[d] \in DrainRecord
  BY TypeParts DEF IInv
<1> DEFINE e == [pc |-> IF j \in queue THEN "wake" ELSE "next", todo |-> drain[d].todo \ {j},
                 job |-> IF j \in queue THEN j ELSE Nil]
<1>3. e \in DrainRecord /\ (e.pc \in {"wake", "done"} => e.job \in Job) /\ e.pc # "done"
  BY <1>2 DEF DrainRecord
<1>4. drain' = [drain EXCEPT ![d] = e]
  BY <1>1, <1>2
<1> HIDE DEF e
<1>5. woken' = woken /\ woken \subseteq Key
  BY TypeParts DEF IInv, ReadJob
<1> QED
  BY <1>3, <1>4, <1>5, DrainQuiet DEF ReadJob

\* The agent is woken.
LEMMA WakeStep == ASSUME IInv, NEW d \in Drainers, Wake(d) PROVE IInv'
<1>1. drain \in [Drainers -> DrainRecord] /\ drain[d] \in DrainRecord /\ woken \subseteq Key
  BY TypeParts DEF IInv
<1>2. drain[d].job \in Job /\ drain[d].job.key \in Key
  BY DEF IInv, Drains, Wake, Job
<1> DEFINE e == [drain[d] EXCEPT !.pc = "done"]
<1>3. e \in DrainRecord /\ e.job = drain[d].job
  BY <1>1 DEF DrainRecord
<1>4. drain' = [drain EXCEPT ![d] = e]
  BY <1>1 DEF Wake
<1> HIDE DEF e
<1>5. woken' = woken \cup {drain[d].job.key}
  BY DEF Wake
<1> QED
  BY <1>1, <1>2, <1>3, <1>4, <1>5, DrainQuiet DEF Wake

\* A timer's drain ends.
LEMMA DrainDoneStep == ASSUME IInv, NEW d \in Drainers, DrainDone(d) PROVE IInv'
<1>1. NoDrain \in DrainRecord /\ NoDrain.pc = "none"
  BY DEF NoDrain, DrainRecord
<1>2. woken' = woken /\ woken \subseteq Key
  BY TypeParts DEF IInv, DrainDone
<1> QED
  BY <1>1, <1>2, DrainQuiet DEF DrainDone

\* A step in which a drain gives up its job, having changed files and state.
LEMMA DrainEnds ==
    ASSUME IInv, NEW d \in Drainers,
           drain' = [drain EXCEPT ![d].pc = "next", ![d].job = Nil],
           UNCHANGED <<clock, server, acked, conn, wire, main, woken>>,
           faults' \in Nat, queue' \subseteq Job,
           mem' \in StateRecord, Len(mem'.keys) <= MaxKeys, Keys(mem'.keys) \subseteq woken,
           mem'.cursor = mem.cursor, disk' \in {mem', disk},
           \A k \in Key : Safe(k) => Safe(k)'
    PROVE  IInv'
<1>1. TypeOK /\ Hands /\ Drains /\ Saved
  BY DEF IInv
<1> DEFINE e == [drain[d] EXCEPT !.pc = "next", !.job = Nil]
<1>2. drain \in [Drainers -> DrainRecord] /\ drain[d] \in DrainRecord
  BY <1>1, TypeParts
<1>3. e \in DrainRecord /\ e.pc = "next"
  BY <1>2 DEF DrainRecord
<1>4. drain' = [drain EXCEPT ![d] = e]
  BY <1>2
<1> HIDE DEF e
<1>5. drain' \in [Drainers -> DrainRecord] /\ drain'[d] = e
      /\ \A c \in Drainers : c # d => drain'[c] = drain[c]
  BY <1>2, <1>3, <1>4, DrainMoves
<1>6. TypeOK'
  BY <1>1, <1>5, TypeParts, TypeNext DEF server
<1>7. Rows' /\ Pendings' /\ Hands' /\ Payload' /\ Durable'
  <2>1. \A i \in DOMAIN wire' : wire'[i] \in table
    BY <1>1 DEF Hands
  <2>2. disk'.cursor = disk.cursor
    BY <1>1 DEF Saved
  <2> QED
    BY <2>1, <2>2, LoopKeeps
<1>8. Drains'
  BY <1>1, <1>3, <1>5 DEF Drains
<1>9. Saved'
  BY <1>1 DEF Saved, Keys
<1> QED
  BY <1>6, <1>7, <1>8, <1>9 DEF IInv

\* The job is done: its file goes and its key is remembered, saved or not.
LEMMA WokenStep == ASSUME IInv, NEW d \in Drainers, Woken(d) PROVE IInv'
<1>1. TypeOK /\ Drains /\ Saved
  BY DEF IInv
<1>2. /\ drain[d].job \in Job /\ drain[d].job.key \in woken /\ woken \subseteq Key
      /\ queue \subseteq Job /\ faults \in Nat /\ mem \in StateRecord
  BY <1>1, TypeParts DEF Drains, Woken
<1> DEFINE ks == Remember(mem.keys, drain[d].job.key)
<1>3. /\ ks \in Seq(Key) /\ Len(ks) <= MaxKeys
      /\ Keys(ks) \subseteq Keys(mem.keys) \cup {drain[d].job.key}
  <2>1. mem.keys \in Seq(Key) /\ drain[d].job.key \in Key
    BY <1>2 DEF StateRecord
  <2> QED
    BY <2>1, RememberType
<1>4. mem' = [mem EXCEPT !.keys = ks]
  BY DEF Woken
<1> HIDE DEF ks
<1>5. /\ mem' \in StateRecord /\ mem'.keys = ks /\ mem'.cursor = mem.cursor
  BY <1>2, <1>3, <1>4, StateMoves
<1>6. Keys(mem'.keys) \subseteq woken
  BY <1>1, <1>2, <1>3, <1>5 DEF Saved
<1>7. \A k \in Key : Safe(k) => Safe(k)'
  BY <1>2 DEF Safe, Woken
<1>8. disk' \in {mem', disk} /\ faults' \in Nat /\ queue' \subseteq Job
  BY <1>2 DEF Woken, Fault
<1> QED
  BY <1>3, <1>5, <1>6, <1>7, <1>8, DrainEnds DEF Woken

\* The wake failed: the file is written again.
LEMMA WakeFailedStep == ASSUME IInv, NEW d \in Drainers, WakeFailed(d) PROVE IInv'
<1>1. TypeOK /\ Drains /\ Saved
  BY DEF IInv
<1>2. drain[d].job \in Job /\ queue \subseteq Job /\ faults \in Nat
  BY <1>1, TypeParts DEF Drains, WakeFailed
<1>3. mem \in StateRecord /\ Len(mem.keys) <= MaxKeys /\ Keys(mem.keys) \subseteq woken
  BY <1>1, TypeParts DEF Saved
<1>4. mem' = mem /\ disk' = disk /\ faults' \in Nat /\ queue' = queue \cup {drain[d].job}
  BY <1>2 DEF WakeFailed, Fault
<1>5. \A k \in Key : Safe(k) => Safe(k)'
  BY <1>4 DEF Safe, WakeFailed
<1>6. queue' \subseteq Job
  BY <1>2, <1>4
<1> QED
  BY <1>3, <1>4, <1>5, <1>6, DrainEnds DEF WakeFailed

-----------------------------------------------------------------------------
(* The serve loop *)

\* A step within a connection that takes no trace of an owed turn away.
LEMMA StaysConnected ==
    ASSUME IInv, UNCHANGED <<clock, server, acked>>,
           main.pc \in Connected, main'.pc \in Connected,
           \A d \in table : Owed(d) /\ Safe(KeyOf(d)) => Safe(KeyOf(d))'
    PROVE  Rows' /\ Pendings' /\ Payload' /\ Durable'
<1>1. Durable /\ table' = table
  BY DEF IInv, server
<1>2. Rows' /\ Pendings' /\ \A d : Owed(d)' <=> Owed(d)
  BY BridgeQuiet
<1>3. \A d \in table : Owed(d)' => Safe(KeyOf(d))'
  BY <1>1, <1>2 DEF Durable
<1>4. /\ main'.pc \notin Idle /\ main'.pc \notin Recovering \cup {"recover"}
      /\ main'.pc \notin {"rdrain", "clear"}
  BY DEF Connected, Idle, Recovering
<1>5. Payload'
  BY <1>4 DEF Payload
<1>6. Durable'
  BY <1>1, <1>3, <1>4 DEF Durable, KeyOf
<1> QED
  BY <1>2, <1>5, <1>6

\* Whatever the serve loop was at, it may give up: what the connection owed is safe,
\* and a recovery under way is still forced by the cursor.
LEMMA GivesUp ==
    ASSUME IInv, UNCHANGED <<clock, server, acked, queue, woken>>,
           disk'.cursor = disk.cursor, main'.pc \in {"down", "start", "wait"}
    PROVE  Rows' /\ Pendings' /\ Payload' /\ Durable'
<1>1. Durable /\ table' = table /\ main.pc \in Place
  BY TypeParts DEF IInv, server, MainType
<1>2. /\ Rows' /\ Pendings' /\ (\A d : Owed(d)' <=> Owed(d))
      /\ \A c : Resumable(c)' <=> Resumable(c)
  BY BridgeQuiet
<1>3. \A k : Safe(k)' <=> Safe(k)
  BY DEF Safe
<1>4. ~Resumable(disk.cursor) => ~Resumable(disk.cursor)'
  <2>1. PICK c : c = disk.cursor
    OBVIOUS
  <2>2. Resumable(c)' <=> Resumable(c)
    BY <1>2
  <2> QED
    BY <2>1, <2>2 DEF Resumable
<1>5. main.pc \in Idle \/ main.pc \in Connected \/ main.pc \in Recovering
  BY <1>1 DEF Place, Idle, Connected, Recovering
<1>6. \A d \in table : Owed(d)' => Safe(KeyOf(d))' \/ ~Resumable(disk.cursor)'
  <2>1. CASE main.pc \in Idle
    BY <1>1, <1>2, <1>3, <1>4, <2>1 DEF Durable
  <2>2. CASE main.pc \in Connected
    BY <1>1, <1>2, <1>3, <2>2 DEF Durable
  <2>3. CASE main.pc \in Recovering
    BY <1>1, <1>4, <2>3 DEF Durable
  <2> QED
    BY <1>5, <2>1, <2>2, <2>3
<1>7. main'.pc \notin Connected /\ main'.pc \notin Recovering \cup {"recover"}
      /\ main'.pc \notin {"rdrain", "clear"}
  BY DEF Connected, Recovering
<1>8. Payload'
  BY <1>7 DEF Payload
<1>9. Durable'
  BY <1>1, <1>6, <1>7 DEF Durable, KeyOf
<1> QED
  BY <1>2, <1>8, <1>9

\* The stream's end.
LEMMA DisconnectedType ==
    ASSUME Disconnected
    PROVE  /\ main' \in MainType /\ main'.pc = "wait" /\ conn' \in [on : BOOLEAN, last : Nat]
           /\ wire' = <<>> /\ wire' \in Seq(Row) /\ DOMAIN wire' = {}
<1>1. "wait" \in Place
  BY DEF Place
<1>2. main' = Loop("wait") /\ wire' = <<>> /\ conn' = [on |-> FALSE, last |-> 0]
  BY DEF Disconnected
<1>3. main' \in MainType /\ main'.pc = "wait"
  BY <1>1, <1>2, LoopMain
<1>4. wire' \in Seq(Row) /\ DOMAIN wire' = {}
  BY <1>2
<1> QED
  BY <1>2, <1>3, <1>4

\* fromDisk and the first drain.
LEMMA StartStep == IInv /\ Start => IInv'
<1> SUFFICES ASSUME IInv, Start PROVE IInv'
  OBVIOUS
<1>1. TypeOK /\ Hands /\ Drains /\ Saved
  BY DEF IInv
<1>2. /\ mem' = disk /\ Goto("start") /\ StartDrain("main")
      /\ UNCHANGED <<clock, server, acked, conn, wire, files, woken, faults>>
  BY DEF Start
<1>3. /\ main' \in MainType /\ main'.pc = "start"
  BY <1>1, <1>2, TypeParts, GotoMain DEF Place
<1>4. /\ drain' \in [Drainers -> DrainRecord]
      /\ drain'["main"] = [pc |-> "next", todo |-> queue, job |-> Nil]
      /\ \A c \in Drainers : c # "main" => drain'[c] = drain[c]
  BY <1>1, <1>2, TypeParts, DrainStarts, Numbers
<1>5. TypeOK'
  BY <1>1, <1>2, <1>3, <1>4, TypeParts, TypeNext DEF server, files
<1>6. Rows' /\ Pendings' /\ Payload' /\ Durable'
  BY <1>2, <1>3, GivesUp DEF files
<1>7. Hands'
  BY <1>1, <1>2, <1>3 DEF Hands, server
<1>8. Drains'
  BY <1>1, <1>2, <1>4 DEF Drains
<1>9. Saved'
  BY <1>1, <1>2 DEF Saved, Keys, files
<1> QED
  BY <1>5, <1>6, <1>7, <1>8, <1>9 DEF IInv

\* The process ends.
LEMMA CrashStep == IInv /\ Crash => IInv'
<1> SUFFICES ASSUME IInv, Crash PROVE IInv'
  OBVIOUS
<1>1. TypeOK /\ Hands /\ Drains /\ Saved
  BY DEF IInv
<1>2. /\ main' = Loop("down") /\ conn' = [on |-> FALSE, last |-> 0] /\ wire' = <<>>
      /\ drain' = [d \in Drainers |-> NoDrain] /\ mem' = disk /\ faults' = faults + 1
      /\ UNCHANGED <<clock, server, acked, files, woken>>
  BY DEF Crash, Fault
<1>3. main' \in MainType /\ main'.pc = "down"
  BY <1>2, LoopMain DEF Place
<1>4. drain' \in [Drainers -> DrainRecord] /\ \A d \in Drainers : drain'[d].pc = "none"
  BY <1>2 DEF NoDrain, DrainRecord
<1>5. wire' \in Seq(Row) /\ DOMAIN wire' = {} /\ conn' \in [on : BOOLEAN, last : Nat]
      /\ faults' \in Nat
  BY <1>1, <1>2, TypeParts
<1>6. TypeOK'
  BY <1>1, <1>2, <1>3, <1>4, <1>5, TypeParts, TypeNext DEF server, files
<1>7. Rows' /\ Pendings' /\ Payload' /\ Durable'
  BY <1>2, <1>3, GivesUp DEF files
<1>8. Hands'
  BY <1>3, <1>5 DEF Hands
<1>9. Drains'
  BY <1>4 DEF Drains
<1>10. Saved'
  BY <1>1, <1>2 DEF Saved, Keys, files
<1> QED
  BY <1>6, <1>7, <1>8, <1>9, <1>10 DEF IInv

\* The stream is given up, whether it broke or the room had ended.
LEMMA DisconnectStep ==
    ASSUME IInv, Disconnected, faults' \in Nat,
           UNCHANGED <<clock, server, acked, drain, files, mem, woken>>
    PROVE  IInv'
<1>1. TypeOK /\ Hands /\ Drains /\ Saved
  BY DEF IInv
<1>2. /\ main' \in MainType /\ main'.pc = "wait" /\ conn' \in [on : BOOLEAN, last : Nat]
      /\ wire' \in Seq(Row) /\ DOMAIN wire' = {}
  BY DisconnectedType
<1>3. TypeOK'
  BY <1>1, <1>2, TypeParts, TypeNext DEF server, files
<1>4. Rows' /\ Pendings' /\ Payload' /\ Durable'
  BY <1>2, GivesUp DEF files
<1>5. Hands'
  BY <1>2 DEF Hands
<1>6. Drains'
  BY <1>1 DEF Drains
<1>7. Saved'
  BY <1>1 DEF Saved, Keys, files
<1> QED
  BY <1>3, <1>4, <1>5, <1>6, <1>7 DEF IInv

\* The stream breaks.
LEMMA BreakStep == IInv /\ Break => IInv'
<1> SUFFICES ASSUME IInv, Break PROVE IInv'
  OBVIOUS
<1>1. faults \in Nat /\ faults' = faults + 1
  BY TypeParts DEF IInv, Break, Fault
<1> QED
  BY <1>1, DisconnectStep DEF Break

\* A drain awaited by the loop ends.
LEMMA MainDrainedStep == IInv /\ MainDrained => IInv'
<1> SUFFICES ASSUME IInv, MainDrained PROVE IInv'
  OBVIOUS
<1>1. TypeOK /\ Hands /\ Drains /\ Saved /\ Payload /\ Durable
  BY DEF IInv
<1>2. /\ main.pc \in {"start", "drain", "rdrain"}
      /\ drain' = [drain EXCEPT !["main"] = NoDrain]
      /\ UNCHANGED <<clock, server, acked, conn, wire, files, mem, woken, faults>>
  BY DEF MainDrained
<1> DEFINE p == IF At("start") THEN "wait" ELSE IF At("drain") THEN "read" ELSE "clear"
<1>3. p \in Place /\ Goto(p)
  BY DEF MainDrained, Goto, Place
<1>4. /\ main.pc = "start" => p = "wait"
      /\ main.pc = "drain" => p = "read"
      /\ main.pc = "rdrain" => p = "clear"
  BY DEF At
<1> HIDE DEF p
<1>5. /\ main' \in MainType /\ main'.pc = p /\ main'.msg = main.msg /\ main'.left = main.left
  BY <1>1, <1>3, TypeParts, GotoMain
<1>6. /\ drain' \in [Drainers -> DrainRecord] /\ drain'["main"] = NoDrain
      /\ \A c \in Drainers : c # "main" => drain'[c] = drain[c]
  <2>1. NoDrain \in DrainRecord
    BY DEF NoDrain, DrainRecord
  <2> QED
    BY <1>1, <1>2, <2>1, TypeParts, DrainMoves, Numbers
<1>7. TypeOK'
  BY <1>1, <1>2, <1>5, <1>6, TypeParts, TypeNext DEF server, files
<1>8. Rows' /\ Pendings' /\ Payload' /\ Durable'
  <2>1. CASE main.pc = "start"
    BY <1>2, <1>4, <1>5, <2>1, GivesUp DEF files
  <2>2. CASE main.pc = "drain"
    <3>1. main.pc \in Connected /\ main'.pc \in Connected
      BY <1>4, <1>5, <2>2 DEF Connected
    <3>2. \A d \in table : Safe(KeyOf(d)) => Safe(KeyOf(d))'
      BY <1>2 DEF Safe, files, KeyOf
    <3> QED
      BY <1>2, <3>1, <3>2, StaysConnected
  <2>3. CASE main.pc = "rdrain"
    <3>1. main.pc \in Recovering /\ main'.pc = "clear" /\ main.left = {} /\ main'.left = {}
      BY <1>1, <1>4, <1>5, <2>3 DEF Recovering, Durable
    <3>2. /\ Rows' /\ Pendings' /\ (\A d : Owed(d)' <=> Owed(d))
          /\ \A c : Resumable(c)' <=> Resumable(c)
      BY <1>2, BridgeQuiet
    <3>3. table' = table /\ queue' = queue /\ woken' = woken /\ disk' = disk
      BY <1>2 DEF server, files
    <3>4. \A d \in table : Owed(d)' => Safe(KeyOf(d))'
      BY <1>1, <2>3, <3>1, <3>2, <3>3 DEF Durable, Safe, KeyOf
    <3>5. ~Resumable(disk.cursor)'
      BY <1>1, <3>1, <3>3, <1>2 DEF Durable, Resumable, server
    <3>6. Payload'
      BY <3>1 DEF Payload
    <3>7. main'.pc \notin Idle /\ main'.pc \notin Connected
      BY <3>1 DEF Idle, Connected
    <3>8. Durable'
      BY <3>1, <3>3, <3>4, <3>5, <3>7 DEF Durable, KeyOf
    <3> QED
      BY <3>2, <3>6, <3>8
  <2> QED
    BY <1>2, <2>1, <2>2, <2>3
<1>9. Hands'
  BY <1>1, <1>2, <1>4, <1>5 DEF Hands, server
<1>10. Drains'
  BY <1>1, <1>2, <1>6 DEF Drains, NoDrain
<1>11. Saved'
  BY <1>1, <1>2 DEF Saved, Keys, files
<1> QED
  BY <1>7, <1>8, <1>9, <1>10, <1>11 DEF IInv

\* ResolveAgentStreamResume: the stream opens only where nothing owed is lost.
LEMMA OpenStreamStep == IInv /\ OpenStream => IInv'
<1> SUFFICES ASSUME IInv, OpenStream PROVE IInv'
  OBVIOUS
<1>1. TypeOK /\ Hands /\ Drains /\ Saved /\ Durable
  BY DEF IInv
<1>2. /\ main.pc = "wait"
      /\ UNCHANGED <<clock, server, acked, wire, drain, files, mem, woken, faults>>
  BY DEF OpenStream, At
<1>3. /\ main' \in MainType /\ main'.pc \in {"read", "recover"}
      /\ conn' \in [on : BOOLEAN, last : Nat]
      /\ main'.pc = "read" => Resumable(mem.cursor)
      /\ main'.pc = "recover" => ~Resumable(mem.cursor)
  <2>1. mem.cursor \in Nat /\ main \in MainType /\ conn \in [on : BOOLEAN, last : Nat]
    BY <1>1, TypeParts DEF StateRecord
  <2>2. CASE Resumable(mem.cursor)
    <3>1. conn' = [on |-> TRUE, last |-> mem.cursor] /\ Goto("read") /\ "read" \in Place
      BY <2>2 DEF OpenStream, Place
    <3>2. main' \in MainType /\ main'.pc = "read"
      BY <2>1, <3>1, GotoMain
    <3> QED
      BY <2>1, <2>2, <3>1, <3>2
  <2>3. CASE ~Resumable(mem.cursor)
    <3>1. conn' = conn /\ Goto("recover") /\ "recover" \in Place
      BY <2>3 DEF OpenStream, Place
    <3>2. main' \in MainType /\ main'.pc = "recover"
      BY <2>1, <3>1, GotoMain
    <3> QED
      BY <2>1, <2>3, <3>1, <3>2
  <2> QED
    BY <2>2, <2>3
<1>4. TypeOK'
  BY <1>1, <1>2, <1>3, TypeParts, TypeNext DEF server, files
<1>5. /\ Rows' /\ Pendings' /\ (\A d : Owed(d)' <=> Owed(d))
      /\ \A c : Resumable(c)' <=> Resumable(c)
  BY <1>2, BridgeQuiet
<1>6. /\ table' = table /\ queue' = queue /\ woken' = woken /\ disk' = disk
      /\ mem.cursor = disk.cursor
  BY <1>1, <1>2 DEF server, files, Saved
<1>7. Resumable(disk.cursor)' <=> Resumable(mem.cursor)
  BY <1>2, <1>6 DEF Resumable, server
<1>8. Payload'
  BY <1>3 DEF Payload, Recovering
<1>9. Durable'
  <2>1. \A d \in table : Owed(d)' => Safe(KeyOf(d))' \/ ~Resumable(disk.cursor)'
    BY <1>1, <1>2, <1>5, <1>6, <1>7 DEF Durable, Idle, Safe, KeyOf
  <2>2. CASE main'.pc = "read"
    BY <1>3, <1>6, <1>7, <2>1, <2>2 DEF Durable, Idle, Connected, Recovering, KeyOf
  <2>3. CASE main'.pc = "recover"
    BY <1>3, <1>6, <1>7, <2>1, <2>3 DEF Durable, Idle, Connected, Recovering, KeyOf
  <2> QED
    BY <1>3, <2>2, <2>3
<1>10. Hands'
  BY <1>1, <1>2, <1>3 DEF Hands, server
<1>11. Drains'
  BY <1>1, <1>2 DEF Drains
<1>12. Saved'
  BY <1>1, <1>2 DEF Saved, Keys, files
<1> QED
  BY <1>4, <1>5, <1>8, <1>9, <1>10, <1>11, <1>12 DEF IInv

\* The next event: a completed turn, which has been woken for, goes to its ack.
LEMMA ReadEventStep == IInv /\ ReadEvent => IInv'
<1> SUFFICES ASSUME IInv, ReadEvent PROVE IInv'
  OBVIOUS
<1>1. TypeOK /\ Hands /\ Drains /\ Saved
  BY DEF IInv
<1>m. PICK m : m = Head(wire)
  OBVIOUS
<1> DEFINE p == IF m.type # "turn_ready" THEN "terminal"
                ELSE IF KeyOf(m) \in Keys(mem.keys) THEN "ack" ELSE "token"
<1>2. /\ main.pc = "read" /\ wire # <<>> /\ wire' = Tail(wire)
      /\ main' = [main EXCEPT !.msg = m, !.then = "read", !.pc = p]
      /\ UNCHANGED <<clock, server, acked, conn, drain, files, mem, woken, faults>>
  BY <1>m DEF ReadEvent, At
<1>3. wire \in Seq(table)
  <2>1. Keys(wire) \subseteq table /\ wire \in Seq(Row)
    BY <1>1, TypeParts DEF Hands, Keys
  <2> QED
    BY <2>1, KeysOf, SeqMonotonic
<1>4. m \in table /\ Tail(wire) \in Seq(table)
  BY <1>2, <1>3, <1>m, HeadTailProperties
<1>5. m \in Row /\ Tail(wire) \in Seq(Row) /\ main \in MainType
  BY <1>1, <1>4, TypeParts, SeqMonotonic
<1>6. p \in {"terminal", "ack", "token"} /\ p \in Place
      /\ (p = "terminal" => m.type # "turn_ready")
      /\ (p # "terminal" => m.type = "turn_ready")
      /\ (p = "ack" => KeyOf(m) \in Keys(mem.keys))
  BY DEF Place
<1> HIDE DEF p
<1>7. main' \in MainType /\ main'.pc = p /\ main'.msg = m
  BY <1>2, <1>5, <1>6 DEF MainType
<1>8. TypeOK'
  BY <1>1, <1>2, <1>5, <1>7, TypeParts, TypeNext DEF server, files
<1>9. Rows' /\ Pendings' /\ Payload' /\ Durable'
  <2>1. main.pc \in Connected /\ main'.pc \in Connected
    BY <1>2, <1>6, <1>7 DEF Connected
  <2>2. \A d \in table : Safe(KeyOf(d)) => Safe(KeyOf(d))'
    BY <1>2 DEF Safe, files, KeyOf
  <2> QED
    BY <1>2, <2>1, <2>2, StaysConnected
<1>10. Hands'
  <2>1. \A i \in DOMAIN wire' : wire'[i] \in table
    BY <1>2, <1>4, LenProperties, ElementOfSeq
  <2>2. p = "ack" => Safe(KeyOf(m))'
    BY <1>1, <1>2, <1>6 DEF Saved, Safe
  <2>3. table' = table
    BY <1>2 DEF server
  <2> QED
    BY <1>4, <1>6, <1>7, <2>1, <2>2, <2>3 DEF Hands, KeyOf, Safe
<1>11. Drains'
  BY <1>1, <1>2 DEF Drains
<1>12. Saved'
  BY <1>1, <1>2 DEF Saved, Keys, files
<1> QED
  BY <1>8, <1>9, <1>10, <1>11, <1>12 DEF IInv

\* refreshRoomToken.
LEMMA RefreshRoomTokenStep == IInv /\ RefreshRoomToken => IInv'
<1> SUFFICES ASSUME IInv, RefreshRoomToken PROVE IInv'
  OBVIOUS
<1>1. TypeOK /\ Hands /\ Drains /\ Saved
  BY DEF IInv
<1>2. /\ main.pc = "token"
      /\ UNCHANGED <<clock, server, acked, drain, files, mem, woken, faults>>
  BY DEF RefreshRoomToken, At
<1>3. CASE Goto("enqueue") /\ UNCHANGED <<conn, wire>>
  <2>1. main' \in MainType /\ main'.pc = "enqueue" /\ main'.msg = main.msg
    BY <1>1, <1>3, TypeParts, GotoMain DEF Place
  <2>2. TypeOK'
    BY <1>1, <1>2, <1>3, <2>1, TypeParts, TypeNext DEF server, files
  <2>3. Rows' /\ Pendings' /\ Payload' /\ Durable'
    <3>1. main.pc \in Connected /\ main'.pc \in Connected
      BY <1>2, <2>1 DEF Connected
    <3>2. \A d \in table : Safe(KeyOf(d)) => Safe(KeyOf(d))'
      BY <1>2 DEF Safe, files, KeyOf
    <3> QED
      BY <1>2, <3>1, <3>2, StaysConnected
  <2>4. Hands'
    BY <1>1, <1>2, <1>3, <2>1 DEF Hands, server
  <2>5. Drains'
    BY <1>1, <1>2 DEF Drains
  <2>6. Saved'
    BY <1>1, <1>2 DEF Saved, Keys, files
  <2> QED
    BY <2>2, <2>3, <2>4, <2>5, <2>6 DEF IInv
<1>4. CASE Disconnected
  <2>1. faults' \in Nat
    BY <1>1, <1>2, TypeParts
  <2> QED
    BY <1>2, <1>4, <2>1, DisconnectStep
<1> QED
  BY <1>3, <1>4 DEF RefreshRoomToken

\* enqueueWakeJob leaves the turn safe and takes nothing away.
LEMMA EnqueuedSafe ==
    ASSUME IInv, NEW id \in Nat, NEW k \in Key, queue' = Enqueued(id, k), UNCHANGED woken
    PROVE  queue' \subseteq Job /\ queue \subseteq queue' /\ Safe(k)'
<1>1. queue \subseteq Job /\ [id |-> id, key |-> k] \in Job /\ Keys(mem.keys) \subseteq woken
  BY TypeParts DEF IInv, Saved, Job
<1> QED
  BY <1>1 DEF Enqueued, Safe

\* The job is written before the ack.
LEMMA EnqueueWakeJobStep == IInv /\ EnqueueWakeJob => IInv'
<1> SUFFICES ASSUME IInv, EnqueueWakeJob PROVE IInv'
  OBVIOUS
<1>1. TypeOK /\ Hands /\ Drains /\ Saved
  BY DEF IInv
<1>2. /\ main.pc = "enqueue" /\ queue' = Enqueued(main.msg.seq, KeyOf(main.msg))
      /\ main' = [main EXCEPT !.pc = "ack", !.then = "drain"]
      /\ UNCHANGED <<clock, server, acked, conn, wire, drain, mem, disk, woken, faults>>
  BY DEF EnqueueWakeJob, At
<1>3. main.msg \in table /\ main.msg \in Row /\ main \in MainType
  BY <1>1, <1>2, TypeParts DEF Hands
<1>4. main.msg.seq \in Nat /\ KeyOf(main.msg) \in Key
  BY <1>3 DEF Row, KeyOf, Key
<1>5. queue' \subseteq Job /\ queue \subseteq queue' /\ Safe(KeyOf(main.msg))'
  <2>1. PICK id \in Nat, k \in Key : id = main.msg.seq /\ k = KeyOf(main.msg)
    BY <1>4
  <2>2. queue' \subseteq Job /\ queue \subseteq queue' /\ Safe(k)'
    BY <1>2, <2>1, EnqueuedSafe
  <2>3. main'.msg = main.msg
    BY <1>2, <1>3 DEF MainType
  <2> QED
    BY <2>1, <2>2, <2>3 DEF Safe, KeyOf
<1>6. main' \in MainType /\ main'.pc = "ack" /\ main'.msg = main.msg
  BY <1>2, <1>3 DEF MainType, Place
<1>7. TypeOK'
  BY <1>1, <1>2, <1>5, <1>6, TypeParts, TypeNext DEF server
<1>8. Rows' /\ Pendings' /\ Payload' /\ Durable'
  <2>1. main.pc \in Connected /\ main'.pc \in Connected
    BY <1>2, <1>6 DEF Connected
  <2>2. \A d \in table : Safe(KeyOf(d)) => Safe(KeyOf(d))'
    BY <1>2, <1>5 DEF Safe, KeyOf
  <2> QED
    BY <1>2, <2>1, <2>2, StaysConnected
<1>9. Hands'
  BY <1>1, <1>2, <1>3, <1>5, <1>6 DEF Hands, server, KeyOf, Safe
<1>10. Drains'
  BY <1>1, <1>2 DEF Drains
<1>11. Saved'
  BY <1>1, <1>2 DEF Saved, Keys
<1> QED
  BY <1>7, <1>8, <1>9, <1>10, <1>11 DEF IInv

\* handleTerminal drops only the jobs of a room that has ended.
LEMMA HandleTerminalStep == IInv /\ HandleTerminal => IInv'
<1> SUFFICES ASSUME IInv, HandleTerminal PROVE IInv'
  OBVIOUS
<1>1. TypeOK /\ Rows /\ Hands /\ Drains /\ Saved
  BY DEF IInv
<1> DEFINE ks == Forget(mem.keys, main.msg.room)
<1>2. /\ main.pc = "terminal" /\ queue' = Dropped(main.msg.room)
      /\ mem' = [mem EXCEPT !.keys = ks] /\ disk' = mem' /\ Goto("ack")
      /\ UNCHANGED <<clock, server, acked, conn, wire, drain, woken, faults>>
  BY DEF HandleTerminal, At
<1>3. main.msg \in table /\ main.msg.type # "turn_ready" /\ Ended(main.msg.room)
  BY <1>1, <1>2 DEF Hands, Rows
<1>4. mem \in StateRecord /\ mem.keys \in Seq(Key) /\ Len(mem.keys) <= MaxKeys /\ queue \subseteq Job
  BY <1>1, TypeParts DEF StateRecord
<1>5. ks \in Seq(Key) /\ Len(ks) <= MaxKeys /\ Keys(ks) \subseteq Keys(mem.keys)
  BY <1>4, ForgetType
<1> HIDE DEF ks
<1>6. mem' \in StateRecord /\ mem'.keys = ks /\ mem'.cursor = mem.cursor
  BY <1>2, <1>4, <1>5, StateMoves
<1>7. main' \in MainType /\ main'.pc = "ack" /\ main'.msg = main.msg
  BY <1>1, <1>2, TypeParts, GotoMain DEF Place
<1>8. TypeOK'
  <2>1. queue' \subseteq Job
    BY <1>2, <1>4 DEF Dropped
  <2> QED
    BY <1>1, <1>2, <1>5, <1>6, <1>7, <2>1, TypeParts, TypeNext DEF server
<1>9. Rows' /\ Pendings' /\ Payload' /\ Durable'
  <2>1. main.pc \in Connected /\ main'.pc \in Connected
    BY <1>2, <1>7 DEF Connected
  <2>2. ASSUME NEW d \in table, Owed(d), Safe(KeyOf(d)) PROVE Safe(KeyOf(d))'
    <3>1. d.room # main.msg.room
      BY <1>3, <2>2 DEF Owed, Current, MyTurn, Ended, KeyOf
    <3>2. KeyOf(d).room = d.room
      BY DEF KeyOf
    <3> QED
      BY <1>2, <2>2, <3>1, <3>2 DEF Safe, Dropped, KeyOf
  <2> QED
    BY <1>2, <2>1, <2>2, StaysConnected
<1>10. Hands'
  BY <1>1, <1>2, <1>3, <1>7 DEF Hands, server
<1>11. Drains'
  BY <1>1, <1>2 DEF Drains
<1>12. Saved'
  BY <1>1, <1>2, <1>5, <1>6 DEF Saved
<1> QED
  BY <1>8, <1>9, <1>10, <1>11, <1>12 DEF IInv

\* AckAgentStreamDelivery: what is acknowledged now is safe.
LEMMA AckDeliveryStep == IInv /\ AckDelivery => IInv'
<1> SUFFICES ASSUME IInv, AckDelivery PROVE IInv'
  OBVIOUS
<1>1. TypeOK /\ Rows /\ Pendings /\ Hands /\ Drains /\ Saved /\ Durable
  BY DEF IInv
<1>2. /\ main.pc = "ack" /\ acked' = acked \cup {main.msg.seq} /\ Goto("acked")
      /\ UNCHANGED <<clock, server, conn, wire, drain, files, mem, woken, faults>>
  BY DEF AckDelivery, At
<1>3. main.msg \in table /\ main.msg.seq \in 1..seq /\ Distinct(table)
  BY <1>1, <1>2 DEF Hands, Rows
<1>4. main' \in MainType /\ main'.pc = "acked" /\ main'.msg = main.msg
  BY <1>1, <1>2, TypeParts, GotoMain DEF Place
<1>5. TypeOK'
  <2>1. acked' \subseteq 1..seq
    BY <1>1, <1>2, <1>3, TypeParts
  <2> QED
    BY <1>1, <1>2, <1>4, <2>1, TypeParts, TypeNext DEF server, files
<1>6. Rows'
  BY <1>1, <1>2, <1>3 DEF Rows, server, Ended
<1>7. Pendings'
  BY <1>1, <1>2 DEF Pendings, server
<1>8. \A d \in table : Owed(d)' => Safe(KeyOf(d))'
  <2> SUFFICES ASSUME NEW d \in table, Owed(d)' PROVE Safe(KeyOf(d))'
    OBVIOUS
  <2>1. d.type = "turn_ready" /\ Current(KeyOf(d)) /\ d.seq \in acked'
    BY <1>2 DEF Owed, Current, MyTurn, server, KeyOf
  <2>2. CASE d.seq \in acked
    <3>1. Safe(KeyOf(d))
      BY <1>1, <1>2, <2>1, <2>2 DEF Durable, Connected, Owed
    <3> QED
      BY <1>2, <3>1 DEF Safe, files, KeyOf
  <2>3. CASE d.seq = main.msg.seq
    <3>1. d = main.msg
      BY <1>3, <2>3 DEF Distinct
    <3>2. Safe(KeyOf(d))
      BY <1>1, <1>2, <2>1, <3>1 DEF Hands
    <3> QED
      BY <1>2, <3>2 DEF Safe, files, KeyOf
  <2> QED
    BY <1>2, <2>1, <2>2, <2>3
<1>9. Payload'
  BY <1>4 DEF Payload, Recovering
<1>10. Durable'
  <2>1. table' = table
    BY <1>2 DEF server
  <2> QED
    BY <1>4, <1>8, <2>1 DEF Durable, Idle, Connected, Recovering, KeyOf
<1>11. Hands'
  BY <1>1, <1>2, <1>3, <1>4 DEF Hands, server
<1>12. Drains'
  BY <1>1, <1>2 DEF Drains
<1>13. Saved'
  BY <1>1, <1>2 DEF Saved, Keys, files
<1> QED
  BY <1>5, <1>6, <1>7, <1>9, <1>10, <1>11, <1>12, <1>13 DEF IInv

\* The cursor moves to the delivery acknowledged.
LEMMA SaveCursorStep == IInv /\ SaveCursor => IInv'
<1> SUFFICES ASSUME IInv, SaveCursor PROVE IInv'
  OBVIOUS
<1>1. TypeOK /\ Hands /\ Drains /\ Saved
  BY DEF IInv
<1>2. /\ main.pc = "acked" /\ mem' = [mem EXCEPT !.cursor = main.msg.seq] /\ disk' = mem'
      /\ Goto(main.then) /\ (StartDrain("main") \/ UNCHANGED drain)
      /\ UNCHANGED <<clock, server, acked, conn, wire, queue, woken, faults>>
  BY DEF SaveCursor, At
<1>3. main.msg \in table /\ main.msg.seq \in acked /\ main.msg.seq \in Nat
      /\ main.then \in {"read", "drain"} /\ main \in MainType /\ mem \in StateRecord
      /\ Len(mem.keys) <= MaxKeys
  <2>1. main.msg \in table /\ main.msg.seq \in acked
    BY <1>1, <1>2 DEF Hands
  <2> QED
    BY <1>1, <2>1, TypeParts DEF MainType, Row
<1>4. main' \in MainType /\ main'.pc = main.then
  <2>1. main.then \in Place
    BY <1>3 DEF Place
  <2> QED
    BY <1>2, <1>3, <2>1, GotoMain
<1>5. mem' \in StateRecord /\ mem'.keys = mem.keys /\ mem'.cursor = main.msg.seq
  BY <1>2, <1>3 DEF StateRecord
<1>6. drain' \in [Drainers -> DrainRecord]
      /\ \A c \in Drainers : drain'[c] = drain[c] \/ drain'[c].pc = "next"
  <2>1. CASE UNCHANGED drain
    BY <1>1, <2>1, TypeParts
  <2>2. CASE StartDrain("main")
    <3>1. /\ drain' \in [Drainers -> DrainRecord]
          /\ drain'["main"] = [pc |-> "next", todo |-> queue, job |-> Nil]
          /\ \A c \in Drainers : c # "main" => drain'[c] = drain[c]
      BY <1>1, <2>2, TypeParts, DrainStarts, Numbers
    <3> QED
      BY <3>1
  <2> QED
    BY <1>2, <2>1, <2>2
<1>7. TypeOK'
  BY <1>1, <1>2, <1>3, <1>4, <1>5, <1>6, TypeParts, TypeNext DEF server
<1>8. Rows' /\ Pendings' /\ Payload' /\ Durable'
  <2>1. main.pc \in Connected /\ main'.pc \in Connected
    BY <1>2, <1>3, <1>4 DEF Connected
  <2>2. \A d \in table : Safe(KeyOf(d)) => Safe(KeyOf(d))'
    BY <1>2 DEF Safe, KeyOf
  <2> QED
    BY <1>2, <2>1, <2>2, StaysConnected
<1>9. Hands'
  BY <1>1, <1>2, <1>3, <1>4 DEF Hands, server
<1>10. Drains'
  BY <1>1, <1>2, <1>6 DEF Drains
<1>11. Saved'
  BY <1>1, <1>2, <1>3, <1>5 DEF Saved
<1> QED
  BY <1>7, <1>8, <1>9, <1>10, <1>11 DEF IInv

-----------------------------------------------------------------------------
(* Recovery *)

\* GET /v1/agent/actionable-rooms names every owed turn.
LEMMA FetchActionableStep == IInv /\ FetchActionable => IInv'
<1> SUFFICES ASSUME IInv, FetchActionable PROVE IInv'
  OBVIOUS
<1>1. TypeOK /\ Rows /\ Hands /\ Drains /\ Saved /\ Durable
  BY DEF IInv
<1> DEFINE mine == {[room |-> r, turn |-> room[r].turn, over |-> FALSE] :
                      r \in {q \in Rooms : MyTurn(q)}}
           past == {[room |-> r, turn |-> room[r].turn, over |-> TRUE] :
                      r \in {q \in Rooms : Ended(q) /\ room[q].endedAt + Window >= clock}}
<1>2. /\ main.pc = "recover"
      /\ main' = [main EXCEPT !.pc = "rooms", !.left = mine \cup past]
      /\ UNCHANGED <<clock, server, acked, conn, wire, drain, files, mem, woken, faults>>
  BY DEF FetchActionable, At
<1>3. \A r \in Rooms : room[r].turn \in Nat
  BY <1>1, TypeParts DEF RoomRecord
<1>4. /\ \A it \in mine : it \in Item /\ ~it.over /\ it.turn = room[it.room].turn
      /\ \A it \in past : it \in Item /\ it.over /\ it.turn = room[it.room].turn /\ Ended(it.room)
  <2>1. ASSUME NEW it \in mine
        PROVE  it \in Item /\ ~it.over /\ it.turn = room[it.room].turn
    <3>1. PICK r \in Rooms : it = [room |-> r, turn |-> room[r].turn, over |-> FALSE]
      OBVIOUS
    <3>2. it.room = r /\ it.turn = room[r].turn /\ it.over = FALSE
      BY <3>1
    <3> QED
      BY <1>3, <3>1, <3>2 DEF Item
  <2>2. ASSUME NEW it \in past
        PROVE  it \in Item /\ it.over /\ it.turn = room[it.room].turn /\ Ended(it.room)
    <3>1. PICK r \in Rooms : /\ it = [room |-> r, turn |-> room[r].turn, over |-> TRUE]
                             /\ Ended(r)
      OBVIOUS
    <3>2. it.room = r /\ it.turn = room[r].turn /\ it.over = TRUE
      BY <3>1
    <3> QED
      BY <1>3, <3>1, <3>2 DEF Item
  <2> QED
    BY <2>1, <2>2
<1>5. \A r \in Rooms : MyTurn(r) =>
         \E it \in mine : it.room = r /\ it.turn = room[r].turn
  <2> SUFFICES ASSUME NEW r \in Rooms, MyTurn(r)
               PROVE  \E it \in mine : it.room = r /\ it.turn = room[r].turn
    OBVIOUS
  <2>1. [room |-> r, turn |-> room[r].turn, over |-> FALSE] \in mine
    OBVIOUS
  <2> QED
    BY <2>1
<1> HIDE DEF mine, past
<1>6. main' \in MainType /\ main'.pc = "rooms" /\ main'.left = mine \cup past
  <2>1. mine \cup past \subseteq Item /\ main \in MainType
    BY <1>1, <1>4, TypeParts
  <2> QED
    BY <1>2, <2>1 DEF MainType, Place
<1>7. TypeOK'
  BY <1>1, <1>2, <1>6, TypeParts, TypeNext DEF server, files
<1>8. /\ Rows' /\ Pendings' /\ (\A d : Owed(d)' <=> Owed(d))
      /\ \A r : Ended(r)' <=> Ended(r)
  BY <1>2, BridgeQuiet
<1>9. table' = table /\ acked' = acked /\ room' = room /\ disk' = disk /\ clock' = clock
  BY <1>2 DEF server, files
<1>10. Payload'
  <2> SUFFICES ASSUME NEW it \in mine \cup past
               PROVE  /\ it.over => Ended(it.room)'
                      /\ it.turn <= room[it.room].turn
                      /\ ~it.over => \A d \in table :
                            d.type = "turn_ready" /\ d.seq \in acked /\ d.room = it.room
                              => d.turn <= it.turn
    BY <1>6, <1>9 DEF Payload
  <2>1. it \in Item /\ it.turn = room[it.room].turn /\ it.turn \in Nat
    BY <1>4 DEF Item
  <2>2. it.turn <= room[it.room].turn
    BY <2>1
  <2>3. it.over => Ended(it.room)
    BY <1>4
  <2>4. \A d \in table : d.type = "turn_ready" /\ d.room = it.room => d.turn <= it.turn
    BY <1>1, <2>1 DEF Rows
  <2> QED
    BY <1>8, <2>2, <2>3, <2>4
<1>11. Durable'
  <2>1. ~Resumable(disk.cursor)'
    BY <1>1, <1>2, <1>9 DEF Durable, Resumable
  <2>2. ASSUME NEW d \in table, Owed(d)
        PROVE  \E it \in main'.left : ~it.over /\ KeyOf(it) = KeyOf(d)
    <3>1. d \in Row /\ d.room \in Rooms
      BY <1>1, TypeParts DEF Row
    <3>2. MyTurn(d.room) /\ room[d.room].turn = d.turn
      BY <2>2 DEF Owed, Current, KeyOf
    <3>3. PICK it \in mine : it.room = d.room /\ it.turn = d.turn
      BY <1>5, <3>1, <3>2
    <3> QED
      BY <1>4, <1>6, <3>3 DEF KeyOf
  <2> QED
    BY <1>6, <1>8, <1>9, <2>1, <2>2 DEF Durable, Idle, Connected, Recovering, KeyOf
<1>12. Hands'
  BY <1>1, <1>6, <1>2 DEF Hands, server
<1>13. Drains'
  BY <1>1, <1>2 DEF Drains
<1>14. Saved'
  BY <1>1, <1>2 DEF Saved, Keys, files
<1> QED
  BY <1>7, <1>8, <1>10, <1>11, <1>12, <1>13, <1>14 DEF IInv

\* A room of the payload loses its jobs: it has ended, or its owed turn is the one the
\* payload names, which is enqueued next or has been woken for.
LEMMA DropRoomStep == IInv /\ DropRoom => IInv'
<1> SUFFICES ASSUME IInv, DropRoom PROVE IInv'
  OBVIOUS
<1>1. TypeOK /\ Rows /\ Hands /\ Drains /\ Saved /\ Payload /\ Durable
  BY DEF IInv
<1>2. PICK it \in main.left :
         /\ queue' = Dropped(it.room)
         /\ mem' = IF it.over THEN [mem EXCEPT !.keys = Forget(@, it.room)] ELSE mem
         /\ disk' = IF it.over THEN mem' ELSE disk
         /\ main' = [main EXCEPT !.left = @ \ {it}, !.msg = it,
                         !.pc = IF it.over \/ KeyOf(it) \in Keys(mem.keys) THEN "rooms"
                                ELSE "requeue"]
  BY DEF DropRoom
<1>3. /\ main.pc = "rooms"
      /\ UNCHANGED <<clock, server, acked, conn, wire, drain, woken, faults>>
  BY DEF DropRoom, At
<1> DEFINE p == IF it.over \/ KeyOf(it) \in Keys(mem.keys) THEN "rooms" ELSE "requeue"
<1>4. main \in MainType /\ it \in Item /\ it.room \in Rooms /\ it.turn \in Nat
  BY <1>1, TypeParts DEF MainType, Item
<1>5. p \in Place /\ p \in {"rooms", "requeue"}
      /\ (p = "rooms" => it.over \/ KeyOf(it) \in woken)
  BY <1>1 DEF Place, Saved
<1>6. main' = [main EXCEPT !.left = main.left \ {it}, !.msg = it, !.pc = p]
  BY <1>2, <1>4 DEF MainType
<1> HIDE DEF p
<1>7. main' \in MainType /\ main'.pc = p /\ main'.msg = it /\ main'.left = main.left \ {it}
  BY <1>4, <1>5, <1>6 DEF MainType
<1>8. /\ mem \in StateRecord /\ mem.keys \in Seq(Key) /\ Len(mem.keys) <= MaxKeys
      /\ disk \in StateRecord /\ Len(disk.keys) <= MaxKeys
  BY <1>1, TypeParts DEF StateRecord
<1>9. /\ mem' \in StateRecord /\ Len(mem'.keys) <= MaxKeys
      /\ Keys(mem'.keys) \subseteq woken /\ mem'.cursor = mem.cursor
  <2>1. CASE it.over
    <3> DEFINE ks == Forget(mem.keys, it.room)
    <3>1. ks \in Seq(Key) /\ Len(ks) <= MaxKeys /\ Keys(ks) \subseteq Keys(mem.keys)
      BY <1>8, ForgetType
    <3>2. mem' = [mem EXCEPT !.keys = ks]
      BY <1>2, <2>1
    <3> HIDE DEF ks
    <3>3. mem' \in StateRecord /\ mem'.keys = ks /\ mem'.cursor = mem.cursor
      BY <1>8, <3>1, <3>2, StateMoves
    <3> QED
      BY <1>1, <3>1, <3>3 DEF Saved
  <2>2. CASE ~it.over
    BY <1>1, <1>2, <1>8, <2>2 DEF Saved
  <2> QED
    BY <2>1, <2>2
<1>10. disk' \in {mem', disk} /\ disk'.cursor = disk.cursor
  BY <1>1, <1>2, <1>9 DEF Saved
<1>11. TypeOK'
  <2>1. queue' \subseteq Job
    BY <1>1, <1>2, TypeParts DEF Dropped
  <2> QED
    BY <1>1, <1>3, <1>7, <1>8, <1>9, <1>10, <2>1, TypeParts, TypeNext DEF server
<1>12. /\ Rows' /\ Pendings' /\ (\A d : Owed(d)' <=> Owed(d))
       /\ \A r : Ended(r)' <=> Ended(r)
  BY <1>3, BridgeQuiet
<1>13. table' = table /\ acked' = acked /\ room' = room /\ clock' = clock /\ woken' = woken
  BY <1>3 DEF server
<1>14. main.pc \in Recovering /\ main'.pc \in Recovering
  BY <1>3, <1>5, <1>7 DEF Recovering
<1>15. Payload'
  BY <1>1, <1>7, <1>12, <1>13, <1>14 DEF Payload
<1>16. ASSUME NEW d \in table, Owed(d)
       PROVE  \/ Safe(KeyOf(d))'
              \/ \E o \in main'.left : ~o.over /\ KeyOf(o) = KeyOf(d)
              \/ main'.pc = "requeue" /\ KeyOf(it) = KeyOf(d)
  <2>1. d \in Row /\ d.room \in Rooms /\ d.turn \in Nat /\ KeyOf(d).room = d.room
    BY <1>1, TypeParts DEF Row, KeyOf
  <2>2. /\ MyTurn(d.room) /\ room[d.room].turn = d.turn
        /\ d.type = "turn_ready" /\ d.seq \in acked
    BY <1>16 DEF Owed, Current, KeyOf
  <2>3. /\ it.over => Ended(it.room)
        /\ it.turn <= room[it.room].turn
        /\ ~it.over => (d.room = it.room => d.turn <= it.turn)
    BY <1>1, <1>14, <2>2 DEF Payload
  <2>4. CASE d.room = it.room
    <3>1. ~it.over
      BY <2>2, <2>3, <2>4 DEF Ended, MyTurn
    <3>2. it.turn = d.turn
      BY <1>4, <2>1, <2>2, <2>3, <2>4, <3>1
    <3>3. KeyOf(it) = KeyOf(d)
      BY <2>4, <3>2 DEF KeyOf
    <3>4. CASE p = "rooms"
      BY <1>5, <1>13, <3>1, <3>3, <3>4 DEF Safe, KeyOf
    <3>5. CASE p = "requeue"
      BY <1>7, <3>3, <3>5
    <3> QED
      BY <1>5, <3>4, <3>5
  <2>5. CASE d.room # it.room
    <3>1. \/ Safe(KeyOf(d))
          \/ \E o \in main.left : ~o.over /\ KeyOf(o) = KeyOf(d)
      BY <1>1, <1>3, <1>14, <1>16 DEF Durable
    <3>2. Safe(KeyOf(d)) => Safe(KeyOf(d))'
      BY <1>2, <1>13, <2>1, <2>5 DEF Safe, Dropped, KeyOf
    <3>3. KeyOf(it) # KeyOf(d)
      BY <2>5 DEF KeyOf
    <3> QED
      BY <1>7, <3>1, <3>2, <3>3
  <2> QED
    BY <2>4, <2>5
<1>17. Durable'
  <2>1. ~Resumable(disk.cursor)'
    BY <1>1, <1>10, <1>13, <1>14 DEF Durable, Resumable
  <2>2. main'.pc \notin Idle /\ main'.pc \notin Connected /\ main'.pc \notin {"rdrain", "clear"}
    BY <1>5, <1>7 DEF Idle, Connected
  <2> QED
    BY <1>7, <1>12, <1>13, <1>16, <2>1, <2>2 DEF Durable, KeyOf
<1>18. Hands'
  BY <1>1, <1>3, <1>4, <1>5, <1>7 DEF Hands, server
<1>19. Drains'
  BY <1>1, <1>3 DEF Drains
<1>20. Saved'
  BY <1>1, <1>3, <1>9, <1>10 DEF Saved
<1> QED
  BY <1>11, <1>12, <1>15, <1>17, <1>18, <1>19, <1>20 DEF IInv

\* The named turn is enqueued.
LEMMA RequeueStep == IInv /\ Requeue => IInv'
<1> SUFFICES ASSUME IInv, Requeue PROVE IInv'
  OBVIOUS
<1>1. TypeOK /\ Hands /\ Drains /\ Saved /\ Payload /\ Durable
  BY DEF IInv
<1>2. /\ main.pc = "requeue" /\ queue' = Enqueued(0, KeyOf(main.msg)) /\ Goto("rooms")
      /\ UNCHANGED <<clock, server, acked, conn, wire, drain, mem, disk, woken, faults>>
  BY DEF Requeue, At
<1>3. KeyOf(main.msg) \in Key
  BY <1>1, <1>2 DEF Hands, Item, KeyOf, Key
<1>4. PICK k \in Key : k = KeyOf(main.msg)
  BY <1>3
<1>5. queue' \subseteq Job /\ queue \subseteq queue' /\ Safe(k)'
  BY <1>2, <1>4, EnqueuedSafe
<1>6. main' \in MainType /\ main'.pc = "rooms" /\ main'.left = main.left
  BY <1>1, <1>2, TypeParts, GotoMain DEF Place
<1>7. TypeOK'
  BY <1>1, <1>2, <1>5, <1>6, TypeParts, TypeNext DEF server
<1>8. /\ Rows' /\ Pendings' /\ (\A d : Owed(d)' <=> Owed(d))
      /\ \A r : Ended(r)' <=> Ended(r)
  BY <1>2, BridgeQuiet
<1>9. /\ table' = table /\ acked' = acked /\ room' = room /\ clock' = clock /\ woken' = woken
      /\ disk' = disk
  BY <1>2 DEF server
<1>10. main.pc \in Recovering /\ main'.pc \in Recovering
  BY <1>2, <1>6 DEF Recovering
<1>11. Payload'
  BY <1>1, <1>6, <1>8, <1>9, <1>10 DEF Payload
<1>12. ASSUME NEW d \in table, Owed(d)
       PROVE  \/ Safe(KeyOf(d))'
              \/ \E o \in main.left : ~o.over /\ KeyOf(o) = KeyOf(d)
  <2>1. \/ Safe(KeyOf(d))
        \/ \E o \in main.left : ~o.over /\ KeyOf(o) = KeyOf(d)
        \/ KeyOf(d) = k
    BY <1>1, <1>4, <1>10, <1>12 DEF Durable
  <2>2. Safe(KeyOf(d)) => Safe(KeyOf(d))'
    BY <1>5, <1>9 DEF Safe, KeyOf
  <2>3. KeyOf(d) = k => Safe(KeyOf(d))'
    BY <1>5 DEF Safe, KeyOf
  <2> QED
    BY <2>1, <2>2, <2>3
<1>13. Durable'
  <2>1. ~Resumable(disk.cursor)'
    BY <1>1, <1>9, <1>10 DEF Durable, Resumable
  <2> QED
    BY <1>6, <1>8, <1>9, <1>12, <2>1 DEF Durable, Idle, Connected, KeyOf
<1>14. Hands'
  BY <1>1, <1>2, <1>6 DEF Hands, server
<1>15. Drains'
  BY <1>1, <1>2 DEF Drains
<1>16. Saved'
  BY <1>1, <1>2 DEF Saved, Keys
<1> QED
  BY <1>7, <1>8, <1>11, <1>13, <1>14, <1>15, <1>16 DEF IInv

\* The recovery drains what it has enqueued.
LEMMA RecoveryDrainStep == IInv /\ RecoveryDrain => IInv'
<1> SUFFICES ASSUME IInv, RecoveryDrain PROVE IInv'
  OBVIOUS
<1>1. TypeOK /\ Hands /\ Drains /\ Saved /\ Durable
  BY DEF IInv
<1>2. /\ main.pc = "rooms" /\ main.left = {} /\ Goto("rdrain") /\ StartDrain("main")
      /\ UNCHANGED <<clock, server, acked, conn, wire, files, mem, woken, faults>>
  BY DEF RecoveryDrain, At
<1>3. main' \in MainType /\ main'.pc = "rdrain" /\ main'.left = {}
  BY <1>1, <1>2, TypeParts, GotoMain DEF Place
<1>4. /\ drain' \in [Drainers -> DrainRecord]
      /\ drain'["main"] = [pc |-> "next", todo |-> queue, job |-> Nil]
      /\ \A c \in Drainers : c # "main" => drain'[c] = drain[c]
  BY <1>1, <1>2, TypeParts, DrainStarts, Numbers
<1>5. TypeOK'
  BY <1>1, <1>2, <1>3, <1>4, TypeParts, TypeNext DEF server, files
<1>6. Rows' /\ Pendings' /\ (\A d : Owed(d)' <=> Owed(d))
  BY <1>2, BridgeQuiet
<1>7. /\ table' = table /\ acked' = acked /\ clock' = clock /\ woken' = woken
      /\ disk' = disk /\ queue' = queue
  BY <1>2 DEF server, files
<1>8. main.pc \in Recovering
  BY <1>2 DEF Recovering
<1>9. Payload'
  BY <1>3 DEF Payload
<1>10. Durable'
  <2>1. ~Resumable(disk.cursor)'
    BY <1>1, <1>7, <1>8 DEF Durable, Resumable
  <2>2. \A d \in table : Owed(d) => Safe(KeyOf(d))'
    BY <1>1, <1>2, <1>7, <1>8 DEF Durable, Safe, KeyOf
  <2> QED
    BY <1>3, <1>6, <1>7, <2>1, <2>2 DEF Durable, Idle, Connected, KeyOf
<1>11. Hands'
  BY <1>1, <1>2, <1>3 DEF Hands, server
<1>12. Drains'
  BY <1>1, <1>4, <1>2 DEF Drains
<1>13. Saved'
  BY <1>1, <1>2 DEF Saved, Keys, files
<1> QED
  BY <1>5, <1>6, <1>9, <1>10, <1>11, <1>12, <1>13 DEF IInv

\* The cursor is given up once every owed turn is safe.
LEMMA ClearCursorStep == IInv /\ ClearCursor => IInv'
<1> SUFFICES ASSUME IInv, ClearCursor PROVE IInv'
  OBVIOUS
<1>1. TypeOK /\ Hands /\ Drains /\ Saved /\ Durable
  BY DEF IInv
<1>2. /\ main.pc = "clear" /\ mem' = [mem EXCEPT !.cursor = 0] /\ disk' = mem' /\ Disconnected
      /\ UNCHANGED <<clock, server, acked, drain, queue, woken, faults>>
  BY DEF ClearCursor, At
<1>3. /\ main' \in MainType /\ main'.pc = "wait" /\ conn' \in [on : BOOLEAN, last : Nat]
      /\ wire' \in Seq(Row) /\ DOMAIN wire' = {}
  BY <1>2, DisconnectedType
<1>4. mem \in StateRecord /\ Len(mem.keys) <= MaxKeys
  BY <1>1, TypeParts
<1>5. mem' \in StateRecord /\ mem'.keys = mem.keys /\ mem'.cursor = 0
  BY <1>2, <1>4 DEF StateRecord
<1>6. TypeOK'
  BY <1>1, <1>2, <1>3, <1>4, <1>5, TypeParts, TypeNext DEF server
<1>7. Rows' /\ Pendings' /\ (\A d : Owed(d)' <=> Owed(d))
  BY <1>2, BridgeQuiet
<1>8. table' = table /\ woken' = woken /\ queue' = queue
  BY <1>2 DEF server
<1>9. \A d \in table : Owed(d)' => Safe(KeyOf(d))'
  BY <1>1, <1>2, <1>7, <1>8 DEF Durable, Recovering, Safe, KeyOf
<1>10. Payload'
  BY <1>3 DEF Payload, Recovering
<1>11. Durable'
  BY <1>3, <1>8, <1>9 DEF Durable, Idle, Connected, Recovering, KeyOf
<1>12. Hands'
  BY <1>3 DEF Hands
<1>13. Drains'
  BY <1>1, <1>2 DEF Drains
<1>14. Saved'
  BY <1>1, <1>2, <1>5 DEF Saved
<1> QED
  BY <1>6, <1>7, <1>10, <1>11, <1>12, <1>13, <1>14 DEF IInv

-----------------------------------------------------------------------------
(* The theorems *)

\* A step that changes nothing.
LEMMA StutterStep == IInv /\ UNCHANGED vars => IInv'
<1> SUFFICES ASSUME IInv, UNCHANGED vars PROVE IInv'
  OBVIOUS
<1>1. TypeOK /\ Hands /\ Drains /\ Saved
  BY DEF IInv
<1> USE DEF vars
<1>2. TypeOK'
  BY <1>1, TypeParts, TypeNext
<1>3. Rows' /\ Pendings' /\ Hands' /\ Payload' /\ Durable'
  <2>1. \A i \in DOMAIN wire' : wire'[i] \in table
    BY <1>1 DEF Hands
  <2>2. \A k \in Key : Safe(k) => Safe(k)'
    BY DEF Safe
  <2>3. disk'.cursor = disk.cursor /\ UNCHANGED <<clock, server, acked, main>>
    BY DEF server
  <2> QED
    BY <2>1, <2>2, <2>3, LoopKeeps
<1>4. Drains' /\ Saved'
  BY <1>1 DEF Drains, Saved, Keys
<1> QED
  BY <1>2, <1>3, <1>4 DEF IInv

\* Every step preserves the invariant.
LEMMA NextStep == IInv /\ [Next]_vars => IInv'
<1> SUFFICES ASSUME IInv, [Next]_vars PROVE IInv'
  OBVIOUS
<1>1. CASE Api
  BY <1>1, TurnReadyStep, TerminalStep, CommitStep, ReplyStep DEF Api
<1>2. CASE Drain
  BY <1>2, TimerDrainStep, ReadJobStep, WakeStep, WokenStep, WakeFailedStep, DrainDoneStep
     DEF Drain
<1>3. CASE Handle
  BY <1>3, ReadEventStep, RefreshRoomTokenStep, EnqueueWakeJobStep, HandleTerminalStep,
     AckDeliveryStep, SaveCursorStep DEF Handle
<1>4. CASE Recover
  BY <1>4, FetchActionableStep, DropRoomStep, RequeueStep, RecoveryDrainStep, ClearCursorStep
     DEF Recover
<1> QED
  BY <1>1, <1>2, <1>3, <1>4, TickStep, WriteBatchStep, StartStep, MainDrainedStep,
     OpenStreamStep, BreakStep, CrashStep, StutterStep DEF Next, Serve

\* The invariant holds throughout.
LEMMA IInvHolds == Spec => []IInv
BY InitInv, NextStep, PTL DEF Spec

\* Deliveries, stream, queue and state file keep their types, only created deliveries
\* are acknowledged, and the remembered keys stay within their limit, for any number of
\* rooms and drains and any limits.
THEOREM TypeCorrect == Spec => []TypeOK
<1>1. IInv => TypeOK
  BY DEF IInv
<1> QED
  BY <1>1, IInvHolds, PTL

\* An acknowledged turn that is still to be played is on disk, woken for, or forced back
\* by recovery, wherever the bridge crashes, the stream breaks, the clock runs out the
\* replay window or drains overlap.
THEOREM Durability == Spec => []AckedIsDurable
<1>1. ASSUME IInv PROVE AckedIsDurable
  <2>1. Durable /\ main.pc \in Place
    BY <1>1, TypeParts DEF IInv, MainType
  <2> SUFFICES ASSUME NEW d \in table, Owed(d)
               PROVE  Safe(KeyOf(d)) \/ ~Resumable(disk.cursor)
    BY DEF AckedIsDurable, Safe, Owed
  <2>2. main.pc \in Idle \/ main.pc \in Connected \/ main.pc \in Recovering
    BY <2>1 DEF Place, Idle, Connected, Recovering
  <2> QED
    BY <2>1, <2>2 DEF Durable
<1> QED
  BY <1>1, IInvHolds, PTL
=============================================================================
