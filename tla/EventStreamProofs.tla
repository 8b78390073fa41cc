------------------------- MODULE EventStreamProofs -------------------------
(***************************************************************************)
(* The event stream sends events in order and once, and loses none between *)
(* replay and live part, for any clients, writers and bounds.              *)
(***************************************************************************)
EXTENDS EventStream, FiniteSetTheorems, TLAPS

\* The cursor of a running stream is the last event its client was sent, and the
\* page holds the events that follow it.
Cursor(k) ==
    /\ At(k, "off") => conn[k].page = <<>>
    /\ ~At(k, "off") => conn[k].since = Last(k)
    /\ \A i \in DOMAIN conn[k].page : conn[k].page[i] = conn[k].since + i

\* A stream subscribes before it replays.
Subscribed(k) == At(k, "replay") \/ At(k, "live") => sub[k] # "none"

InOrder(k) == \A i, j \in DOMAIN got[k] : i < j => got[k][i] < got[k][j]

\* The event is behind the cursor, on its way, or not this process's.
Covered(k, e) ==
    \/ e <= conn[k].since \/ e \in remote
    \/ Holds(conn[k].page, e) \/ Holds(ch[k], e)
    \/ \E w \in Writers : Holds(pub[w], e) \/ k \in full[w]

Covers(k) == At(k, "live") /\ sub[k] # "dropped" => \A e \in 1..count : Covered(k, e)

Good(k) == Cursor(k) /\ Subscribed(k) /\ InOrder(k) /\ Covers(k)

\* Streams have slots of their own, and a stream younger than a lease still has the
\* one it took; the slots a connect counts are within the limit.
Slots ==
    /\ IsFiniteSet(leases) /\ Cardinality(Counted) <= MaxActive
    /\ \A k, j \in Streaming : conn[k].lease = conn[j].lease => k = j
    /\ \A k \in Streaming : clock < conn[k].start + LeaseTTL =>
          \E l \in leases : l.id = conn[k].lease /\ l.exp = conn[k].start + LeaseTTL
    /\ ~shared => {l.id : l \in leases} = {conn[k].lease : k \in Streaming}

IInv == TypeOK /\ (\A k \in Clients : Good(k)) /\ Slots

-----------------------------------------------------------------------------
(* Sequences of ids *)

\* The ids from a cursor to the end of the log, as a set of naturals.
LEMMA IntervalFacts ==
    ASSUME NEW m \in Nat, NEW n \in Nat
    PROVE  /\ Interval(m, n) \in Seq(Nat)
           /\ \A i \in DOMAIN Interval(m, n) : Interval(m, n)[i] = m + i
           /\ \A e \in Nat : m < e /\ e <= n => Holds(Interval(m, n), e)
  <1>1. CASE m <= n
    <2>1. n - m \in Nat
      BY <1>1
    <2>2. Interval(m, n) \in Seq(Nat)
      BY <2>1 DEF Interval
    <2>3. ASSUME NEW e \in Nat, m < e, e <= n PROVE Holds(Interval(m, n), e)
      <3>1. e - m \in 1..(n - m) /\ m + (e - m) = e
        BY <2>3
      <3> QED BY <3>1 DEF Holds, Interval
    <2> QED BY <2>2, <2>3 DEF Interval
  <1>2. CASE n < m
    <2>1. 1..(n - m) = {}
      BY <1>2
    <2>2. Interval(m, n) = <<>>
      BY <2>1 DEF Interval
    <2> QED BY <1>2, <2>2
  <1> QED BY <1>1, <1>2

\* The head and the tail of a sequence of ids hold all of it.
LEMMA TailFacts ==
    ASSUME NEW s \in Seq(Nat), s # <<>>
    PROVE  /\ Head(s) \in Nat /\ Tail(s) \in Seq(Nat)
           /\ Len(Tail(s)) = Len(s) - 1 /\ Len(s) \in Nat \ {0} /\ Head(s) = s[1]
           /\ \A i \in DOMAIN Tail(s) : Tail(s)[i] = s[i + 1] /\ i + 1 \in DOMAIN s
           /\ \A e : Holds(s, e) => e = Head(s) \/ Holds(Tail(s), e)
  <1>1. Len(s) \in Nat \ {0} /\ DOMAIN s = 1..Len(s) /\ Head(s) = s[1] /\ Tail(s) \in Seq(Nat)
        /\ Head(s) \in Nat /\ Len(Tail(s)) = Len(s) - 1
    OBVIOUS
  <1>2. \A i \in 1..(Len(s) - 1) : Tail(s)[i] = s[i + 1]
    OBVIOUS
  <1>3. DOMAIN Tail(s) = 1..(Len(s) - 1)
    BY <1>1
  <1>4. ASSUME NEW e, NEW i \in DOMAIN s, s[i] = e PROVE e = Head(s) \/ Holds(Tail(s), e)
    <2>1. CASE i = 1
      BY <1>1, <1>4, <2>1
    <2>2. CASE i # 1
      <3>1. i - 1 \in 1..(Len(s) - 1) /\ (i - 1) + 1 = i
        BY <1>1, <2>2
      <3> QED BY <1>2, <1>3, <1>4, <3>1 DEF Holds
    <2> QED BY <2>1, <2>2
  <1>5. \A i \in DOMAIN Tail(s) : i + 1 \in DOMAIN s
    BY <1>1, <1>3
  <1> QED BY <1>1, <1>2, <1>3, <1>4, <1>5 DEF Holds

\* A sequence of ids after an append.
LEMMA AppendFacts ==
    ASSUME NEW s \in Seq(Nat), NEW x \in Nat
    PROVE  /\ Append(s, x) \in Seq(Nat) /\ Append(s, x) # <<>>
           /\ Len(s) \in Nat /\ Len(Append(s, x)) = Len(s) + 1
           /\ \A i \in 1..Len(s) : Append(s, x)[i] = s[i]
           /\ Append(s, x)[Len(s) + 1] = x
           /\ DOMAIN s = 1..Len(s) /\ DOMAIN Append(s, x) = 1..(Len(s) + 1)
           /\ Holds(Append(s, x), x)
           /\ \A e : Holds(s, e) => Holds(Append(s, x), e)
  <1>1. /\ Append(s, x) \in Seq(Nat) /\ Append(s, x) # <<>>
        /\ Len(s) \in Nat /\ Len(Append(s, x)) = Len(s) + 1
        /\ \A i \in 1..Len(s) : Append(s, x)[i] = s[i]
        /\ Append(s, x)[Len(s) + 1] = x
        /\ DOMAIN s = 1..Len(s) /\ DOMAIN Append(s, x) = 1..(Len(s) + 1)
    OBVIOUS
  <1>2. Len(s) + 1 \in 1..(Len(s) + 1) /\ \A i \in 1..Len(s) : i \in 1..(Len(s) + 1)
    BY <1>1
  <1> QED BY <1>1, <1>2 DEF Holds

-----------------------------------------------------------------------------
(* Slots *)

\* The ids of a finite set of leases are no more than the leases.
LEMMA IdsBounded ==
    ASSUME NEW L, IsFiniteSet(L)
    PROVE  /\ IsFiniteSet({l.id : l \in L})
           /\ Cardinality({l.id : l \in L}) <= Cardinality(L)
  <1> DEFINE T == {l.id : l \in L}
             f == [l \in L |-> l.id]
  <1>1. f \in Surjection(L, T)
    BY DEF Surjection
  <1> QED BY <1>1, FS_Surjection

\* The leases of finitely many streams are no more than the streams.
LEMMA HeldBounded ==
    ASSUME NEW K, IsFiniteSet(K)
    PROVE  /\ IsFiniteSet({conn[k].lease : k \in K})
           /\ Cardinality({conn[k].lease : k \in K}) <= Cardinality(K)
  <1> DEFINE T == {conn[k].lease : k \in K}
             f == [k \in K |-> conn[k].lease]
  <1>1. f \in Surjection(K, T)
    BY DEF Surjection
  <1> QED BY <1>1, FS_Surjection

\* newID finds an id.
LEMMA NewLeaseFacts ==
    ASSUME TypeOK, IsFiniteSet(leases)
    PROVE  /\ NewLease \in Nat
           /\ \A l \in leases : l.id # NewLease
           /\ \A k \in Clients : conn[k].lease # NewLease
  <1> DEFINE A == {l.id : l \in leases}
             B == {conn[k].lease : k \in Clients}
             N == Cardinality(leases) + Cardinality(Clients) + 1
  <1>1. Cardinality(leases) \in Nat /\ Cardinality(Clients) \in Nat
    BY FS_CardinalityType, StreamClientsAssumption
  <1>2. /\ IsFiniteSet(A) /\ Cardinality(A) <= Cardinality(leases) /\ Cardinality(A) \in Nat
        /\ IsFiniteSet(B) /\ Cardinality(B) <= Cardinality(Clients) /\ Cardinality(B) \in Nat
    <2>1. IsFiniteSet(A) /\ Cardinality(A) <= Cardinality(leases)
      BY IdsBounded
    <2>2. IsFiniteSet(B) /\ Cardinality(B) <= Cardinality(Clients)
      BY HeldBounded, StreamClientsAssumption
    <2> HIDE DEF A, B
    <2> QED BY <2>1, <2>2, FS_CardinalityType
  <1> HIDE DEF A, B
  <1>3. IsFiniteSet(A \cap B) /\ Cardinality(A \cap B) \in Nat
    <2>1. A \cap B \in SUBSET A
      OBVIOUS
    <2>2. IsFiniteSet(A \cap B)
      BY <1>2, <2>1, FS_Subset
    <2> QED BY <2>2, FS_CardinalityType
  <1>4. IsFiniteSet(A \cup B) /\ Cardinality(A \cup B) < N /\ Cardinality(A \cup B) \in Nat
    <2>1. IsFiniteSet(A \cup B)
          /\ Cardinality(A \cup B) = Cardinality(A) + Cardinality(B) - Cardinality(A \cap B)
      BY <1>2, FS_Union
    <2> QED BY <1>1, <1>2, <1>3, <2>1, FS_CardinalityType
  <1>5. N \in Nat /\ N >= 1 /\ Cardinality(1..N) = N
    <2>1. N \in Nat /\ N >= 1
      BY <1>1
    <2> HIDE DEF N
    <2>2. Cardinality(1..N) = IF 1 > N THEN 0 ELSE N - 1 + 1
      BY <2>1, FS_Interval
    <2> QED BY <2>1, <2>2
  <1> HIDE DEF N
  <1>6. ~(1..N \subseteq A \cup B)
    <2> SUFFICES ASSUME 1..N \subseteq A \cup B PROVE FALSE
      OBVIOUS
    <2>1. Cardinality(1..N) <= Cardinality(A \cup B)
      BY <1>4, FS_Subset
    <2> QED BY <1>4, <1>5, <2>1
  <1>7. \E n \in 1..N : (\A l \in leases : l.id # n) /\ (\A k \in Clients : conn[k].lease # n)
    BY <1>6 DEF A, B
  <1>8. /\ NewLease \in 1..N
        /\ \A l \in leases : l.id # NewLease
        /\ \A k \in Clients : conn[k].lease # NewLease
    BY <1>7, Zenon DEF NewLease, N
  <1> QED BY <1>5, <1>8

\* Slots are not disturbed by a step that opens and closes no stream.
LEMMA SlotsKept ==
    ASSUME Slots, UNCHANGED <<clock, shared, leases>>,
           \A k \in Clients : /\ conn'[k].start = conn[k].start
                              /\ conn'[k].lease = conn[k].lease
                              /\ (conn'[k].pc = "off") <=> (conn[k].pc = "off")
    PROVE  Slots'
  <1>1. Streaming' = Streaming
    BY DEF Streaming
  <1>2. Counted' = Counted
    BY DEF Counted
  <1>3. Streaming \subseteq Clients
    BY DEF Streaming
  <1>4. {conn'[k].lease : k \in Streaming} = {conn[k].lease : k \in Streaming}
    BY <1>3
  <1> QED BY <1>1, <1>2, <1>3, <1>4 DEF Slots

-----------------------------------------------------------------------------
(* Steps that leave a client's handler where it is *)

\* What is good of a handler that does not move stays good.
LEMMA GoodStill ==
    ASSUME NEW k \in Clients, Good(k), conn'[k] = conn[k], got'[k] = got[k],
           sub'[k] \in {sub[k], "dropped"}, Covers(k)'
    PROVE  Good(k)'
  <1>1. Cursor(k)' /\ Subscribed(k)' /\ InOrder(k)'
    BY DEF Good, Cursor, Subscribed, InOrder, At, Last
  <1> QED BY <1>1 DEF Good

\* What was on its way still is.
LEMMA CoversStill ==
    ASSUME NEW k \in Clients, Covers(k), conn'[k] = conn[k], sub'[k] = sub[k],
           count' = count, remote' = remote, ch'[k] = ch[k], pub' = pub,
           \A w \in Writers : k \in full[w] => k \in full'[w]
    PROVE  Covers(k)'
  BY DEF Covers, Covered, At

\* Time only brings leases closer to their end.
LEMMA TickIInv == ASSUME IInv, Tick PROVE IInv'
  <1>1. UNCHANGED <<shared, count, remote, pub, full, sub, ch, conn, got, leases>>
        /\ clock' = clock + 1 /\ opens' = 0
    BY DEF Tick, db, hub
  <1>2. TypeOK'
    BY <1>1 DEF IInv, TypeOK
  <1>3. \A k \in Clients : Good(k)'
    BY <1>1, CoversStill, GoodStill DEF IInv, Good
  <1>4. Slots'
    <2>1. Streaming' = Streaming /\ Counted' \in SUBSET Counted
      BY <1>1 DEF Streaming, Counted, IInv, TypeOK, Lease
    <2>2. IsFiniteSet(Counted)
      BY FS_Subset DEF IInv, Slots, Counted
    <2>3. Cardinality(Counted') <= Cardinality(Counted) /\ IsFiniteSet(Counted')
      BY <2>1, <2>2, FS_Subset
    <2>4. Cardinality(Counted') <= MaxActive
      BY <2>2, <2>3, FS_CardinalityType, StreamNumbersAssumption DEF IInv, Slots
    <2>5. \A k \in Streaming : clock' < conn[k].start + LeaseTTL => clock < conn[k].start + LeaseTTL
      BY <1>1, StreamNumbersAssumption DEF IInv, TypeOK, Conn, Streaming
    <2> QED BY <1>1, <2>1, <2>4, <2>5 DEF IInv, Slots
  <1> QED BY <1>2, <1>3, <1>4 DEF IInv

\* A commit appends to the log, and the writer owes the publication.
LEMMA CommitIInv ==
    ASSUME IInv, NEW w \in Writers, NEW n \in Batch, Commit(w, n)
    PROVE  IInv'
  <1> DEFINE new == Interval(count, count + n)
  <1>1. n \in Nat /\ count \in Nat /\ count + n \in Nat
    BY StreamNumbersAssumption DEF IInv, TypeOK
  <1>2. new \in Seq(Nat) /\ \A e \in Nat : count < e /\ e <= count + n => Holds(new, e)
    BY <1>1, IntervalFacts
  <1> HIDE DEF new
  <1>3. /\ UNCHANGED <<clock, shared, remote, full, conn, sub, ch, got, leases, opens>>
        /\ count' = count + n /\ pub' = [pub EXCEPT ![w] = new] /\ pub[w] = <<>>
    BY DEF Commit, slots, new
  <1>4. TypeOK'
    BY <1>1, <1>2, <1>3 DEF IInv, TypeOK
  <1>5. pub'[w] = new /\ \A v \in Writers : v # w => pub'[v] = pub[v]
    BY <1>3 DEF IInv, TypeOK
  <1>6. ASSUME NEW k \in Clients PROVE Good(k)'
    <2>1. ASSUME NEW e \in 1..count', At(k, "live"), sub[k] # "dropped" PROVE Covered(k, e)'
      <3>1. CASE e <= count
        <4>1. Covered(k, e)
          BY <1>1, <1>3, <2>1, <3>1 DEF IInv, Good, Covers
        <4>2. \A v \in Writers : Holds(pub[v], e) => Holds(pub'[v], e)
          BY <1>3, <1>5 DEF Holds
        <4> QED BY <1>3, <4>1, <4>2 DEF Covered
      <3>2. CASE e > count
        BY <1>1, <1>2, <1>3, <1>5, <2>1, <3>2 DEF Covered
      <3> QED BY <1>1, <1>3, <3>1, <3>2
    <2>2. Covers(k)'
      BY <1>3, <2>1 DEF Covers, At
    <2> QED BY <1>3, <2>2, GoodStill DEF IInv
  <1>7. Slots'
    BY <1>3, SlotsKept DEF IInv
  <1> QED BY <1>4, <1>6, <1>7 DEF IInv

\* A commit of another process is never published to this hub.
LEMMA CommitElsewhereIInv == ASSUME IInv, CommitElsewhere PROVE IInv'
  <1>1. /\ UNCHANGED <<clock, shared, pub, full, sub, ch, conn, got, leases, opens>>
        /\ count' = count + 1 /\ remote' = remote \cup {count + 1} /\ count \in Nat
    BY DEF CommitElsewhere, hub, slots, IInv, TypeOK
  <1>2. TypeOK'
    BY <1>1 DEF IInv, TypeOK
  <1>3. ASSUME NEW k \in Clients PROVE Good(k)'
    <2>1. ASSUME NEW e \in 1..count', At(k, "live"), sub[k] # "dropped" PROVE Covered(k, e)'
      <3>1. CASE e \in 1..count
        BY <1>1, <2>1, <3>1 DEF IInv, Good, Covers, Covered
      <3>2. CASE e = count + 1
        BY <1>1, <3>2 DEF Covered
      <3> QED BY <1>1, <3>1, <3>2
    <2>2. Covers(k)'
      BY <1>1, <2>1 DEF Covers, At
    <2> QED BY <1>1, <2>2, GoodStill DEF IInv
  <1>4. Slots'
    BY <1>1, SlotsKept DEF IInv
  <1> QED BY <1>2, <1>3, <1>4 DEF IInv

\* publish hands the event to every subscription that has room.
LEMMA PublishIInv ==
    ASSUME IInv, NEW w \in Writers, Publish(w)
    PROVE  IInv'
  <1> DEFINE e0 == Head(pub[w])
             slow == {k \in Registered : Len(ch[k]) >= Buffer}
  <1>1. pub[w] \in Seq(Nat) /\ pub[w] # <<>> /\ full[w] = {}
    BY DEF Publish, IInv, TypeOK
  <1>2. e0 \in Nat /\ Tail(pub[w]) \in Seq(Nat)
        /\ \A e : Holds(pub[w], e) => e = e0 \/ Holds(Tail(pub[w]), e)
    BY <1>1, TailFacts
  <1>3. /\ UNCHANGED <<clock, shared, count, remote, conn, sub, got, leases, opens>>
        /\ ch' = [k \in Clients |-> IF k \in Registered /\ Len(ch[k]) < Buffer
                                      THEN Append(ch[k], e0) ELSE ch[k]]
        /\ full' = [full EXCEPT ![w] = slow]
        /\ pub' = [pub EXCEPT ![w] = Tail(@)]
    BY DEF Publish, db, slots
  <1> HIDE DEF e0
  <1>4. \A k \in Clients :
           /\ ch'[k] \in Seq(Nat) /\ Len(ch'[k]) <= Buffer
           /\ \A e : Holds(ch[k], e) => Holds(ch'[k], e)
           /\ k \in Registered => Holds(ch'[k], e0) \/ k \in slow
    <2> SUFFICES ASSUME NEW k \in Clients
                 PROVE  /\ ch'[k] \in Seq(Nat) /\ Len(ch'[k]) <= Buffer
                        /\ \A e : Holds(ch[k], e) => Holds(ch'[k], e)
                        /\ k \in Registered => Holds(ch'[k], e0) \/ k \in slow
      OBVIOUS
    <2>1. ch[k] \in Seq(Nat) /\ Len(ch[k]) \in Nat /\ Len(ch[k]) <= Buffer /\ Buffer \in Nat
      BY StreamNumbersAssumption DEF IInv, TypeOK
    <2>2. CASE k \in Registered /\ Len(ch[k]) < Buffer
      <3>1. ch'[k] = Append(ch[k], e0)
        BY <1>3, <2>2
      <3>2. /\ Append(ch[k], e0) \in Seq(Nat) /\ Len(Append(ch[k], e0)) = Len(ch[k]) + 1
            /\ Holds(Append(ch[k], e0), e0)
            /\ \A e : Holds(ch[k], e) => Holds(Append(ch[k], e0), e)
        BY <1>2, <2>1, AppendFacts
      <3> QED BY <2>1, <2>2, <3>1, <3>2
    <2>3. CASE ~(k \in Registered /\ Len(ch[k]) < Buffer)
      <3>1. ch'[k] = ch[k]
        BY <1>3, <2>3
      <3> QED BY <2>1, <2>3, <3>1
    <2> QED BY <2>2, <2>3
  <1>5. full'[w] = slow /\ pub'[w] = Tail(pub[w])
        /\ \A v \in Writers : v # w => full'[v] = full[v] /\ pub'[v] = pub[v]
    BY <1>3 DEF IInv, TypeOK
  <1>6. TypeOK'
    <2>1. ch' \in [Clients -> Seq(Nat)]
      BY <1>3, <1>4
    <2>2. pub' \in [Writers -> Seq(Nat)] /\ full' \in [Writers -> SUBSET Clients]
      BY <1>2, <1>3 DEF IInv, TypeOK, Registered
    <2> QED BY <1>3, <1>4, <2>1, <2>2 DEF IInv, TypeOK
  <1>7. ASSUME NEW k \in Clients PROVE Good(k)'
    <2>1. ASSUME NEW e \in 1..count, At(k, "live"), sub[k] # "dropped" PROVE Covered(k, e)'
      <3>1. Covered(k, e) /\ k \in Registered
        BY <2>1 DEF IInv, Good, Covers, Subscribed, Registered, TypeOK, At
      <3>2. \A v \in Writers : k \in full[v] => k \in full'[v]
        BY <1>1, <1>5
      <3>3. \A v \in Writers : Holds(pub[v], e) => Holds(pub'[v], e) \/ e = e0
        BY <1>2, <1>5
      <3>4. CASE e = e0
        BY <1>3, <1>4, <1>5, <3>1, <3>4 DEF Covered
      <3>5. CASE e # e0
        BY <1>3, <1>4, <3>1, <3>2, <3>3, <3>5 DEF Covered
      <3> QED BY <3>4, <3>5
    <2>2. Covers(k)'
      BY <1>3, <2>1 DEF Covers, At
    <2> QED BY <1>3, <2>2, GoodStill DEF IInv
  <1>8. Slots'
    BY <1>3, SlotsKept DEF IInv
  <1> QED BY <1>6, <1>7, <1>8 DEF IInv

\* A subscription whose buffer is full is dropped and its channel closed.
LEMMA DropFullIInv ==
    ASSUME IInv, NEW w \in Writers, DropFull(w)
    PROVE  IInv'
  <1>1. /\ UNCHANGED <<clock, shared, count, remote, pub, conn, ch, got, leases, opens>>
        /\ sub' = [k \in Clients |-> IF k \in full[w] \cap Registered THEN "dropped" ELSE sub[k]]
        /\ full' = [full EXCEPT ![w] = {}]
    BY DEF DropFull, db, slots
  <1>2. TypeOK'
    BY <1>1 DEF IInv, TypeOK
  <1>3. ASSUME NEW k \in Clients PROVE Good(k)'
    <2>1. sub'[k] = IF k \in full[w] \cap Registered THEN "dropped" ELSE sub[k]
      BY <1>1
    <2>2. CASE k \in full[w] /\ sub[k] = "open"
      <3>1. sub'[k] = "dropped"
        BY <2>1, <2>2 DEF Registered
      <3> QED BY <1>1, <3>1, GoodStill DEF IInv, Covers
    <2>3. CASE k \notin full[w]
      <3>1. \A v \in Writers : k \in full[v] => k \in full'[v]
        BY <1>1, <2>3 DEF IInv, TypeOK
      <3>2. sub'[k] = sub[k]
        BY <2>1, <2>3
      <3>3. Covers(k)'
        BY <1>1, <3>1, <3>2, CoversStill DEF IInv, Good
      <3> QED BY <1>1, <3>2, <3>3, GoodStill DEF IInv
    <2>4. CASE sub[k] # "open"
      <3>1. sub'[k] = sub[k]
        BY <2>1, <2>4 DEF Registered
      <3>2. At(k, "live") => sub[k] = "dropped"
        BY <2>4 DEF IInv, Good, Subscribed, TypeOK
      <3>3. Covers(k)'
        BY <1>1, <3>1, <3>2 DEF Covers, At
      <3> QED BY <1>1, <3>1, <3>3, GoodStill DEF IInv
    <2> QED BY <2>2, <2>3, <2>4
  <1>4. Slots'
    BY <1>1, SlotsKept DEF IInv
  <1> QED BY <1>2, <1>3, <1>4 DEF IInv

-----------------------------------------------------------------------------
(* Steps of one client's handler *)

\* The others do not notice a handler's own step.
LEMMA OthersStill ==
    ASSUME IInv, NEW k \in Clients, NEW j \in Clients, j # k,
           conn'[j] = conn[j], got'[j] = got[j], sub'[j] = sub[j], ch'[j] = ch[j],
           UNCHANGED <<count, remote, pub>>,
           \A w \in Writers : j \in full[w] => j \in full'[w]
    PROVE  Good(j)'
  BY CoversStill, GoodStill DEF IInv, Good

\* Writing an event above the last one keeps the order, and makes it the last.
LEMMA WriteFacts ==
    ASSUME IInv, NEW k \in Clients, NEW id \in Nat, Last(k) < id, Write(k, id)
    PROVE  /\ got' \in [Clients -> Seq(Nat)] /\ InOrder(k)' /\ Last(k)' = id
           /\ \A j \in Clients : j # k => got'[j] = got[j]
  <1> DEFINE s == got[k]
             t == Append(s, id)
  <1>1. s \in Seq(Nat) /\ got \in [Clients -> Seq(Nat)]
    BY DEF IInv, TypeOK
  <1>2. /\ t \in Seq(Nat) /\ t # <<>> /\ Len(s) \in Nat /\ Len(t) = Len(s) + 1
        /\ \A i \in 1..Len(s) : t[i] = s[i]
        /\ t[Len(s) + 1] = id
        /\ DOMAIN s = 1..Len(s) /\ DOMAIN t = 1..(Len(s) + 1)
    BY <1>1, AppendFacts
  <1>3. got'[k] = t /\ got' \in [Clients -> Seq(Nat)] /\ \A j \in Clients : j # k => got'[j] = got[j]
    BY <1>1, <1>2 DEF Write
  <1>4. \A i \in 1..Len(s) : s[i] \in Nat
    BY <1>1, <1>2
  <1> HIDE DEF t
  <1>5. Last(k)' = id
    BY <1>2, <1>3 DEF Last
  <1>6. \A i \in 1..Len(s) : s[i] < id
    <2> SUFFICES ASSUME NEW i \in 1..Len(s) PROVE s[i] < id
      OBVIOUS
    <2>1. s # <<>> /\ Len(s) \in 1..Len(s)
      BY <1>1, <1>2
    <2>2. Last(k) = s[Len(s)]
      BY <2>1 DEF Last
    <2>3. i < Len(s) => s[i] < s[Len(s)]
      BY <1>2, <2>1 DEF IInv, Good, InOrder
    <2>4. i = Len(s) \/ i < Len(s)
      BY <1>2
    <2> QED BY <1>4, <2>1, <2>2, <2>3, <2>4
  <1>7. ASSUME NEW i \in 1..(Len(s) + 1), NEW j \in 1..(Len(s) + 1), i < j PROVE t[i] < t[j]
    <2>1. i \in 1..Len(s) /\ t[i] = s[i]
      BY <1>2, <1>7
    <2>2. CASE j = Len(s) + 1
      BY <1>2, <1>6, <2>1, <2>2
    <2>3. CASE j # Len(s) + 1
      <3>1. j \in 1..Len(s) /\ t[j] = s[j]
        BY <1>2, <1>7, <2>3
      <3> QED BY <1>2, <1>7, <2>1, <3>1 DEF IInv, Good, InOrder
    <2> QED BY <2>2, <2>3
  <1>8. InOrder(k)'
    BY <1>2, <1>3, <1>7 DEF InOrder
  <1> QED BY <1>3, <1>5, <1>8

\* From its subscription on, a stream misses no event of this process.
LEMMA SubscribeIInv == ASSUME IInv, NEW k \in Clients, Subscribe(k) PROVE IInv'
  <1> DEFINE x == [conn[k] EXCEPT !.pc = "replay"]
  <1>1. conn \in [Clients -> Conn] /\ conn[k] \in Conn /\ conn[k].pc = "slot"
    BY DEF Subscribe, IInv, TypeOK, At
  <1>2. x \in Conn /\ x.pc = "replay" /\ x.since = conn[k].since /\ x.page = conn[k].page
        /\ x.start = conn[k].start /\ x.lease = conn[k].lease
    BY <1>1 DEF Conn
  <1>3. /\ UNCHANGED <<clock, shared, count, remote, pub, full, ch, got, leases, opens>>
        /\ sub' = [sub EXCEPT ![k] = "open"] /\ conn' = [conn EXCEPT ![k] = x]
    BY DEF Subscribe, db, slots
  <1> HIDE DEF x
  <1>4. conn' \in [Clients -> Conn] /\ \A j \in Clients : conn'[j] = IF j = k THEN x ELSE conn[j]
    BY <1>1, <1>2, <1>3
  <1>5. \A j \in Clients : sub'[j] = IF j = k THEN "open" ELSE sub[j]
    BY <1>3 DEF IInv, TypeOK
  <1>6. TypeOK'
    BY <1>3, <1>4 DEF IInv, TypeOK
  <1>7. Good(k)'
    BY <1>1, <1>2, <1>3, <1>4, <1>5
       DEF IInv, Good, Cursor, Subscribed, InOrder, Covers, At, Last
  <1>8. \A j \in Clients : j # k => Good(j)'
    BY <1>3, <1>4, <1>5, OthersStill
  <1>9. Slots'
    BY <1>1, <1>2, <1>3, <1>4, SlotsKept DEF IInv
  <1> QED BY <1>6, <1>7, <1>8, <1>9 DEF IInv

\* A page holds the events after the cursor, in order.
LEMMA ReplayPageIInv == ASSUME IInv, NEW k \in Clients, ReplayPage(k) PROVE IInv'
  <1> DEFINE from == conn[k].since
             to == IF count < from + Limit THEN count ELSE from + Limit
             page == Interval(from, to)
             pc == IF to < from + Limit THEN "live" ELSE "replay"
             x == [conn[k] EXCEPT !.page = page, !.pc = pc]
  <1>1. conn \in [Clients -> Conn] /\ conn[k] \in Conn /\ conn[k].pc = "replay"
        /\ from \in Nat /\ count \in Nat /\ Limit \in Nat \ {0} /\ to \in Nat
    BY StreamNumbersAssumption DEF ReplayPage, IInv, TypeOK, At, Conn
  <1>2. to < from + Limit => to = count
    BY <1>1
  <1> HIDE DEF to
  <1>3. /\ page \in Seq(Nat) /\ \A i \in DOMAIN page : page[i] = from + i
        /\ \A e \in Nat : from < e /\ e <= to => Holds(page, e)
    BY <1>1, IntervalFacts
  <1> HIDE DEF page
  <1>4. x \in Conn /\ x.pc = pc /\ x.since = from /\ x.page = page
        /\ x.start = conn[k].start /\ x.lease = conn[k].lease
    BY <1>1, <1>3 DEF Conn
  <1>5. /\ UNCHANGED <<clock, shared, count, remote, pub, full, sub, ch, got, leases, opens>>
        /\ conn' = [conn EXCEPT ![k] = x]
    BY DEF ReplayPage, db, hub, slots, to, page
  <1> HIDE DEF x
  <1>6. conn' \in [Clients -> Conn] /\ \A j \in Clients : conn'[j] = IF j = k THEN x ELSE conn[j]
    BY <1>1, <1>4, <1>5
  <1>7. TypeOK'
    BY <1>5, <1>6 DEF IInv, TypeOK
  <1>8. Good(k)'
    <2>1. ASSUME NEW e \in 1..count, x.pc = "live" PROVE Covered(k, e)'
      <3>1. to = count
        BY <1>2, <1>4, <2>1
      <3>2. CASE e <= from
        BY <1>4, <1>6, <3>2 DEF Covered
      <3>3. CASE from < e
        BY <1>1, <1>3, <1>4, <1>6, <3>1, <3>3 DEF Covered
      <3> QED BY <1>1, <3>2, <3>3
    <2>2. Covers(k)'
      BY <1>5, <1>6, <2>1 DEF Covers, At
    <2>3. Cursor(k)' /\ Subscribed(k)' /\ InOrder(k)'
      BY <1>1, <1>3, <1>4, <1>5, <1>6 DEF IInv, Good, Cursor, Subscribed, InOrder, At, Last
    <2> QED BY <2>2, <2>3 DEF Good
  <1>9. \A j \in Clients : j # k => Good(j)'
    BY <1>5, <1>6, OthersStill
  <1>10. Slots'
    BY <1>1, <1>4, <1>5, <1>6, SlotsKept DEF IInv
  <1> QED BY <1>7, <1>8, <1>9, <1>10 DEF IInv

\* Writing a page moves the cursor to the last event written.
LEMMA WritePageIInv == ASSUME IInv, NEW k \in Clients, WritePage(k) PROVE IInv'
  <1> DEFINE page == conn[k].page
             id == Head(page)
             x == [conn[k] EXCEPT !.page = Tail(@), !.since = id]
  <1>1. conn \in [Clients -> Conn] /\ conn[k] \in Conn /\ page \in Seq(Nat) /\ page # <<>>
        /\ conn[k].since \in Nat
    BY DEF WritePage, IInv, TypeOK, Conn
  <1>2. /\ id \in Nat /\ Tail(page) \in Seq(Nat) /\ id = page[1] /\ Len(page) \in Nat \ {0}
        /\ \A i \in DOMAIN Tail(page) : Tail(page)[i] = page[i + 1] /\ i + 1 \in DOMAIN page
        /\ \A e : Holds(page, e) => e = id \/ Holds(Tail(page), e)
    BY <1>1, TailFacts
  <1>3. conn[k].pc # "off" /\ conn[k].since = Last(k) /\ id = conn[k].since + 1
    <2>1. 1 \in DOMAIN page
      BY <1>1, <1>2
    <2> QED BY <1>1, <1>2, <2>1 DEF IInv, Good, Cursor, At
  <1>4. x \in Conn /\ x.pc = conn[k].pc /\ x.since = id /\ x.page = Tail(page)
        /\ x.start = conn[k].start /\ x.lease = conn[k].lease
    BY <1>1, <1>2 DEF Conn
  <1>5. /\ UNCHANGED <<clock, shared, count, remote, pub, full, sub, ch, leases, opens>>
        /\ conn' = [conn EXCEPT ![k] = x] /\ Write(k, id)
    BY DEF WritePage, db, hub, slots
  <1> HIDE DEF x
  <1>6. conn' \in [Clients -> Conn] /\ \A j \in Clients : conn'[j] = IF j = k THEN x ELSE conn[j]
    BY <1>1, <1>4, <1>5
  <1>7. /\ got' \in [Clients -> Seq(Nat)] /\ InOrder(k)' /\ Last(k)' = id
        /\ \A j \in Clients : j # k => got'[j] = got[j]
    BY <1>1, <1>2, <1>3, <1>5, WriteFacts
  <1>8. TypeOK'
    BY <1>5, <1>6, <1>7 DEF IInv, TypeOK
  <1>9. Good(k)'
    <2>1. \A i \in DOMAIN Tail(page) : Tail(page)[i] = id + i
      <3> SUFFICES ASSUME NEW i \in DOMAIN Tail(page) PROVE Tail(page)[i] = id + i
        OBVIOUS
      <3>1. page[i + 1] = conn[k].since + (i + 1) /\ i \in Nat
        BY <1>1, <1>2 DEF IInv, Good, Cursor
      <3> QED BY <1>1, <1>2, <1>3, <3>1
    <2>2. ASSUME NEW e \in 1..count, At(k, "live"), sub[k] # "dropped" PROVE Covered(k, e)'
      <3>1. Covered(k, e) /\ e \in Nat
        BY <2>2 DEF IInv, Good, Covers, TypeOK
      <3>2. e <= conn[k].since => e <= id
        BY <1>1, <1>3, <3>1
      <3>3. e = id => e <= id
        BY <1>2
      <3> QED BY <1>2, <1>4, <1>5, <1>6, <3>1, <3>2, <3>3 DEF Covered
    <2>3. Covers(k)'
      BY <1>4, <1>5, <1>6, <2>2 DEF Covers, At
    <2>4. Cursor(k)' /\ Subscribed(k)'
      BY <1>3, <1>4, <1>5, <1>6, <1>7, <2>1 DEF IInv, Good, Cursor, Subscribed, At
    <2> QED BY <1>7, <2>3, <2>4 DEF Good
  <1>10. \A j \in Clients : j # k => Good(j)'
    BY <1>5, <1>6, <1>7, OthersStill
  <1>11. Slots'
    BY <1>4, <1>5, <1>6, SlotsKept DEF IInv
  <1> QED BY <1>8, <1>9, <1>10, <1>11 DEF IInv

\* A live event is written when its id is above the cursor, else skipped.
LEMMA ReceiveIInv == ASSUME IInv, NEW k \in Clients, Receive(k) PROVE IInv'
  <1> DEFINE id == Head(ch[k])
             x == [conn[k] EXCEPT !.since = id]
  <1>1. conn \in [Clients -> Conn] /\ conn[k] \in Conn /\ ch[k] \in Seq(Nat) /\ ch[k] # <<>>
        /\ ch \in [Clients -> Seq(Nat)]
        /\ conn[k].since \in Nat /\ conn[k].pc = "live" /\ conn[k].page = <<>>
    BY DEF Receive, IInv, TypeOK, Conn, At
  <1>2. /\ id \in Nat /\ Tail(ch[k]) \in Seq(Nat) /\ Len(Tail(ch[k])) = Len(ch[k]) - 1
        /\ Len(ch[k]) \in Nat \ {0}
        /\ \A e : Holds(ch[k], e) => e = id \/ Holds(Tail(ch[k]), e)
    BY <1>1, TailFacts
  <1>3. /\ UNCHANGED <<clock, shared, count, remote, pub, full, sub, leases, opens>>
        /\ ch' = [ch EXCEPT ![k] = Tail(@)]
    BY DEF Receive, db, slots
  <1>4. /\ ch' \in [Clients -> Seq(Nat)] /\ ch'[k] = Tail(ch[k])
        /\ \A j \in Clients : j # k => ch'[j] = ch[j]
        /\ \A j \in Clients : Len(ch'[j]) <= Buffer
    <2>1. ch' \in [Clients -> Seq(Nat)] /\ ch'[k] = Tail(ch[k])
          /\ \A j \in Clients : j # k => ch'[j] = ch[j]
      BY <1>1, <1>2, <1>3
    <2>2. Len(ch[k]) <= Buffer
      BY DEF IInv, TypeOK
    <2>3. Len(ch'[k]) <= Buffer
      BY <1>2, <2>1, <2>2, StreamNumbersAssumption
    <2> QED BY <2>1, <2>3 DEF IInv, TypeOK
  <1>5. conn[k].since = Last(k)
    BY <1>1 DEF IInv, Good, Cursor, At
  <1>6. CASE id <= conn[k].since
    <2>1. UNCHANGED <<got, conn>>
      BY <1>6 DEF Receive
    <2>2. TypeOK'
      BY <1>3, <1>4, <2>1 DEF IInv, TypeOK
    <2>3. ASSUME NEW e \in 1..count, sub[k] # "dropped" PROVE Covered(k, e)'
      <3>1. Covered(k, e)
        BY <1>1, <2>3 DEF IInv, Good, Covers, At
      <3> QED BY <1>2, <1>3, <1>4, <1>6, <2>1, <3>1 DEF Covered
    <2>4. Covers(k)'
      BY <1>3, <2>1, <2>3 DEF Covers, At
    <2>5. Good(k)'
      BY <1>3, <2>1, <2>4, GoodStill DEF IInv
    <2>6. \A j \in Clients : j # k => Good(j)'
      BY <1>3, <1>4, <2>1, OthersStill
    <2>7. Slots'
      BY <1>3, <2>1, SlotsKept DEF IInv
    <2> QED BY <2>2, <2>5, <2>6, <2>7 DEF IInv
  <1>7. CASE id > conn[k].since
    <2>1. x \in Conn /\ x.pc = "live" /\ x.since = id /\ x.page = <<>>
          /\ x.start = conn[k].start /\ x.lease = conn[k].lease
      BY <1>1, <1>2 DEF Conn
    <2>2. conn' = [conn EXCEPT ![k] = x] /\ Write(k, id)
      <3>1. ~(id <= conn[k].since)
        BY <1>1, <1>2, <1>7
      <3> QED BY <3>1 DEF Receive
    <2> HIDE DEF x
    <2>3. conn' \in [Clients -> Conn] /\ \A j \in Clients : conn'[j] = IF j = k THEN x ELSE conn[j]
      BY <1>1, <2>1, <2>2
    <2>4. /\ got' \in [Clients -> Seq(Nat)] /\ InOrder(k)' /\ Last(k)' = id
          /\ \A j \in Clients : j # k => got'[j] = got[j]
      BY <1>1, <1>2, <1>5, <1>7, <2>2, WriteFacts
    <2>5. TypeOK'
      BY <1>3, <1>4, <2>3, <2>4 DEF IInv, TypeOK
    <2>6. ASSUME NEW e \in 1..count, sub[k] # "dropped" PROVE Covered(k, e)'
      <3>1. Covered(k, e) /\ e \in Nat
        BY <1>1, <2>6 DEF IInv, Good, Covers, At, TypeOK
      <3>2. e <= conn[k].since \/ e = id => e <= id
        BY <1>1, <1>2, <1>7, <3>1
      <3>3. ~Holds(<<>>, e)
        BY DEF Holds
      <3> QED BY <1>1, <1>2, <1>3, <1>4, <2>1, <2>3, <3>1, <3>2, <3>3 DEF Covered
    <2>7. Covers(k)'
      BY <1>3, <2>1, <2>3, <2>6 DEF Covers, At
    <2>8. Cursor(k)' /\ Subscribed(k)'
      BY <1>1, <1>3, <2>1, <2>3, <2>4 DEF IInv, Good, Cursor, Subscribed, At
    <2>9. Good(k)'
      BY <2>4, <2>7, <2>8 DEF Good
    <2>10. \A j \in Clients : j # k => Good(j)'
      BY <1>3, <1>4, <2>3, <2>4, OthersStill
    <2>11. Slots'
      BY <1>1, <1>3, <2>1, <2>3, SlotsKept DEF IInv
    <2> QED BY <2>5, <2>9, <2>10, <2>11 DEF IInv
  <1> QED BY <1>1, <1>2, <1>6, <1>7

-----------------------------------------------------------------------------
(* Streams open and end *)

\* A client without a stream.
LEMMA OffFacts == Off \in Conn /\ Off.pc = "off" /\ Off.page = <<>>
  BY DEF Off, Conn

\* A client without a stream has nothing to be good about but what it was sent.
LEMMA OffGood ==
    ASSUME NEW k \in Clients, Good(k), conn'[k] = Off, got'[k] = got[k]
    PROVE  Good(k)'
  <1>1. Cursor(k)' /\ Subscribed(k)' /\ Covers(k)'
    BY OffFacts DEF Cursor, Subscribed, Covers, At
  <1>2. InOrder(k)'
    BY DEF Good, InOrder
  <1> QED BY <1>1, <1>2 DEF Good

\* A stream takes its slot before it subscribes.
LEMMA ConnectIInv == ASSUME IInv, NEW k \in Clients, Connect(k) PROVE IInv'
  <1> DEFINE id == NewLease
             new == [id |-> id, exp |-> clock + LeaseTTL]
             x == [Off EXCEPT !.pc = "slot", !.since = Last(k), !.start = clock, !.lease = id]
  <1>1. /\ id \in Nat /\ clock \in Nat /\ LeaseTTL \in Nat /\ conn \in [Clients -> Conn]
        /\ conn[k].pc = "off" /\ opens \in Nat /\ leases \subseteq Lease
        /\ \A l \in leases : l.id # id
        /\ \A j \in Clients : conn[j].lease # id
    BY NewLeaseFacts, StreamNumbersAssumption DEF IInv, Slots, TypeOK, Connect, At
  <1>2. Last(k) \in Nat
    <2>1. got[k] \in Seq(Nat)
      BY DEF IInv, TypeOK
    <2> QED BY <2>1 DEF Last
  <1>3. /\ UNCHANGED <<clock, shared, count, remote, pub, full, sub, ch, got>>
        /\ leases' = Counted \cup {new} /\ opens' = opens + 1 /\ conn' = [conn EXCEPT ![k] = x]
        /\ Cardinality(Counted) < MaxActive
    BY DEF Connect, MayOpen, db, hub
  <1> HIDE DEF id
  <1>4. x \in Conn /\ x.pc = "slot" /\ x.since = Last(k) /\ x.page = <<>> /\ x.start = clock
        /\ x.lease = id
    BY <1>1, <1>2, OffFacts DEF Conn
  <1> HIDE DEF x
  <1>5. conn' \in [Clients -> Conn] /\ \A j \in Clients : conn'[j] = IF j = k THEN x ELSE conn[j]
    BY <1>1, <1>3, <1>4
  <1>6. new \in Lease /\ new.id = id /\ new.exp = clock + LeaseTTL
    BY <1>1 DEF Lease
  <1> HIDE DEF new
  <1>7. TypeOK'
    <2>1. leases' \subseteq Lease
      BY <1>1, <1>3, <1>6 DEF Counted
    <2> QED BY <1>1, <1>3, <1>5, <2>1 DEF IInv, TypeOK
  <1>8. Good(k)'
    BY <1>3, <1>4, <1>5 DEF IInv, Good, Cursor, Subscribed, InOrder, Covers, At, Last
  <1>9. \A j \in Clients : j # k => Good(j)'
    BY <1>3, <1>5, OthersStill
  <1>10. Slots'
    <2>1. Streaming' = Streaming \cup {k} /\ k \notin Streaming /\ Streaming \subseteq Clients
      BY <1>1, <1>4, <1>5 DEF Streaming
    <2>2. IsFiniteSet(Counted) /\ Cardinality(Counted) \in Nat
      <3>1. Counted \in SUBSET leases
        BY DEF Counted
      <3>2. IsFiniteSet(Counted)
        BY <3>1, FS_Subset DEF IInv, Slots
      <3> QED BY <3>2, FS_CardinalityType
    <2>3. IsFiniteSet(leases') /\ Cardinality(leases') <= Cardinality(Counted) + 1
          /\ Cardinality(leases') \in Nat
      <3>1. IsFiniteSet(leases') /\ (Cardinality(leases') = Cardinality(Counted)
                                     \/ Cardinality(leases') = Cardinality(Counted) + 1)
        BY <1>3, <2>2, FS_AddElement
      <3> QED BY <2>2, <3>1
    <2>4. Cardinality(Counted') <= MaxActive
      <3>1. Counted' \in SUBSET leases'
        BY DEF Counted
      <3>2. IsFiniteSet(Counted') /\ Cardinality(Counted') <= Cardinality(leases')
        BY <2>3, <3>1, FS_Subset
      <3>3. Cardinality(Counted') \in Nat
        BY <3>2, FS_CardinalityType
      <3> QED BY <1>3, <2>2, <2>3, <3>2, <3>3, StreamNumbersAssumption
    <2>5. \A i, j \in Streaming' : conn'[i].lease = conn'[j].lease => i = j
      BY <1>1, <1>4, <1>5, <2>1 DEF IInv, Slots
    <2>6. ASSUME NEW j \in Streaming', clock' < conn'[j].start + LeaseTTL
          PROVE  \E l \in leases' : l.id = conn'[j].lease /\ l.exp = conn'[j].start + LeaseTTL
      <3>1. CASE j = k
        BY <1>3, <1>4, <1>5, <1>6, <3>1
      <3>2. CASE j # k
        <4>1. j \in Streaming /\ conn'[j] = conn[j]
          BY <1>5, <2>1, <3>2
        <4>2. PICK l \in leases : l.id = conn[j].lease /\ l.exp = conn[j].start + LeaseTTL
          BY <1>3, <2>6, <4>1 DEF IInv, Slots
        <4>3. l.exp > clock
          BY <1>1, <1>3, <2>1, <2>6, <4>1, <4>2 DEF Conn
        <4> QED BY <1>3, <4>1, <4>2, <4>3 DEF Counted
      <3> QED BY <3>1, <3>2
    <2>7. ~shared => {l.id : l \in leases'} = {conn'[j].lease : j \in Streaming'}
      <3> SUFFICES ASSUME ~shared
                   PROVE  {l.id : l \in leases'} = {conn'[j].lease : j \in Streaming'}
        OBVIOUS
      <3>1. Counted = leases
        BY DEF Counted
      <3>2. {l.id : l \in leases'} = {l.id : l \in leases} \cup {id}
        BY <1>3, <1>6, <3>1
      <3>3. {conn'[j].lease : j \in Streaming'} = {conn[j].lease : j \in Streaming} \cup {id}
        BY <1>4, <1>5, <2>1
      <3> QED BY <3>2, <3>3 DEF IInv, Slots
    <2> QED BY <1>3, <2>3, <2>4, <2>5, <2>6, <2>7 DEF Slots
  <1> QED BY <1>7, <1>8, <1>9, <1>10 DEF IInv

\* A stream ends, and its slot is given back unless the DELETE fails.
LEMMA ReturnIInv ==
    ASSUME IInv, NEW k \in Clients, Return(k) \/ ReturnKeepingLease(k)
    PROVE  IInv'
  <1>1. conn \in [Clients -> Conn] /\ conn[k].pc # "off"
    BY DEF IInv, TypeOK, Return, ReturnKeepingLease, At
  <1>2. /\ UNCHANGED <<clock, shared, count, remote, pub, got, opens>>
        /\ conn' = [conn EXCEPT ![k] = Off] /\ sub' = [sub EXCEPT ![k] = "none"]
        /\ ch' = [ch EXCEPT ![k] = <<>>] /\ full' = [w \in Writers |-> full[w] \ {k}]
        /\ leases' = Released(k) \/ (shared /\ leases' = leases)
    BY DEF Return, ReturnKeepingLease, db, slots
  <1>3. conn' \in [Clients -> Conn] /\ \A j \in Clients : conn'[j] = IF j = k THEN Off ELSE conn[j]
    BY <1>1, <1>2, OffFacts
  <1>4. /\ leases' \in SUBSET leases
        /\ \A l \in leases : l.id # conn[k].lease => l \in leases'
        /\ ~shared => leases' = {l \in leases : l.id # conn[k].lease}
    BY <1>2 DEF Released
  <1>5. TypeOK'
    <2>1. ch' \in [Clients -> Seq(Nat)] /\ \A j \in Clients : ch'[j] = IF j = k THEN <<>> ELSE ch[j]
      BY <1>2 DEF IInv, TypeOK
    <2>2. Len(<<>>) <= Buffer
      BY StreamNumbersAssumption
    <2>3. \A j \in Clients : Len(ch'[j]) <= Buffer
      BY <2>1, <2>2 DEF IInv, TypeOK
    <2>4. full' \in [Writers -> SUBSET Clients]
      BY <1>2 DEF IInv, TypeOK
    <2> QED BY <1>2, <1>3, <1>4, <2>1, <2>3, <2>4 DEF IInv, TypeOK
  <1>6. Good(k)'
    BY <1>2, <1>3, OffGood DEF IInv
  <1>7. \A j \in Clients : j # k => Good(j)'
    <2> SUFFICES ASSUME NEW j \in Clients, j # k PROVE Good(j)'
      OBVIOUS
    <2>1. sub'[j] = sub[j] /\ ch'[j] = ch[j] /\ conn'[j] = conn[j] /\ got'[j] = got[j]
      BY <1>2, <1>3 DEF IInv, TypeOK
    <2>2. \A w \in Writers : j \in full[w] => j \in full'[w]
      BY <1>2
    <2> QED BY <1>2, <2>1, <2>2, OthersStill
  <1>8. Slots'
    <2>1. Streaming' = Streaming \ {k} /\ k \in Streaming /\ Streaming \subseteq Clients
      BY <1>1, <1>3, OffFacts DEF Streaming
    <2>2. IsFiniteSet(leases) /\ IsFiniteSet(leases')
      BY <1>4, FS_Subset DEF IInv, Slots
    <2>3. Cardinality(Counted') <= MaxActive
      <3>1. Counted' \in SUBSET Counted /\ Counted \in SUBSET leases
        BY <1>2, <1>4 DEF Counted
      <3>2. IsFiniteSet(Counted)
        BY <2>2, <3>1, FS_Subset
      <3>3. IsFiniteSet(Counted') /\ Cardinality(Counted') <= Cardinality(Counted)
        BY <3>1, <3>2, FS_Subset
      <3>4. Cardinality(Counted') \in Nat /\ Cardinality(Counted) \in Nat
        BY <3>2, <3>3, FS_CardinalityType
      <3> QED BY <3>3, <3>4, StreamNumbersAssumption DEF IInv, Slots
    <2>4. \A j \in Streaming' : j \in Streaming /\ conn'[j] = conn[j] /\ conn[j].lease # conn[k].lease
      BY <1>3, <2>1 DEF IInv, Slots
    <2>5. \A i, j \in Streaming' : conn'[i].lease = conn'[j].lease => i = j
      BY <2>4 DEF IInv, Slots
    <2>6. ASSUME NEW j \in Streaming', clock' < conn'[j].start + LeaseTTL
          PROVE  \E l \in leases' : l.id = conn'[j].lease /\ l.exp = conn'[j].start + LeaseTTL
      <3>1. PICK l \in leases : l.id = conn[j].lease /\ l.exp = conn[j].start + LeaseTTL
        BY <1>2, <2>4, <2>6 DEF IInv, Slots
      <3> QED BY <1>4, <2>4, <3>1
    <2>7. ~shared => {l.id : l \in leases'} = {conn'[j].lease : j \in Streaming'}
      <3> SUFFICES ASSUME ~shared
                   PROVE  {l.id : l \in leases'} = {conn'[j].lease : j \in Streaming'}
        OBVIOUS
      <3>1. {l.id : l \in leases'} = {l.id : l \in leases} \ {conn[k].lease}
        BY <1>4
      <3>2. {conn'[j].lease : j \in Streaming'} = {conn[j].lease : j \in Streaming} \ {conn[k].lease}
        <4>1. \A j \in Streaming : j # k => j \in Streaming'
          BY <2>1
        <4> QED BY <2>4, <4>1
      <3> QED BY <3>1, <3>2 DEF IInv, Slots
    <2> QED BY <1>2, <2>2, <2>3, <2>5, <2>6, <2>7 DEF Slots
  <1> QED BY <1>5, <1>6, <1>7, <1>8 DEF IInv

\* A crash ends the streams of the process; their leases stay.
LEMMA CrashIInv == ASSUME IInv, Crash PROVE IInv'
  <1>1. /\ UNCHANGED <<clock, shared, count, remote, got>>
        /\ pub' = [w \in Writers |-> <<>>] /\ full' = [w \in Writers |-> {}]
        /\ conn' = [k \in Clients |-> Off] /\ sub' = [k \in Clients |-> "none"]
        /\ ch' = [k \in Clients |-> <<>>]
        /\ leases' = (IF shared THEN leases ELSE {}) /\ opens' = (IF shared THEN opens ELSE 0)
    BY DEF Crash, db
  <1>2. TypeOK'
    <2>1. Len(<<>>) <= Buffer /\ <<>> \in Seq(Nat)
      BY StreamNumbersAssumption
    <2>2. ch' \in [Clients -> Seq(Nat)] /\ \A k \in Clients : Len(ch'[k]) <= Buffer
      BY <1>1, <2>1
    <2>3. conn' \in [Clients -> Conn]
      BY <1>1, OffFacts
    <2>4. pub' \in [Writers -> Seq(Nat)] /\ full' \in [Writers -> SUBSET Clients]
          /\ sub' \in [Clients -> {"none", "open", "dropped"}]
      BY <1>1, <2>1
    <2>5. leases' \subseteq Lease /\ opens' \in Nat
      BY <1>1 DEF IInv, TypeOK
    <2> QED BY <1>1, <2>2, <2>3, <2>4, <2>5 DEF IInv, TypeOK
  <1>3. \A k \in Clients : Good(k)'
    BY <1>1, OffGood DEF IInv
  <1>4. Slots'
    <2>1. Streaming' = {}
      BY <1>1, OffFacts DEF Streaming
    <2>2. CASE shared
      <3>1. leases' = leases /\ Counted' = Counted
        BY <1>1, <2>2 DEF Counted
      <3> QED BY <1>1, <2>1, <2>2, <3>1 DEF IInv, Slots
    <2>3. CASE ~shared
      <3>1. leases' = {} /\ Counted' = {}
        BY <1>1, <2>3 DEF Counted
      <3>2. IsFiniteSet({}) /\ Cardinality({}) = 0
        BY FS_EmptySet
      <3> QED BY <2>1, <3>1, <3>2, StreamNumbersAssumption DEF Slots
    <2> QED BY <2>2, <2>3
  <1> QED BY <1>2, <1>3, <1>4 DEF IInv

-----------------------------------------------------------------------------
\* A room without events and streams.
LEMMA InitIInv == Init => IInv
  <1> SUFFICES ASSUME Init PROVE IInv
    OBVIOUS
  <1>1. Len(<<>>) <= Buffer /\ <<>> \in Seq(Nat)
    BY StreamNumbersAssumption
  <1>2. TypeOK
    <2>1. ch \in [Clients -> Seq(Nat)] /\ \A k \in Clients : Len(ch[k]) <= Buffer
      BY <1>1 DEF Init
    <2>2. pub \in [Writers -> Seq(Nat)] /\ got \in [Clients -> Seq(Nat)]
      BY <1>1 DEF Init
    <2> QED BY <2>1, <2>2, OffFacts DEF Init, TypeOK
  <1>3. ASSUME NEW k \in Clients PROVE Good(k)
    <2>1. conn[k] = Off /\ got[k] = <<>>
      BY DEF Init
    <2> QED BY <2>1, OffFacts DEF Good, Cursor, Subscribed, InOrder, Covers, At
  <1>4. Slots
    <2>1. Streaming = {} /\ Counted = {} /\ leases = {}
      BY OffFacts DEF Init, Streaming, Counted
    <2>2. IsFiniteSet({}) /\ Cardinality({}) = 0
      BY FS_EmptySet
    <2> QED BY <2>1, <2>2, StreamNumbersAssumption DEF Slots
  <1> QED BY <1>2, <1>3, <1>4 DEF IInv

\* The invariant is inductive.
LEMMA NextIInv == IInv /\ [Next]_vars => IInv'
  <1> SUFFICES ASSUME IInv, [Next]_vars PROVE IInv'
    OBVIOUS
  <1>1. CASE UNCHANGED vars
    <2>1. TypeOK'
      BY <1>1 DEF IInv, TypeOK, vars
    <2>2. \A k \in Clients : Good(k)'
      BY <1>1, CoversStill, GoodStill DEF IInv, Good, vars
    <2>3. Slots'
      BY <1>1, SlotsKept DEF IInv, vars
    <2> QED BY <2>1, <2>2, <2>3 DEF IInv
  <1>2. ASSUME NEW w \in Writers, Publishing(w) PROVE IInv'
    BY <1>2, PublishIInv, DropFullIInv DEF Publishing
  <1>3. ASSUME NEW k \in Clients, Handler(k) PROVE IInv'
    BY <1>3, SubscribeIInv, ReplayPageIInv, WritePageIInv, ReceiveIInv DEF Handler
  <1>4. ASSUME NEW k \in Clients, ConnectDenied(k) PROVE IInv'
    BY <1>1, <1>4 DEF ConnectDenied
  <1> QED BY <1>1, <1>2, <1>3, <1>4, TickIInv, CommitIInv, CommitElsewhereIInv, ConnectIInv,
             ReturnIInv, CrashIInv DEF Next

\* So it holds throughout.
LEMMA Invariance == Spec => []IInv
  BY InitIInv, NextIInv, PTL DEF Spec

\* Handlers, subscriptions, channels and slots keep their types, and no channel exceeds
\* its capacity.
THEOREM StreamTypeCorrect == Spec => []TypeOK
  <1>1. IInv => TypeOK
    BY DEF IInv
  <1> QED BY <1>1, Invariance, PTL

\* handleRoomEvents sends a client events in order and once through replay, live part
\* and reconnects, for any number of clients, writers, crashes and dropped streams.
THEOREM SentInOrderOnce == Spec => []InOrderOnce
  <1>1. IInv => InOrderOnce
    BY DEF IInv, Good, InOrder, InOrderOnce
  <1> QED BY <1>1, Invariance, PTL

\* Subscribing before the replay leaves no gap: what a live stream of roomEventHub has
\* not sent is on its way, or the stream is about to end.
THEOREM NoGapBeforeLive == Spec => []LiveCoversLog
  <1>1. IInv => LiveCoversLog
    BY DEF IInv, Good, Covers, Covered, LiveCoversLog
  <1> QED BY <1>1, Invariance, PTL

\* acquireStreamSlot and AcquireRoomEventStreamLease keep the streams younger than a
\* lease within the limit, and a process that counts for itself loses no slot.
THEOREM SlotsAccounted == Spec => []SlotPerStream
  <1> DEFINE young == {k \in Streaming : clock < conn[k].start + LeaseTTL}
  <1>1. ASSUME IInv PROVE Cardinality(young) <= MaxActive
    <2> DEFINE f == [k \in young |-> conn[k].lease]
               T == {l.id : l \in Counted}
    <2>1. Counted \in SUBSET leases /\ IsFiniteSet(leases)
      BY <1>1 DEF IInv, Slots, Counted
    <2>2. IsFiniteSet(Counted)
      BY <2>1, FS_Subset
    <2>3. IsFiniteSet(T) /\ Cardinality(T) <= Cardinality(Counted)
      BY <2>2, IdsBounded
    <2>4. \A k \in young : conn[k].lease \in T
      <3> SUFFICES ASSUME NEW k \in young PROVE conn[k].lease \in T
        OBVIOUS
      <3>1. k \in Streaming /\ clock < conn[k].start + LeaseTTL
        OBVIOUS
      <3>2. PICK l \in leases : l.id = conn[k].lease /\ l.exp = conn[k].start + LeaseTTL
        BY <1>1, <3>1 DEF IInv, Slots
      <3>3. l.exp > clock
        BY <1>1, <3>1, <3>2, StreamNumbersAssumption DEF IInv, TypeOK, Conn, Streaming
      <3> QED BY <3>2, <3>3 DEF Counted
    <2>5. f \in Injection(young, T)
      <3>1. \A k, j \in young : conn[k].lease = conn[j].lease => k = j
        BY <1>1 DEF IInv, Slots
      <3>2. f \in [young -> T]
        BY <2>4
      <3> QED BY <3>1, <3>2 DEF Injection, IsInjective
    <2>6. IsFiniteSet(young) /\ Cardinality(young) <= Cardinality(T)
      BY <2>3, <2>5, FS_Injection
    <2> HIDE DEF young, T
    <2>7. Cardinality(young) \in Nat /\ Cardinality(T) \in Nat /\ Cardinality(Counted) \in Nat
      BY <2>2, <2>3, <2>6, FS_CardinalityType
    <2>8. Cardinality(Counted) <= MaxActive /\ MaxActive \in Nat
      BY <1>1, StreamNumbersAssumption DEF IInv, Slots
    <2> QED BY <2>3, <2>6, <2>7, <2>8
  <1>2. IInv => SlotPerStream
    <2>1. IInv => \A k \in Streaming :
             clock < conn[k].start + LeaseTTL => \E l \in leases : l.id = conn[k].lease
      BY DEF IInv, Slots
    <2> QED BY <1>1, <2>1 DEF SlotPerStream, IInv, Slots
  <1> QED BY <1>2, Invariance, PTL
=============================================================================
