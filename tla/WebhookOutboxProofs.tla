------------------------ MODULE WebhookOutboxProofs ------------------------
(***************************************************************************)
(* For any number of workers, lanes, rows and faults, and any settings of  *)
(* the worker, a lane is delivered in order and a row is settled for a     *)
(* reason.                                                                 *)
(***************************************************************************)
EXTENDS WebhookOutbox, FiniteSetTheorems, TLAPS

Claimed(i) == \E w \in Workers : \E d \in worker[w].todo : d.id = i

\* Rows are created in id order, and nothing happens to one that is not created.
CreatedInOrder ==
    \A i, j \in Ids :
        /\ i < j /\ rows[j].status # "none" => rows[i].status # "none"
        /\ rows[i].status = "none" => seen[i] = {} /\ ~Claimed(i)

\* A settled row has been marked so.
SettledIsSeen == \A i \in Ids : Settled(rows[i]) => "settled" \in seen[i]

\* A row that was sent, or that some worker is about to send, has only settled or
\* deleted rows before it.
LaneInOrder ==
    \A i, j \in Ids :
        i < j /\ rows[i].lane = rows[j].lane /\ ("received" \in seen[j] \/ Claimed(j)) =>
            "settled" \in seen[i] \/ rows[i].status = "gone"

\* A claim's attempt number is at most the row's.
ClaimIsOld ==
    \A w \in Workers : \A d \in worker[w].todo :
        rows[d.id].status = "gone" \/ d.attempts <= rows[d.id].attempts

\* The outcome a worker holds is what the endpoint answered for its current claim.
OutcomeIsTrue ==
    \A w \in Workers :
        /\ worker[w].todo = {} => worker[w].outcome = "none"
        /\ \A d \in worker[w].todo : Current(w, d) =>
             /\ worker[w].outcome = "ok" => "accepted" \in seen[d.id]
             /\ worker[w].outcome = "rejected" => "rejected" \in seen[d.id]

IInv ==
    /\ TypeOK /\ CreatedInOrder /\ SettledIsSeen /\ LaneInOrder
    /\ ClaimIsOld /\ OutcomeIsTrue /\ SettledForAReason

-----------------------------------------------------------------------------
\* A power of two is a natural number: it counts the subsets of 1..n.
LEMMA PowerType ==
    ASSUME NEW n \in Nat
    PROVE  2^n \in Nat
<1>1. IsFiniteSet(1..n) /\ Cardinality(1..n) = n
  BY FS_Interval
<1>2. IsFiniteSet(SUBSET (1..n)) /\ Cardinality(SUBSET (1..n)) = 2^n
  BY <1>1, FS_SUBSET
<1>3. QED
  BY <1>2, FS_CardinalityType

\* Every retry delay is a natural number.
LEMMA BackoffType ==
    ASSUME NEW a \in Attempts
    PROVE  Backoff(a) \in Nat /\ Jitter(Backoff(a)) \subseteq Nat
<1>0. a \in Nat
  BY RetryAssumption DEF Attempts
<1>1. CASE a <= 1
  BY <1>1, RetryAssumption DEF Backoff, Jitter
<1>2. CASE ~(a <= 1)
  <2>1. a - 1 \in Nat
    BY <1>0, <1>2
  <2>2. 2^(a - 1) \in Nat
    BY <2>1, PowerType
  <2>3. BaseBackoff * 2^(a - 1) \in Nat
    BY <2>2, RetryAssumption
  <2>4. Backoff(a) \in Nat
    BY <1>2, <2>3, RetryAssumption DEF Backoff, Min2
  <2>5. QED
    BY <2>4 DEF Jitter
<1>3. QED
  BY <1>1, <1>2

\* What recording an outcome may make of a row.
LEMMA MarkedRow ==
    ASSUME NEW row \in Row, NEW d \in Claims, NEW o \in Outcomes, NEW r \in Marked(row, d, o)
    PROVE  /\ r \in Row /\ r.lane = row.lane /\ r.attempts = row.attempts
           /\ r.status \in {"delivered", "dead_letter", "pending"}
           /\ r.status = "delivered" => o = "ok"
           /\ r.status = "dead_letter" => o = "rejected" \/ d.attempts >= MaxAttempts
<1>1. CASE o = "ok"
  <2>1. r = [row EXCEPT !.status = "delivered", !.age = 0]
    BY <1>1 DEF Marked
  <2>2. QED
    BY <1>1, <2>1 DEF Row, Statuses
<1>2. CASE o # "ok" /\ (o = "rejected" \/ (o = "failed" /\ d.attempts >= MaxAttempts))
  <2>1. r = [row EXCEPT !.status = "dead_letter", !.age = 0]
    BY <1>2 DEF Marked
  <2>2. QED
    BY <1>2, <2>1 DEF Row, Statuses
<1>3. CASE o # "ok" /\ ~(o = "rejected" \/ (o = "failed" /\ d.attempts >= MaxAttempts))
  <2>1. PICK j \in Jitter(Backoff(d.attempts)) :
          r = [row EXCEPT !.status = "pending", !.age = 0, !.wait = Backoff(d.attempts) + j]
    BY <1>3 DEF Marked
  <2>2. Backoff(d.attempts) + j \in Nat
    BY BackoffType DEF Claims
  <2>3. QED
    BY <2>1, <2>2 DEF Row, Statuses
<1>4. QED
  BY <1>1, <1>2, <1>3

\* Attempt counts are naturals, 0 among them, that stop at MaxAttempts.
LEMMA AttemptsType ==
    /\ 0 \in Attempts /\ Attempts \subseteq Nat
    /\ \A a \in Attempts : /\ Min2(a + 1, MaxAttempts) \in Attempts
                           /\ a <= Min2(a + 1, MaxAttempts)
                           /\ a >= MaxAttempts => a = MaxAttempts
BY RetryAssumption DEF Attempts, Min2

\* What a worker holds is a claim on a row.
LEMMA ClaimTyped ==
    ASSUME TypeOK, NEW w \in Workers, NEW d \in worker[w].todo
    PROVE  d \in Claims /\ d.id \in Ids /\ d.attempts \in Nat
<1>1. d \in Claims
  BY DEF TypeOK
<1>2. d.id \in Ids /\ d.attempts \in Attempts
  BY <1>1 DEF Claims
<1>3. QED
  BY <1>1, <1>2, AttemptsType

-----------------------------------------------------------------------------
\* The initial state satisfies the invariant.
LEMMA InitHolds == Init => IInv
<1> SUFFICES ASSUME Init PROVE IInv
  OBVIOUS
<1>1. (CHOOSE l \in Lanes : TRUE) \in Lanes
  BY LaneAssumption
<1>2. TypeOK
  BY <1>1, SizeAssumption, AttemptsType DEF Init, TypeOK, Row, Statuses, Outcomes, Marks, Claims
<1>3. CreatedInOrder /\ SettledIsSeen /\ LaneInOrder /\ ClaimIsOld /\ SettledForAReason
  BY DEF Init, CreatedInOrder, Claimed, SettledIsSeen, Settled, LaneInOrder, ClaimIsOld,
         SettledForAReason
<1>4. OutcomeIsTrue
  BY DEF Init, OutcomeIsTrue
<1>5. QED
  BY <1>2, <1>3, <1>4 DEF IInv

\* CreateWebhookOutbox keeps the invariant.
LEMMA CreateStep ==
    ASSUME IInv, NEW i \in Ids, NEW l \in Lanes, CreateWebhookOutbox(i, l)
    PROVE  IInv'
<1>1. /\ rows[i].status = "none" /\ \A k \in Ids : k < i => rows[k].status # "none"
      /\ rows' = [rows EXCEPT ![i].lane = l, ![i].status = "pending"]
      /\ UNCHANGED <<worker, seen, faults>>
  BY DEF CreateWebhookOutbox
<1>2. TypeOK'
  BY <1>1 DEF IInv, TypeOK, Row, Statuses
<1>3. /\ rows'[i].status = "pending"
      /\ \A k \in Ids : k # i => rows'[k] = rows[k]
  BY <1>1 DEF IInv, TypeOK, Row
<1>4. \A k \in Ids : Claimed(k)' <=> Claimed(k)
  BY <1>1 DEF Claimed
<1>5. seen[i] = {} /\ ~Claimed(i)
  BY <1>1 DEF IInv, CreatedInOrder
<1>6. CreatedInOrder'
  BY <1>1, <1>3, <1>4 DEF IInv, CreatedInOrder, Ids
<1>7. SettledIsSeen' /\ SettledForAReason'
  BY <1>1, <1>3 DEF IInv, SettledIsSeen, Settled, SettledForAReason
<1>8. LaneInOrder'
  <2> SUFFICES ASSUME NEW a \in Ids, NEW b \in Ids, a < b, rows'[a].lane = rows'[b].lane,
                      "received" \in seen'[b] \/ Claimed(b)'
               PROVE  "settled" \in seen'[a] \/ rows'[a].status = "gone"
    BY DEF LaneInOrder
  <2>1. b # i /\ rows[b].status # "none"
    BY <1>1, <1>4, <1>5 DEF IInv, CreatedInOrder
  <2>2. a # i
    BY <1>1, <2>1 DEF IInv, CreatedInOrder
  <2>3. QED
    BY <1>1, <1>3, <1>4, <2>1, <2>2 DEF IInv, LaneInOrder
<1>9. ClaimIsOld' /\ OutcomeIsTrue'
  <2>1. \A w \in Workers : \A d \in worker[w].todo : d.id \in Ids /\ d.id # i
    BY <1>5 DEF IInv, TypeOK, Claims, Claimed
  <2>2. QED
    BY <1>1, <1>3, <2>1 DEF IInv, ClaimIsOld, OutcomeIsTrue, Current
<1>10. QED
  BY <1>2, <1>6, <1>7, <1>8, <1>9 DEF IInv

\* A step that changes no worker and no history, and leaves every row as it is or
\* deletes it, or lets time pass, keeps the invariant.
LEMMA RowsOnly ==
    ASSUME IInv, UNCHANGED <<worker, seen, faults>>, rows' \in [Ids -> Row],
           \A i \in Ids : /\ rows'[i].lane = rows[i].lane
                          /\ \/ /\ rows'[i].status = rows[i].status
                                /\ rows'[i].attempts = rows[i].attempts
                             \/ rows[i].status # "none" /\ rows'[i].status = "gone"
    PROVE  IInv'
<1>1. TypeOK'
  BY DEF IInv, TypeOK
<1>2. \A k \in Ids : Claimed(k)' <=> Claimed(k)
  BY DEF Claimed
<1>3. CreatedInOrder'
  BY <1>2 DEF IInv, CreatedInOrder
<1>4. SettledIsSeen' /\ SettledForAReason'
  BY DEF IInv, SettledIsSeen, Settled, SettledForAReason
<1>5. LaneInOrder'
  BY <1>2 DEF IInv, LaneInOrder
<1>6. ClaimIsOld' /\ OutcomeIsTrue'
  BY DEF IInv, ClaimIsOld, OutcomeIsTrue, Current, TypeOK, Claims
<1>7. QED
  BY <1>1, <1>3, <1>4, <1>5, <1>6 DEF IInv

\* Deleting a lane keeps the invariant.
LEMMA DeleteStep ==
    ASSUME IInv, NEW l \in Lanes, DeleteLane(l)
    PROVE  IInv'
<1>1. /\ UNCHANGED <<worker, seen, faults>>
      /\ rows' = [i \in Ids |-> IF rows[i].lane = l /\ rows[i].status # "none"
                                THEN [rows[i] EXCEPT !.status = "gone", !.attempts = 0,
                                                     !.wait = 0, !.age = 0]
                                ELSE rows[i]]
  BY DEF DeleteLane
<1>2. rows' \in [Ids -> Row]
  <2>1. ASSUME NEW i \in Ids PROVE rows'[i] \in Row
    <3>1. rows[i] \in Row
      BY DEF IInv, TypeOK
    <3>2. [rows[i] EXCEPT !.status = "gone", !.attempts = 0, !.wait = 0, !.age = 0] \in Row
      BY <3>1, AttemptsType DEF Row, Statuses
    <3>3. QED
      BY <1>1, <3>1, <3>2
  <2>2. QED
    BY <1>1, <2>1
<1>3. \A i \in Ids : /\ rows'[i].lane = rows[i].lane
                     /\ \/ /\ rows'[i].status = rows[i].status
                           /\ rows'[i].attempts = rows[i].attempts
                        \/ rows[i].status # "none" /\ rows'[i].status = "gone"
  BY <1>1 DEF IInv, TypeOK, Row
<1>4. QED
  BY <1>1, <1>2, <1>3, RowsOnly, Zenon

\* Time passing keeps the invariant.
LEMMA TickStep ==
    ASSUME IInv, Tick
    PROVE  IInv'
<1>1. /\ UNCHANGED <<worker, seen, faults>>
      /\ rows' = [i \in Ids |-> [rows[i] EXCEPT
                    !.wait = IF @ > 0 THEN @ - 1 ELSE 0,
                    !.age = IF rows[i].status = "delivering" THEN Min2(@ + 1, Stale) ELSE @]]
  BY DEF Tick
<1>2. rows' \in [Ids -> Row]
  <2>1. ASSUME NEW i \in Ids PROVE rows'[i] \in Row
    <3> DEFINE wait == IF rows[i].wait > 0 THEN rows[i].wait - 1 ELSE 0
               age == IF rows[i].status = "delivering" THEN Min2(rows[i].age + 1, Stale)
                                                       ELSE rows[i].age
    <3>1. rows[i] \in Row
      BY DEF IInv, TypeOK
    <3>2. wait \in Nat /\ age \in Nat
      BY <3>1, RetryAssumption DEF Row, Min2
    <3>3. rows'[i] = [rows[i] EXCEPT !.wait = wait, !.age = age]
      BY <1>1, <3>1 DEF Row
    <3> HIDE DEF wait, age
    <3>4. QED
      BY <3>1, <3>2, <3>3 DEF Row
  <2>2. QED
    BY <1>1, <2>1
<1>3. \A i \in Ids : /\ rows'[i].lane = rows[i].lane
                     /\ \/ /\ rows'[i].status = rows[i].status
                           /\ rows'[i].attempts = rows[i].attempts
                        \/ rows[i].status # "none" /\ rows'[i].status = "gone"
  BY <1>1 DEF IInv, TypeOK, Row
<1>4. QED
  BY <1>1, <1>2, <1>3, RowsOnly, Zenon

\* A claim keeps the invariant: what it takes is first in its lane.
LEMMA ClaimStep ==
    ASSUME IInv, NEW w \in Workers, Claim(w)
    PROVE  IInv'
<1> DEFINE C == Candidates
           new == {[id |-> i, attempts |-> rows'[i].attempts] : i \in C}
<1>1. /\ worker[w].todo = {}
      /\ rows' = [i \in Ids |-> IF i \in C
                                THEN [rows[i] EXCEPT !.status = "delivering", !.age = 0,
                                                     !.attempts = Min2(@ + 1, MaxAttempts)]
                                ELSE rows[i]]
      /\ worker' = [worker EXCEPT ![w].todo = new]
      /\ UNCHANGED <<seen, faults>>
  BY DEF Claim
<1>2. C \subseteq Ids /\ \A i \in C : Claimable(i)
  BY DEF Candidates
<1> HIDE DEF C
<1>3. \A i \in Ids : rows'[i] \in Row /\ rows'[i].lane = rows[i].lane
                     /\ rows[i].attempts <= rows'[i].attempts
  <2> SUFFICES ASSUME NEW i \in Ids
               PROVE  rows'[i] \in Row /\ rows'[i].lane = rows[i].lane
                      /\ rows[i].attempts <= rows'[i].attempts
    OBVIOUS
  <2>1. rows[i] \in Row
    BY DEF IInv, TypeOK
  <2>2. rows[i].attempts \in Attempts
    BY <2>1 DEF Row
  <2>5. PICK more \in Attempts : /\ more = Min2(rows[i].attempts + 1, MaxAttempts)
                                 /\ rows[i].attempts <= more /\ rows[i].attempts \in Nat
    BY <2>2, AttemptsType
  <2>3. CASE i \in C
    <3>1. rows'[i] = [lane |-> rows[i].lane, status |-> "delivering", attempts |-> more,
                      wait |-> rows[i].wait, age |-> 0]
      BY <1>1, <2>1, <2>3, <2>5 DEF Row
    <3>2. rows'[i] \in Row /\ rows'[i].lane = rows[i].lane /\ rows'[i].attempts = more
      BY <2>1, <3>1 DEF Row, Statuses
    <3>3. QED
      BY <2>5, <3>2
  <2>4. CASE i \notin C
    <3>1. rows'[i] = rows[i]
      BY <1>1, <2>4
    <3>2. rows[i].attempts <= rows[i].attempts
      BY <2>5
    <3>3. QED
      BY <2>1, <3>1, <3>2
  <2>6. QED
    BY <2>3, <2>4
<1>4. \A i \in Ids : /\ i \in C => rows'[i].status = "delivering"
                     /\ i \notin C => rows'[i] = rows[i]
  BY <1>1 DEF IInv, TypeOK, Row
<1>5. \A i \in C : rows[i].status \in {"pending", "delivering"}
  BY <1>2 DEF Claimable
<1>6. new \subseteq Claims /\ \A d \in new : d.id \in C /\ d.attempts = rows'[d.id].attempts
  BY <1>2, <1>3 DEF Claims, Row
<1>7. /\ worker'[w].todo = new /\ worker'[w].outcome = worker[w].outcome
      /\ \A v \in Workers : v # w => worker'[v] = worker[v]
  BY <1>1 DEF IInv, TypeOK
<1> HIDE DEF new
<1>8. TypeOK'
  <2>1. rows' \in [Ids -> Row]
    BY <1>1, <1>3
  <2>2. worker' \in [Workers -> [todo : SUBSET Claims, outcome : Outcomes]]
    BY <1>1, <1>6 DEF IInv, TypeOK
  <2>3. QED
    BY <1>1, <2>1, <2>2 DEF IInv, TypeOK
<1>9. \A i \in Ids : Claimed(i)' => Claimed(i) \/ i \in C
  BY <1>6, <1>7 DEF Claimed
<1>10. CreatedInOrder'
  BY <1>1, <1>4, <1>5, <1>9 DEF IInv, CreatedInOrder
<1>11. SettledIsSeen' /\ SettledForAReason'
  BY <1>1, <1>4 DEF IInv, SettledIsSeen, Settled, SettledForAReason
<1>12. LaneInOrder'
  <2> SUFFICES ASSUME NEW a \in Ids, NEW b \in Ids, a < b, rows'[a].lane = rows'[b].lane,
                      "received" \in seen'[b] \/ Claimed(b)'
               PROVE  "settled" \in seen'[a] \/ rows'[a].status = "gone"
    BY DEF LaneInOrder
  <2>1. rows[a].lane = rows[b].lane
    BY <1>3
  <2>2. "settled" \in seen[a] \/ rows[a].status = "gone"
    <3>1. CASE b \in C
      <4>1. FirstInLane(b)
        BY <1>2, <3>1 DEF Claimable
      <4>2. Settled(rows[a]) \/ rows[a].status = "gone"
        BY <2>1, <4>1 DEF FirstInLane
      <4>3. QED
        BY <4>2 DEF IInv, SettledIsSeen
    <3>2. CASE b \notin C
      BY <1>1, <1>9, <2>1, <3>2 DEF IInv, LaneInOrder
    <3>3. QED
      BY <3>1, <3>2
  <2>3. rows[a].status = "gone" => a \notin C
    BY <1>5
  <2>4. QED
    BY <1>1, <1>4, <2>2, <2>3
<1>13. ClaimIsOld'
  <2> SUFFICES ASSUME NEW v \in Workers, NEW d \in worker'[v].todo
               PROVE  rows'[d.id].status = "gone" \/ d.attempts <= rows'[d.id].attempts
    BY DEF ClaimIsOld
  <2>1. CASE v = w
    <3>1. d.id \in Ids /\ d.attempts = rows'[d.id].attempts
      BY <1>2, <1>6, <1>7, <2>1
    <3>2. rows'[d.id].attempts \in Nat
      BY <1>3, <3>1, AttemptsType DEF Row
    <3>3. QED
      BY <3>1, <3>2
  <2>2. CASE v # w
    <3>0. d \in worker[v].todo
      BY <1>7, <2>2
    <3>1. d \in worker[v].todo /\ d.id \in Ids /\ d.attempts \in Nat
      BY <3>0, ClaimTyped DEF IInv
    <3>2. rows[d.id].status = "gone" \/ d.attempts <= rows[d.id].attempts
      BY <3>1 DEF IInv, ClaimIsOld
    <3>3. rows[d.id].attempts \in Nat /\ rows'[d.id].attempts \in Nat
      BY <1>3, <3>1, AttemptsType DEF IInv, TypeOK, Row
    <3>4. QED
      BY <1>3, <1>4, <1>5, <3>1, <3>2, <3>3
  <2>3. QED
    BY <2>1, <2>2
<1>14. OutcomeIsTrue'
  <2> SUFFICES ASSUME NEW v \in Workers
               PROVE  /\ worker'[v].todo = {} => worker'[v].outcome = "none"
                      /\ \A d \in worker'[v].todo : Current(v, d)' =>
                           /\ worker'[v].outcome = "ok" => "accepted" \in seen'[d.id]
                           /\ worker'[v].outcome = "rejected" => "rejected" \in seen'[d.id]
    BY DEF OutcomeIsTrue
  <2>1. CASE v = w
    BY <1>1, <1>7, <2>1 DEF IInv, OutcomeIsTrue
  <2>2. CASE v # w
    BY <1>1, <1>7, <2>2 DEF IInv, OutcomeIsTrue, Current
  <2>3. QED
    BY <2>1, <2>2
<1>15. QED
  BY <1>8, <1>10, <1>11, <1>12, <1>13, <1>14 DEF IInv

-----------------------------------------------------------------------------
\* What Advance does to the claims: the current one goes, nothing is added.
LEMMA AdvanceShrinks ==
    ASSUME TypeOK, NEW w \in Workers, NEW d \in worker[w].todo, Advance(w, d)
    PROVE  /\ worker' \in [Workers -> [todo : SUBSET Claims, outcome : Outcomes]]
           /\ worker'[w].outcome = "none"
           /\ \A v \in Workers : /\ v # w => worker'[v] = worker[v]
                                 /\ worker'[v].todo \subseteq worker[v].todo
           /\ \A i \in Ids : Claimed(i)' => Claimed(i)
<1>1. worker' = [worker EXCEPT ![w] = [todo |-> @.todo \ {d}, outcome |-> "none"]]
  BY DEF Advance
<1>2. [todo |-> worker[w].todo \ {d}, outcome |-> "none"] \in [todo : SUBSET Claims, outcome : Outcomes]
  BY DEF TypeOK, Outcomes
<1>3. worker' \in [Workers -> [todo : SUBSET Claims, outcome : Outcomes]]
  BY <1>1, <1>2 DEF TypeOK
<1>4. /\ worker'[w].outcome = "none" /\ worker'[w].todo = worker[w].todo \ {d}
      /\ \A v \in Workers : v # w => worker'[v] = worker[v]
  BY <1>1 DEF TypeOK
<1>5. \A v \in Workers : worker'[v].todo \subseteq worker[v].todo
  BY <1>4
<1>6. \A i \in Ids : Claimed(i)' => Claimed(i)
  BY <1>5 DEF Claimed
<1>7. QED
  BY <1>3, <1>4, <1>5, <1>6

\* A worker that drops claims and its outcome, and changes nothing else, keeps the
\* invariant.
LEMMA DropStep ==
    ASSUME IInv, NEW w \in Workers, UNCHANGED <<rows, seen>>, faults' \in 0..MaxFaults,
           worker' \in [Workers -> [todo : SUBSET Claims, outcome : Outcomes]],
           worker'[w].outcome = "none",
           \A v \in Workers : /\ v # w => worker'[v] = worker[v]
                              /\ worker'[v].todo \subseteq worker[v].todo
    PROVE  IInv'
<1>1. TypeOK'
  BY DEF IInv, TypeOK
<1>2. \A i \in Ids : Claimed(i)' => Claimed(i)
  BY DEF Claimed
<1>3. CreatedInOrder' /\ LaneInOrder'
  BY <1>2 DEF IInv, CreatedInOrder, LaneInOrder
<1>4. SettledIsSeen' /\ SettledForAReason' /\ ClaimIsOld'
  BY DEF IInv, SettledIsSeen, SettledForAReason, ClaimIsOld, Settled
<1>5. OutcomeIsTrue'
  <2> SUFFICES ASSUME NEW v \in Workers
               PROVE  /\ worker'[v].todo = {} => worker'[v].outcome = "none"
                      /\ \A e \in worker'[v].todo : Current(v, e)' =>
                           /\ worker'[v].outcome = "ok" => "accepted" \in seen'[e.id]
                           /\ worker'[v].outcome = "rejected" => "rejected" \in seen'[e.id]
    BY DEF OutcomeIsTrue
  <2>1. CASE v = w
    BY <2>1
  <2>2. CASE v # w
    BY <2>2 DEF IInv, OutcomeIsTrue, Current
  <2>3. QED
    BY <2>1, <2>2
<1>6. QED
  BY <1>1, <1>3, <1>4, <1>5 DEF IInv

\* A failed UPDATE keeps the invariant.
LEMMA MarkFailsStep ==
    ASSUME IInv, NEW w \in Workers, NEW d \in worker[w].todo, MarkFails(w, d)
    PROVE  IInv'
<1>1. faults' \in 0..MaxFaults
  BY SizeAssumption DEF MarkFails, IInv, TypeOK
<1>2. UNCHANGED <<rows, seen>> /\ Advance(w, d) /\ TypeOK
  BY DEF MarkFails, IInv
<1>3. QED
  BY <1>1, <1>2, AdvanceShrinks, DropStep

\* A crash keeps the invariant.
LEMMA CrashStep ==
    ASSUME IInv, NEW w \in Workers, Crash(w)
    PROVE  IInv'
<1>1. faults' \in 0..MaxFaults
  BY SizeAssumption DEF Crash, IInv, TypeOK
<1>2. UNCHANGED <<rows, seen>>
  BY DEF Crash
<1>3. worker' = [worker EXCEPT ![w] = [todo |-> {}, outcome |-> "none"]]
  BY DEF Crash
<1>4. /\ worker' \in [Workers -> [todo : SUBSET Claims, outcome : Outcomes]]
      /\ worker'[w].outcome = "none"
      /\ \A v \in Workers : /\ v # w => worker'[v] = worker[v]
                            /\ worker'[v].todo \subseteq worker[v].todo
  BY <1>3 DEF IInv, TypeOK, Outcomes
<1>5. QED
  BY <1>1, <1>2, <1>4, DropStep

\* A POST keeps the invariant: what is sent was claimed.
LEMMA PostStep ==
    ASSUME IInv, NEW w \in Workers, NEW d \in worker[w].todo, Post(w, d)
    PROVE  IInv'
<1>1. PICK a \in Answers : /\ worker' = [worker EXCEPT ![w].outcome = a.outcome]
                           /\ seen' = [seen EXCEPT ![d.id] = @ \cup a.marks]
  BY DEF Post
<1>2. UNCHANGED <<rows, faults>> /\ Current(w, d)
  BY DEF Post
<1>3. d \in Claims /\ d.id \in Ids
  BY ClaimTyped DEF IInv
<1>4. /\ a.outcome \in Outcomes /\ a.marks \subseteq Marks /\ "settled" \notin a.marks
      /\ a.outcome = "ok" => "accepted" \in a.marks
      /\ a.outcome = "rejected" => "rejected" \in a.marks
  BY DEF Answers, Outcomes, Marks
<1>5. /\ \A v \in Workers : worker'[v].todo = worker[v].todo
      /\ \A v \in Workers : v # w => worker'[v] = worker[v]
      /\ worker'[w].outcome = a.outcome
      /\ seen'[d.id] = seen[d.id] \cup a.marks
      /\ \A i \in Ids : i # d.id => seen'[i] = seen[i]
      /\ \A i \in Ids : seen[i] \subseteq seen'[i]
  BY <1>1, <1>3 DEF IInv, TypeOK
<1>6. TypeOK'
  <2>1. worker' \in [Workers -> [todo : SUBSET Claims, outcome : Outcomes]]
    BY <1>1, <1>4 DEF IInv, TypeOK
  <2>2. seen' \in [Ids -> SUBSET Marks]
    BY <1>1, <1>4 DEF IInv, TypeOK
  <2>3. QED
    BY <1>2, <2>1, <2>2 DEF IInv, TypeOK
<1>7. (\A i \in Ids : Claimed(i)' <=> Claimed(i)) /\ Claimed(d.id)
  BY <1>5 DEF Claimed
<1>8. CreatedInOrder'
  BY <1>2, <1>3, <1>5, <1>7 DEF IInv, CreatedInOrder
<1>9. SettledIsSeen' /\ SettledForAReason'
  BY <1>2, <1>5 DEF IInv, SettledIsSeen, SettledForAReason
<1>10. LaneInOrder'
  <2> SUFFICES ASSUME NEW i \in Ids, NEW j \in Ids, i < j, rows'[i].lane = rows'[j].lane,
                      "received" \in seen'[j] \/ Claimed(j)'
               PROVE  "settled" \in seen'[i] \/ rows'[i].status = "gone"
    BY DEF LaneInOrder
  <2>1. "received" \in seen[j] \/ Claimed(j)
    BY <1>5, <1>7
  <2>2. QED
    BY <1>2, <1>5, <2>1 DEF IInv, LaneInOrder
<1>11. ClaimIsOld'
  BY <1>2, <1>5 DEF IInv, ClaimIsOld
<1>12. OutcomeIsTrue'
  <2> SUFFICES ASSUME NEW v \in Workers
               PROVE  /\ worker'[v].todo = {} => worker'[v].outcome = "none"
                      /\ \A e \in worker'[v].todo : Current(v, e)' =>
                           /\ worker'[v].outcome = "ok" => "accepted" \in seen'[e.id]
                           /\ worker'[v].outcome = "rejected" => "rejected" \in seen'[e.id]
    BY DEF OutcomeIsTrue
  <2>1. CASE v = w
    <3>1. ASSUME NEW e \in worker'[w].todo, Current(w, e)' PROVE e.id = d.id
      <4>1. e \in worker[w].todo
        BY <1>5
      <4>2. e.id \in Ids
        BY <4>1, ClaimTyped DEF IInv
      <4>3. e.id <= d.id /\ d.id <= e.id
        BY <1>2, <1>5, <3>1, <4>1 DEF Current
      <4>4. QED
        BY <1>3, <4>2, <4>3, SizeAssumption DEF Ids
    <3>2. QED
      BY <1>4, <1>5, <2>1, <3>1
  <2>2. CASE v # w
    <3>1. \A e \in worker[v].todo : e.id \in Ids
      BY ClaimTyped DEF IInv
    <3>2. QED
      BY <1>5, <2>2, <3>1 DEF IInv, OutcomeIsTrue, Current
  <2>3. QED
    BY <2>1, <2>2
<1>13. QED
  BY <1>6, <1>8, <1>9, <1>10, <1>11, <1>12 DEF IInv

\* Recording an outcome keeps the invariant, also when the claim has gone stale: the
\* row's attempts are not fewer than the claim's, so a row given up has used them all.
LEMMA MarkStep ==
    ASSUME IInv, NEW w \in Workers, NEW d \in worker[w].todo, Mark(w, d)
    PROVE  IInv'
<1>1. /\ Current(w, d) /\ worker[w].outcome # "none" /\ Advance(w, d) /\ UNCHANGED faults
      /\ seen' = [seen EXCEPT ![d.id] = @ \cup IF Settled(rows'[d.id]) THEN {"settled"} ELSE {}]
  BY DEF Mark
<1>2. d \in Claims /\ d.id \in Ids /\ d.attempts \in Nat
  BY ClaimTyped DEF IInv
<1>3. /\ worker' \in [Workers -> [todo : SUBSET Claims, outcome : Outcomes]]
      /\ worker'[w].outcome = "none"
      /\ \A v \in Workers : /\ v # w => worker'[v] = worker[v]
                            /\ worker'[v].todo \subseteq worker[v].todo
      /\ \A i \in Ids : Claimed(i)' => Claimed(i)
  BY <1>1, AdvanceShrinks DEF IInv
<1>4. CASE rows[d.id].status = "gone"
  <2>1. rows' = rows
    BY <1>4 DEF Mark
  <2>2. ~Settled(rows'[d.id])
    BY <1>4, <2>1 DEF Settled
  <2>3. seen' = seen
    BY <1>1, <1>2, <2>2 DEF IInv, TypeOK
  <2>4. faults' \in 0..MaxFaults
    BY <1>1 DEF IInv, TypeOK
  <2>5. QED
    BY <1>3, <2>1, <2>3, <2>4, DropStep
<1>5. CASE rows[d.id].status # "gone"
  <2>1. PICK row \in Marked(rows[d.id], d, worker[w].outcome) : rows' = [rows EXCEPT ![d.id] = row]
    BY <1>5 DEF Mark
  <2>2. rows[d.id] \in Row /\ worker[w].outcome \in Outcomes
    BY <1>2 DEF IInv, TypeOK
  <2>3. /\ row \in Row /\ row.lane = rows[d.id].lane /\ row.attempts = rows[d.id].attempts
        /\ row.status \in {"delivered", "dead_letter", "pending"}
        /\ row.status = "delivered" => worker[w].outcome = "ok"
        /\ row.status = "dead_letter" => worker[w].outcome = "rejected" \/ d.attempts >= MaxAttempts
    BY <1>2, <2>2, MarkedRow
  <2>4. rows'[d.id] = row /\ \A i \in Ids : i # d.id => rows'[i] = rows[i]
    BY <1>2, <2>1 DEF IInv, TypeOK
  <2>5. /\ seen' \in [Ids -> SUBSET Marks]
        /\ \A i \in Ids : /\ seen[i] \subseteq seen'[i]
                          /\ i # d.id => seen'[i] = seen[i]
                          /\ "received" \in seen'[i] => "received" \in seen[i]
        /\ Settled(row) => "settled" \in seen'[d.id]
    BY <1>1, <1>2, <2>4 DEF IInv, TypeOK, Marks
  <2>6. TypeOK'
    BY <1>1, <1>3, <2>1, <2>3, <2>5 DEF IInv, TypeOK
  <2>7. Claimed(d.id) /\ rows[d.id].status # "none"
    BY <1>2 DEF Claimed, IInv, CreatedInOrder
  <2>8. CreatedInOrder'
    BY <1>2, <1>3, <2>3, <2>4, <2>5, <2>7 DEF IInv, CreatedInOrder
  <2>9. SettledIsSeen'
    BY <2>4, <2>5 DEF IInv, SettledIsSeen
  <2>10. LaneInOrder'
    <3> SUFFICES ASSUME NEW i \in Ids, NEW j \in Ids, i < j, rows'[i].lane = rows'[j].lane,
                        "received" \in seen'[j] \/ Claimed(j)'
                 PROVE  "settled" \in seen'[i] \/ rows'[i].status = "gone"
      BY DEF LaneInOrder
    <3>1. rows[i].lane = rows[j].lane /\ ("received" \in seen[j] \/ Claimed(j))
      BY <1>3, <2>3, <2>4, <2>5
    <3>2. "settled" \in seen[i] \/ rows[i].status = "gone"
      BY <3>1 DEF IInv, LaneInOrder
    <3>3. QED
      BY <1>5, <2>4, <2>5, <3>2
  <2>11. ClaimIsOld'
    <3> SUFFICES ASSUME NEW v \in Workers, NEW e \in worker'[v].todo
                 PROVE  rows'[e.id].status = "gone" \/ e.attempts <= rows'[e.id].attempts
      BY DEF ClaimIsOld
    <3>1. e \in worker[v].todo
      BY <1>3
    <3>2. e.id \in Ids
      BY <3>1, ClaimTyped DEF IInv
    <3>3. rows[e.id].status = "gone" \/ e.attempts <= rows[e.id].attempts
      BY <3>1 DEF IInv, ClaimIsOld
    <3>4. QED
      BY <1>5, <2>3, <2>4, <3>2, <3>3
  <2>12. OutcomeIsTrue'
    <3> SUFFICES ASSUME NEW v \in Workers
                 PROVE  /\ worker'[v].todo = {} => worker'[v].outcome = "none"
                        /\ \A e \in worker'[v].todo : Current(v, e)' =>
                             /\ worker'[v].outcome = "ok" => "accepted" \in seen'[e.id]
                             /\ worker'[v].outcome = "rejected" => "rejected" \in seen'[e.id]
      BY DEF OutcomeIsTrue
    <3>1. CASE v = w
      BY <1>3, <3>1
    <3>2. CASE v # w
      <4>1. \A e \in worker[v].todo : e.id \in Ids
        BY ClaimTyped DEF IInv
      <4>2. QED
        BY <1>3, <2>5, <3>2, <4>1 DEF IInv, OutcomeIsTrue, Current
    <3>3. QED
      BY <3>1, <3>2
  <2>13. SettledForAReason'
    <3>1. row.status = "delivered" => "accepted" \in seen'[d.id]
      BY <1>1, <1>2, <2>3, <2>5 DEF IInv, OutcomeIsTrue
    <3>2. d.attempts >= MaxAttempts => row.attempts = MaxAttempts
      <4>1. d.attempts <= rows[d.id].attempts /\ rows[d.id].attempts \in Attempts
        BY <1>5, <2>2 DEF IInv, ClaimIsOld, Row
      <4>2. QED
        BY <1>2, <2>3, <4>1, RetryAssumption DEF Attempts
    <3>3. row.status = "dead_letter" => "rejected" \in seen'[d.id] \/ row.attempts = MaxAttempts
      BY <1>1, <1>2, <2>3, <2>5, <3>2 DEF IInv, OutcomeIsTrue
    <3>4. ASSUME NEW i \in Ids, i # d.id
          PROVE  /\ rows'[i].status = "delivered" => "accepted" \in seen'[i]
                 /\ rows'[i].status = "dead_letter" =>
                      "rejected" \in seen'[i] \/ rows'[i].attempts = MaxAttempts
      BY <2>4, <2>5, <3>4 DEF IInv, SettledForAReason
    <3>5. QED
      BY <2>4, <3>1, <3>3, <3>4 DEF SettledForAReason
  <2>14. QED
    BY <2>6, <2>8, <2>9, <2>10, <2>11, <2>12, <2>13 DEF IInv
<1>6. QED
  BY <1>4, <1>5

-----------------------------------------------------------------------------
\* Every step keeps the invariant.
LEMMA NextStep == IInv /\ [Next]_vars => IInv'
<1> SUFFICES ASSUME IInv, [Next]_vars PROVE IInv'
  OBVIOUS
<1>1. ASSUME NEW l \in Lanes, DeleteLane(l) PROVE IInv'
  BY <1>1, DeleteStep
<1>2. ASSUME NEW l \in Lanes, NEW i \in Ids, CreateWebhookOutbox(i, l) PROVE IInv'
  BY <1>2, CreateStep
<1>3. CASE Tick
  BY <1>3, TickStep
<1>4. ASSUME NEW w \in Workers, Claim(w) PROVE IInv'
  BY <1>4, ClaimStep
<1>5. ASSUME NEW w \in Workers, NEW d \in worker[w].todo, Post(w, d) PROVE IInv'
  BY <1>5, PostStep
<1>6. ASSUME NEW w \in Workers, NEW d \in worker[w].todo, Mark(w, d) PROVE IInv'
  BY <1>6, MarkStep
<1>7. ASSUME NEW w \in Workers, Crash(w) PROVE IInv'
  BY <1>7, CrashStep
<1>8. ASSUME NEW w \in Workers, NEW d \in worker[w].todo, MarkFails(w, d) PROVE IInv'
  BY <1>8, MarkFailsStep
<1>9. CASE UNCHANGED vars
  BY <1>9 DEF vars, IInv, TypeOK, CreatedInOrder, Claimed, SettledIsSeen, Settled, LaneInOrder,
              ClaimIsOld, OutcomeIsTrue, Current, SettledForAReason
<1>10. QED
  BY <1>1, <1>2, <1>3, <1>4, <1>5, <1>6, <1>7, <1>8, <1>9 DEF Next, Work

\* The invariant holds throughout.
LEMMA Invariance == Spec => []IInv
BY InitHolds, NextStep, PTL DEF Spec

\* Rows, claims and history keep their types whatever the workers do.
THEOREM OutboxTypeCorrect == Spec => []TypeOK
<1>1. IInv => TypeOK
  BY DEF IInv
<1>2. QED
  BY <1>1, Invariance, PTL

\* ClaimWebhookOutbox delivers a lane in order: no endpoint sees a row before every
\* earlier row of the lane was settled or deleted, for any number of workers, any
\* batch size and staleness limit, and any crashes and failed UPDATEs.
THEOREM InOrder == Spec => []NoOvertaking
<1>1. IInv => NoOvertaking
  BY DEF IInv, LaneInOrder, NoOvertaking
<1>2. QED
  BY <1>1, Invariance, PTL

\* processDelivery never settles a row without a reason, for any number of workers:
\* although the UPDATEs check nothing, a delivered row was accepted, and a row given
\* up was refused or has used all its attempts.
THEOREM ForAReason == Spec => []SettledForAReason
<1>1. IInv => SettledForAReason
  BY DEF IInv
<1>2. QED
  BY <1>1, Invariance, PTL

=============================================================================
