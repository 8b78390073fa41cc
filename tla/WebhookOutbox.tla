--------------------------- MODULE WebhookOutbox ---------------------------
(***************************************************************************)
(* The webhook outbox (internal/repository/postgres/store.go) and the      *)
(* workers that empty it (internal/worker/webhooks/worker.go), one in each *)
(* API process.  The rows for one room, target agent and endpoint form a   *)
(* lane; only a lane's first unsettled row may be claimed.  A claim is one *)
(* SQL statement; the POST and the UPDATE that records its outcome come    *)
(* later, and a claim older than Stale is handed out again.                *)
(*                                                                         *)
(* Times are kept relative: wait is how long next_attempt_at lies ahead,   *)
(* age how old a claim is by updated_at (up to Stale).  attempt_count      *)
(* stops at MaxAttempts, beyond which the code does not tell values apart. *)
(* An endpoint's enabled flag never changes and rows are only made for     *)
(* enabled ones, so the worker's "endpoint disabled" branch is left out.   *)
(***************************************************************************)
EXTENDS Integers, FiniteSets

CONSTANTS
    Workers,
    Lanes,        \* (room_id, target_agent_id, endpoint_id)
    MaxRows,      \* bound: rows ever created
    MaxFaults,    \* bound: crashes and failed UPDATEs
    Batch,        \* BatchSize
    MaxAttempts,
    Stale,        \* ClaimStaleAfter
    BaseBackoff, MaxBackoff

ASSUME LaneAssumption == Lanes # {}
ASSUME SizeAssumption == MaxRows \in Nat /\ MaxFaults \in Nat /\ Batch \in Nat \ {0}
ASSUME RetryAssumption ==
    MaxAttempts \in Nat \ {0} /\ Stale \in Nat /\ BaseBackoff \in Nat /\ MaxBackoff \in Nat

VARIABLES
    rows,    \* webhook_outbox by id; "none" is not created yet, "gone" deleted
    worker,  \* what each worker has claimed, and the outcome of its last POST
    seen,    \* history: what has happened to a row
    faults

vars == <<rows, worker, seen, faults>>

Ids == 1..MaxRows
Statuses == {"none", "pending", "delivering", "delivered", "dead_letter", "gone"}
Attempts == 0..MaxAttempts
Row == [lane : Lanes, status : Statuses, attempts : Attempts, wait : Nat, age : Nat]
Claims == [id : Ids, attempts : Attempts]
Outcomes == {"none", "ok", "rejected", "failed"}
Marks == {"received", "accepted", "rejected", "settled"}

Settled(row) == row.status \in {"delivered", "dead_letter"}
Min2(x, y) == IF x <= y THEN x ELSE y

-----------------------------------------------------------------------------
Init ==
    /\ rows = [i \in Ids |-> [lane |-> CHOOSE l \in Lanes : TRUE, status |-> "none",
                              attempts |-> 0, wait |-> 0, age |-> 0]]
    /\ worker = [w \in Workers |-> [todo |-> {}, outcome |-> "none"]]
    /\ seen = [i \in Ids |-> {}]
    /\ faults = 0

\* A transaction of the service adds a row.  Ids grow in commit order within a lane,
\* because it holds the room row's lock by then.
CreateWebhookOutbox(i, l) ==
    /\ rows[i].status = "none"
    /\ \A k \in Ids : k < i => rows[k].status # "none"
    /\ rows' = [rows EXCEPT ![i].lane = l, ![i].status = "pending"]
    /\ UNCHANGED <<worker, seen, faults>>

\* The endpoint is deleted, or the room's events are purged: the lane's rows go
\* whatever their status, also while a worker is delivering one.
DeleteLane(l) ==
    /\ \E i \in Ids : rows[i].lane = l /\ rows[i].status \notin {"none", "gone"}
    /\ rows' = [i \in Ids |-> IF rows[i].lane = l /\ rows[i].status # "none"
                              THEN [rows[i] EXCEPT !.status = "gone", !.attempts = 0,
                                                   !.wait = 0, !.age = 0]
                              ELSE rows[i]]
    /\ UNCHANGED <<worker, seen, faults>>

Tick ==
    /\ \E i \in Ids : \/ rows[i].status = "pending" /\ rows[i].wait > 0
                      \/ rows[i].status = "delivering" /\ rows[i].age < Stale
    /\ rows' = [i \in Ids |-> [rows[i] EXCEPT
                    !.wait = IF @ > 0 THEN @ - 1 ELSE 0,
                    !.age = IF rows[i].status = "delivering" THEN Min2(@ + 1, Stale) ELSE @]]
    /\ UNCHANGED <<worker, seen, faults>>

-----------------------------------------------------------------------------
\* No earlier row of the lane is unsettled.
FirstInLane(i) ==
    \A k \in Ids : k < i /\ rows[k].lane = rows[i].lane =>
        Settled(rows[k]) \/ rows[k].status = "gone"

\* Mutant: rows of a lane are not held back.
ClaimableOutOfOrder(i) ==
    \/ rows[i].status = "pending" /\ rows[i].wait = 0
    \/ rows[i].status = "delivering" /\ rows[i].age >= Stale

Claimable(i) ==
    /\ \/ rows[i].status = "pending" /\ rows[i].wait = 0
       \/ rows[i].status = "delivering" /\ rows[i].age >= Stale
    /\ FirstInLane(i)

\* The first Batch claimable rows, in id order.
Candidates ==
    LET all == {i \in Ids : Claimable(i)}
    IN  {i \in all : Cardinality({k \in all : k < i}) < Batch}

\* claimPendingWebhookDeliveries, with which RunOnce begins.
Claim(w) ==
    /\ worker[w].todo = {}
    /\ Candidates # {}
    /\ rows' = [i \in Ids |-> IF i \in Candidates
                              THEN [rows[i] EXCEPT !.status = "delivering", !.age = 0,
                                                   !.attempts = Min2(@ + 1, MaxAttempts)]
                              ELSE rows[i]]
    /\ worker' = [worker EXCEPT ![w].todo =
                    {[id |-> i, attempts |-> rows'[i].attempts] : i \in Candidates}]
    /\ UNCHANGED <<seen, faults>>

\* The delivery the worker is at: it goes through its claims in id order.
Current(w, d) == d \in worker[w].todo /\ \A e \in worker[w].todo : d.id <= e.id

\* What comes of a POST: a 2xx; a 4xx other than 408 and 429; any other answer, or
\* none although the endpoint got the request; an endpoint out of reach.
Answers == {[outcome |-> "ok",       marks |-> {"received", "accepted"}],
            [outcome |-> "rejected", marks |-> {"received", "rejected"}],
            [outcome |-> "failed",   marks |-> {"received"}],
            [outcome |-> "failed",   marks |-> {}]}

Post(w, d) ==
    /\ Current(w, d)
    /\ worker[w].outcome = "none"
    /\ \E a \in Answers :
         /\ worker' = [worker EXCEPT ![w].outcome = a.outcome]
         /\ seen' = [seen EXCEPT ![d.id] = @ \cup a.marks]
    /\ UNCHANGED <<rows, faults>>

-----------------------------------------------------------------------------
\* nextRetryTime, from now: doubled with every attempt, then capped, and jittered by
\* less than a quarter.
Backoff(a) == IF a <= 1 THEN BaseBackoff ELSE Min2(BaseBackoff * 2^(a - 1), MaxBackoff)
Jitter(b) == IF b \div 4 = 0 THEN {0} ELSE 0..(b \div 4 - 1)

\* Mutants: no limit on attempts; the first failure is final; a status nobody reads.
MarkedUnlimited(row, d, outcome) ==
    CASE outcome = "ok" -> {[row EXCEPT !.status = "delivered", !.age = 0]}
      [] outcome = "rejected" -> {[row EXCEPT !.status = "dead_letter", !.age = 0]}
      [] OTHER -> {[row EXCEPT !.status = "pending", !.age = 0, !.wait = Backoff(d.attempts) + j] :
                     j \in Jitter(Backoff(d.attempts))}
MarkedHasty(row, d, outcome) ==
    CASE outcome = "ok" -> {[row EXCEPT !.status = "delivered", !.age = 0]}
      [] OTHER -> {[row EXCEPT !.status = "dead_letter", !.age = 0]}

MarkedUnknown(row, d, outcome) ==
    {[row EXCEPT !.status = IF outcome = "ok" THEN "delivered" ELSE "failed", !.age = 0]}

\* The row after MarkWebhookOutboxDelivered, ...DeadLetter or ...PendingRetry; each
\* updates by id and looks neither at the status nor at the attempt.
Marked(row, d, outcome) ==
    CASE outcome = "ok" -> {[row EXCEPT !.status = "delivered", !.age = 0]}
      [] outcome = "rejected" \/ (outcome = "failed" /\ d.attempts >= MaxAttempts) ->
           {[row EXCEPT !.status = "dead_letter", !.age = 0]}
      [] OTHER -> {[row EXCEPT !.status = "pending", !.age = 0, !.wait = Backoff(d.attempts) + j] :
                     j \in Jitter(Backoff(d.attempts))}

Advance(w, d) == worker' = [worker EXCEPT ![w] = [todo |-> @.todo \ {d}, outcome |-> "none"]]

\* processDelivery records the outcome; a row deleted meanwhile stays deleted.
Mark(w, d) ==
    /\ Current(w, d)
    /\ worker[w].outcome # "none"
    /\ IF rows[d.id].status = "gone"
       THEN UNCHANGED rows
       ELSE \E row \in Marked(rows[d.id], d, worker[w].outcome) : rows' = [rows EXCEPT ![d.id] = row]
    /\ seen' = [seen EXCEPT ![d.id] = @ \cup IF Settled(rows'[d.id]) THEN {"settled"} ELSE {}]
    /\ Advance(w, d)
    /\ UNCHANGED faults

\* The UPDATE fails: it is logged, and the row stays "delivering" until it is stale.
MarkFails(w, d) ==
    /\ Current(w, d)
    /\ worker[w].outcome # "none"
    /\ faults < MaxFaults
    /\ faults' = faults + 1
    /\ Advance(w, d)
    /\ UNCHANGED <<rows, seen>>

\* The process dies, or is shut down, with deliveries claimed.
Crash(w) ==
    /\ worker[w].todo # {}
    /\ faults < MaxFaults
    /\ faults' = faults + 1
    /\ worker' = [worker EXCEPT ![w] = [todo |-> {}, outcome |-> "none"]]
    /\ UNCHANGED <<rows, seen>>

-----------------------------------------------------------------------------
Work(w) == Claim(w) \/ \E d \in worker[w].todo : Post(w, d) \/ Mark(w, d)

Next ==
    \/ \E l \in Lanes : DeleteLane(l) \/ \E i \in Ids : CreateWebhookOutbox(i, l)
    \/ Tick
    \/ \E w \in Workers :
         \/ Work(w)
         \/ Crash(w) \/ \E d \in worker[w].todo : MarkFails(w, d)

\* The worker polls for as long as its process runs, and DeliveryTimeout ends every
\* POST; nothing obliges an endpoint to answer.
Fairness == WF_vars(Tick) /\ \A w \in Workers : WF_vars(Work(w))

Spec == Init /\ [][Next]_vars /\ Fairness

-----------------------------------------------------------------------------
(* Properties *)

\* Rows, claims and history have their types.
TypeOK ==
    /\ rows \in [Ids -> Row]
    /\ worker \in [Workers -> [todo : SUBSET Claims, outcome : Outcomes]]
    /\ seen \in [Ids -> SUBSET Marks]
    /\ faults \in 0..MaxFaults

\* A lane is delivered in order: an endpoint sees a row for the first time only after
\* every earlier row of its lane was settled or deleted, whatever workers are slow,
\* crash or have their claims taken over.
NoOvertaking ==
    \A i, j \in Ids :
        i < j /\ rows[i].lane = rows[j].lane /\ "received" \in seen[j] =>
            "settled" \in seen[i] \/ rows[i].status = "gone"

\* A row is settled for a reason: delivered when the endpoint accepted it, given up
\* when it refused it or when all attempts were used, also when the outcome is
\* written by a worker whose claim had gone stale.
SettledForAReason ==
    \A i \in Ids :
        /\ rows[i].status = "delivered" => "accepted" \in seen[i]
        /\ rows[i].status = "dead_letter" =>
             "rejected" \in seen[i] \/ rows[i].attempts = MaxAttempts

\* Every row ends delivered, dead-lettered or deleted and stays so, although stale
\* claims may reopen settled rows, if only finitely many crashes and failed UPDATEs
\* happen.
RowsSettle ==
    \A i \in Ids :
        <>[](rows[i].status \in {"none", "delivered", "dead_letter", "gone"})

=============================================================================
