-------------------------- MODULE SendLimitsProofs -------------------------
(***************************************************************************)
(* Proofs about SendLimits.                                                *)
(***************************************************************************)
EXTENDS SendLimits, FiniteSetTheorems, SequenceTheorems, TLAPS

-----------------------------------------------------------------------------
(* Windows of timestamps *)

\* Every non-empty set of natural numbers has a least member: the form of induction
\* the proofs about Fresh use.
LEMMA LeastMember ==
    ASSUME NEW T, T \subseteq Nat, T # {}
    PROVE  \E x \in T : \A y \in T : x <= y
<1> DEFINE R == OpToRel(<, Nat)
<1>1. R = {ss \in Nat \X Nat : ss[1] < ss[2]}
  BY DEF OpToRel
<1>2. IsWellFoundedOn(R, Nat)
  BY NatLessThanWellFounded
<1> HIDE DEF R
<1>3. PICK x \in T : \A y \in T : ~(<<y, x>> \in R)
  BY <1>2, WFMin, Zenon
<1>4. \A y \in Nat, z \in Nat : y < z => <<y, z>> \in R
  BY <1>1
<1>5. \A y \in T : x \in Nat /\ y \in Nat /\ ~(y < x)
  BY <1>3, <1>4
<1>6. \A y \in T : x <= y
  BY <1>5
<1> QED
  BY <1>6

\* f is the function Fresh is defined by, up to n.
Keeps(f, s, width, now, n) ==
    f = [i \in 0..n |-> IF i = 0 THEN <<>>
                        ELSE IF s[i] + width > now THEN Append(f[i - 1], s[i])
                        ELSE f[i - 1]]

\* The recursion of Fresh has a solution.
LEMMA KeepsExists ==
    ASSUME NEW s, NEW width, NEW now, NEW n \in Nat
    PROVE  \E f : Keeps(f, s, width, now, n)
<1> DEFINE T == {m \in Nat : ~\E f : Keeps(f, s, width, now, m)}
<1> SUFFICES ASSUME T # {} PROVE FALSE
  OBVIOUS
<1>1. PICK m \in T : \A y \in T : m <= y
  BY LeastMember
<1>2. m # 0
  <2> DEFINE g == [i \in 0..0 |-> <<>>]
  <2>1. Keeps(g, s, width, now, 0)
    BY DEF Keeps
  <2> QED
    BY <2>1
<1>3. m \in Nat /\ m - 1 \in Nat /\ m - 1 \notin T
  BY <1>1, <1>2
<1>4. PICK f : Keeps(f, s, width, now, m - 1)
  BY <1>3
<1> DEFINE v == IF s[m] + width > now THEN Append(f[m - 1], s[m]) ELSE f[m - 1]
           g == [i \in 0..m |-> IF i = m THEN v ELSE f[i]]
<1>5. \A i \in 0..(m - 1) : f[i] = IF i = 0 THEN <<>>
                                   ELSE IF s[i] + width > now THEN Append(f[i - 1], s[i])
                                   ELSE f[i - 1]
  BY <1>4 DEF Keeps
<1>6. \A i \in 0..(m - 1) : g[i] = f[i]
  BY <1>3
<1>7. g[m] = v
  BY <1>3
<1> HIDE DEF v
<1>8. \A i \in 0..m : g[i] = IF i = 0 THEN <<>>
                             ELSE IF s[i] + width > now THEN Append(g[i - 1], s[i])
                             ELSE g[i - 1]
  <2> TAKE i \in 0..m
  <2>1. CASE i = m
    BY <2>1, <1>2, <1>3, <1>6, <1>7 DEF v
  <2>2. CASE i # m
    <3>1. i \in 0..(m - 1) /\ (i # 0 => i - 1 \in 0..(m - 1))
      BY <2>2, <1>3
    <3>2. i # 0 => g[i - 1] = f[i - 1]
      BY <3>1, <1>6
    <3> HIDE DEF g
    <3> QED
      BY <3>1, <3>2, <1>5, <1>6
  <2> QED
    BY <2>1, <2>2
<1>9. g = [i \in 0..m |-> g[i]]
  OBVIOUS
<1> HIDE DEF g
<1>10. Keeps(g, s, width, now, m)
  BY <1>8, <1>9 DEF Keeps
<1> QED
  BY <1>10, <1>1

\* The timestamps w, the window, hold those of f at the indices I, each at a place of
\* its own.
Covers(I, f, w) ==
    \E g \in [I -> DOMAIN w] :
        /\ \A i \in I, j \in I : g[i] = g[j] => i = j
        /\ \A i \in I : w[g[i]] = f[i]

\* What is kept of the first n timestamps of s.
Live(s, width, now, n) == {j \in 1..n : s[j] + width > now}
KeptOf(u, s, width, now, n) ==
    u \in Seq(Nat) /\ Len(u) <= n /\ Covers(Live(s, width, now, n), s, u)

\* A timestamp within the width is appended.
LEMMA KeepOne ==
    ASSUME NEW s \in Seq(Nat), NEW width \in Nat, NEW now \in Nat, NEW n \in 1..Len(s),
           NEW u, KeptOf(u, s, width, now, n - 1), s[n] + width > now
    PROVE  KeptOf(Append(u, s[n]), s, width, now, n)
<1> DEFINE L == Live(s, width, now, n - 1)
           M == Live(s, width, now, n)
           v == Append(u, s[n])
<1>1. n \in Nat /\ n > 0 /\ s[n] \in Nat
  OBVIOUS
<1>2. u \in Seq(Nat) /\ Len(u) \in Nat /\ Len(u) <= n - 1
  BY DEF KeptOf
<1>3. M = L \cup {n} /\ n \notin L
  BY <1>1 DEF Live
<1>4. PICK g \in [L -> DOMAIN u] : /\ \A i \in L, j \in L : g[i] = g[j] => i = j
                                   /\ \A i \in L : u[g[i]] = s[i]
  BY DEF KeptOf, Covers
<1>5. /\ v \in Seq(Nat) /\ Len(v) = Len(u) + 1 /\ v[Len(u) + 1] = s[n]
      /\ DOMAIN u = 1..Len(u) /\ DOMAIN v = 1..(Len(u) + 1)
      /\ \A i \in 1..Len(u) : v[i] = u[i]
  <2>1. v \in Seq(Nat) /\ Len(v) = Len(u) + 1 /\ v[Len(u) + 1] = s[n]
        /\ \A i \in 1..Len(u) : v[i] = u[i]
    BY <1>1, <1>2, AppendProperties
  <2> QED
    BY <1>2, <2>1, LenProperties
<1> DEFINE h == [i \in M |-> IF i = n THEN Len(u) + 1 ELSE g[i]]
<1> HIDE DEF v, L, M
<1>6. h \in [M -> DOMAIN v]
  BY <1>2, <1>3, <1>4, <1>5
<1>7. \A i \in M : v[h[i]] = s[i]
  BY <1>2, <1>3, <1>4, <1>5
<1>8. \A i \in M, j \in M : h[i] = h[j] => i = j
  <2> SUFFICES ASSUME NEW i \in M, NEW j \in M, h[i] = h[j] PROVE i = j
    OBVIOUS
  <2>1. \A k \in L : h[k] = g[k] /\ h[k] \in 1..Len(u)
    BY <1>3, <1>4, <1>5
  <2>2. h[n] = Len(u) + 1 /\ Len(u) + 1 \notin 1..Len(u)
    BY <1>2, <1>3
  <2> HIDE DEF h
  <2> QED
    BY <1>3, <1>4, <2>1, <2>2
<1> HIDE DEF h
<1>9. Covers(M, s, v)
  BY <1>6, <1>7, <1>8 DEF Covers
<1>10. Len(v) <= n
  BY <1>1, <1>2, <1>5
<1> QED
  BY <1>5, <1>9, <1>10 DEF KeptOf, v, M

\* What Fresh returns is no longer than the window it prunes and keeps every timestamp
\* that is within its width.
LEMMA FreshKeeps ==
    ASSUME NEW s \in Seq(Nat), NEW width \in Nat, NEW now \in Nat
    PROVE  KeptOf(Fresh(s, width, now), s, width, now, Len(s))
<1> DEFINE f == CHOOSE f : Keeps(f, s, width, now, Len(s))
           T == {n \in 0..Len(s) : ~KeptOf(f[n], s, width, now, n)}
<1>1. Fresh(s, width, now) = f[Len(s)]
  BY DEF Fresh, Keeps
<1>2. Len(s) \in Nat
  OBVIOUS
<1>3. Keeps(f, s, width, now, Len(s))
  BY <1>2, KeepsExists
<1> HIDE DEF f
<1>4. f = [i \in 0..Len(s) |-> IF i = 0 THEN <<>>
                        ELSE IF s[i] + width > now THEN Append(f[i - 1], s[i])
                        ELSE f[i - 1]]
  BY <1>3 DEF Keeps
<1>5. f[0] = <<>>
  BY <1>2, <1>4
<1>6. \A i \in 1..Len(s) :
         f[i] = IF s[i] + width > now THEN Append(f[i - 1], s[i]) ELSE f[i - 1]
  <2> TAKE i \in 1..Len(s)
  <2>1. i \in 0..Len(s) /\ i # 0
    BY <1>2
  <2> QED
    BY <1>4, <2>1
<1>7. KeptOf(<<>>, s, width, now, 0)
  <2> DEFINE g == [i \in {} |-> 0]
  <2>1. Live(s, width, now, 0) = {}
    BY DEF Live
  <2>2. g \in [{} -> DOMAIN <<>>]
    OBVIOUS
  <2>3. Covers({}, s, <<>>)
    BY <2>2 DEF Covers
  <2>4. <<>> \in Seq(Nat) /\ Len(<<>>) <= 0
    OBVIOUS
  <2> QED
    BY <2>1, <2>3, <2>4 DEF KeptOf
<1>8. SUFFICES ASSUME T # {} PROVE FALSE
  BY <1>1, <1>2
<1>9. PICK n \in T : \A y \in T : n <= y
  <2>1. T \subseteq Nat
    BY <1>2
  <2> HIDE DEF T
  <2> QED
    BY <1>8, <2>1, LeastMember
<1>10. n # 0
  BY <1>5, <1>7, <1>9
<1>11. n \in 1..Len(s) /\ n - 1 \in 0..Len(s) /\ ~(n - 1 \in T)
  BY <1>2, <1>9, <1>10
<1>12. KeptOf(f[n - 1], s, width, now, n - 1)
  BY <1>11
<1>13. CASE s[n] + width > now
  <2>1. f[n] = Append(f[n - 1], s[n])
    BY <1>6, <1>11, <1>13
  <2> QED
    BY <2>1, <1>9, <1>11, <1>12, <1>13, KeepOne
<1>14. CASE ~(s[n] + width > now)
  <2>1. f[n] = f[n - 1]
    BY <1>6, <1>11, <1>14
  <2>2. Live(s, width, now, n) = Live(s, width, now, n - 1)
    BY <1>11, <1>14 DEF Live
  <2>3. n \in Nat /\ Len(f[n - 1]) \in Nat /\ Len(f[n - 1]) <= n - 1
    BY <1>11, <1>12 DEF KeptOf
  <2>4. KeptOf(f[n], s, width, now, n)
    BY <2>1, <2>2, <2>3, <1>12 DEF KeptOf
  <2> QED
    BY <2>4, <1>9
<1> QED
  BY <1>13, <1>14

\* The numbers of the configuration, one by one.
LEMMA Numbers ==
    /\ Minute \in Nat /\ MaxAgent \in Nat /\ MaxRoom \in Nat /\ MaxIP \in Nat
    /\ PolicyWindow \in Nat /\ Block \in Nat /\ MaxViolations \in Nat
    /\ Minute > 0 /\ MaxAgent > 0 /\ MaxRoom > 0 /\ MaxIP > 0 /\ PolicyWindow > 0
    /\ Block > 0 /\ MaxViolations > 0
    /\ Solo \in Procs
BY SendLimitsAssumption

\* The limit of a window that is counted.
Limit(x) == IF x \in Agents THEN MaxAgent ELSE IF x \in Rooms THEN MaxRoom ELSE MaxIP

\* The windows of all processes are well typed and within their limits.
Bounded(w) ==
    /\ w \in [Procs -> [Subjects -> Seq(Nat)]]
    /\ \A p \in Procs, x \in Agents \cup Rooms \cup IPs : Len(w[p][x]) <= Limit(x)

\* TypeOK bounds the windows.
LEMMA TypeBounded ==
    ASSUME win \in [Procs -> [Subjects -> Seq(Nat)]]
    PROVE  Bounded(win) <=>
             \A p \in Procs : /\ \A a \in Agents : Len(win[p][a]) <= MaxAgent
                              /\ \A r \in Rooms : Len(win[p][r]) <= MaxRoom
                              /\ \A ip \in IPs : Len(win[p][ip]) <= MaxIP
BY SubjectsAssumption DEF Bounded, Limit

\* What Counted returns for a window within its limit: the pruned window, with the
\* clock added when there is room.
LEMMA CountedWindow ==
    ASSUME NEW s \in Seq(Nat), NEW max \in Nat, max > 0, Len(s) <= max, clock \in Nat
    PROVE  /\ Counted(s, max) \in Seq(Nat)
           /\ Len(Counted(s, max)) <= max
           /\ Allow(s, max) => Counted(s, max) = Append(Fresh(s, Minute, clock), clock)
           /\ ~Allow(s, max) => Counted(s, max) = Fresh(s, Minute, clock)
<1> DEFINE k == Fresh(s, Minute, clock)
<1>1. k \in Seq(Nat) /\ Len(k) <= Len(s) /\ Len(k) \in Nat /\ Len(s) \in Nat
  BY Numbers, FreshKeeps DEF KeptOf
<1> HIDE DEF k
<1>2. Append(k, clock) \in Seq(Nat) /\ Len(Append(k, clock)) = Len(k) + 1
  BY <1>1, AppendProperties
<1>3. Allow(s, max) <=> Len(k) < max
  BY DEF Allow, Kept, k
<1>4. Counted(s, max) = IF Len(k) < max THEN Append(k, clock) ELSE k
  BY DEF Counted, Allow, Kept, k
<1>5. CASE Len(k) < max
  BY <1>1, <1>2, <1>3, <1>4, <1>5 DEF k
<1>6. CASE ~(Len(k) < max)
  BY <1>1, <1>3, <1>4, <1>6 DEF k
<1> QED
  BY <1>5, <1>6

\* Replacing one window of one process by a bounded one.
LEMMA ReplaceWindow ==
    ASSUME NEW w, Bounded(w), NEW p \in Procs, NEW x \in Subjects, NEW s \in Seq(Nat),
           x \in Agents \cup Rooms \cup IPs => Len(s) <= Limit(x)
    PROVE  /\ Bounded([w EXCEPT ![p][x] = s])
           /\ [w EXCEPT ![p][x] = s][p][x] = s
           /\ \A q \in Procs, y \in Subjects :
                 <<q, y>> # <<p, x>> => [w EXCEPT ![p][x] = s][q][y] = w[q][y]
<1> DEFINE v == [w EXCEPT ![p][x] = s]
<1>1. w \in [Procs -> [Subjects -> Seq(Nat)]]
  BY DEF Bounded
<1>2. v = [w EXCEPT ![p] = [w[p] EXCEPT ![x] = s]]
  BY <1>1
<1>3. v \in [Procs -> [Subjects -> Seq(Nat)]]
  BY <1>1, <1>2
<1>4. v[p][x] = s
  BY <1>1, <1>2
<1>5. \A q \in Procs, y \in Subjects : <<q, y>> # <<p, x>> => v[q][y] = w[q][y]
  BY <1>1, <1>2
<1> HIDE DEF v
<1>6. \A q \in Procs, y \in Agents \cup Rooms \cup IPs : Len(v[q][y]) <= Limit(y)
  <2> TAKE q \in Procs, y \in Agents \cup Rooms \cup IPs
  <2>1. y \in Subjects
    BY DEF Subjects
  <2> QED
    BY <1>4, <1>5, <2>1 DEF Bounded
<1>7. Bounded(v)
  BY <1>3, <1>6 DEF Bounded
<1> QED
  BY <1>4, <1>5, <1>7 DEF v

\* Counting a request in one window.
LEMMA CountWindow ==
    ASSUME NEW w, Bounded(w), NEW p \in Procs, NEW x \in Agents \cup Rooms \cup IPs,
           clock \in Nat
    PROVE  LET v == [w EXCEPT ![p][x] = Counted(@, Limit(x))] IN
           /\ Bounded(v)
           /\ v[p][x] = Counted(w[p][x], Limit(x))
           /\ \A q \in Procs, y \in Subjects : <<q, y>> # <<p, x>> => v[q][y] = w[q][y]
<1>1. x \in Subjects
  BY DEF Subjects
<1>2. w[p][x] \in Seq(Nat) /\ Len(w[p][x]) <= Limit(x)
  BY <1>1 DEF Bounded
<1>3. Limit(x) \in Nat /\ Limit(x) > 0
  BY Numbers DEF Limit
<1> DEFINE s == Counted(w[p][x], Limit(x))
<1>4. s \in Seq(Nat) /\ Len(s) <= Limit(x)
  BY <1>2, <1>3, CountedWindow
<1>5. w \in [Procs -> [Subjects -> Seq(Nat)]]
  BY DEF Bounded
<1>6. [w EXCEPT ![p][x] = Counted(@, Limit(x))] = [w EXCEPT ![p][x] = s]
  BY <1>1, <1>5
<1> HIDE DEF s
<1>7. /\ Bounded([w EXCEPT ![p][x] = s])
      /\ [w EXCEPT ![p][x] = s][p][x] = s
      /\ \A q \in Procs, y \in Subjects :
            <<q, y>> # <<p, x>> => [w EXCEPT ![p][x] = s][q][y] = w[q][y]
  BY <1>1, <1>4, ReplaceWindow
<1> QED
  BY <1>6, <1>7 DEF s

\* The keys of the windows are told apart, and each has its limit and width.
LEMMA SubjectFacts ==
    /\ \A a \in Agents : a \in Subjects /\ Limit(a) = MaxAgent /\ Width(a) = Minute
    /\ \A r \in Rooms : r \in Subjects /\ Limit(r) = MaxRoom /\ Width(r) = Minute
    /\ \A ip \in IPs : ip \in Subjects /\ Limit(ip) = MaxIP /\ Width(ip) = Minute
    /\ \A a \in Agents, r \in Rooms : a # r
    /\ \A ip \in IPs, x \in Agents \cup Rooms : ip # x
    /\ \A a \in Agents : /\ <<"policy", a>> \in Subjects /\ Width(<<"policy", a>>) = PolicyWindow
                         /\ <<"policy", a>> \notin Agents \cup Rooms \cup IPs
    /\ \A a \in Agents, b \in Agents : <<"policy", a>> = <<"policy", b>> => a = b
    /\ \A x \in Subjects : Width(x) \in Nat
BY SubjectsAssumption, Numbers DEF Subjects, Limit, Width, Policies

\* What a request may do to a window s: nothing, prune it, or prune it and add the clock.
Touched(s, t, width) ==
    t = s \/ t = Fresh(s, width, clock) \/ t = Append(Fresh(s, width, clock), clock)

\* The request of a sends its message: it is not blocked, and both its windows had
\* room and now hold the clock.
Accepted(p, a, r, w) ==
    /\ Send(a, r, clock)
    /\ ~BlockedNow(p, a)
    /\ \A y \in {a, r} : /\ Len(Fresh(w[p][y], Minute, clock)) < Limit(y)
                         /\ win'[p][y] = Append(Fresh(w[p][y], Minute, clock), clock)

\* The message of a violates the policy.
Violated(p, a, w) ==
    LET kept == Append(Fresh(w[p][<<"policy", a>>], PolicyWindow, clock), clock) IN
    /\ win'[p][<<"policy", a>>] = kept
    /\ blocked' = IF Len(kept) >= MaxViolations
                  THEN [blocked EXCEPT ![p][a] = clock + Block] ELSE blocked
    /\ Refused(a, clock)

\* What a request changes, in terms of the windows w it starts from.
Effect(p, a, r, w) ==
    /\ Bounded(win')
    /\ \A q \in Procs \ {p}, y \in Subjects : win'[q][y] = w[q][y]
    /\ \A y \in Subjects : Touched(w[p][y], win'[p][y], Width(y))
    /\ messages' = messages \/ Accepted(p, a, r, w)
    /\ (blocked' = blocked /\ refusals' = refusals) \/ Violated(p, a, w)

\* SendMessage without a shared store has that effect, and leaves the windows of
\* addresses alone.
LEMMA LocalSendEffect ==
    ASSUME TypeOK, NEW p \in Procs, NEW a \in Agents, NEW r \in Rooms, NEW w, Bounded(w),
           LocalSend(p, a, r, w)
    PROVE  Effect(p, a, r, w) /\ \A y \in IPs : win'[p][y] = w[p][y]
<1> DEFINE w1 == [w EXCEPT ![p][a] = Counted(@, MaxAgent)]
           w2 == [w1 EXCEPT ![p][r] = Counted(@, MaxRoom)]
<1>0. clock \in Nat
  BY DEF TypeOK
<1>1. /\ Bounded(w1)
      /\ w1[p][a] = Counted(w[p][a], MaxAgent)
      /\ \A q \in Procs, y \in Subjects : <<q, y>> # <<p, a>> => w1[q][y] = w[q][y]
  BY <1>0, SubjectFacts, CountWindow
<1> HIDE DEF w1
<1>2. /\ Bounded(w2)
      /\ w2[p][r] = Counted(w1[p][r], MaxRoom)
      /\ \A q \in Procs, y \in Subjects : <<q, y>> # <<p, r>> => w2[q][y] = w1[q][y]
  BY <1>0, <1>1, SubjectFacts, CountWindow
<1> HIDE DEF w2
<1>3. a # r /\ a \in Subjects /\ r \in Subjects /\ Width(a) = Minute /\ Width(r) = Minute
      /\ Limit(a) = MaxAgent /\ Limit(r) = MaxRoom
  BY SubjectFacts
<1>4. w2[p][a] = Counted(w[p][a], MaxAgent) /\ w2[p][r] = Counted(w[p][r], MaxRoom)
  BY <1>1, <1>2, <1>3
<1>5. \A q \in Procs, y \in Subjects :
         (q # p \/ (y # a /\ y # r)) => w2[q][y] = w[q][y] /\ w1[q][y] = w[q][y]
  BY <1>1, <1>2
<1>6. \A y \in {a, r} : /\ w[p][y] \in Seq(Nat) /\ Len(w[p][y]) <= Limit(y)
                        /\ Limit(y) \in Nat /\ Limit(y) > 0
  BY <1>3, Numbers DEF Bounded
<1> DEFINE f(y) == Fresh(w[p][y], Minute, clock)
<1>7. /\ Allow(w[p][a], MaxAgent) =>
            Counted(w[p][a], MaxAgent) = Append(f(a), clock) /\ Len(f(a)) < MaxAgent
      /\ ~Allow(w[p][a], MaxAgent) => Counted(w[p][a], MaxAgent) = f(a)
  BY <1>0, <1>3, <1>6, CountedWindow DEF Allow, Kept
<1>8. /\ Allow(w[p][r], MaxRoom) =>
            Counted(w[p][r], MaxRoom) = Append(f(r), clock) /\ Len(f(r)) < MaxRoom
      /\ ~Allow(w[p][r], MaxRoom) => Counted(w[p][r], MaxRoom) = f(r)
  BY <1>0, <1>3, <1>6, CountedWindow DEF Allow, Kept
<1> HIDE DEF f
<1>9. \A y \in Subjects : Touched(w[p][y], w2[p][y], Width(y))
  BY <1>3, <1>4, <1>5, <1>7, <1>8 DEF Touched, f
<1>10. \A y \in Subjects : Touched(w[p][y], w1[p][y], Width(y))
  BY <1>1, <1>3, <1>5, <1>7 DEF Touched, f
<1>11. \A y \in IPs : y \in Subjects /\ y # a /\ y # r
  BY SubjectFacts
<1>12. CASE win' \in {w, w1, w2} /\ UNCHANGED <<messages, blocked, refusals>>
  <2>1. \A y \in Subjects : Touched(w[p][y], win'[p][y], Width(y))
    BY <1>9, <1>10, <1>12 DEF Touched
  <2>2. Bounded(win') /\ \A q \in Procs \ {p}, y \in Subjects : win'[q][y] = w[q][y]
    BY <1>1, <1>2, <1>5, <1>12
  <2>3. \A y \in IPs : win'[p][y] = w[p][y]
    BY <1>5, <1>11, <1>12
  <2> QED
    BY <2>1, <2>2, <2>3, <1>12 DEF Effect
<1>13. CASE /\ ~BlockedNow(p, a) /\ Allow(w[p][a], MaxAgent) /\ Allow(w[p][r], MaxRoom)
            /\ Send(a, r, clock) /\ win' = w2 /\ UNCHANGED <<blocked, refusals>>
  <2>1. Bounded(win') /\ \A q \in Procs \ {p}, y \in Subjects : win'[q][y] = w[q][y]
    BY <1>2, <1>5, <1>13
  <2>2. \A y \in IPs : win'[p][y] = w[p][y]
    BY <1>5, <1>11, <1>13
  <2>3. Accepted(p, a, r, w)
    BY <1>3, <1>4, <1>7, <1>8, <1>13 DEF Accepted, f
  <2> QED
    BY <2>1, <2>2, <2>3, <1>9, <1>13 DEF Effect
<1>14. CASE RecordViolation(p, a, w2) /\ UNCHANGED messages
  <2> DEFINE k == <<"policy", a>>
             u == Append(Fresh(w[p][k], PolicyWindow, clock), clock)
  <2>1. k \in Subjects /\ k # a /\ k # r /\ k \notin Agents \cup Rooms \cup IPs
        /\ Width(k) = PolicyWindow
    BY SubjectFacts
  <2>2. w2[p][k] = w[p][k] /\ w[p][k] \in Seq(Nat)
    BY <1>5, <2>1 DEF Bounded
  <2>3. u \in Seq(Nat)
    BY <1>0, <2>2, FreshKeeps, Numbers, AppendProperties DEF KeptOf
  <2>4. /\ win' = [w2 EXCEPT ![p][k] = u]
        /\ blocked' = IF Len(u) >= MaxViolations
                      THEN [blocked EXCEPT ![p][a] = clock + Block] ELSE blocked
        /\ Refused(a, clock)
    BY <1>14, <2>2 DEF RecordViolation, Kept
  <2> HIDE DEF u, k
  <2>5. /\ Bounded(win') /\ win'[p][k] = u
        /\ \A q \in Procs, y \in Subjects : <<q, y>> # <<p, k>> => win'[q][y] = w2[q][y]
    <3>1. /\ Bounded([w2 EXCEPT ![p][k] = u])
          /\ [w2 EXCEPT ![p][k] = u][p][k] = u
          /\ \A q \in Procs, y \in Subjects :
                <<q, y>> # <<p, k>> => [w2 EXCEPT ![p][k] = u][q][y] = w2[q][y]
      BY <1>2, <2>1, <2>3, ReplaceWindow
    <3> QED
      BY <3>1, <2>4
  <2>6. \A q \in Procs \ {p}, y \in Subjects : win'[q][y] = w[q][y]
    BY <1>5, <2>5
  <2>7. \A y \in Subjects : Touched(w[p][y], win'[p][y], Width(y))
    <3> TAKE y \in Subjects
    <3>1. CASE y = k
      BY <3>1, <2>1, <2>5 DEF u, Touched
    <3>2. CASE y # k
      BY <3>2, <1>9, <2>5
    <3> QED
      BY <3>1, <3>2
  <2>8. \A y \in IPs : win'[p][y] = w[p][y]
    BY <1>5, <1>11, <2>1, <2>5
  <2>9. Violated(p, a, w)
    BY <2>4, <2>5 DEF Violated, u, k
  <2> QED
    BY <2>5, <2>6, <2>7, <2>8, <2>9, <1>14 DEF Effect
<1> QED
  BY <1>12, <1>13, <1>14 DEF LocalSend, w1, w2

\* A request whole: the window of its address is counted first.
LEMMA RequestEffect ==
    ASSUME TypeOK, NEW p \in Procs, NEW a \in Agents, NEW r \in Rooms, NEW ip \in IPs,
           Request(p, a, r, ip)
    PROVE  /\ Effect(p, a, r, win)
           /\ shared => UNCHANGED <<messages, blocked, refusals>>
<1> DEFINE w == [win EXCEPT ![p][ip] = Counted(@, MaxIP)]
<1>0. clock \in Nat /\ Bounded(win)
  BY TypeBounded DEF TypeOK
<1>1. ip \in Subjects /\ Limit(ip) = MaxIP /\ Width(ip) = Minute
  BY SubjectFacts
<1>2. /\ Bounded(w)
      /\ w[p][ip] = Counted(win[p][ip], MaxIP)
      /\ \A q \in Procs, y \in Subjects : <<q, y>> # <<p, ip>> => w[q][y] = win[q][y]
  BY <1>0, <1>1, CountWindow
<1> HIDE DEF w
<1>3. win[p][ip] \in Seq(Nat) /\ Len(win[p][ip]) <= MaxIP /\ MaxIP \in Nat /\ MaxIP > 0
  BY <1>0, <1>1, Numbers DEF Bounded
<1>4. Touched(win[p][ip], w[p][ip], Minute)
  BY <1>0, <1>2, <1>3, CountedWindow DEF Touched
<1>5. \A y \in Subjects : Touched(win[p][y], w[p][y], Width(y))
  BY <1>1, <1>2, <1>4 DEF Touched
<1>6. CASE win' = w /\ UNCHANGED <<messages, blocked, refusals>>
  BY <1>2, <1>5, <1>6 DEF Effect
<1>7. CASE ~shared /\ LocalSend(p, a, r, w)
  <2>1. Effect(p, a, r, w) /\ \A y \in IPs : win'[p][y] = w[p][y]
    BY <1>2, <1>7, LocalSendEffect
  <2>2. \A y \in {a, r, <<"policy", a>>} : y \in Subjects /\ y # ip
    BY SubjectFacts
  <2>3. \A y \in {a, r, <<"policy", a>>} : w[p][y] = win[p][y]
    BY <1>2, <2>2
  <2>4. messages' = messages \/ Accepted(p, a, r, win)
    BY <2>1, <2>3 DEF Effect, Accepted
  <2>5. (blocked' = blocked /\ refusals' = refusals) \/ Violated(p, a, win)
    BY <2>1, <2>3 DEF Effect, Violated
  <2>6. \A y \in Subjects : Touched(win[p][y], win'[p][y], Width(y))
    <3> TAKE y \in Subjects
    <3>1. CASE y = ip
      BY <3>1, <1>5, <2>1
    <3>2. CASE y # ip
      <4>1. w[p][y] = win[p][y]
        BY <3>2, <1>2
      <4> QED
        BY <4>1, <2>1 DEF Effect
    <3> QED
      BY <3>1, <3>2
  <2>7. Bounded(win') /\ \A q \in Procs \ {p}, y \in Subjects : win'[q][y] = win[q][y]
    BY <1>2, <2>1 DEF Effect
  <2> QED
    BY <2>4, <2>5, <2>6, <2>7, <1>7 DEF Effect
<1> QED
  BY <1>6, <1>7 DEF Request, w

-----------------------------------------------------------------------------
(* Types *)

\* A process that serves a request has a request record.
LEMMA Serving ==
    ASSUME TypeOK, NEW p \in Procs, req[p] # Nil
    PROVE  /\ req[p] \in SendRequest
           /\ req[p].agent \in Agents /\ req[p].room \in Rooms
           /\ req[p].now \in Nat /\ req[p].at \in Nat
           /\ req[p].wrote \in PolicyState \cup {Nil}
<1>1. req[p] \in SendRequest
  BY DEF TypeOK
<1> QED
  BY <1>1 DEF SendRequest

\* A committed or local message is appended with its type.
LEMMA SendType ==
    ASSUME messages \in Seq(Message), NEW a \in Agents, NEW r \in Rooms, NEW at \in Nat,
           Send(a, r, at)
    PROVE  /\ messages' \in Seq(Message)
           /\ Len(messages') = Len(messages) + 1
           /\ messages'[Len(messages) + 1] = [sender |-> a, room |-> r, at |-> at]
           /\ \A i \in 1..Len(messages) : messages'[i] = messages[i]
           /\ DOMAIN messages = 1..Len(messages)
           /\ DOMAIN messages' = 1..(Len(messages) + 1)
           /\ Len(messages) \in Nat
<1> DEFINE m == [sender |-> a, room |-> r, at |-> at]
<1>1. m \in Message
  BY DEF Message
<1>2. messages' = Append(messages, m)
  BY DEF Send
<1> HIDE DEF m
<1>3. /\ Append(messages, m) \in Seq(Message)
      /\ Len(Append(messages, m)) = Len(messages) + 1
      /\ Append(messages, m)[Len(messages) + 1] = m
      /\ \A i \in 1..Len(messages) : Append(messages, m)[i] = messages[i]
  BY <1>1, AppendProperties
<1>4. Len(messages) \in Nat /\ DOMAIN messages = 1..Len(messages)
  BY LenProperties
<1>5. DOMAIN messages' = 1..Len(messages')
  BY <1>2, <1>3, LenProperties
<1> QED
  BY <1>2, <1>3, <1>4, <1>5 DEF m

\* The same for the record of a refusal.
LEMMA RefusedType ==
    ASSUME refusals \in [Agents -> Seq(Nat)], NEW a \in Agents, NEW now \in Nat,
           Refused(a, now)
    PROVE  /\ refusals' \in [Agents -> Seq(Nat)]
           /\ \A b \in Agents \ {a} : refusals'[b] = refusals[b]
           /\ Len(refusals'[a]) = Len(refusals[a]) + 1
           /\ refusals'[a][Len(refusals[a]) + 1] = now
           /\ \A i \in 1..Len(refusals[a]) : refusals'[a][i] = refusals[a][i]
           /\ DOMAIN refusals[a] = 1..Len(refusals[a])
           /\ DOMAIN refusals'[a] = 1..(Len(refusals[a]) + 1)
           /\ Len(refusals[a]) \in Nat
<1> DEFINE u == Append(refusals[a], now)
<1>1. /\ refusals' = [refusals EXCEPT ![a] = u]
  BY DEF Refused
<1>2. refusals[a] \in Seq(Nat)
  OBVIOUS
<1>3. /\ u \in Seq(Nat) /\ Len(u) = Len(refusals[a]) + 1
      /\ u[Len(refusals[a]) + 1] = now
      /\ \A i \in 1..Len(refusals[a]) : u[i] = refusals[a][i]
  BY <1>2, AppendProperties
<1>4. Len(refusals[a]) \in Nat /\ DOMAIN refusals[a] = 1..Len(refusals[a])
      /\ DOMAIN u = 1..Len(u)
  BY <1>2, <1>3, LenProperties
<1> HIDE DEF u
<1>5. refusals'[a] = u /\ refusals' \in [Agents -> Seq(Nat)]
      /\ \A b \in Agents \ {a} : refusals'[b] = refusals[b]
  BY <1>1, <1>3
<1> QED
  BY <1>3, <1>4, <1>5

\* RecordAgentPolicyViolation writes a row of its type.
LEMMA RecordedType ==
    ASSUME NEW ps \in PolicyState, NEW now \in Nat
    PROVE  Recorded(ps, now) \in PolicyState
<1>1. ps.count \in Nat /\ ps.until \in Nat /\ ps.start \in Nat \cup {Nil}
  BY DEF PolicyState
<1> DEFINE stale == ps.start # Nil /\ now - ps.start > PolicyWindow
           count == IF stale THEN 1 ELSE ps.count + 1
           start == IF stale \/ ps.start = Nil THEN now ELSE ps.start
           until == IF count >= MaxViolations THEN now + Block
                    ELSE IF stale THEN 0 ELSE ps.until
<1>2. count \in Nat
  BY <1>1
<1>3. start \in Nat \cup {Nil}
  BY <1>1
<1>4. until \in Nat
  BY <1>1, Numbers
<1>5. Recorded(ps, now) = [start |-> start, count |-> count, until |-> until]
  BY DEF Recorded
<1> HIDE DEF start, count, until
<1> QED
  BY <1>2, <1>3, <1>4, <1>5 DEF PolicyState

\* A request that takes a step keeps its type.
LEMMA ReqStep ==
    ASSUME TypeOK, NEW p \in Procs, NEW q \in SendRequest \cup {Nil},
           req' = [req EXCEPT ![p] = q]
    PROVE  /\ req' \in [Procs -> SendRequest \cup {Nil}]
           /\ req'[p] = q /\ \A o \in Procs \ {p} : req'[o] = req[o]
BY DEF TypeOK

\* Goto changes only the place.
LEMMA GotoStep ==
    ASSUME TypeOK, NEW p \in Procs, req[p] # Nil, NEW pc, Goto(p, pc),
           pc \in {"begin", "lockRoom", "lockAgent", "check", "rollback", "commit"}
    PROVE  /\ req' \in [Procs -> SendRequest \cup {Nil}]
           /\ req'[p] \in SendRequest
           /\ req'[p].pc = pc /\ req'[p].agent = req[p].agent /\ req'[p].room = req[p].room
           /\ req'[p].now = req[p].now /\ req'[p].at = req[p].at
           /\ req'[p].wrote = req[p].wrote
           /\ \A o \in Procs \ {p} : req'[o] = req[o]
<1> DEFINE q == [req[p] EXCEPT !.pc = pc]
<1>1. req[p] \in SendRequest
  BY Serving
<1>2. /\ q \in SendRequest
      /\ q.pc = pc /\ q.agent = req[p].agent /\ q.room = req[p].room
      /\ q.now = req[p].now /\ q.at = req[p].at /\ q.wrote = req[p].wrote
  BY <1>1 DEF SendRequest
<1>3. req' = [req EXCEPT ![p] = q]
  BY DEF Goto, TypeOK
<1> HIDE DEF q
<1>4. /\ req' \in [Procs -> SendRequest \cup {Nil}]
      /\ req'[p] = q /\ \A o \in Procs \ {p} : req'[o] = req[o]
  BY <1>2, <1>3, ReqStep
<1> QED
  BY <1>2, <1>4

\* BeginTx fixes created_at.
LEMMA BeginStep ==
    ASSUME TypeOK, NEW p \in Procs, BeginTx(p)
    PROVE  /\ req' \in [Procs -> SendRequest \cup {Nil}]
           /\ req[p] # Nil
           /\ req'[p].pc = "lockRoom" /\ req'[p].agent = req[p].agent
           /\ req'[p].room = req[p].room
           /\ req'[p].now = req[p].now /\ req'[p].at = clock
           /\ \A o \in Procs \ {p} : req'[o] = req[o]
<1> DEFINE q == [req[p] EXCEPT !.pc = "lockRoom", !.at = clock]
<1>0. req[p] # Nil /\ clock \in Nat
  BY DEF BeginTx, In, TypeOK
<1>1. req[p] \in SendRequest
  BY <1>0, Serving
<1>2. /\ q \in SendRequest
      /\ q.pc = "lockRoom" /\ q.agent = req[p].agent /\ q.room = req[p].room
      /\ q.now = req[p].now /\ q.at = clock
  BY <1>0, <1>1 DEF SendRequest
<1>3. req' = [req EXCEPT ![p] = q]
  BY DEF BeginTx, TypeOK
<1> HIDE DEF q
<1>4. /\ req' \in [Procs -> SendRequest \cup {Nil}]
      /\ req'[p] = q /\ \A o \in Procs \ {p} : req'[o] = req[o]
  BY <1>2, <1>3, ReqStep
<1> QED
  BY <1>0, <1>2, <1>4

\* Check decides: the request goes on to commit or to roll back, and a refusal for the
\* policy is remembered.
LEMMA CheckStep ==
    ASSUME TypeOK, NEW p \in Procs, Check(p)
    PROVE  /\ req' \in [Procs -> SendRequest \cup {Nil}]
           /\ req[p] # Nil /\ req[p].pc = "check"
           /\ req'[p] \in SendRequest
           /\ req'[p].pc \in {"rollback", "commit"}
           /\ req'[p].pc = "commit" => ~OverLimit(req[p])
           /\ req'[p].agent = req[p].agent /\ req'[p].room = req[p].room
           /\ req'[p].now = req[p].now /\ req'[p].at = req[p].at
           /\ \A o \in Procs \ {p} : req'[o] = req[o]
           /\ refusals' \in [Agents -> Seq(Nat)]
<1>0. req[p] # Nil /\ req[p].pc = "check"
  BY DEF Check, In
<1>1. /\ req[p] \in SendRequest /\ req[p].agent \in Agents /\ req[p].now \in Nat
  BY <1>0, Serving
<1>2. CASE Goto(p, "rollback") /\ UNCHANGED refusals
  BY <1>0, <1>2, GotoStep DEF TypeOK
<1>3. CASE ~OverLimit(req[p]) /\ Goto(p, "commit") /\ UNCHANGED refusals
  BY <1>0, <1>3, GotoStep DEF TypeOK
<1>4. CASE /\ req' = [req EXCEPT ![p].wrote = Recorded(policy[req[p].agent], req[p].now),
                                 ![p].pc = "rollback"]
           /\ Refused(req[p].agent, req[p].now)
  <2> DEFINE ps == Recorded(policy[req[p].agent], req[p].now)
             q == [req[p] EXCEPT !.wrote = ps, !.pc = "rollback"]
  <2>1. ps \in PolicyState
    BY <1>1, RecordedType DEF TypeOK
  <2> HIDE DEF ps
  <2>2. /\ q \in SendRequest
        /\ q.pc = "rollback" /\ q.agent = req[p].agent /\ q.room = req[p].room
        /\ q.now = req[p].now /\ q.at = req[p].at
    BY <1>1, <2>1 DEF SendRequest
  <2>3. req' = [req EXCEPT ![p] = q]
    BY <1>4 DEF TypeOK, ps
  <2> HIDE DEF q
  <2>4. /\ req' \in [Procs -> SendRequest \cup {Nil}]
        /\ req'[p] = q /\ \A o \in Procs \ {p} : req'[o] = req[o]
    BY <2>2, <2>3, ReqStep
  <2>5. refusals' \in [Agents -> Seq(Nat)]
    BY <1>1, <1>4, RefusedType DEF TypeOK
  <2> QED
    BY <1>0, <2>2, <2>4, <2>5
<1> QED
  BY <1>2, <1>3, <1>4 DEF Check

\* Release frees what p holds and nothing else.
LEMMA ReleaseStep ==
    ASSUME TypeOK, NEW p \in Procs, Release(p)
    PROVE  /\ req' \in [Procs -> SendRequest \cup {Nil}]
           /\ req'[p] = Nil /\ \A o \in Procs \ {p} : req'[o] = req[o]
           /\ roomLock' \in [Rooms -> Procs \cup {Nil}]
           /\ agentLock' \in [Agents -> Procs \cup {Nil}]
           /\ \A r \in Rooms, o \in Procs \ {p} : roomLock[r] = o => roomLock'[r] = o
           /\ \A a \in Agents, o \in Procs \ {p} : agentLock[a] = o => agentLock'[a] = o
<1>1. /\ req' \in [Procs -> SendRequest \cup {Nil}]
      /\ req'[p] = Nil /\ \A o \in Procs \ {p} : req'[o] = req[o]
  BY ReqStep DEF Release
<1>2. /\ roomLock' \in [Rooms -> Procs \cup {Nil}]
      /\ agentLock' \in [Agents -> Procs \cup {Nil}]
  BY DEF Release, TypeOK
<1>3. /\ \A r \in Rooms, o \in Procs \ {p} : roomLock[r] = o => roomLock'[r] = o
      /\ \A a \in Agents, o \in Procs \ {p} : agentLock[a] = o => agentLock'[a] = o
  BY DEF Release, TypeOK
<1> QED
  BY <1>1, <1>2, <1>3

\* The type invariant holds at the start.
LEMMA TypeInit == Init => TypeOK
<1> SUFFICES ASSUME Init PROVE TypeOK
  OBVIOUS
<1>1. clock \in Nat /\ shared \in BOOLEAN
  BY SendLimitsAssumption DEF Init
<1>2. messages \in Seq(Message)
  BY DEF Init
<1>3. policy \in [Agents -> PolicyState]
  <2>1. NoPolicy \in PolicyState
    BY DEF NoPolicy, PolicyState
  <2> QED
    BY <2>1 DEF Init
<1>4. req \in [Procs -> SendRequest \cup {Nil}]
      /\ roomLock \in [Rooms -> Procs \cup {Nil}]
      /\ agentLock \in [Agents -> Procs \cup {Nil}]
      /\ blocked \in [Procs -> [Agents -> Nat \cup {Nil}]]
  BY DEF Init
<1>5. <<>> \in Seq(Nat) /\ Len(<<>>) = 0
  OBVIOUS
<1>6. win \in [Procs -> [Subjects -> Seq(Nat)]] /\ refusals \in [Agents -> Seq(Nat)]
  BY <1>5 DEF Init
<1>7. \A p \in Procs, x \in Subjects : win[p][x] = <<>>
  BY DEF Init
<1>8. \A p \in Procs : /\ \A a \in Agents : Len(win[p][a]) <= MaxAgent
                       /\ \A r \in Rooms : Len(win[p][r]) <= MaxRoom
                       /\ \A ip \in IPs : Len(win[p][ip]) <= MaxIP
  BY <1>5, <1>7, SubjectFacts, Numbers
<1> QED
  BY <1>1, <1>2, <1>3, <1>4, <1>6, <1>8 DEF TypeOK

\* Every step keeps it.
LEMMA TypeStep == TypeOK /\ [Next]_vars => TypeOK'
<1> SUFFICES ASSUME TypeOK, [Next]_vars PROVE TypeOK'
  OBVIOUS
<1>0. clock \in Nat /\ Bounded(win)
  BY TypeBounded DEF TypeOK
<1>1. CASE Tick
  <2> DEFINE w == [p \in Procs |-> [x \in Subjects |-> Fresh(win[p][x], Width(x), clock + 1)]]
  <2>1. \A p \in Procs, x \in Subjects : /\ Fresh(win[p][x], Width(x), clock + 1) \in Seq(Nat)
                                         /\ Len(Fresh(win[p][x], Width(x), clock + 1)) \in Nat
                                         /\ Len(win[p][x]) \in Nat
                                         /\ Len(Fresh(win[p][x], Width(x), clock + 1))
                                              <= Len(win[p][x])
    <3> TAKE p \in Procs, x \in Subjects
    <3>1. win[p][x] \in Seq(Nat) /\ Width(x) \in Nat /\ clock + 1 \in Nat
      BY <1>0, SubjectFacts DEF Bounded
    <3> QED
      BY <3>1, FreshKeeps, LenProperties DEF KeptOf
  <2>2. w \in [Procs -> [Subjects -> Seq(Nat)]]
    BY <2>1
  <2>3. \A p \in Procs, x \in Agents \cup Rooms \cup IPs : Len(w[p][x]) <= Limit(x)
    <3> TAKE p \in Procs, x \in Agents \cup Rooms \cup IPs
    <3>1. x \in Subjects /\ Limit(x) \in Nat
      BY SubjectFacts, Numbers DEF Limit
    <3>2. Len(win[p][x]) <= Limit(x)
      BY <1>0 DEF Bounded
    <3>3. w[p][x] = Fresh(win[p][x], Width(x), clock + 1)
      BY <3>1
    <3> HIDE DEF w
    <3> QED
      BY <2>1, <3>1, <3>2, <3>3
  <2>4. win' = w
    BY <1>1 DEF Tick
  <2> HIDE DEF w
  <2>5. Bounded(win')
    BY <2>2, <2>3, <2>4 DEF Bounded
  <2>6. win' \in [Procs -> [Subjects -> Seq(Nat)]]
    BY <2>5 DEF Bounded
  <2>7. clock' \in Nat
    BY <1>0, <1>1 DEF Tick
  <2>8. UNCHANGED <<shared, messages, policy, req, roomLock, agentLock, blocked, refusals>>
    BY <1>1 DEF Tick, locks
  <2>9. \A p \in Procs : /\ \A a \in Agents : Len(win'[p][a]) <= MaxAgent
                         /\ \A r \in Rooms : Len(win'[p][r]) <= MaxRoom
                         /\ \A ip \in IPs : Len(win'[p][ip]) <= MaxIP
    BY <2>5, SubjectFacts DEF Bounded
  <2> QED
    BY <2>6, <2>7, <2>8, <2>9 DEF TypeOK
<1>2. ASSUME NEW p \in Procs, NEW a \in Agents, NEW r \in Rooms, NEW ip \in IPs,
             Request(p, a, r, ip)
      PROVE  TypeOK'
  <2>1. Effect(p, a, r, win)
    BY <1>2, RequestEffect
  <2>2. /\ win' \in [Procs -> [Subjects -> Seq(Nat)]]
        /\ \A q \in Procs : /\ \A b \in Agents : Len(win'[q][b]) <= MaxAgent
                            /\ \A s \in Rooms : Len(win'[q][s]) <= MaxRoom
                            /\ \A i \in IPs : Len(win'[q][i]) <= MaxIP
    BY <2>1, SubjectFacts DEF Effect, Bounded
  <2>3. messages' \in Seq(Message)
    <3>1. CASE messages' = messages
      BY <3>1 DEF TypeOK
    <3>2. CASE Accepted(p, a, r, win)
      BY <3>2, <1>0, SendType DEF Accepted, TypeOK
    <3> QED
      BY <2>1, <3>1, <3>2 DEF Effect
  <2>4. blocked' \in [Procs -> [Agents -> Nat \cup {Nil}]] /\ refusals' \in [Agents -> Seq(Nat)]
    <3>1. CASE blocked' = blocked /\ refusals' = refusals
      BY <3>1 DEF TypeOK
    <3>2. CASE Violated(p, a, win)
      <4>1. Refused(a, clock) /\ (blocked' = blocked
                                  \/ blocked' = [blocked EXCEPT ![p][a] = clock + Block])
        BY <3>2 DEF Violated
      <4>2. clock + Block \in Nat
        BY <1>0, Numbers
      <4>3. blocked' \in [Procs -> [Agents -> Nat \cup {Nil}]]
        <5>1. blocked \in [Procs -> [Agents -> Nat \cup {Nil}]]
          BY DEF TypeOK
        <5>2. [blocked EXCEPT ![p][a] = clock + Block]
                = [blocked EXCEPT ![p] = [blocked[p] EXCEPT ![a] = clock + Block]]
          BY <5>1
        <5>3. [blocked[p] EXCEPT ![a] = clock + Block] \in [Agents -> Nat \cup {Nil}]
          BY <5>1, <4>2
        <5> QED
          BY <4>1, <5>1, <5>2, <5>3
      <4> QED
        BY <4>1, <4>3, <1>0, RefusedType DEF TypeOK
    <3> QED
      BY <2>1, <3>1, <3>2 DEF Effect
  <2>5. req' \in [Procs -> SendRequest \cup {Nil}]
    <3> DEFINE q == [pc |-> "begin", agent |-> a, room |-> r, now |-> clock, at |-> 0,
                     wrote |-> Nil]
    <3>1. q \in SendRequest
      BY <1>0 DEF SendRequest
    <3>2. req' = req \/ req' = [req EXCEPT ![p] = q]
      BY <1>2 DEF Request, LocalSend
    <3> HIDE DEF q
    <3> QED
      BY <3>1, <3>2 DEF TypeOK
  <2>6. UNCHANGED <<clock, shared, policy, roomLock, agentLock>>
    BY <1>2 DEF Request, locks
  <2> QED
    BY <2>2, <2>3, <2>4, <2>5, <2>6 DEF TypeOK
<1>3. ASSUME NEW p \in Procs, BeginTx(p)
      PROVE  TypeOK'
  <2>1. UNCHANGED <<clock, shared, messages, policy, roomLock, agentLock, win, blocked, refusals>>
    BY <1>3 DEF BeginTx, locks, memory
  <2> QED
    BY <1>3, <2>1, BeginStep DEF TypeOK
<1>4. ASSUME NEW p \in Procs, LockRoom(p)
      PROVE  TypeOK'
  <2>1. UNCHANGED <<clock, shared, messages, policy, agentLock, win, blocked, refusals>>
        /\ req[p] # Nil /\ Goto(p, "lockAgent")
    BY <1>4 DEF LockRoom, memory, In
  <2>2. req' \in [Procs -> SendRequest \cup {Nil}]
    BY <2>1, GotoStep
  <2>3. roomLock' \in [Rooms -> Procs \cup {Nil}]
    BY <1>4 DEF LockRoom, TypeOK
  <2> QED
    BY <2>1, <2>2, <2>3 DEF TypeOK
<1>5. ASSUME NEW p \in Procs, LockAgent(p)
      PROVE  TypeOK'
  <2>1. UNCHANGED <<clock, shared, messages, policy, roomLock, win, blocked, refusals>>
        /\ req[p] # Nil /\ Goto(p, "check")
    BY <1>5 DEF LockAgent, memory, In
  <2>2. req' \in [Procs -> SendRequest \cup {Nil}]
    BY <2>1, GotoStep
  <2>3. agentLock' \in [Agents -> Procs \cup {Nil}]
    BY <1>5 DEF LockAgent, TypeOK
  <2> QED
    BY <2>1, <2>2, <2>3 DEF TypeOK
<1>6. ASSUME NEW p \in Procs, Check(p)
      PROVE  TypeOK'
  <2>1. UNCHANGED <<clock, shared, messages, policy, roomLock, agentLock, win, blocked>>
    BY <1>6 DEF Check, locks, memory
  <2> QED
    BY <1>6, <2>1, CheckStep DEF TypeOK
<1>7. ASSUME NEW p \in Procs, Commit(p)
      PROVE  TypeOK'
  <2>1. UNCHANGED <<clock, shared, win, blocked, refusals>> /\ req[p] # Nil /\ Release(p)
        /\ Send(req[p].agent, req[p].room, req[p].at)
    BY <1>7 DEF Commit, memory, In
  <2>2. req[p].agent \in Agents /\ req[p].room \in Rooms /\ req[p].at \in Nat
        /\ req[p].wrote \in PolicyState \cup {Nil}
    BY <2>1, Serving
  <2>3. messages' \in Seq(Message)
    BY <2>1, <2>2, SendType DEF TypeOK
  <2>4. policy' \in [Agents -> PolicyState]
    BY <1>7, <2>2 DEF Commit, TypeOK
  <2>5. /\ req' \in [Procs -> SendRequest \cup {Nil}]
        /\ roomLock' \in [Rooms -> Procs \cup {Nil}]
        /\ agentLock' \in [Agents -> Procs \cup {Nil}]
    BY <2>1, ReleaseStep
  <2> QED
    BY <2>1, <2>3, <2>4, <2>5 DEF TypeOK
<1>8. ASSUME NEW p \in Procs, Rollback(p)
      PROVE  TypeOK'
  <2>1. UNCHANGED <<clock, shared, messages, policy, win, blocked, refusals>> /\ Release(p)
    BY <1>8 DEF Rollback, memory
  <2>2. /\ req' \in [Procs -> SendRequest \cup {Nil}]
        /\ roomLock' \in [Rooms -> Procs \cup {Nil}]
        /\ agentLock' \in [Agents -> Procs \cup {Nil}]
    BY <2>1, ReleaseStep
  <2> QED
    BY <2>1, <2>2 DEF TypeOK
<1>9. CASE UNCHANGED vars
  BY <1>9 DEF vars, TypeOK
<1> QED
  BY <1>1, <1>2, <1>3, <1>4, <1>5, <1>6, <1>7, <1>8, <1>9 DEF Next, Step

\* Rows, locks and requests keep their types and no window outgrows its limit, for any
\* number of processes, agents, rooms and addresses and any limits.
THEOREM TypeCorrect == Spec => []TypeOK
BY TypeInit, TypeStep, PTL DEF Spec

-----------------------------------------------------------------------------
(* The rate limits *)

\* The messages of an agent or of a room, those counted since a time, and those
\* created within a minute.
Of(x) == {i \in DOMAIN messages : x \in {messages[i].sender, messages[i].room}}
Since(x, n) == {i \in Of(x) : messages[i].at + Minute >= n}
From(t) == IF shared THEN t ELSE t + 1
Within(x, t) == {i \in Of(x) : messages[i].at \in From(t)..(t + Minute)}

\* No minute holds more messages than the limit: RateHolds without a bound on t.
Rate == \A t \in Nat, x \in Agents \cup Rooms : Cardinality(Within(x, t)) <= Limit(x)

\* Only a shared store has transactions; a request read the clock before its
\* transaction began; it holds the room's lock once it asks for the agent's, both once
\* it checks; and between its check and its commit nobody uses up the limit it saw.
Transactions ==
    \A p \in Procs : req[p] # Nil =>
        /\ shared
        /\ req[p].now <= clock
        /\ req[p].pc # "begin" => req[p].now <= req[p].at
        /\ req[p].pc \in {"lockAgent", "check", "rollback", "commit"} =>
              roomLock[req[p].room] = p
        /\ req[p].pc \in {"check", "rollback", "commit"} => agentLock[req[p].agent] = p
        /\ req[p].pc = "commit" => ~OverLimit(req[p])

\* In memory, the windows of the process hold every message of the last minute.
Recent(x) == {i \in Of(x) : messages[i].at + Minute > clock}
Stamps == [i \in DOMAIN messages |-> messages[i].at]
MessageWindows ==
    ~shared => \A x \in Agents \cup Rooms : Covers(Recent(x), Stamps, win[Solo][x])

\* The messages are finitely many, and so is every part of them.
LEMMA MessagesFinite ==
    ASSUME TypeOK
    PROVE  /\ \A i \in DOMAIN messages : /\ messages[i] \in Message
                                         /\ messages[i].sender \in Agents
                                         /\ messages[i].room \in Rooms
                                         /\ messages[i].at \in Nat
           /\ IsFiniteSet(DOMAIN messages)
           /\ \A S \in SUBSET DOMAIN messages : IsFiniteSet(S) /\ Cardinality(S) \in Nat
<1>1. messages \in Seq(Message) /\ Len(messages) \in Nat /\ DOMAIN messages = 1..Len(messages)
  BY LenProperties DEF TypeOK
<1>2. \A i \in DOMAIN messages : messages[i] \in Message
  BY <1>1
<1>3. IsFiniteSet(DOMAIN messages)
  BY <1>1, FS_Interval
<1>4. \A S \in SUBSET DOMAIN messages : IsFiniteSet(S) /\ Cardinality(S) \in Nat
  BY <1>3, FS_Subset, FS_CardinalityType
<1> QED
  BY <1>2, <1>3, <1>4 DEF Message

\* The count the repository takes, as a set.
LEMMA CountIsSince ==
    ASSUME NEW x, NEW n
    PROVE  CountSince(x, n) = Cardinality(Since(x, n))
<1>1. {i \in DOMAIN messages : /\ x \in {messages[i].sender, messages[i].room}
                               /\ messages[i].at + Minute >= n} = Since(x, n)
  BY DEF Since, Of
<1> QED
  BY <1>1 DEF CountSince

\* A message of a in r joins the messages of a and of r and of nobody else.
LEMMA OneMore ==
    ASSUME TypeOK, NEW a \in Agents, NEW r \in Rooms, NEW at \in Nat, Send(a, r, at)
    PROVE  LET n == Len(messages) + 1 IN
           /\ n \notin DOMAIN messages
           /\ \A i \in DOMAIN messages : messages'[i] = messages[i]
           /\ messages'[n].at = at
           /\ DOMAIN messages' = DOMAIN messages \cup {n}
           /\ \A x \in Agents \cup Rooms :
                 Of(x)' = IF x \in {a, r} THEN Of(x) \cup {n} ELSE Of(x)
<1> DEFINE n == Len(messages) + 1
<1>1. /\ Len(messages') = Len(messages) + 1
      /\ messages'[n] = [sender |-> a, room |-> r, at |-> at]
      /\ \A i \in 1..Len(messages) : messages'[i] = messages[i]
      /\ DOMAIN messages = 1..Len(messages)
      /\ DOMAIN messages' = 1..(Len(messages) + 1)
      /\ Len(messages) \in Nat
  BY SendType DEF TypeOK
<1>2. /\ n \notin DOMAIN messages
      /\ DOMAIN messages' = DOMAIN messages \cup {n}
  BY <1>1
<1>3. /\ \A i \in DOMAIN messages : messages'[i] = messages[i]
      /\ messages'[n].at = at /\ messages'[n].sender = a /\ messages'[n].room = r
  BY <1>1
<1> HIDE DEF n
<1>4. \A x \in Agents \cup Rooms :
         Of(x)' = IF x \in {a, r} THEN Of(x) \cup {n} ELSE Of(x)
  BY <1>2, <1>3 DEF Of
<1> QED
  BY <1>2, <1>3, <1>4 DEF n

\* A new message keeps the rate if, for its agent and for its room, the messages that
\* share a minute with it are among fewer than the limit.
LEMMA RateGrows ==
    ASSUME TypeOK, Rate, NEW a \in Agents, NEW r \in Rooms, NEW at \in Nat, Send(a, r, at),
           shared' = shared,
           \A x \in {a, r} : \E C \in SUBSET Of(x) :
               /\ Cardinality(C) < Limit(x)
               /\ \A t \in Nat : at \in From(t)..(t + Minute) => Within(x, t) \subseteq C
    PROVE  Rate'
<1> DEFINE n == Len(messages) + 1
<1>1. /\ n \notin DOMAIN messages
      /\ \A i \in DOMAIN messages : messages'[i] = messages[i]
      /\ messages'[n].at = at
      /\ DOMAIN messages' = DOMAIN messages \cup {n}
      /\ \A x \in Agents \cup Rooms :
            Of(x)' = IF x \in {a, r} THEN Of(x) \cup {n} ELSE Of(x)
  BY OneMore
<1> HIDE DEF n
<1>2. \A x : Of(x) \subseteq DOMAIN messages
  BY DEF Of
<1>3. SUFFICES ASSUME NEW t \in Nat, NEW x \in Agents \cup Rooms
               PROVE  Cardinality(Within(x, t)') <= Limit(x)
  BY DEF Rate
<1>4. From(t)' = From(t)
  BY DEF From
<1>5. \A i \in Of(x) : messages'[i].at = messages[i].at
  BY <1>1, <1>2
<1>6. CASE x \notin {a, r} \/ ~(at \in From(t)..(t + Minute))
  <2>1. Within(x, t)' = Within(x, t)
    BY <1>1, <1>2, <1>4, <1>5, <1>6 DEF Within
  <2> QED
    BY <2>1 DEF Rate
<1>7. CASE x \in {a, r} /\ at \in From(t)..(t + Minute)
  <2>1. PICK C \in SUBSET Of(x) : Cardinality(C) < Limit(x) /\ Within(x, t) \subseteq C
    BY <1>7
  <2>2. Within(x, t)' \subseteq C \cup {n}
    BY <1>1, <1>4, <1>5, <1>7, <2>1 DEF Within
  <2>3. IsFiniteSet(C) /\ Cardinality(C) \in Nat /\ n \notin C
    BY <1>1, <1>2, MessagesFinite
  <2>4. IsFiniteSet(C \cup {n}) /\ Cardinality(C \cup {n}) = Cardinality(C) + 1
    BY <2>3, FS_AddElement
  <2>5. IsFiniteSet(Within(x, t)') /\ Cardinality(Within(x, t)') <= Cardinality(C \cup {n})
    BY <2>2, <2>4, FS_Subset
  <2>6. Cardinality(Within(x, t)') \in Nat
    BY <2>5, FS_CardinalityType
  <2>7. Limit(x) \in Nat
    BY Numbers DEF Limit
  <2> QED
    BY <2>1, <2>3, <2>4, <2>5, <2>6, <2>7
<1> QED
  BY <1>6, <1>7

\* A commit keeps the rate: what it counted under the locks is still all there is.
LEMMA CommitRate ==
    ASSUME TypeOK, Transactions, Rate, NEW p \in Procs, Commit(p)
    PROVE  Rate'
<1> DEFINE q == req[p]
<1>1. q # Nil /\ q.pc = "commit" /\ Send(q.agent, q.room, q.at) /\ shared' = shared
  BY DEF Commit, In
<1>2. q.agent \in Agents /\ q.room \in Rooms /\ q.now \in Nat /\ q.at \in Nat
  BY <1>1, Serving
<1>3. shared /\ q.now <= q.at /\ ~OverLimit(q)
  BY <1>1 DEF Transactions
<1> HIDE DEF q
<1>4. \A x \in {q.agent, q.room} : ~(Cardinality(Since(x, q.now)) >= Limit(x))
  BY <1>2, <1>3, CountIsSince, SubjectFacts DEF OverLimit
<1>5. \A x : /\ Since(x, q.now) \in SUBSET Of(x) /\ Since(x, q.now) \in SUBSET DOMAIN messages
  BY DEF Since, Of
<1>6. \A x \in {q.agent, q.room} : Cardinality(Since(x, q.now)) < Limit(x)
  <2> TAKE x \in {q.agent, q.room}
  <2>1. Cardinality(Since(x, q.now)) \in Nat /\ Limit(x) \in Nat
    BY <1>5, MessagesFinite, Numbers DEF Limit
  <2> QED
    BY <1>4, <2>1
<1>7. \A x \in {q.agent, q.room}, t \in Nat :
         q.at \in From(t)..(t + Minute) => Within(x, t) \subseteq Since(x, q.now)
  <2> SUFFICES ASSUME NEW x \in {q.agent, q.room}, NEW t \in Nat, q.at \in From(t)..(t + Minute),
                      NEW i \in Within(x, t)
               PROVE  i \in Since(x, q.now)
    OBVIOUS
  <2>1. From(t) = t
    BY <1>3 DEF From
  <2>2. i \in Of(x) /\ messages[i].at \in t..(t + Minute)
    BY <2>1 DEF Within
  <2>3. messages[i].at \in Nat
    BY <2>2, MessagesFinite DEF Of
  <2>4. messages[i].at + Minute >= q.now
    BY <1>2, <1>3, <2>1, <2>2, <2>3, Numbers
  <2> QED
    BY <2>2, <2>4 DEF Since
<1>8. \A x \in {q.agent, q.room} : \E C \in SUBSET Of(x) :
               /\ Cardinality(C) < Limit(x)
               /\ \A t \in Nat : q.at \in From(t)..(t + Minute) => Within(x, t) \subseteq C
  BY <1>5, <1>6, <1>7
<1> QED
  BY <1>1, <1>2, <1>8, RateGrows

\* Covers, for fewer indices or for timestamps that agree on them.
LEMMA CoverFewer ==
    ASSUME NEW I, NEW J \in SUBSET I, NEW f, NEW e, NEW w, Covers(I, f, w),
           \A i \in J : e[i] = f[i]
    PROVE  Covers(J, e, w)
<1>1. PICK g \in [I -> DOMAIN w] : /\ \A i \in I, j \in I : g[i] = g[j] => i = j
                                   /\ \A i \in I : w[g[i]] = f[i]
  BY DEF Covers
<1> DEFINE h == [i \in J |-> g[i]]
<1>2. h \in [J -> DOMAIN w]
  BY <1>1
<1>3. /\ \A i \in J, j \in J : h[i] = h[j] => i = j
      /\ \A i \in J : w[h[i]] = e[i]
  BY <1>1
<1> HIDE DEF h
<1> QED
  BY <1>2, <1>3 DEF Covers

\* Covers is transitive.
LEMMA CoverChain ==
    ASSUME NEW I, NEW f, NEW s, NEW J, NEW w, Covers(I, f, s), Covers(J, s, w),
           \A i \in I, j \in DOMAIN s : f[i] = s[j] => j \in J
    PROVE  Covers(I, f, w)
<1>1. PICK g \in [I -> DOMAIN s] : /\ \A i \in I, j \in I : g[i] = g[j] => i = j
                                   /\ \A i \in I : s[g[i]] = f[i]
  BY DEF Covers
<1>2. PICK h \in [J -> DOMAIN w] : /\ \A i \in J, j \in J : h[i] = h[j] => i = j
                                   /\ \A i \in J : w[h[i]] = s[i]
  BY DEF Covers
<1> DEFINE k == [i \in I |-> h[g[i]]]
<1>3. \A i \in I : g[i] \in J
  BY <1>1
<1>4. k \in [I -> DOMAIN w]
  BY <1>2, <1>3
<1>5. /\ \A i \in I, j \in I : k[i] = k[j] => i = j
      /\ \A i \in I : w[k[i]] = f[i]
  BY <1>1, <1>2, <1>3
<1> HIDE DEF k
<1> QED
  BY <1>4, <1>5 DEF Covers

\* Pruning keeps covering what is within the width.
LEMMA CoverFresh ==
    ASSUME NEW I, NEW f, NEW s \in Seq(Nat), NEW width \in Nat, NEW now \in Nat,
           Covers(I, f, s), \A i \in I : f[i] + width > now
    PROVE  Covers(I, f, Fresh(s, width, now))
<1> DEFINE J == Live(s, width, now, Len(s))
<1>1. Covers(J, s, Fresh(s, width, now))
  BY FreshKeeps DEF KeptOf
<1>2. \A i \in I, j \in DOMAIN s : f[i] = s[j] => j \in J
  BY DEF Live
<1> HIDE DEF J
<1> QED
  BY <1>1, <1>2, CoverChain

\* Adding a timestamp, which may be that of a new index.
LEMMA CoverAppend ==
    ASSUME NEW I, NEW f, NEW s \in Seq(Nat), NEW t \in Nat, Covers(I, f, s)
    PROVE  /\ Covers(I, f, Append(s, t))
           /\ \A n, e : (n \notin I /\ e[n] = t /\ \A i \in I : e[i] = f[i])
                           => Covers(I \cup {n}, e, Append(s, t))
<1> DEFINE u == Append(s, t)
           m == Len(s)
<1>1. /\ m \in Nat /\ DOMAIN s = 1..m /\ DOMAIN u = 1..(m + 1) /\ u[m + 1] = t
      /\ \A i \in 1..m : u[i] = s[i]
  <2>1. /\ u \in Seq(Nat) /\ Len(u) = m + 1 /\ u[m + 1] = t
        /\ \A i \in 1..m : u[i] = s[i]
    BY AppendProperties
  <2> QED
    BY <2>1, LenProperties
<1> HIDE DEF u, m
<1>2. PICK g \in [I -> DOMAIN s] : /\ \A i \in I, j \in I : g[i] = g[j] => i = j
                                   /\ \A i \in I : s[g[i]] = f[i]
  BY DEF Covers
<1>3. Covers(I, f, u)
  <2>1. g \in [I -> DOMAIN u] /\ \A i \in I : u[g[i]] = f[i]
    BY <1>1, <1>2
  <2> QED
    BY <1>2, <2>1 DEF Covers
<1>4. ASSUME NEW n, NEW e, n \notin I, e[n] = t, \A i \in I : e[i] = f[i]
      PROVE  Covers(I \cup {n}, e, u)
  <2> DEFINE h == [i \in I \cup {n} |-> IF i = n THEN m + 1 ELSE g[i]]
  <2>1. \A i \in I : h[i] = g[i] /\ g[i] \in 1..m
    BY <1>1, <1>2, <1>4
  <2>2. h[n] = m + 1 /\ m + 1 \notin 1..m /\ m + 1 \in DOMAIN u
    BY <1>1
  <2>3. h \in [I \cup {n} -> DOMAIN u]
    BY <1>1, <2>1, <2>2
  <2> HIDE DEF h
  <2>4. \A i \in I \cup {n}, j \in I \cup {n} : h[i] = h[j] => i = j
    BY <1>2, <2>1, <2>2
  <2>5. \A i \in I \cup {n} : u[h[i]] = e[i]
    BY <1>1, <1>2, <1>4, <2>1, <2>2
  <2> QED
    BY <2>3, <2>4, <2>5 DEF Covers
<1> QED
  BY <1>3, <1>4 DEF u

\* A window that was touched still covers what is within its width.
LEMMA CoverTouched ==
    ASSUME NEW I, NEW f, NEW s \in Seq(Nat), NEW u, NEW width \in Nat, clock \in Nat,
           Touched(s, u, width), Covers(I, f, s), \A i \in I : f[i] + width > clock
    PROVE  Covers(I, f, u)
<1>1. Covers(I, f, Fresh(s, width, clock)) /\ Fresh(s, width, clock) \in Seq(Nat)
  BY CoverFresh, FreshKeeps DEF KeptOf
<1>2. Covers(I, f, Append(Fresh(s, width, clock), clock))
  BY <1>1, CoverAppend
<1> QED
  BY <1>1, <1>2 DEF Touched

\* A window is at least as long as what it covers is many.
LEMMA CoverCount ==
    ASSUME NEW I, NEW f, NEW s \in Seq(Nat), Covers(I, f, s)
    PROVE  IsFiniteSet(I) /\ Cardinality(I) \in Nat /\ Cardinality(I) <= Len(s)
<1>1. PICK g \in [I -> DOMAIN s] : \A i \in I, j \in I : g[i] = g[j] => i = j
  BY DEF Covers
<1>2. Len(s) \in Nat /\ DOMAIN s = 1..Len(s)
  BY LenProperties
<1>3. IsFiniteSet(DOMAIN s) /\ Cardinality(DOMAIN s) = Len(s)
  <2>1. Cardinality(1..Len(s)) = IF 1 > Len(s) THEN 0 ELSE Len(s) - 1 + 1
    BY <1>2, FS_Interval
  <2>2. IsFiniteSet(1..Len(s))
    BY <1>2, FS_Interval
  <2> QED
    BY <1>2, <2>1, <2>2
<1>4. g \in Injection(I, DOMAIN s)
  BY <1>1 DEF Injection, IsInjective
<1>5. IsFiniteSet(I) /\ Cardinality(I) <= Cardinality(DOMAIN s)
  BY <1>3, <1>4, FS_Injection
<1> QED
  BY <1>3, <1>5, FS_CardinalityType

\* While the messages stay, so do the counts.
LEMMA SameMessages ==
    ASSUME messages' = messages
    PROVE  /\ \A x : Of(x)' = Of(x)
           /\ Stamps' = Stamps
           /\ \A q : OverLimit(q)' <=> OverLimit(q)
           /\ shared' = shared => \A x, t : Within(x, t)' = Within(x, t)
<1>1. \A x : Of(x)' = Of(x)
  BY DEF Of
<1>2. \A x, n : CountSince(x, n)' = CountSince(x, n)
  BY DEF CountSince
<1>3. \A q : OverLimit(q)' <=> OverLimit(q)
  BY <1>2 DEF OverLimit
<1>4. shared' = shared => \A x, t : Within(x, t)' = Within(x, t)
  BY <1>1 DEF Within, From
<1> QED
  BY <1>1, <1>3, <1>4 DEF Stamps

\* What Transactions says of one process.
Fine(p) ==
    req[p] # Nil =>
        /\ shared
        /\ req[p].now <= clock
        /\ req[p].pc # "begin" => req[p].now <= req[p].at
        /\ req[p].pc \in {"lockAgent", "check", "rollback", "commit"} =>
              roomLock[req[p].room] = p
        /\ req[p].pc \in {"check", "rollback", "commit"} => agentLock[req[p].agent] = p
        /\ req[p].pc = "commit" => ~OverLimit(req[p])

\* Transactions, process by process.
LEMMA FineAll == Transactions <=> \A p \in Procs : Fine(p)
BY DEF Transactions, Fine

\* A process that keeps its place, its locks and its count keeps its part.
LEMMA StaysFine ==
    ASSUME NEW o, Fine(o), req'[o] = req[o], shared' = shared,
           req[o] # Nil => /\ clock \in Nat /\ req[o].now \in Nat
                           /\ clock' = clock \/ clock' = clock + 1,
           req[o] # Nil => /\ roomLock[req[o].room] = o => roomLock'[req[o].room] = o
                           /\ agentLock[req[o].agent] = o => agentLock'[req[o].agent] = o,
           req[o] # Nil /\ req[o].pc = "commit" =>
               \A q : q = req[o] => (OverLimit(q)' => OverLimit(q))
    PROVE  Fine(o)'
<1>1. CASE req[o] = Nil
  BY <1>1 DEF Fine
<1>2. CASE req[o] # Nil
  <2>1. req[o].now <= clock'
    BY <1>2 DEF Fine
  <2>2. PICK q : q = req[o]
    OBVIOUS
  <2>3. req[o].pc = "commit" => ~OverLimit(q)'
    BY <1>2, <2>2 DEF Fine
  <2>4. req[o].pc = "commit" => ~OverLimit(req[o])'
    BY <2>2, <2>3 DEF OverLimit, CountSince
  <2> QED
    BY <1>2, <2>1, <2>4 DEF Fine
<1> QED
  BY <1>1, <1>2

\* The lock discipline and the counts of the transactions are kept by every step.
LEMMA TransactionsStep ==
    ASSUME TypeOK, Transactions, [Next]_vars
    PROVE  Transactions'
<1>0. clock \in Nat /\ \A o \in Procs : req[o] # Nil => req[o].now \in Nat
  BY Serving DEF TypeOK
<1>f. \A o \in Procs : Fine(o)
  BY FineAll
<1>s. messages' = messages => \A q : OverLimit(q)' => OverLimit(q)
  BY SameMessages
<1>1. CASE Tick
  <2>1. clock' = clock + 1 /\ shared' = shared /\ messages' = messages /\ req' = req
        /\ roomLock' = roomLock /\ agentLock' = agentLock
    BY <1>1 DEF Tick, locks
  <2>2. \A o \in Procs : Fine(o)'
    BY <2>1, <1>0, <1>f, <1>s, StaysFine
  <2> QED
    BY <2>2 DEF Transactions, Fine
<1>2. ASSUME NEW p \in Procs, NEW a \in Agents, NEW r \in Rooms, NEW ip \in IPs,
             Request(p, a, r, ip)
      PROVE  Transactions'
  <2>1. /\ clock' = clock /\ shared' = shared /\ req[p] = Nil
        /\ roomLock' = roomLock /\ agentLock' = agentLock
    BY <1>2 DEF Request, locks
  <2> DEFINE q == [pc |-> "begin", agent |-> a, room |-> r, now |-> clock, at |-> 0,
                   wrote |-> Nil]
  <2>2. CASE shared
    <3>1. messages' = messages
      BY <1>2, <2>2, RequestEffect
    <3>2. req' = req \/ req' = [req EXCEPT ![p] = q]
      BY <1>2 DEF Request, LocalSend
    <3>3. \A o \in Procs : (o # p \/ req' = req) => Fine(o)'
      BY <2>1, <3>1, <3>2, <1>0, <1>f, <1>s, StaysFine DEF TypeOK
    <3>4. req' # req => Fine(p)'
      BY <1>0, <2>1, <2>2, <3>2 DEF TypeOK, Fine
    <3> QED
      BY <3>3, <3>4 DEF Transactions, Fine
  <2>3. CASE ~shared
    <3>1. req' = req
      BY <1>2, <2>3 DEF Request, LocalSend
    <3>2. \A o \in Procs : req[o] = Nil
      BY <2>3 DEF Transactions
    <3> QED
      BY <3>1, <3>2 DEF Transactions
  <2> QED
    BY <2>2, <2>3
<1>3. ASSUME NEW p \in Procs, BeginTx(p)
      PROVE  Transactions'
  <2>1. /\ clock' = clock /\ shared' = shared /\ messages' = messages
        /\ roomLock' = roomLock /\ agentLock' = agentLock
    BY <1>3 DEF BeginTx, locks
  <2>2. /\ req[p] # Nil
        /\ req'[p].pc = "lockRoom"
        /\ req'[p].now = req[p].now /\ req'[p].at = clock
        /\ \A o \in Procs \ {p} : req'[o] = req[o]
    BY <1>3, BeginStep
  <2>3. \A o \in Procs \ {p} : Fine(o)'
    BY <2>1, <2>2, <1>0, <1>f, <1>s, StaysFine
  <2>4. Fine(p)'
    BY <2>1, <2>2, <1>f DEF Fine
  <2> QED
    BY <2>3, <2>4 DEF Transactions, Fine
<1>4. ASSUME NEW p \in Procs, LockRoom(p)
      PROVE  Transactions'
  <2>1. /\ clock' = clock /\ shared' = shared /\ messages' = messages
        /\ agentLock' = agentLock /\ req[p] # Nil /\ req[p].pc = "lockRoom"
        /\ roomLock[req[p].room] = Nil /\ Goto(p, "lockAgent")
        /\ roomLock' = [roomLock EXCEPT ![req[p].room] = p]
    BY <1>4 DEF LockRoom, In
  <2>2. /\ req'[p].pc = "lockAgent" /\ req'[p].room = req[p].room
        /\ req'[p].now = req[p].now /\ req'[p].at = req[p].at
        /\ \A o \in Procs \ {p} : req'[o] = req[o]
    BY <2>1, GotoStep
  <2>3. \A o \in Procs \ {p} : req[o] # Nil =>
           (roomLock[req[o].room] = o => roomLock'[req[o].room] = o)
    <3> TAKE o \in Procs \ {p}
    <3>1. o # Nil
      BY NilAssumption
    <3>2. req[o] # Nil => req[o].room \in Rooms
      BY Serving
    <3> QED
      BY <2>1, <3>1, <3>2 DEF TypeOK
  <2>4. \A o \in Procs \ {p} : Fine(o)'
    BY <2>1, <2>2, <2>3, <1>0, <1>f, <1>s, StaysFine
  <2>5. roomLock'[req[p].room] = p
    BY <2>1, Serving DEF TypeOK
  <2>6. Fine(p)'
    BY <2>1, <2>2, <2>5, <1>f DEF Fine
  <2> QED
    BY <2>4, <2>6 DEF Transactions, Fine
<1>5. ASSUME NEW p \in Procs, LockAgent(p)
      PROVE  Transactions'
  <2>1. /\ clock' = clock /\ shared' = shared /\ messages' = messages
        /\ roomLock' = roomLock /\ req[p] # Nil /\ req[p].pc = "lockAgent"
        /\ agentLock[req[p].agent] = Nil /\ Goto(p, "check")
        /\ agentLock' = [agentLock EXCEPT ![req[p].agent] = p]
    BY <1>5 DEF LockAgent, In
  <2>2. /\ req'[p].pc = "check" /\ req'[p].room = req[p].room
        /\ req'[p].agent = req[p].agent
        /\ req'[p].now = req[p].now /\ req'[p].at = req[p].at
        /\ \A o \in Procs \ {p} : req'[o] = req[o]
    BY <2>1, GotoStep
  <2>3. \A o \in Procs \ {p} : req[o] # Nil =>
           (agentLock[req[o].agent] = o => agentLock'[req[o].agent] = o)
    <3> TAKE o \in Procs \ {p}
    <3>1. o # Nil
      BY NilAssumption
    <3>2. req[o] # Nil => req[o].agent \in Agents
      BY Serving
    <3> QED
      BY <2>1, <3>1, <3>2 DEF TypeOK
  <2>4. \A o \in Procs \ {p} : Fine(o)'
    BY <2>1, <2>2, <2>3, <1>0, <1>f, <1>s, StaysFine
  <2>5. agentLock'[req[p].agent] = p
    BY <2>1, Serving DEF TypeOK
  <2>6. Fine(p)'
    BY <2>1, <2>2, <2>5, <1>f DEF Fine
  <2> QED
    BY <2>4, <2>6 DEF Transactions, Fine
<1>6. ASSUME NEW p \in Procs, Check(p)
      PROVE  Transactions'
  <2>1. /\ clock' = clock /\ shared' = shared /\ messages' = messages
        /\ roomLock' = roomLock /\ agentLock' = agentLock
    BY <1>6 DEF Check, locks
  <2>2. /\ req[p] # Nil /\ req[p].pc = "check"
        /\ req'[p] \in SendRequest
        /\ req'[p].pc \in {"rollback", "commit"}
        /\ req'[p].pc = "commit" => ~OverLimit(req[p])
        /\ req'[p].agent = req[p].agent /\ req'[p].room = req[p].room
        /\ req'[p].now = req[p].now /\ req'[p].at = req[p].at
        /\ \A o \in Procs \ {p} : req'[o] = req[o]
    BY <1>6, CheckStep
  <2>3. \A o \in Procs \ {p} : Fine(o)'
    BY <2>1, <2>2, <1>0, <1>f, <1>s, StaysFine
  <2>4. req'[p].pc = "commit" => ~OverLimit(req[p])'
    BY <2>1, <2>2 DEF OverLimit, CountSince
  <2>5. Fine(p)'
    BY <2>1, <2>2, <2>4, <1>f DEF Fine
  <2> QED
    BY <2>3, <2>5 DEF Transactions, Fine
<1>7. ASSUME NEW p \in Procs, Commit(p)
      PROVE  Transactions'
  <2>1. /\ clock' = clock /\ shared' = shared /\ Release(p)
        /\ req[p] # Nil /\ req[p].pc = "commit"
        /\ Send(req[p].agent, req[p].room, req[p].at)
    BY <1>7 DEF Commit, In
  <2>2. /\ req'[p] = Nil /\ \A o \in Procs \ {p} : req'[o] = req[o]
        /\ \A r \in Rooms, o \in Procs \ {p} : roomLock[r] = o => roomLock'[r] = o
        /\ \A a \in Agents, o \in Procs \ {p} : agentLock[a] = o => agentLock'[a] = o
    BY <2>1, ReleaseStep
  <2>3. /\ req[p].agent \in Agents /\ req[p].room \in Rooms /\ req[p].at \in Nat
        /\ roomLock[req[p].room] = p /\ agentLock[req[p].agent] = p
    BY <2>1, Serving DEF Transactions
  <2>4. ASSUME NEW o \in Procs \ {p}, req[o] # Nil, req[o].pc = "commit",
               NEW q, q = req[o], OverLimit(q)'
        PROVE  OverLimit(q)
    <3>1. q.agent \in Agents /\ q.room \in Rooms /\ q.now \in Nat
      BY <2>4, Serving
    <3>2. q.agent # req[p].agent /\ q.room # req[p].room
      BY <2>3, <2>4 DEF Transactions
    <3>3. q.agent # req[p].room /\ q.room # req[p].agent
      BY <2>3, <3>1, SubjectFacts
    <3>4. \A x \in {q.agent, q.room} : Of(x)' = Of(x)
      BY <2>1, <2>3, <3>1, <3>2, <3>3, OneMore
    <3>5. \A i \in DOMAIN messages : messages'[i] = messages[i]
      BY <2>1, <2>3, OneMore
    <3>6. \A x \in {q.agent, q.room} : Since(x, q.now)' = Since(x, q.now)
      BY <3>4, <3>5 DEF Since, Of
    <3>7. \A x \in {q.agent, q.room} : CountSince(x, q.now)' = CountSince(x, q.now)
      <4> SUFFICES ASSUME NEW x \in {q.agent, q.room}
                   PROVE  CountSince(x, q.now)' = CountSince(x, q.now)
        OBVIOUS
      <4>1. CountSince(x, q.now) = Cardinality(Since(x, q.now))
        BY CountIsSince
      <4>2. {i \in DOMAIN messages' : /\ x \in {messages'[i].sender, messages'[i].room}
                                      /\ messages'[i].at + Minute >= q.now}
              = Since(x, q.now)'
        BY DEF Since, Of
      <4>3. CountSince(x, q.now)' = Cardinality(Since(x, q.now)')
        BY <4>2 DEF CountSince
      <4> QED
        BY <4>1, <4>3, <3>6
    <3> QED
      BY <2>4, <3>7 DEF OverLimit
  <2>5. \A o \in Procs \ {p} : Fine(o)'
    <3> TAKE o \in Procs \ {p}
    <3>1. req[o] # Nil => req[o].agent \in Agents /\ req[o].room \in Rooms
      BY Serving
    <3>2. Fine(o) /\ req'[o] = req[o]
      BY <1>f, <2>2
    <3> QED
      BY <2>1, <2>2, <2>4, <3>1, <3>2, <1>0, StaysFine
  <2>6. Fine(p)'
    BY <2>2 DEF Fine
  <2> QED
    BY <2>5, <2>6 DEF Transactions, Fine
<1>8. ASSUME NEW p \in Procs, Rollback(p)
      PROVE  Transactions'
  <2>1. clock' = clock /\ shared' = shared /\ messages' = messages /\ Release(p)
    BY <1>8 DEF Rollback
  <2>2. /\ req'[p] = Nil /\ \A o \in Procs \ {p} : req'[o] = req[o]
        /\ \A r \in Rooms, o \in Procs \ {p} : roomLock[r] = o => roomLock'[r] = o
        /\ \A a \in Agents, o \in Procs \ {p} : agentLock[a] = o => agentLock'[a] = o
    BY <2>1, ReleaseStep
  <2>3. \A o \in Procs \ {p} : Fine(o)'
    <3> TAKE o \in Procs \ {p}
    <3>1. req[o] # Nil => req[o].agent \in Agents /\ req[o].room \in Rooms
      BY Serving
    <3>2. Fine(o) /\ req'[o] = req[o]
      BY <1>f, <2>2
    <3> QED
      BY <2>1, <2>2, <3>1, <3>2, <1>0, <1>s, StaysFine
  <2>4. Fine(p)'
    BY <2>2 DEF Fine
  <2> QED
    BY <2>3, <2>4 DEF Transactions, Fine
<1>9. CASE UNCHANGED vars
  <2>1. \A o \in Procs : Fine(o)'
    BY <1>9, <1>0, <1>f, <1>s, StaysFine DEF vars
  <2> QED
    BY <2>1 DEF Transactions, Fine
<1> QED
  BY <1>1, <1>2, <1>3, <1>4, <1>5, <1>6, <1>7, <1>8, <1>9 DEF Next, Step

\* Without a shared store only requests of one process and the clock do anything.
LEMMA LocalNext ==
    ASSUME TypeOK, Transactions, [Next]_vars, ~shared
    PROVE  \/ Tick
           \/ \E a \in Agents, r \in Rooms, ip \in IPs : Request(Solo, a, r, ip)
           \/ UNCHANGED vars
<1>1. \A p \in Procs : req[p] = Nil
  BY DEF Transactions
<1>2. \A p \in Procs : ~Step(p)
  BY <1>1 DEF Step, BeginTx, LockRoom, LockAgent, Check, Commit, Rollback, In
<1>3. \A p \in Procs, a \in Agents, r \in Rooms, ip \in IPs : Request(p, a, r, ip) => p = Solo
  BY DEF Request
<1> QED
  BY <1>2, <1>3 DEF Next

\* shared is chosen once.
LEMMA SharedStays ==
    ASSUME [Next]_vars
    PROVE  shared' = shared
BY DEF Next, Step, Tick, Request, BeginTx, LockRoom, LockAgent, Check, Commit, Rollback, vars

\* The windows of the one process keep covering the messages of the last minute.
LEMMA MessageWindowsStep ==
    ASSUME TypeOK, Transactions, MessageWindows, [Next]_vars
    PROVE  MessageWindows'
<1> SUFFICES ASSUME ~shared, NEW x \in Agents \cup Rooms
             PROVE  Covers(Recent(x), Stamps, win[Solo][x])'
  BY SharedStays DEF MessageWindows
<1>0. clock \in Nat /\ Minute \in Nat /\ Solo \in Procs
  BY Numbers DEF TypeOK
<1>1. x \in Subjects /\ Width(x) = Minute
  BY SubjectFacts
<1>2. win[Solo][x] \in Seq(Nat)
  BY <1>0, <1>1 DEF TypeOK
<1>3. Covers(Recent(x), Stamps, win[Solo][x])
  BY DEF MessageWindows
<1>4. \A i \in Recent(x) : Stamps[i] = messages[i].at /\ Stamps[i] + Minute > clock
                           /\ Stamps[i] \in Nat
  BY MessagesFinite DEF Recent, Of, Stamps
<1>5. CASE Tick
  <2>1. clock' = clock + 1 /\ messages' = messages
        /\ win'[Solo][x] = Fresh(win[Solo][x], Minute, clock + 1)
    BY <1>0, <1>1, <1>5 DEF Tick
  <2>2. Of(x)' = Of(x) /\ Stamps' = Stamps
    BY <2>1, SameMessages
  <2>3. \A i \in Of(x) : messages[i].at \in Nat
    BY MessagesFinite DEF Of
  <2>4. Recent(x)' \subseteq Recent(x)
    BY <1>0, <2>1, <2>2, <2>3 DEF Recent
  <2>5. \A i \in Recent(x)' : Stamps[i] + Minute > clock + 1
    BY <2>1, <2>2, <2>4, <1>4 DEF Recent
  <2>6. Covers(Recent(x)', Stamps, win[Solo][x])
    BY <1>3, <2>4, CoverFewer
  <2>7. Covers(Recent(x)', Stamps, Fresh(win[Solo][x], Minute, clock + 1))
    BY <1>0, <1>2, <2>5, <2>6, CoverFresh
  <2> QED
    BY <2>1, <2>2, <2>7
<1>6. ASSUME NEW a \in Agents, NEW r \in Rooms, NEW ip \in IPs, Request(Solo, a, r, ip)
      PROVE  Covers(Recent(x), Stamps, win[Solo][x])'
  <2>1. clock' = clock
    BY <1>6 DEF Request
  <2>2. Effect(Solo, a, r, win)
    BY <1>0, <1>6, RequestEffect
  <2>3. Touched(win[Solo][x], win'[Solo][x], Minute)
    BY <1>1, <2>2 DEF Effect
  <2>4. Covers(Recent(x), Stamps, win'[Solo][x])
    BY <1>0, <1>2, <1>3, <1>4, <2>3, CoverTouched
  <2>5. CASE messages' = messages
    <3>1. Of(x)' = Of(x) /\ Stamps' = Stamps
      BY <2>5, SameMessages
    <3>2. Recent(x)' = Recent(x)
      BY <2>1, <2>5, <3>1 DEF Recent
    <3> QED
      BY <2>4, <3>1, <3>2
  <2>6. CASE Accepted(Solo, a, r, win)
    <3> DEFINE n == Len(messages) + 1
    <3>1. Send(a, r, clock)
      BY <2>6 DEF Accepted
    <3>2. /\ n \notin DOMAIN messages
          /\ \A i \in DOMAIN messages : messages'[i] = messages[i]
          /\ messages'[n].at = clock
          /\ DOMAIN messages' = DOMAIN messages \cup {n}
          /\ Of(x)' = IF x \in {a, r} THEN Of(x) \cup {n} ELSE Of(x)
      BY <1>0, <3>1, OneMore
    <3> HIDE DEF n
    <3>3. \A i \in DOMAIN messages : Stamps'[i] = Stamps[i]
      BY <3>2 DEF Stamps
    <3>4. Stamps'[n] = clock /\ clock + Minute > clock
      BY <1>0, <3>2, Numbers DEF Stamps
    <3>5. Recent(x) \subseteq DOMAIN messages
      BY DEF Recent, Of
    <3>6. \A i \in Of(x) : i \in DOMAIN messages
      BY DEF Of
    <3>7. CASE x \in {a, r}
      <4>1. Recent(x)' = Recent(x) \cup {n}
        BY <3>2, <3>4, <3>6, <3>7, <2>1 DEF Recent
      <4> DEFINE k == Fresh(win[Solo][x], Minute, clock)
      <4>2. win'[Solo][x] = Append(k, clock)
        BY <2>6, <3>7 DEF Accepted
      <4>3. Covers(Recent(x), Stamps, k)
        BY <1>0, <1>2, <1>3, <1>4, CoverFresh
      <4>4. k \in Seq(Nat)
        BY <1>0, <1>2, FreshKeeps DEF KeptOf
      <4> HIDE DEF k
      <4>5. PICK e : e = Stamps'
        OBVIOUS
      <4>6. n \notin Recent(x) /\ e[n] = clock /\ \A i \in Recent(x) : e[i] = Stamps[i]
        BY <3>2, <3>3, <3>4, <3>5, <4>5
      <4>7. Covers(Recent(x) \cup {n}, e, Append(k, clock))
        BY <1>0, <4>3, <4>4, <4>6, CoverAppend
      <4> QED
        BY <4>1, <4>2, <4>5, <4>7
    <3>8. CASE x \notin {a, r}
      <4>1. Recent(x)' = Recent(x)
        BY <3>2, <3>6, <3>8, <2>1 DEF Recent
      <4>2. PICK e : e = Stamps'
        OBVIOUS
      <4>3. \A i \in Recent(x) : e[i] = Stamps[i]
        BY <3>3, <3>5, <4>2
      <4>4. Covers(Recent(x), e, win'[Solo][x])
        BY <2>4, <4>3, CoverFewer
      <4> QED
        BY <4>1, <4>2, <4>4
    <3> QED
      BY <3>7, <3>8
  <2> QED
    BY <2>2, <2>5, <2>6 DEF Effect
<1>7. CASE UNCHANGED vars
  <2>1. messages' = messages /\ clock' = clock /\ win' = win
    BY <1>7 DEF vars
  <2>2. Of(x)' = Of(x) /\ Stamps' = Stamps
    BY <2>1, SameMessages
  <2>3. Recent(x)' = Recent(x)
    BY <2>1, <2>2 DEF Recent
  <2> QED
    BY <1>3, <2>1, <2>2, <2>3
<1> QED
  BY <1>5, <1>6, <1>7, LocalNext

\* A message accepted from memory keeps the rate: its windows cover everything that
\* shares a minute with it.
LEMMA AcceptedRate ==
    ASSUME TypeOK, Rate, MessageWindows, ~shared, shared' = shared,
           NEW a \in Agents, NEW r \in Rooms, Accepted(Solo, a, r, win)
    PROVE  Rate'
<1>0. clock \in Nat /\ Minute \in Nat /\ Solo \in Procs
  BY Numbers DEF TypeOK
<1>1. Send(a, r, clock)
  BY DEF Accepted
<1>2. ASSUME NEW x \in {a, r}
      PROVE  /\ Recent(x) \in SUBSET Of(x)
             /\ Cardinality(Recent(x)) < Limit(x)
             /\ \A t \in Nat : clock \in From(t)..(t + Minute) => Within(x, t) \subseteq Recent(x)
  <2> DEFINE k == Fresh(win[Solo][x], Minute, clock)
  <2>1. x \in Agents \cup Rooms /\ x \in Subjects
    BY <1>2, SubjectFacts
  <2>2. win[Solo][x] \in Seq(Nat)
    BY <1>0, <2>1 DEF TypeOK
  <2>3. \A i \in Recent(x) : Stamps[i] + Minute > clock
    BY DEF Recent, Of, Stamps
  <2>4. Covers(Recent(x), Stamps, k)
    BY <1>0, <2>1, <2>2, <2>3, CoverFresh DEF MessageWindows
  <2>5. k \in Seq(Nat) /\ Len(k) < Limit(x)
    BY <1>0, <1>2, <2>2, FreshKeeps DEF KeptOf, Accepted
  <2> HIDE DEF k
  <2>6. Cardinality(Recent(x)) \in Nat /\ Cardinality(Recent(x)) <= Len(k) /\ Len(k) \in Nat
    BY <2>4, <2>5, CoverCount
  <2>7. Limit(x) \in Nat
    BY Numbers DEF Limit
  <2>8. Cardinality(Recent(x)) < Limit(x)
    BY <2>5, <2>6, <2>7
  <2>9. ASSUME NEW t \in Nat, clock \in From(t)..(t + Minute), NEW i \in Within(x, t)
        PROVE  i \in Recent(x)
    <3>1. From(t) = t + 1
      BY DEF From
    <3>2. i \in Of(x) /\ messages[i].at \in (t + 1)..(t + Minute)
      BY <2>9, <3>1 DEF Within
    <3>3. messages[i].at + Minute > clock
      BY <1>0, <2>9, <3>1, <3>2
    <3> QED
      BY <3>2, <3>3 DEF Recent
  <2> QED
    BY <2>8, <2>9 DEF Recent
<1>3. \A x \in {a, r} : \E C \in SUBSET Of(x) :
               /\ Cardinality(C) < Limit(x)
               /\ \A t \in Nat : clock \in From(t)..(t + Minute) => Within(x, t) \subseteq C
  BY <1>2
<1> QED
  BY <1>0, <1>1, <1>3, RateGrows

\* Every step keeps the rate.
LEMMA RateStep ==
    ASSUME TypeOK, Transactions, MessageWindows, Rate, [Next]_vars
    PROVE  Rate'
<1>1. shared' = shared
  BY SharedStays
<1>2. CASE messages' = messages
  BY <1>1, <1>2, SameMessages DEF Rate
<1>3. ASSUME NEW p \in Procs, NEW a \in Agents, NEW r \in Rooms, NEW ip \in IPs,
             Request(p, a, r, ip), messages' # messages
      PROVE  Rate'
  <2>1. ~shared /\ Accepted(p, a, r, win)
    BY <1>3, RequestEffect DEF Effect
  <2>2. p = Solo
    BY <1>3, <2>1 DEF Request
  <2> QED
    BY <1>1, <2>1, <2>2, AcceptedRate
<1>4. ASSUME NEW p \in Procs, Commit(p)
      PROVE  Rate'
  BY <1>4, CommitRate
<1>5. CASE UNCHANGED vars
  BY <1>2, <1>5 DEF vars
<1>6. CASE Tick
  BY <1>2, <1>6 DEF Tick
<1>7. ASSUME NEW p \in Procs, Step(p)
      PROVE  Rate'
  BY <1>2, <1>4, <1>7 DEF Step, BeginTx, LockRoom, LockAgent, Check, Rollback
<1> QED
  BY <1>2, <1>3, <1>5, <1>6, <1>7 DEF Next

-----------------------------------------------------------------------------
(* The block after repeated violations, kept in memory *)

\* The refusals of an agent are in order, none in the future, and the window of its
\* violations holds those it still counts.
Violations(a) == {i \in DOMAIN refusals[a] : refusals[a][i] + PolicyWindow > clock}
PolicyWindows ==
    ~shared => \A a \in Agents :
        /\ Covers(Violations(a), refusals[a], win[Solo][<<"policy", a>>])
        /\ \A i \in DOMAIN refusals[a] : refusals[a][i] <= clock
        /\ \A i \in DOMAIN refusals[a], j \in DOMAIN refusals[a] :
              i <= j => refusals[a][i] <= refusals[a][j]

\* Whoever has had enough refusals within the window is blocked since the last of them.
Enough(a, i, j) ==
    j + 1 - i >= MaxViolations /\ refusals[a][i] + PolicyWindow > refusals[a][j]
Blocks ==
    ~shared => \A a \in Agents : \A i \in DOMAIN refusals[a], j \in DOMAIN refusals[a] :
        Enough(a, i, j) => /\ blocked[Solo][a] \in Nat
                           /\ refusals[a][j] + Block <= blocked[Solo][a]

\* What a refusal for the policy leaves of an agent's own record.
LEMMA RefusalsOf ==
    ASSUME TypeOK, NEW a \in Agents
    PROVE  /\ refusals[a] \in Seq(Nat) /\ DOMAIN refusals[a] = 1..Len(refusals[a])
           /\ Len(refusals[a]) \in Nat /\ \A i \in DOMAIN refusals[a] : refusals[a][i] \in Nat
           /\ <<"policy", a>> \in Subjects /\ Width(<<"policy", a>>) = PolicyWindow
           /\ win[Solo][<<"policy", a>>] \in Seq(Nat)
           /\ blocked[Solo][a] \in Nat \cup {Nil} /\ blocked \in [Procs -> [Agents -> Nat \cup {Nil}]]
<1>1. refusals[a] \in Seq(Nat)
  BY DEF TypeOK
<1>2. Len(refusals[a]) \in Nat /\ DOMAIN refusals[a] = 1..Len(refusals[a])
  BY <1>1, LenProperties
<1>3. \A i \in DOMAIN refusals[a] : refusals[a][i] \in Nat
  BY <1>1
<1> QED
  BY <1>1, <1>2, <1>3, SubjectFacts, Numbers DEF TypeOK

\* A refusal at the time of the clock keeps the order, and is covered with the rest.
LEMMA ViolatedWindow ==
    ASSUME TypeOK, PolicyWindows, ~shared, shared' = shared, clock' = clock,
           NEW a \in Agents, Violated(Solo, a, win)
    PROVE  LET k == Fresh(win[Solo][<<"policy", a>>], PolicyWindow, clock) IN
           /\ k \in Seq(Nat) /\ Len(Append(k, clock)) = Len(k) + 1
           /\ Covers(Violations(a), refusals[a], k)
           /\ Covers(Violations(a)', refusals'[a], win'[Solo][<<"policy", a>>])
           /\ \A i \in DOMAIN refusals'[a] : refusals'[a][i] <= clock
           /\ \A i \in DOMAIN refusals'[a], j \in DOMAIN refusals'[a] :
                 i <= j => refusals'[a][i] <= refusals'[a][j]
<1> DEFINE w == win[Solo][<<"policy", a>>]
           k == Fresh(w, PolicyWindow, clock)
           n == Len(refusals[a]) + 1
<1>0. clock \in Nat /\ PolicyWindow \in Nat /\ PolicyWindow > 0
  BY Numbers DEF TypeOK
<1>1. /\ refusals[a] \in Seq(Nat) /\ w \in Seq(Nat)
      /\ \A i \in DOMAIN refusals[a] : refusals[a][i] \in Nat
  BY RefusalsOf
<1>2. Refused(a, clock) /\ win'[Solo][<<"policy", a>>] = Append(k, clock)
  BY DEF Violated
<1>3. /\ refusals'[a][n] = clock
      /\ \A i \in 1..Len(refusals[a]) : refusals'[a][i] = refusals[a][i]
      /\ DOMAIN refusals[a] = 1..Len(refusals[a])
      /\ DOMAIN refusals'[a] = 1..n
      /\ Len(refusals[a]) \in Nat
  BY <1>0, <1>2, RefusedType DEF TypeOK
<1>4. Covers(Violations(a), refusals[a], w)
  BY DEF PolicyWindows
<1>5. \A i \in Violations(a) : refusals[a][i] + PolicyWindow > clock
  BY DEF Violations
<1>6. k \in Seq(Nat)
  BY <1>0, <1>1, FreshKeeps DEF KeptOf
<1>7. Covers(Violations(a), refusals[a], k)
  BY <1>0, <1>1, <1>4, <1>5, CoverFresh
<1> HIDE DEF k, w
<1>8. n \notin DOMAIN refusals[a] /\ DOMAIN refusals'[a] = DOMAIN refusals[a] \cup {n}
      /\ \A i \in DOMAIN refusals[a] : refusals'[a][i] = refusals[a][i] /\ i < n
  BY <1>3
<1>9. Violations(a)' = Violations(a) \cup {n}
  BY <1>0, <1>3, <1>8 DEF Violations
<1>10. PICK e : e = refusals'[a]
  OBVIOUS
<1>11. n \notin Violations(a) /\ e[n] = clock
       /\ \A i \in Violations(a) : e[i] = refusals[a][i]
  BY <1>3, <1>8, <1>10 DEF Violations
<1> HIDE DEF n
<1>12. Covers(Violations(a) \cup {n}, e, Append(k, clock))
  BY <1>0, <1>6, <1>7, <1>11, CoverAppend
<1>13. Covers(Violations(a)', refusals'[a], win'[Solo][<<"policy", a>>])
  BY <1>2, <1>9, <1>10, <1>12
<1>14. /\ \A i \in DOMAIN refusals[a] : refusals[a][i] <= clock
       /\ \A i \in DOMAIN refusals[a], j \in DOMAIN refusals[a] :
             i <= j => refusals[a][i] <= refusals[a][j]
  BY DEF PolicyWindows
<1>15. \A i \in DOMAIN refusals'[a] : refusals'[a][i] <= clock
  <2>1. refusals'[a][n] = clock
    BY <1>3
  <2> QED
    BY <1>0, <1>8, <1>14, <2>1
<1>16. n \in Nat /\ \A i \in DOMAIN refusals[a] : i \in Nat
  BY <1>3 DEF n
<1>17. \A i \in DOMAIN refusals'[a], j \in DOMAIN refusals'[a] :
          i <= j => refusals'[a][i] <= refusals'[a][j]
  <2> SUFFICES ASSUME NEW i \in DOMAIN refusals'[a], NEW j \in DOMAIN refusals'[a], i <= j
               PROVE  refusals'[a][i] <= refusals'[a][j]
    OBVIOUS
  <2>1. CASE j = n
    BY <2>1, <1>3, <1>15
  <2>2. CASE j # n
    <3>1. j \in DOMAIN refusals[a] /\ i \in DOMAIN refusals[a]
      BY <2>2, <1>8, <1>16
    <3> QED
      BY <3>1, <1>8, <1>14
  <2> QED
    BY <2>1, <2>2
<1>18. Len(Append(k, clock)) = Len(k) + 1
  BY <1>0, <1>6, AppendProperties
<1> QED
  BY <1>6, <1>7, <1>13, <1>15, <1>17, <1>18 DEF k, w

\* A refusal at the time of the clock that makes enough of them blocks the agent.
LEMMA ViolatedBlocks ==
    ASSUME TypeOK, PolicyWindows, Blocks, ~shared, shared' = shared, clock' = clock,
           NEW a \in Agents, Violated(Solo, a, win)
    PROVE  \A i \in DOMAIN refusals'[a], j \in DOMAIN refusals'[a] :
               Enough(a, i, j)' => /\ blocked'[Solo][a] \in Nat
                                   /\ refusals'[a][j] + Block <= blocked'[Solo][a]
<1> DEFINE k == Fresh(win[Solo][<<"policy", a>>], PolicyWindow, clock)
           m == Len(refusals[a])
<1>0. /\ clock \in Nat /\ PolicyWindow \in Nat /\ MaxViolations \in Nat /\ Block \in Nat
      /\ Solo \in Procs
  BY Numbers DEF TypeOK
<1>1. /\ refusals'[a][m + 1] = clock
      /\ \A i \in 1..m : refusals'[a][i] = refusals[a][i]
      /\ DOMAIN refusals[a] = 1..m
      /\ DOMAIN refusals'[a] = 1..(m + 1)
      /\ m \in Nat
  BY <1>0, RefusedType DEF TypeOK, Violated
<1>2. /\ k \in Seq(Nat) /\ Len(Append(k, clock)) = Len(k) + 1
      /\ Covers(Violations(a), refusals[a], k)
  BY ViolatedWindow
<1>3. \A i \in 1..m : refusals[a][i] \in Nat
  BY <1>1, RefusalsOf
<1>4. /\ \A i \in 1..m : refusals[a][i] <= clock
      /\ \A i \in 1..m, j \in 1..m : i <= j => refusals[a][i] <= refusals[a][j]
  BY <1>1 DEF PolicyWindows
<1>5. blocked' = IF Len(k) + 1 >= MaxViolations
                 THEN [blocked EXCEPT ![Solo][a] = clock + Block] ELSE blocked
  BY <1>2 DEF Violated
<1> HIDE DEF k, m
<1>6. Len(k) \in Nat /\ (Len(k) + 1 >= MaxViolations => blocked'[Solo][a] = clock + Block)
      /\ (~(Len(k) + 1 >= MaxViolations) => blocked' = blocked)
  <2>1. Len(k) \in Nat
    BY <1>2, LenProperties
  <2>2. blocked \in [Procs -> [Agents -> Nat \cup {Nil}]]
    BY DEF TypeOK
  <2>3. [blocked EXCEPT ![Solo][a] = clock + Block][Solo][a] = clock + Block
    BY <1>0, <2>2
  <2> QED
    BY <1>5, <2>1, <2>3
<1>7. SUFFICES ASSUME NEW i \in 1..(m + 1), NEW j \in 1..(m + 1), Enough(a, i, j)'
               PROVE  /\ blocked'[Solo][a] \in Nat
                      /\ refusals'[a][j] + Block <= blocked'[Solo][a]
  BY <1>1
<1>8. j + 1 - i >= MaxViolations /\ refusals'[a][i] + PolicyWindow > refusals'[a][j]
  BY <1>7 DEF Enough
<1>9. CASE j = m + 1 /\ i = m + 1
  <2>1. Len(k) + 1 >= MaxViolations
    BY <1>0, <1>1, <1>6, <1>8, <1>9
  <2> QED
    BY <1>0, <1>1, <1>6, <1>9, <2>1
<1>10. CASE j = m + 1 /\ i # m + 1
  <2>1. i \in 1..m
    BY <1>1, <1>10
  <2>2. refusals[a][i] + PolicyWindow > clock
    BY <1>1, <1>8, <1>10, <2>1
  <2>3. i..m \subseteq Violations(a)
    <3> SUFFICES ASSUME NEW l \in i..m PROVE l \in Violations(a)
      OBVIOUS
    <3>1. l \in 1..m /\ i <= l
      BY <1>1, <2>1
    <3>2. refusals[a][i] <= refusals[a][l] /\ refusals[a][i] \in Nat /\ refusals[a][l] \in Nat
      BY <1>3, <1>4, <2>1, <3>1
    <3>3. refusals[a][l] + PolicyWindow > clock
      BY <1>0, <2>2, <3>2
    <3> QED
      BY <1>1, <3>1, <3>3 DEF Violations
  <2>4. Covers(i..m, refusals[a], k)
    BY <1>2, <2>3, CoverFewer
  <2>5. Cardinality(i..m) <= Len(k)
    BY <1>2, <2>4, CoverCount
  <2>6. Cardinality(i..m) = m - i + 1
    <3>1. i \in Int /\ m \in Int /\ ~(i > m)
      BY <1>1, <2>1
    <3>2. Cardinality(i..m) = IF i > m THEN 0 ELSE m - i + 1
      BY <3>1, FS_Interval
    <3> QED
      BY <3>1, <3>2
  <2>7. Len(k) + 1 >= MaxViolations
    BY <1>0, <1>1, <1>6, <1>8, <1>10, <2>1, <2>5, <2>6
  <2> QED
    BY <1>0, <1>1, <1>6, <1>10, <2>7
<1>11. CASE j # m + 1
  <2>1. j \in 1..m
    BY <1>1, <1>11
  <2>2. i \in 1..m
    <3>1. MaxViolations > 0
      BY Numbers
    <3> QED
      BY <1>0, <1>1, <1>8, <2>1, <3>1
  <2>3. Enough(a, i, j)
    BY <1>1, <1>8, <2>1, <2>2 DEF Enough
  <2>4. blocked[Solo][a] \in Nat /\ refusals[a][j] + Block <= blocked[Solo][a]
    BY <1>1, <2>1, <2>2, <2>3 DEF Blocks
  <2>5. refusals[a][j] <= clock /\ refusals[a][j] \in Nat /\ refusals'[a][j] = refusals[a][j]
    BY <1>1, <1>3, <1>4, <2>1
  <2>6. CASE Len(k) + 1 >= MaxViolations
    BY <1>0, <1>6, <2>5, <2>6
  <2>7. CASE ~(Len(k) + 1 >= MaxViolations)
    BY <1>6, <2>4, <2>5, <2>7
  <2> QED
    BY <2>6, <2>7
<1> QED
  BY <1>9, <1>10, <1>11

\* The record of one agent's violations stays in step with its window and its block.
LEMMA PolicyStep ==
    ASSUME TypeOK, Transactions, PolicyWindows, Blocks, [Next]_vars
    PROVE  PolicyWindows' /\ Blocks'
<1> SUFFICES ASSUME ~shared, NEW a \in Agents
             PROVE  /\ Covers(Violations(a)', refusals'[a], win'[Solo][<<"policy", a>>])
                    /\ \A i \in DOMAIN refusals'[a] : refusals'[a][i] <= clock'
                    /\ \A i \in DOMAIN refusals'[a], j \in DOMAIN refusals'[a] :
                          i <= j => refusals'[a][i] <= refusals'[a][j]
                    /\ \A i \in DOMAIN refusals'[a], j \in DOMAIN refusals'[a] :
                          Enough(a, i, j)' => /\ blocked'[Solo][a] \in Nat
                                              /\ refusals'[a][j] + Block <= blocked'[Solo][a]
  BY SharedStays DEF PolicyWindows, Blocks
<1> DEFINE x == <<"policy", a>>
<1>0. clock \in Nat /\ PolicyWindow \in Nat /\ Solo \in Procs /\ shared' = shared
  BY Numbers, SharedStays DEF TypeOK
<1>1. /\ \A i \in DOMAIN refusals[a] : refusals[a][i] \in Nat
      /\ x \in Subjects /\ Width(x) = PolicyWindow
      /\ win[Solo][x] \in Seq(Nat)
  BY RefusalsOf
<1>2. /\ Covers(Violations(a), refusals[a], win[Solo][x])
      /\ \A i \in DOMAIN refusals[a] : refusals[a][i] <= clock
      /\ \A i \in DOMAIN refusals[a], j \in DOMAIN refusals[a] :
            i <= j => refusals[a][i] <= refusals[a][j]
  BY DEF PolicyWindows
<1>3. \A i \in DOMAIN refusals[a], j \in DOMAIN refusals[a] :
         Enough(a, i, j) => /\ blocked[Solo][a] \in Nat
                            /\ refusals[a][j] + Block <= blocked[Solo][a]
  BY DEF Blocks
<1>4. ASSUME refusals'[a] = refusals[a]
      PROVE  \A i, j : Enough(a, i, j)' <=> Enough(a, i, j)
  BY <1>4 DEF Enough
<1> HIDE DEF x
<1>5. CASE Tick
  <2>1. clock' = clock + 1 /\ refusals' = refusals /\ blocked' = blocked
        /\ win'[Solo][x] = Fresh(win[Solo][x], PolicyWindow, clock + 1)
    BY <1>0, <1>1, <1>5 DEF Tick
  <2>2. Violations(a)' \subseteq Violations(a)
    BY <1>0, <1>1, <2>1 DEF Violations
  <2>3. \A i \in Violations(a)' : refusals[a][i] + PolicyWindow > clock + 1
    BY <2>1 DEF Violations
  <2>4. Covers(Violations(a)', refusals[a], win[Solo][x])
    BY <1>2, <2>2, CoverFewer
  <2>5. Covers(Violations(a)', refusals[a], Fresh(win[Solo][x], PolicyWindow, clock + 1))
    BY <1>0, <1>1, <2>3, <2>4, CoverFresh
  <2>6. \A i \in DOMAIN refusals[a] : refusals[a][i] <= clock + 1
    BY <1>0, <1>1, <1>2
  <2> QED
    BY <1>2, <1>3, <1>4, <2>1, <2>5, <2>6 DEF x
<1>6. ASSUME NEW b \in Agents, NEW r \in Rooms, NEW ip \in IPs, Request(Solo, b, r, ip)
      PROVE  /\ Covers(Violations(a)', refusals'[a], win'[Solo][x])
             /\ \A i \in DOMAIN refusals'[a] : refusals'[a][i] <= clock'
             /\ \A i \in DOMAIN refusals'[a], j \in DOMAIN refusals'[a] :
                   i <= j => refusals'[a][i] <= refusals'[a][j]
             /\ \A i \in DOMAIN refusals'[a], j \in DOMAIN refusals'[a] :
                   Enough(a, i, j)' => /\ blocked'[Solo][a] \in Nat
                                       /\ refusals'[a][j] + Block <= blocked'[Solo][a]
  <2>1. clock' = clock
    BY <1>6 DEF Request
  <2>2. Effect(Solo, b, r, win)
    BY <1>0, <1>6, RequestEffect
  <2>3. Touched(win[Solo][x], win'[Solo][x], PolicyWindow)
    BY <1>1, <2>2 DEF Effect
  <2>4. \A i \in Violations(a) : refusals[a][i] + PolicyWindow > clock
    BY DEF Violations
  <2>5. Covers(Violations(a), refusals[a], win'[Solo][x])
    BY <1>0, <1>1, <1>2, <2>3, <2>4, CoverTouched
  <2>6. ASSUME refusals'[a] = refusals[a], blocked'[Solo][a] = blocked[Solo][a]
        PROVE  /\ Covers(Violations(a)', refusals'[a], win'[Solo][x])
               /\ \A i \in DOMAIN refusals'[a] : refusals'[a][i] <= clock'
               /\ \A i \in DOMAIN refusals'[a], j \in DOMAIN refusals'[a] :
                     i <= j => refusals'[a][i] <= refusals'[a][j]
               /\ \A i \in DOMAIN refusals'[a], j \in DOMAIN refusals'[a] :
                     Enough(a, i, j)' => /\ blocked'[Solo][a] \in Nat
                                         /\ refusals'[a][j] + Block <= blocked'[Solo][a]
    <3>1. Violations(a)' = Violations(a)
      BY <2>1, <2>6 DEF Violations
    <3>2. Covers(Violations(a)', refusals'[a], win'[Solo][x])
      BY <2>5, <2>6, <3>1
    <3> QED
      BY <1>2, <1>3, <1>4, <2>1, <2>6, <3>2
  <2>7. CASE blocked' = blocked /\ refusals' = refusals
    BY <2>6, <2>7
  <2>8. CASE Violated(Solo, b, win) /\ a = b
    <3>1. /\ Covers(Violations(a)', refusals'[a], win'[Solo][x])
          /\ \A i \in DOMAIN refusals'[a] : refusals'[a][i] <= clock
          /\ \A i \in DOMAIN refusals'[a], j \in DOMAIN refusals'[a] :
                i <= j => refusals'[a][i] <= refusals'[a][j]
      BY <1>0, <2>1, <2>8, ViolatedWindow DEF x
    <3>2. \A i \in DOMAIN refusals'[a], j \in DOMAIN refusals'[a] :
             Enough(a, i, j)' => /\ blocked'[Solo][a] \in Nat
                                 /\ refusals'[a][j] + Block <= blocked'[Solo][a]
      BY <1>0, <2>1, <2>8, ViolatedBlocks
    <3> QED
      BY <2>1, <3>1, <3>2
  <2>9. CASE Violated(Solo, b, win) /\ a # b
    <3>1. refusals'[a] = refusals[a]
      BY <1>0, <2>9, RefusedType DEF Violated, TypeOK
    <3>2. blocked' = blocked \/ blocked' = [blocked EXCEPT ![Solo][b] = clock + Block]
      BY <2>9 DEF Violated
    <3>3. blocked \in [Procs -> [Agents -> Nat \cup {Nil}]]
      BY DEF TypeOK
    <3>4. blocked'[Solo][a] = blocked[Solo][a]
      BY <1>0, <2>9, <3>2, <3>3
    <3> QED
      BY <2>6, <3>1, <3>4
  <2> QED
    BY <2>2, <2>7, <2>8, <2>9 DEF Effect
<1>7. CASE UNCHANGED vars
  <2>1. clock' = clock /\ win' = win /\ refusals' = refusals /\ blocked' = blocked
    BY <1>7 DEF vars
  <2>2. Violations(a)' = Violations(a)
    BY <2>1 DEF Violations
  <2> QED
    BY <1>2, <1>3, <1>4, <2>1, <2>2 DEF x
<1> QED
  BY <1>5, <1>6, <1>7, LocalNext DEF x

-----------------------------------------------------------------------------
(* The theorems *)

\* The inductive invariant.
IInv == TypeOK /\ Transactions /\ MessageWindows /\ Rate /\ PolicyWindows /\ Blocks

\* It holds at the start, where nothing has been sent or refused.
LEMMA IInvInit == Init => IInv
<1> SUFFICES ASSUME Init PROVE IInv
  OBVIOUS
<1>1. TypeOK
  BY TypeInit
<1>2. messages = <<>> /\ DOMAIN messages = {} /\ \A a \in Agents : DOMAIN refusals[a] = {}
  BY DEF Init
<1>3. Transactions
  BY DEF Init, Transactions
<1>4. \A x : Of(x) = {}
  BY <1>2 DEF Of
<1>5. \A x, t : Within(x, t) = {}
  BY <1>4 DEF Within
<1>6. Rate
  <2>1. \A x : Limit(x) \in Nat
    BY Numbers DEF Limit
  <2> QED
    BY <1>5, <2>1, FS_EmptySet DEF Rate
<1>7. \A f, w : Covers({}, f, w)
  <2> SUFFICES ASSUME NEW f, NEW w PROVE Covers({}, f, w)
    OBVIOUS
  <2> DEFINE g == [i \in {} |-> 0]
  <2>1. g \in [{} -> DOMAIN w]
    OBVIOUS
  <2> QED
    BY <2>1 DEF Covers
<1>8. \A x : Recent(x) = {}
  BY <1>4 DEF Recent
<1>9. MessageWindows
  BY <1>7, <1>8 DEF MessageWindows
<1>10. \A a \in Agents : Violations(a) = {}
  BY <1>2 DEF Violations
<1>11. PolicyWindows
  BY <1>2, <1>7, <1>10 DEF PolicyWindows
<1>12. Blocks
  BY <1>2 DEF Blocks
<1> QED
  BY <1>1, <1>3, <1>6, <1>9, <1>11, <1>12 DEF IInv

\* Every step keeps it.
LEMMA IInvStep == IInv /\ [Next]_vars => IInv'
<1> SUFFICES ASSUME IInv, [Next]_vars PROVE IInv'
  OBVIOUS
<1>1. TypeOK /\ Transactions /\ MessageWindows /\ Rate /\ PolicyWindows /\ Blocks
  BY DEF IInv
<1>2. TypeOK' /\ Transactions' /\ MessageWindows' /\ Rate' /\ PolicyWindows' /\ Blocks'
  BY <1>1, TypeStep, TransactionsStep, MessageWindowsStep, RateStep, PolicyStep
<1> QED
  BY <1>2 DEF IInv

\* It is an invariant of the specification.
LEMMA IInvHolds == Spec => []IInv
BY IInvInit, IInvStep, PTL DEF Spec

\* It implies the rate limits.
LEMMA IInvRate == IInv => RateHolds
<1> SUFFICES ASSUME IInv, NEW t \in 0..clock
             PROVE  LET within == {i \in DOMAIN messages :
                                     messages[i].at \in (IF shared THEN t ELSE t + 1)..(t + Minute)}
                    IN /\ \A a \in Agents :
                             Cardinality({i \in within : messages[i].sender = a}) <= MaxAgent
                       /\ \A r \in Rooms :
                             Cardinality({i \in within : messages[i].room = r}) <= MaxRoom
  BY DEF RateHolds
<1>1. TypeOK /\ Rate /\ t \in Nat
  BY DEF IInv, TypeOK
<1> DEFINE within == {i \in DOMAIN messages :
                        messages[i].at \in (IF shared THEN t ELSE t + 1)..(t + Minute)}
<1>2. ASSUME NEW x \in Agents \cup Rooms, NEW S \in SUBSET Within(x, t)
      PROVE  Cardinality(S) <= Limit(x)
  <2>1. Within(x, t) \in SUBSET DOMAIN messages
    BY DEF Within, Of
  <2>2. IsFiniteSet(Within(x, t)) /\ Cardinality(Within(x, t)) \in Nat
    BY <1>1, <2>1, MessagesFinite
  <2>3. Cardinality(S) <= Cardinality(Within(x, t)) /\ Cardinality(S) \in Nat
    BY <2>2, FS_Subset, FS_CardinalityType
  <2>4. Cardinality(Within(x, t)) <= Limit(x) /\ Limit(x) \in Nat
    BY <1>1, Numbers DEF Rate, Limit
  <2> QED
    BY <2>2, <2>3, <2>4
<1>3. \A a \in Agents : /\ {i \in within : messages[i].sender = a} \in SUBSET Within(a, t)
                        /\ a \in Agents \cup Rooms /\ Limit(a) = MaxAgent
  BY SubjectFacts DEF Within, Of, From
<1>4. \A r \in Rooms : /\ {i \in within : messages[i].room = r} \in SUBSET Within(r, t)
                       /\ r \in Agents \cup Rooms /\ Limit(r) = MaxRoom
  BY SubjectFacts DEF Within, Of, From
<1> HIDE DEF within
<1>5. \A a \in Agents : Cardinality({i \in within : messages[i].sender = a}) <= MaxAgent
  BY <1>2, <1>3
<1>6. \A r \in Rooms : Cardinality({i \in within : messages[i].room = r}) <= MaxRoom
  BY <1>2, <1>4
<1> QED
  BY <1>5, <1>6 DEF within

\* No minute sees more messages of an agent or of a room than its limit, whatever the
\* limits and however many processes, agents, rooms and addresses there are: with a
\* shared store because the count is taken under the locks the commit still holds and
\* from a clock no later than created_at, in memory because the windows cover
\* the last minute.
THEOREM RateLimited == Spec => []RateHolds
BY IInvHolds, IInvRate, PTL

\* A step of the one process sends nothing for an agent that must be blocked.
LEMMA LocalBlockStep ==
    ASSUME IInv, [Next]_vars, NEW a \in Agents, ~shared, Sends(a)
    PROVE  ~MustBeBlocked(a)
<1>1. TypeOK /\ Transactions /\ Blocks
  BY DEF IInv
<1>2. messages' # messages
  BY DEF Sends, TypeOK
<1>3. PICK b \in Agents, r \in Rooms, ip \in IPs : Request(Solo, b, r, ip)
  BY <1>1, <1>2, LocalNext DEF Tick, vars
<1>4. Accepted(Solo, b, r, win)
  BY <1>1, <1>2, <1>3, RequestEffect, Numbers DEF Effect
<1>5. clock \in Nat /\ messages \in Seq(Message) /\ Block \in Nat
  BY <1>1, Numbers DEF TypeOK
<1>6. messages'[Len(messages')].sender = b
  <2>1. /\ Len(messages') = Len(messages) + 1
        /\ messages'[Len(messages) + 1] = [sender |-> b, room |-> r, at |-> clock]
    BY <1>4, <1>5, SendType DEF Accepted
  <2> QED
    BY <2>1
<1>7. a = b
  BY <1>6 DEF Sends
<1>8. SUFFICES ASSUME NEW i \in DOMAIN refusals[a], NEW j \in DOMAIN refusals[a],
                      j + 1 - i >= MaxViolations,
                      refusals[a][i] + PolicyWindow > refusals[a][j],
                      clock < refusals[a][j] + Block
               PROVE  FALSE
  BY DEF MustBeBlocked
<1>9. blocked[Solo][a] \in Nat /\ refusals[a][j] + Block <= blocked[Solo][a]
  BY <1>1, <1>8 DEF Blocks, Enough
<1>10. refusals[a][j] \in Nat
  BY <1>1, RefusalsOf
<1>11. blocked[Solo][a] # Nil
  BY <1>9, NilAssumption
<1>12. clock <= blocked[Solo][a]
  BY <1>5, <1>8, <1>9, <1>10
<1>13. BlockedNow(Solo, a)
  BY <1>11, <1>12 DEF BlockedNow
<1> QED
  BY <1>4, <1>7, <1>13 DEF Accepted

\* Where one process keeps the windows, an agent that has violated the policy
\* MaxViolations times within the window sends nothing until the block is over,
\* whatever the window, the threshold and the block.
THEOREM LocalBlock == Spec => LocalBlockHolds
<1>1. IInv /\ [Next]_vars => [\A a \in Agents : ~shared /\ Sends(a) => ~MustBeBlocked(a)]_vars
  BY LocalBlockStep
<1> QED
  BY <1>1, IInvHolds, PTL DEF Spec, LocalBlockHolds
=============================================================================
