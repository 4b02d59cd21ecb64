---------------------------- MODULE Alerts_proofs ----------------------------
(***************************************************************************)
(* Proofs about the digest and the webhook, for any runs and clauses, any  *)
(* window, buffer size and throttle, and however the runs interleave.      *)
(***************************************************************************)
EXTENDS Alerts, FiniteSetTheorems, SequenceTheorems, TLAPS

\* What a thread can be when the clock is at n.
ThreadStates(n) ==
  [pc     : {"run", "call", "flush", "place", "append", "omit", "report", "post", "ended", "gone"},
   hand   : {<<>>} \cup {<<v>> : v \in Violations},
   alerts : Seq(Alerts),
   next   : {"run", "place", "ended"},
   began  : 0 .. n,
   raised : 0 .. MaxViolations]

Typed ==
  /\ window \in Windows
  /\ buffer \in Seq(Violations)
  /\ omitted \in Nat
  /\ now \in 0 .. MaxTime
  /\ start \in {None} \cup 0 .. now
  /\ lastSent \in [Clauses -> {None} \cup 0 .. now]
  /\ thread \in [Threads -> ThreadStates(now)]
  /\ counted \in Nat
  /\ sent \in [Clauses -> Seq(Nat)]
  /\ suppressed \subseteq [clause : Clauses, at : Nat]
  /\ overlapped \subseteq Clauses

\* The handler has been called with a violation it has not placed or counted yet.
Holding(s) ==
  \/ s.pc \in {"call", "place", "append", "omit"}
  \/ s.pc \in {"flush", "report", "post"} /\ s.next = "place"

\* What the stage of a thread says about what it has in hand, and what comes next.
StagesKept ==
  \A t \in Threads :
    /\ Holding(thread[t]) <=> thread[t].hand # <<>>
    /\ thread[t].hand # <<>> => Head(thread[t].hand).by = t /\ Head(thread[t].hand).at \in 0 .. now
    /\ thread[t].pc \notin {"flush", "report", "post"} => thread[t].next = "run"
    /\ thread[t].pc = "post" => thread[t].alerts # <<>>

\* Once a run that ends has flushed, it has no violation in the buffer.
Ending(s) ==
  \/ s.pc = "ended"
  \/ s.pc \in {"report", "post"} /\ s.next = "ended"

EndingLeavesNone ==
  \A t \in Threads : Ending(thread[t]) => \A i \in 1 .. Len(buffer) : buffer[i].by # t

\* The threads that found room in the buffer and have not appended yet.
Appending == {t \in Threads : thread[t].pc = "append"}

BufferBounded == Len(buffer) + Cardinality(Appending) + 1 <= MaxBuffer + Cardinality(Threads)

\* The throttle remembers the last delivery of each clause.
DeliveriesKnown ==
  \A c \in Clauses :
    IF sent[c] = <<>> THEN lastSent[c] = None
                      ELSE lastSent[c] = sent[c][Len(sent[c])] /\ lastSent[c] # None

\* A POST whose clause has had no two under way at once is the only one of its clause,
\* and began a throttle after the last delivery.
PostsApart ==
  \A t \in Threads :
    thread[t].pc = "post" /\ ClauseOf(t) \notin overlapped =>
      /\ \A u \in Threads : thread[u].pc = "post" /\ ClauseOf(u) = ClauseOf(t) => u = t
      /\ lastSent[ClauseOf(t)] # None => lastSent[ClauseOf(t)] + Throttle <= thread[t].began

SuppressedExact ==
  \A alert \in suppressed :
    \E i \in 1 .. Len(sent[alert.clause]) :
      /\ sent[alert.clause][i] <= alert.at
      /\ alert.at < sent[alert.clause][i] + Throttle

DeliveredApart ==
  \A c \in Clauses \ overlapped :
    \A i \in 1 .. Len(sent[c]), j \in 1 .. Len(sent[c]) :
      j = i + 1 => sent[c][i] + Throttle <= sent[c][j]

IInv ==
  /\ Typed
  /\ StagesKept
  /\ EndingLeavesNone
  /\ BufferBounded
  /\ DeliveriesKnown
  /\ PostsApart
  /\ SuppressedExact
  /\ DeliveredApart
  /\ NoneUncounted

-----------------------------------------------------------------------------
(* Sets of threads and of violations that a step changes by one.            *)

LEMMA OneChanged ==
  ASSUME NEW S, IsFiniteSet(S), NEW A \in SUBSET S, NEW B \in SUBSET S, NEW x \in S,
         \A y \in S : y # x => (y \in A <=> y \in B)
  PROVE  /\ Cardinality(A) \in Nat /\ Cardinality(B) \in Nat
         /\ Cardinality(B) + (IF x \in A THEN 1 ELSE 0)
              = Cardinality(A) + (IF x \in B THEN 1 ELSE 0)
<1>1. IsFiniteSet(A) /\ IsFiniteSet(B)
  BY FS_Subset
<1>2. Cardinality(A) \in Nat /\ Cardinality(B) \in Nat
  BY <1>1, FS_CardinalityType
<1>3. CASE x \in A <=> x \in B
  <2>1. A = B
    BY <1>3
  <2>2. QED
    BY <2>1, <1>2
<1>4. CASE x \in A /\ x \notin B
  <2>1. A = B \cup {x}
    BY <1>4
  <2>2. QED
    BY <2>1, <1>1, <1>2, <1>4, FS_AddElement
<1>5. CASE x \notin A /\ x \in B
  <2>1. B = A \cup {x}
    BY <1>5
  <2>2. QED
    BY <2>1, <1>1, <1>2, <1>5, FS_AddElement
<1>6. QED
  BY <1>3, <1>4, <1>5

LEMMA ThreadsFinite ==
  /\ IsFiniteSet(Threads)
  /\ IsFiniteSet(Threads \X (1 .. MaxViolations))
  /\ Cardinality(Threads) \in Nat /\ Cardinality(Threads) >= 1
  /\ MaxBuffer \in Nat /\ Throttle \in Nat /\ MaxViolations \in Nat /\ MaxTime \in Nat
<1>1. /\ IsFiniteSet(Threads) /\ Threads # {}
      /\ MaxBuffer \in Nat /\ Throttle \in Nat /\ MaxViolations \in Nat /\ MaxTime \in Nat
  BY AlertsAssumption
<1>2. Cardinality(Threads) \in Nat /\ Cardinality(Threads) >= 1
  BY <1>1, FS_CardinalityType, FS_EmptySet
<1>3. IsFiniteSet(1 .. MaxViolations)
  BY <1>1, FS_Interval
<1>4. QED
  BY <1>1, <1>2, <1>3, FS_Product

\* What flush() hands to the webhook are alerts, one for each clause in the buffer.
LEMMA AggregatesTyped ==
  ASSUME buffer \in Seq(Violations), omitted \in Nat, NEW groups \in Groups
  PROVE  Aggregates(groups) \in Seq(Alerts)
<1> DEFINE clauses == {buffer[i].clause : i \in DOMAIN buffer}
           n == Cardinality(clauses)
           count(i) == Cardinality({k \in DOMAIN buffer : buffer[k].clause = groups[i]})
<1>1. DOMAIN buffer = 1 .. Len(buffer) /\ Len(buffer) \in Nat
  BY LenProperties
<1>2. IsFiniteSet(DOMAIN buffer)
  BY <1>1, FS_Interval
<1>3. IsFiniteSet(clauses)
  <2> DEFINE img == [i \in DOMAIN buffer |-> buffer[i].clause]
  <2>1. img \in Surjection(DOMAIN buffer, clauses)
    BY DEF Surjection
  <2>2. QED
    BY <2>1, <1>2, FS_Surjection
<1>4. n \in Nat
  BY <1>3, FS_CardinalityType
<1>5. groups \in [1 .. n -> clauses]
  BY DEF Groups
<1>6. clauses \subseteq Clauses
  <2>1. \A i \in DOMAIN buffer : buffer[i] \in Violations
    BY ElementOfSeq, <1>1
  <2>2. \A v \in Violations : v.clause \in Clauses
    BY DEF Violations
  <2>3. QED
    BY <2>1, <2>2
<1> HIDE DEF n
<1>7. ASSUME NEW i \in 1 .. n
      PROVE  count(i) \in Nat \ {0}
  <2> DEFINE K == {k \in DOMAIN buffer : buffer[k].clause = groups[i]}
  <2>1. K # {}
    BY <1>5
  <2>2. IsFiniteSet(K)
    BY <1>2, FS_Subset
  <2> HIDE DEF K
  <2>3. Cardinality(K) \in Nat /\ Cardinality(K) # 0
    BY <2>1, <2>2, FS_CardinalityType, FS_EmptySet
  <2>4. QED
    BY <2>3 DEF K
<1>8. DOMAIN groups = 1 .. n /\ \A i \in 1 .. n : groups[i] \in Clauses
  BY <1>5, <1>6
<1>9. Aggregates(groups)
        = [i \in 1 .. n |-> [clause |-> groups[i], count |-> count(i), omitted |-> omitted]]
  BY <1>8 DEF Aggregates
<1> HIDE DEF count
<1>10. \A i \in 1 .. n : [clause |-> groups[i], count |-> count(i), omitted |-> omitted] \in Alerts
  BY <1>7, <1>8 DEF Alerts
<1>11. QED
  BY <1>4, <1>9, <1>10

-----------------------------------------------------------------------------
(* What a step of a thread t, to the state s, does to the parts of the      *)
(* invariant.                                                               *)

LEMMA StagesStep ==
  ASSUME Typed, StagesKept, NEW t \in Threads, NEW s, thread' = [thread EXCEPT ![t] = s],
         now' = now,
         Holding(s) <=> s.hand # <<>>,
         s.hand # <<>> => Head(s.hand).by = t /\ Head(s.hand).at \in 0 .. now,
         s.pc \notin {"flush", "report", "post"} => s.next = "run",
         s.pc = "post" => s.alerts # <<>>
  PROVE  StagesKept'
<1>1. thread'[t] = s /\ \A u \in Threads : u # t => thread'[u] = thread[u]
  BY DEF Typed
<1>2. ASSUME NEW u \in Threads
      PROVE  /\ Holding(thread'[u]) <=> thread'[u].hand # <<>>
             /\ thread'[u].hand # <<>> => Head(thread'[u].hand).by = u /\ Head(thread'[u].hand).at \in 0 .. now'
             /\ thread'[u].pc \notin {"flush", "report", "post"} => thread'[u].next = "run"
             /\ thread'[u].pc = "post" => thread'[u].alerts # <<>>
  <2>1. CASE u = t
    BY <2>1, <1>1
  <2>2. CASE u # t
    BY <2>2, <1>1 DEF StagesKept
  <2>3. QED
    BY <2>1, <2>2
<1>3. QED
  BY <1>2 DEF StagesKept, Holding

\* The step leaves in the buffer only violations of others that were there before.
LEMMA EndingStep ==
  ASSUME Typed, EndingLeavesNone, NEW t \in Threads, NEW s, thread' = [thread EXCEPT ![t] = s],
         \A i \in 1 .. Len(buffer') :
           buffer'[i].by = t \/ \E j \in 1 .. Len(buffer) : buffer'[i].by = buffer[j].by,
         Ending(s) => \A i \in 1 .. Len(buffer') : buffer'[i].by # t
  PROVE  EndingLeavesNone'
<1>1. thread'[t] = s /\ \A u \in Threads : u # t => thread'[u] = thread[u]
  BY DEF Typed
<1>2. ASSUME NEW u \in Threads, Ending(thread'[u]), NEW i \in 1 .. Len(buffer')
      PROVE  buffer'[i].by # u
  <2>1. CASE u = t
    BY <2>1, <1>1, <1>2
  <2>2. CASE u # t
    BY <2>2, <1>1, <1>2 DEF EndingLeavesNone
  <2>3. QED
    BY <2>1, <2>2
<1>3. QED
  BY <1>2 DEF EndingLeavesNone, Ending

LEMMA BoundStep ==
  ASSUME Typed, BufferBounded, NEW t \in Threads, NEW s, thread' = [thread EXCEPT ![t] = s],
         Len(buffer') \in Nat,
         Len(buffer') + (IF s.pc = "append" THEN 1 ELSE 0)
           <= Len(buffer) + (IF thread[t].pc = "append" THEN 1 ELSE 0)
  PROVE  BufferBounded'
<1> DEFINE A == Appending
           B == {u \in Threads : thread'[u].pc = "append"}
           a == IF t \in A THEN 1 ELSE 0
           b == IF t \in B THEN 1 ELSE 0
<1>1. thread'[t] = s /\ \A u \in Threads : u # t => thread'[u] = thread[u]
  BY DEF Typed
<1>2. /\ A \in SUBSET Threads /\ B \in SUBSET Threads
      /\ \A u \in Threads : u # t => (u \in A <=> u \in B)
      /\ t \in A <=> thread[t].pc = "append"
      /\ t \in B <=> s.pc = "append"
  BY <1>1 DEF Appending
<1>3. Len(buffer') + b <= Len(buffer) + a
  BY <1>2
<1>4. a \in {0, 1} /\ b \in {0, 1}
  OBVIOUS
<1> HIDE DEF A, B
<1>5. /\ Cardinality(A) \in Nat /\ Cardinality(B) \in Nat
      /\ Cardinality(B) + a = Cardinality(A) + b
  BY <1>2, ThreadsFinite, OneChanged
<1> HIDE DEF a, b
<1>6. Len(buffer) \in Nat /\ MaxBuffer \in Nat /\ Cardinality(Threads) \in Nat
  BY LenProperties, ThreadsFinite DEF Typed
<1>7. Len(buffer) + Cardinality(A) + 1 <= MaxBuffer + Cardinality(Threads)
  BY DEF BufferBounded, A
<1>8. Len(buffer') + Cardinality(B) + 1 <= MaxBuffer + Cardinality(Threads)
  <2> DEFINE length == Len(buffer')
  <2>1. length \in Nat /\ length + b <= Len(buffer) + a
    BY <1>3
  <2> HIDE DEF length
  <2>2. length + Cardinality(B) + 1 <= MaxBuffer + Cardinality(Threads)
    <3>1. \A k, l, m, n, p, q \in Nat, i, j \in {0, 1} :
            k + j <= l + i /\ n + i = m + j /\ l + m + 1 <= p + q => k + n + 1 <= p + q
      OBVIOUS
    <3>2. QED
      BY ONLY <3>1, <2>1, <1>4, <1>5, <1>6, <1>7
  <2>3. QED
    BY <2>2 DEF length
<1>9. QED
  BY <1>8 DEF BufferBounded, Appending, B

\* Whatever is new among the violations raised is in hand, in the buffer or counted.
LEMMA CountStep ==
  ASSUME Typed, NoneUncounted, NEW t \in Threads, NEW s, thread' = [thread EXCEPT ![t] = s],
         \/ s.raised = thread[t].raised
         \/ s.raised = thread[t].raised + 1 /\ thread[t].raised < MaxViolations,
         Len(buffer') \in Nat, omitted' \in Nat, counted' \in Nat,
         (IF s.hand # <<>> THEN 1 ELSE 0) + Len(buffer') + omitted' + counted' + thread[t].raised
           = (IF thread[t].hand # <<>> THEN 1 ELSE 0) + Len(buffer) + omitted + counted + s.raised
  PROVE  NoneUncounted'
<1> DEFINE R == Raised
           Q == {v \in Threads \X (1 .. MaxViolations) : v[2] <= thread'[v[1]].raised}
           A == {u \in Threads : thread[u].hand # <<>>}
           B == {u \in Threads : thread'[u].hand # <<>>}
           a == IF thread[t].hand # <<>> THEN 1 ELSE 0
           b == IF s.hand # <<>> THEN 1 ELSE 0
           r == thread[t].raised
           q == s.raised
           all == Len(buffer) + omitted + counted
           all2 == Len(buffer') + omitted' + counted'
<1>1. /\ thread'[t] = s
      /\ \A u \in Threads : u # t => thread'[u] = thread[u]
      /\ r \in 0 .. MaxViolations
  BY DEF Typed, ThreadStates
<1>2. Len(buffer) \in Nat /\ omitted \in Nat /\ counted \in Nat
  BY LenProperties DEF Typed
<1>3. all \in Nat /\ all2 \in Nat /\ b + all2 + r = a + all + q
  <2>1. all \in Nat
    BY <1>2
  <2> DEFINE l == Len(buffer')
             o == omitted'
             c == counted'
  <2>2. l \in Nat /\ o \in Nat /\ c \in Nat /\ b + l + o + c + r = a + Len(buffer) + omitted + counted + q
    OBVIOUS
  <2>3. q \in Nat /\ r \in Nat /\ a \in {0, 1} /\ b \in {0, 1}
    BY <1>1, ThreadsFinite
  <2>4. all2 = l + o + c
    OBVIOUS
  <2> HIDE DEF l, o, c, a, b, r, q, all2
  <2>5. all2 \in Nat /\ b + all2 + r = a + all + q
    BY <2>2, <2>3, <2>4, <1>2
  <2>6. QED
    BY <2>1, <2>5
<1>4. a \in {0, 1} /\ b \in {0, 1} /\ MaxViolations \in Nat /\ q \in Nat /\ r \in Nat
      /\ (q = r \/ (q = r + 1 /\ r < MaxViolations))
  BY <1>1, ThreadsFinite
<1>5. /\ Cardinality(A) \in Nat /\ Cardinality(B) \in Nat
      /\ Cardinality(B) + a = Cardinality(A) + b
  <2>1. /\ A \in SUBSET Threads /\ B \in SUBSET Threads
        /\ \A u \in Threads : u # t => (u \in A <=> u \in B)
        /\ t \in A <=> thread[t].hand # <<>>
        /\ t \in B <=> s.hand # <<>>
    BY <1>1
  <2> HIDE DEF A, B
  <2>2. /\ Cardinality(A) \in Nat /\ Cardinality(B) \in Nat
        /\ Cardinality(B) + (IF t \in A THEN 1 ELSE 0) = Cardinality(A) + (IF t \in B THEN 1 ELSE 0)
    BY <2>1, ThreadsFinite, OneChanged
  <2>3. QED
    BY <2>1, <2>2
<1>6. /\ Cardinality(R) \in Nat /\ Cardinality(Q) \in Nat
      /\ Cardinality(Q) + r = Cardinality(R) + q
  <2> DEFINE P == Threads \X (1 .. MaxViolations)
  <2>1. R \in SUBSET P /\ Q \in SUBSET P
    BY DEF Raised
  <2>2. CASE q = r
    <3>1. Q = R
      BY <2>2, <1>1 DEF Raised
    <3>2. Cardinality(R) \in Nat
      BY <2>1, ThreadsFinite, FS_Subset, FS_CardinalityType
    <3>3. QED
      BY <2>2, <3>1, <3>2, <1>4
  <2>3. CASE q = r + 1 /\ r < MaxViolations
    <3> DEFINE x == <<t, r + 1>>
    <3>1. x \in P /\ x \notin R /\ x \in Q
      BY <2>3, <1>1, <1>4 DEF Raised
    <3>2. \A y \in P : y # x => (y \in R <=> y \in Q)
      <4>1. ASSUME NEW y \in P, y # x
            PROVE  y \in R <=> y \in Q
        <5>1. y = <<y[1], y[2]>> /\ y[1] \in Threads /\ y[2] \in 1 .. MaxViolations
          OBVIOUS
        <5>2. CASE y[1] = t
          <6>1. y[2] # r + 1
            BY <4>1, <5>1, <5>2
          <6>2. y[2] <= r <=> y[2] <= r + 1
            <7>1. \A n, m \in Nat : n # m + 1 => (n <= m <=> n <= m + 1)
              OBVIOUS
            <7>2. y[2] \in Nat
              BY <5>1, <1>4
            <7>3. QED
              BY <7>1, <7>2, <6>1, <1>4
          <6>3. QED
            BY <6>2, <5>1, <5>2, <2>3, <1>1 DEF Raised
        <5>3. CASE y[1] # t
          BY <5>1, <5>3, <1>1 DEF Raised
        <5>4. QED
          BY <5>2, <5>3
      <4>2. QED
        BY <4>1
    <3> HIDE DEF P, Q, R, x
    <3>3. IsFiniteSet(P)
      BY ThreadsFinite DEF P
    <3>4. /\ Cardinality(R) \in Nat /\ Cardinality(Q) \in Nat
          /\ Cardinality(Q) = Cardinality(R) + 1
      BY <2>1, <3>1, <3>2, <3>3, OneChanged
    <3> HIDE DEF r, q
    <3>5. QED
      BY <3>4, <2>3, <1>4
  <2>4. QED
    BY <2>2, <2>3, <1>4
<1>7. Cardinality(R) = Cardinality(A) + all
  <2>1. Cardinality(R) = Cardinality(A) + Len(buffer) + omitted + counted
    BY DEF NoneUncounted
  <2> HIDE DEF R, A
  <2>2. QED
    BY <2>1, <1>2, <1>5
<1>8. Cardinality(Q) = Cardinality(B) + all2
  <2>1. \A cR, cQ, cA, cB, m, n, k, l, i, j \in Nat :
          /\ i + n + k = j + m + l
          /\ cB + j = cA + i
          /\ cQ + k = cR + l
          /\ cR = cA + m
          => cQ = cB + n
    OBVIOUS
  <2>2. a \in Nat /\ b \in Nat
    BY <1>4
  <2> HIDE DEF Q, R, A, B, all, all2, a, b, r, q
  <2>3. QED
    BY ONLY <2>1, <2>2, <1>3, <1>4, <1>5, <1>6, <1>7
<1>9. Cardinality(Q) = Cardinality(B) + Len(buffer') + omitted' + counted'
  <2> DEFINE l == Len(buffer')
             o == omitted'
             c == counted'
  <2>1. l \in Nat /\ o \in Nat /\ c \in Nat /\ Cardinality(Q) = Cardinality(B) + (l + o + c)
    BY <1>8
  <2> HIDE DEF l, o, c, Q, B
  <2>2. Cardinality(Q) = Cardinality(B) + l + o + c
    BY <2>1, <1>5
  <2>3. QED
    BY <2>2 DEF l, o, c
<1>10. QED
  BY <1>9 DEF NoneUncounted, Raised, Q, B

\* A step that neither begins nor ends a POST leaves what is known of the POSTs in place.
LEMMA WebhookStep ==
  ASSUME Typed, DeliveriesKnown, PostsApart, SuppressedExact, DeliveredApart,
         NEW t \in Threads, NEW s, thread' = [thread EXCEPT ![t] = s],
         thread[t].pc # "post", s.pc # "post", UNCHANGED webhook
  PROVE  DeliveriesKnown' /\ PostsApart' /\ SuppressedExact' /\ DeliveredApart'
<1>1. /\ thread'[t] = s
      /\ \A u \in Threads : u # t => thread'[u] = thread[u]
      /\ UNCHANGED <<lastSent, sent, suppressed, overlapped>>
  BY DEF Typed, webhook
<1>2. DeliveriesKnown' /\ SuppressedExact' /\ DeliveredApart'
  BY <1>1 DEF DeliveriesKnown, SuppressedExact, DeliveredApart
<1>3. \A u \in Threads : thread'[u].pc = "post" => thread[u].pc = "post" /\ thread'[u] = thread[u]
  BY <1>1
<1>4. PostsApart'
  BY <1>1, <1>3 DEF PostsApart, ClauseOf
<1>5. QED
  BY <1>2, <1>4

LEMMA InitIInv == Init => IInv
<1> SUFFICES ASSUME Init
             PROVE  IInv
  OBVIOUS
<1> DEFINE s == [pc |-> "run", hand |-> <<>>, alerts |-> <<>>, next |-> "run", began |-> 0, raised |-> 0]
<1>1. \A t \in Threads : thread[t] = s
  BY DEF Init
<1>2. MaxTime \in Nat /\ MaxViolations \in Nat /\ MaxBuffer \in Nat
  BY ThreadsFinite
<1>3. s \in ThreadStates(0)
  BY <1>2 DEF ThreadStates
<1>4. buffer = <<>> /\ Len(buffer) = 0 /\ omitted = 0 /\ counted = 0
  BY DEF Init
<1>5. Typed
  <2>1. now \in 0 .. MaxTime /\ now = 0
    BY <1>2 DEF Init
  <2>2. thread \in [Threads -> ThreadStates(0)] /\ lastSent \in [Clauses -> {None} \cup 0 .. 0]
    BY <1>3 DEF Init
  <2>3. sent \in [Clauses -> Seq(Nat)] /\ suppressed = {} /\ overlapped = {} /\ window \in Windows /\ start = None
    BY DEF Init
  <2>4. <<>> \in Seq(Violations)
    OBVIOUS
  <2>5. QED
    BY <2>1, <2>2, <2>3, <2>4, <1>4 DEF Typed
<1>6. StagesKept
  BY <1>1 DEF StagesKept, Holding
<1>7. EndingLeavesNone
  BY <1>4 DEF EndingLeavesNone
<1>8. BufferBounded
  <2>1. Appending = {}
    BY <1>1 DEF Appending
  <2>2. Cardinality(Appending) = 0
    BY <2>1, FS_EmptySet
  <2>3. QED
    BY <2>2, <1>2, <1>4, ThreadsFinite DEF BufferBounded
<1>9. DeliveriesKnown /\ PostsApart /\ SuppressedExact /\ DeliveredApart
  <2>1. \A c \in Clauses : sent[c] = <<>> /\ lastSent[c] = None
    BY DEF Init
  <2>2. PostsApart
    BY <1>1 DEF PostsApart
  <2>3. SuppressedExact /\ DeliveriesKnown
    BY <2>1 DEF SuppressedExact, DeliveriesKnown, Init
  <2>4. DeliveredApart
    BY <2>1 DEF DeliveredApart
  <2>5. QED
    BY <2>2, <2>3, <2>4
<1>10. NoneUncounted
  <2>1. Raised = {} /\ {t \in Threads : thread[t].hand # <<>>} = {}
    <3>1. \A v \in Threads \X (1 .. MaxViolations) : ~(v[2] <= thread[v[1]].raised)
      <4>1. ASSUME NEW v \in Threads \X (1 .. MaxViolations)
            PROVE  ~(v[2] <= thread[v[1]].raised)
        <5>1. v[1] \in Threads /\ v[2] \in 1 .. MaxViolations
          OBVIOUS
        <5>2. thread[v[1]].raised = 0
          BY <5>1, <1>1
        <5>3. QED
          BY <5>1, <5>2, <1>2
      <4>2. QED
        BY <4>1
    <3>2. QED
      BY <3>1, <1>1 DEF Raised
  <2>2. QED
    BY <2>1, <1>4, FS_EmptySet DEF NoneUncounted
<1>11. QED
  BY <1>5, <1>6, <1>7, <1>8, <1>9, <1>10 DEF IInv

\* A step of t that leaves the webhook, the clock and the buffer alone, and neither calls
\* nor appends.
LEMMA ThreadTyped ==
  ASSUME Typed, NEW t \in Threads, NEW s, thread' = [thread EXCEPT ![t] = s], s \in ThreadStates(now),
         UNCHANGED <<window, webhook, now>>,
         buffer' \in Seq(Violations), omitted' \in Nat, start' \in {None} \cup 0 .. now, counted' \in Nat
  PROVE  Typed'
BY DEF Typed, webhook

\* A step of t that neither begins nor ends a POST.
LEMMA ThreadStep ==
  ASSUME IInv, NEW t \in Threads, NEW s \in ThreadStates(now), thread' = [thread EXCEPT ![t] = s],
         UNCHANGED <<window, webhook, now>>,
         buffer' \in Seq(Violations), omitted' \in Nat, start' \in {None} \cup 0 .. now, counted' \in Nat,
         thread[t].pc # "post", s.pc # "post",
         Holding(s) <=> s.hand # <<>>,
         s.hand # <<>> => Head(s.hand).by = t /\ Head(s.hand).at \in 0 .. now,
         s.pc \notin {"flush", "report"} => s.next = "run",
         \A i \in 1 .. Len(buffer') :
           buffer'[i].by = t \/ \E j \in 1 .. Len(buffer) : buffer'[i].by = buffer[j].by,
         Ending(s) => \A i \in 1 .. Len(buffer') : buffer'[i].by # t,
         BufferBounded', NoneUncounted'
  PROVE  IInv'
<1>1. Typed /\ StagesKept /\ EndingLeavesNone
      /\ DeliveriesKnown /\ PostsApart /\ SuppressedExact /\ DeliveredApart
  BY DEF IInv
<1>2. Typed'
  BY <1>1, ThreadTyped
<1>3. StagesKept'
  BY <1>1, StagesStep
<1>4. EndingLeavesNone'
  BY <1>1, EndingStep
<1>5. DeliveriesKnown' /\ PostsApart' /\ SuppressedExact' /\ DeliveredApart'
  BY <1>1, WebhookStep
<1>6. QED
  BY <1>2, <1>3, <1>4, <1>5 DEF IInv

LEMMA ViolateStep ==
  ASSUME IInv, NEW t \in Threads, NEW clause \in Clauses, Violate(t, clause)
  PROVE  IInv'
<1> DEFINE alert == [clause |-> clause, count |-> 1, omitted |-> 0]
           violation == [by |-> t, clause |-> clause, at |-> now]
           s == IF window = Alone
                  THEN [thread[t] EXCEPT !.pc = "report", !.raised = @ + 1, !.alerts = <<alert>>]
                  ELSE [thread[t] EXCEPT !.pc = "call", !.raised = @ + 1, !.hand = <<violation>>]
<1>0. Typed /\ thread[t] \in ThreadStates(now) /\ now \in 0 .. MaxTime
  BY DEF IInv, Typed
<1>1. /\ thread[t].pc = "run" /\ thread[t].raised < MaxViolations
      /\ UNCHANGED <<window, digest, webhook, now>>
      /\ counted' = IF window = Alone THEN counted + 1 ELSE counted
  BY DEF Violate
<1>2. thread[t].hand = <<>> /\ thread[t].next = "run"
  BY <1>1 DEF IInv, StagesKept, Holding
<1>3. thread' = [thread EXCEPT ![t] = s]
  BY <1>0 DEF Violate, Typed
<1>4. /\ alert \in Alerts /\ <<alert>> \in Seq(Alerts)
      /\ violation \in Violations
      /\ thread[t].raised + 1 \in 0 .. MaxViolations
  <2>1. alert \in Alerts /\ violation \in Violations
    BY <1>0 DEF Alerts, Violations
  <2>2. thread[t].raised + 1 \in 0 .. MaxViolations
    BY <1>0, <1>1, ThreadsFinite DEF ThreadStates
  <2> HIDE DEF alert, violation
  <2>3. QED
    BY <2>1, <2>2
<1>5. /\ s.pc = IF window = Alone THEN "report" ELSE "call"
      /\ s.raised = thread[t].raised + 1
      /\ s.next = "run"
      /\ s.hand = IF window = Alone THEN <<>> ELSE <<violation>>
      /\ s \in ThreadStates(now)
  BY <1>0, <1>2, <1>4 DEF ThreadStates
<1>6. <<violation>> # <<>> /\ Head(<<violation>>).by = t /\ Head(<<violation>>).at \in 0 .. now
  <2>1. now \in 0 .. now
    BY <1>0, ThreadsFinite
  <2>2. QED
    BY <2>1
<1> HIDE DEF s, violation
<1>7. buffer' = buffer /\ omitted' = omitted /\ start' = start /\ Len(buffer) \in Nat
  BY <1>0, <1>1, LenProperties DEF digest, Typed
<1>8. BufferBounded'
  <2>1. Len(buffer') \in Nat
    BY <1>7
  <2>2. Len(buffer') + (IF s.pc = "append" THEN 1 ELSE 0)
          <= Len(buffer) + (IF thread[t].pc = "append" THEN 1 ELSE 0)
    <3>1. s.pc # "append" /\ thread[t].pc # "append"
      BY <1>1, <1>5
    <3>2. Len(buffer') = Len(buffer)
      BY <1>7
    <3> DEFINE l == Len(buffer')
    <3>3. l \in Nat /\ l = Len(buffer)
      BY <3>2, <1>7
    <3> HIDE DEF l
    <3>4. l + 0 <= Len(buffer) + 0
      BY <3>3
    <3>5. QED
      BY <3>1, <3>4 DEF l
  <2>3. QED
    BY <2>1, <2>2, <1>0, <1>3, BoundStep DEF IInv
<1>9. NoneUncounted'
  <2>1. /\ omitted \in Nat /\ counted \in Nat /\ counted' \in Nat /\ thread[t].raised \in Nat
    BY <1>0, <1>1, ThreadsFinite DEF Typed, ThreadStates
  <2>2. (IF s.hand # <<>> THEN 1 ELSE 0) + Len(buffer') + omitted' + counted' + thread[t].raised
          = (IF thread[t].hand # <<>> THEN 1 ELSE 0) + Len(buffer) + omitted + counted + s.raised
    <3>1. \A l, m, n, r \in Nat : /\ 0 + l + m + (n + 1) + r = 0 + l + m + n + (r + 1)
                                  /\ 1 + l + m + n + r = 0 + l + m + n + (r + 1)
      OBVIOUS
    <3> DEFINE k == counted
               r == thread[t].raised
               l == Len(buffer)
    <3>2. k \in Nat /\ r \in Nat /\ l \in Nat /\ omitted \in Nat
      BY <2>1, <1>7
    <3> HIDE DEF k, r, l
    <3>3. 0 + l + omitted + (k + 1) + r = 0 + l + omitted + k + (r + 1)
      BY <3>1, <3>2
    <3>4. 1 + l + omitted + k + r = 0 + l + omitted + k + (r + 1)
      BY <3>1, <3>2
    <3>5. CASE window = Alone
      <4>1. s.hand = <<>> /\ counted' = k + 1 /\ s.raised = r + 1
        BY <3>5, <1>1, <1>5 DEF k, r
      <4>2. QED
        BY <3>3, <4>1, <1>2, <1>7 DEF k, r, l
    <3>6. CASE window # Alone
      <4>1. s.hand # <<>> /\ counted' = k /\ s.raised = r + 1
        BY <3>6, <1>1, <1>5, <1>6 DEF k, r
      <4>2. QED
        BY <3>4, <4>1, <1>2, <1>7 DEF k, r, l
    <3>7. QED
      BY <3>5, <3>6
  <2>3. QED
    BY <2>1, <2>2, <1>0, <1>1, <1>3, <1>5, <1>7, CountStep DEF IInv
<1>10. /\ buffer' \in Seq(Violations) /\ omitted' \in Nat /\ counted' \in Nat
       /\ start' \in {None} \cup 0 .. now
  BY <1>0, <1>1, <1>7 DEF Typed
<1>11. /\ Holding(s) <=> s.hand # <<>>
       /\ s.hand # <<>> => Head(s.hand).by = t /\ Head(s.hand).at \in 0 .. now
       /\ ~Ending(s) /\ s.pc # "post"
  BY <1>5, <1>6 DEF Holding, Ending
<1>12. \A i \in 1 .. Len(buffer') : \E j \in 1 .. Len(buffer) : buffer'[i].by = buffer[j].by
  BY <1>7
<1>13. QED
  BY <1>1, <1>3, <1>5, <1>8, <1>9, <1>10, <1>11, <1>12, ThreadStep

\* A step of t that leaves its violations, the buffer and the counters alone.
LEMMA CountsKept ==
  ASSUME IInv, NEW t \in Threads, NEW s, thread' = [thread EXCEPT ![t] = s],
         UNCHANGED digest, UNCHANGED counted,
         s.pc # "append", s.hand = thread[t].hand, s.raised = thread[t].raised
  PROVE  BufferBounded' /\ NoneUncounted'
<1>1. Typed /\ BufferBounded /\ NoneUncounted
  BY DEF IInv
<1>2. /\ buffer' = buffer /\ omitted' = omitted /\ counted' = counted
      /\ Len(buffer) \in Nat /\ omitted \in Nat /\ counted \in Nat
      /\ thread[t].raised \in Nat
  <2>1. thread[t].raised \in Nat
    BY <1>1, ThreadsFinite DEF Typed, ThreadStates
  <2>2. QED
    BY <1>1, <2>1, LenProperties DEF digest, Typed
<1>3. Len(buffer') + (IF s.pc = "append" THEN 1 ELSE 0)
        <= Len(buffer) + (IF thread[t].pc = "append" THEN 1 ELSE 0)
  <2>1. Len(buffer') = Len(buffer)
    BY <1>2
  <2> DEFINE l == Len(buffer')
  <2>2. l = Len(buffer)
    BY <2>1
  <2> HIDE DEF l
  <2>3. l + 0 <= Len(buffer) + (IF thread[t].pc = "append" THEN 1 ELSE 0)
    BY <2>2, <1>2
  <2>4. QED
    BY <2>3 DEF l
<1>4. Len(buffer') \in Nat /\ omitted' \in Nat /\ counted' \in Nat
  BY <1>2
<1>5. (IF s.hand # <<>> THEN 1 ELSE 0) + Len(buffer') + omitted' + counted' + thread[t].raised
        = (IF thread[t].hand # <<>> THEN 1 ELSE 0) + Len(buffer) + omitted + counted + s.raised
  BY <1>2
<1>6. BufferBounded'
  BY <1>1, <1>3, <1>4, BoundStep
<1>7. NoneUncounted'
  BY <1>1, <1>4, <1>5, CountStep
<1>8. QED
  BY <1>6, <1>7

\* A step that only takes t to another stage.
LEMMA StageStep ==
  ASSUME IInv, NEW t \in Threads, NEW s \in ThreadStates(now), thread' = [thread EXCEPT ![t] = s],
         UNCHANGED <<window, digest, webhook, now, counted>>,
         thread[t].pc # "post", s.pc # "post", s.pc # "append",
         s.hand = thread[t].hand, s.raised = thread[t].raised,
         Holding(s) <=> Holding(thread[t]),
         s.pc \notin {"flush", "report"} => s.next = "run",
         Ending(s) => Ending(thread[t])
  PROVE  IInv'
<1>1. /\ buffer' = buffer
      /\ buffer' \in Seq(Violations) /\ omitted' \in Nat /\ counted' \in Nat
      /\ start' \in {None} \cup 0 .. now
  BY DEF IInv, Typed, digest
<1>2. BufferBounded' /\ NoneUncounted'
  BY CountsKept
<1>3. /\ Holding(s) <=> s.hand # <<>>
      /\ s.hand # <<>> => Head(s.hand).by = t /\ Head(s.hand).at \in 0 .. now
      /\ Ending(s) => \A i \in 1 .. Len(buffer) : buffer[i].by # t
  BY DEF IInv, StagesKept, EndingLeavesNone
<1>4. /\ \A i \in 1 .. Len(buffer') : \E j \in 1 .. Len(buffer) : buffer'[i].by = buffer[j].by
      /\ Ending(s) => \A i \in 1 .. Len(buffer') : buffer'[i].by # t
  BY <1>1, <1>3
<1>5. QED
  BY <1>1, <1>2, <1>3, <1>4, ThreadStep

LEMMA EndStep ==
  ASSUME IInv, NEW t \in Threads, End(t)
  PROVE  IInv'
<1>1. /\ Typed /\ thread[t] \in ThreadStates(now) /\ thread[t].pc = "run" /\ thread[t].next = "run"
      /\ UNCHANGED <<window, digest, webhook, now, counted>>
  BY DEF IInv, Typed, StagesKept, End
<1>2. CASE thread' = [thread EXCEPT ![t].pc = "gone"]
  <2> DEFINE s == [thread[t] EXCEPT !.pc = "gone"]
  <2>1. thread' = [thread EXCEPT ![t] = s]
    BY <1>1, <1>2 DEF Typed
  <2>2. /\ s \in ThreadStates(now) /\ s.pc = "gone" /\ s.next = "run"
        /\ s.hand = thread[t].hand /\ s.raised = thread[t].raised
    BY <1>1 DEF ThreadStates
  <2> HIDE DEF s
  <2>3. (Holding(s) <=> Holding(thread[t])) /\ ~Ending(s)
    BY <1>1, <2>2 DEF Holding, Ending
  <2>4. QED
    BY <1>1, <2>1, <2>2, <2>3, StageStep
<1>3. ASSUME NEW next \in {"ended", "run"}, thread' = [thread EXCEPT ![t].pc = "flush", ![t].next = next]
      PROVE  IInv'
  <2> DEFINE s == [thread[t] EXCEPT !.pc = "flush", !.next = next]
  <2>1. thread' = [thread EXCEPT ![t] = s]
    BY <1>1, <1>3 DEF Typed
  <2>2. /\ s \in ThreadStates(now) /\ s.pc = "flush" /\ s.next # "place"
        /\ s.hand = thread[t].hand /\ s.raised = thread[t].raised
    BY <1>1 DEF ThreadStates
  <2> HIDE DEF s
  <2>3. (Holding(s) <=> Holding(thread[t])) /\ ~Ending(s)
    BY <1>1, <2>2 DEF Holding, Ending
  <2>4. QED
    BY <1>1, <2>1, <2>2, <2>3, StageStep
<1>4. QED
  BY <1>2, <1>3 DEF End

LEMMA CallDigestStep ==
  ASSUME IInv, NEW t \in Threads, CallDigest(t)
  PROVE  IInv'
<1> DEFINE over == WindowOver(Head(thread[t].hand).at)
           s == IF over THEN [thread[t] EXCEPT !.pc = "flush", !.next = "place"]
                        ELSE [thread[t] EXCEPT !.pc = "place"]
<1>1. /\ Typed /\ thread[t] \in ThreadStates(now) /\ thread[t].pc = "call" /\ thread[t].next = "run"
      /\ UNCHANGED <<window, digest, webhook, now, counted>>
  BY DEF IInv, Typed, StagesKept, CallDigest
<1>2. thread' = IF over THEN [thread EXCEPT ![t].pc = "flush", ![t].next = "place"]
                        ELSE [thread EXCEPT ![t].pc = "place"]
  BY DEF CallDigest
<1> HIDE DEF over
<1>3. thread' = [thread EXCEPT ![t] = s]
  BY <1>1, <1>2 DEF Typed
<1>4. /\ s \in ThreadStates(now)
      /\ \/ s.pc = "flush" /\ s.next = "place"
         \/ s.pc = "place" /\ s.next = "run"
      /\ s.hand = thread[t].hand /\ s.raised = thread[t].raised
  BY <1>1 DEF ThreadStates
<1> HIDE DEF s
<1>5. (Holding(s) <=> Holding(thread[t])) /\ ~Ending(s)
  BY <1>1, <1>4 DEF Holding, Ending
<1>6. QED
  BY <1>1, <1>3, <1>4, <1>5, StageStep

LEMMA ReportedStep ==
  ASSUME IInv, NEW t \in Threads, Reported(t)
  PROVE  IInv'
<1> DEFINE s == [thread[t] EXCEPT !.pc = thread[t].next, !.next = "run"]
<1>1. /\ Typed /\ thread[t] \in ThreadStates(now) /\ thread[t].pc = "report"
      /\ UNCHANGED <<window, digest, webhook, now, counted>>
  BY DEF IInv, Typed, Reported
<1>2. thread' = [thread EXCEPT ![t] = s]
  BY <1>1 DEF Reported, Typed
<1>3. /\ s \in ThreadStates(now) /\ s.pc = thread[t].next /\ s.next = "run"
      /\ s.hand = thread[t].hand /\ s.raised = thread[t].raised
      /\ thread[t].next \in {"run", "place", "ended"}
  BY <1>1 DEF ThreadStates
<1> HIDE DEF s
<1>4. (Holding(s) <=> Holding(thread[t])) /\ (Ending(s) => Ending(thread[t]))
  BY <1>1, <1>3 DEF Holding, Ending
<1>5. s.pc # "post" /\ s.pc # "append"
  BY <1>3
<1>6. QED
  BY <1>1, <1>2, <1>3, <1>4, <1>5, StageStep

LEMMA FlushStep ==
  ASSUME IInv, NEW t \in Threads, Flush(t)
  PROVE  IInv'
<1>1. /\ Typed /\ thread[t] \in ThreadStates(now) /\ thread[t].pc = "flush"
      /\ UNCHANGED <<window, webhook, now>>
  BY DEF IInv, Typed, Flush
<1>2. PICK groups \in Groups :
        thread' = [thread EXCEPT ![t].pc = "report", ![t].alerts = Aggregates(groups)]
  BY DEF Flush
<1> DEFINE alerts == Aggregates(groups)
           s == [thread[t] EXCEPT !.pc = "report", !.alerts = alerts]
<1>3. alerts \in Seq(Alerts)
  BY <1>1, AggregatesTyped DEF Typed
<1> HIDE DEF alerts
<1>4. thread' = [thread EXCEPT ![t] = s]
  BY <1>1, <1>2 DEF Typed, alerts
<1>5. /\ s \in ThreadStates(now) /\ s.pc = "report" /\ s.next = thread[t].next
      /\ s.hand = thread[t].hand /\ s.raised = thread[t].raised
  BY <1>1, <1>3 DEF ThreadStates
<1> HIDE DEF s
<1>6. Holding(s) <=> Holding(thread[t])
  BY <1>1, <1>5 DEF Holding
<1>7. /\ Len(buffer) \in Nat /\ omitted \in Nat /\ counted \in Nat
      /\ buffer = <<>> => Len(buffer) = 0
      /\ thread[t].raised \in Nat
  <2>1. thread[t].raised \in Nat
    BY <1>1, ThreadsFinite DEF ThreadStates
  <2>2. Len(buffer) \in Nat /\ (buffer = <<>> => Len(buffer) = 0)
    BY <1>1, LenProperties DEF Typed
  <2>3. QED
    BY <2>1, <2>2, <1>1 DEF Typed
<1>8. /\ buffer' = <<>> /\ omitted' \in Nat /\ counted' \in Nat
      /\ start' \in {None} \cup 0 .. now
      /\ omitted' + counted' = Len(buffer) + omitted + counted
  <2>1. CASE buffer = <<>>
    <3>1. buffer' = <<>> /\ omitted' = omitted /\ start' = start /\ counted' = counted
      BY <2>1 DEF Flush, digest
    <3>2. QED
      BY <2>1, <3>1, <1>1, <1>7 DEF Typed
  <2>2. CASE buffer # <<>>
    <3>1. buffer' = <<>> /\ omitted' = 0 /\ start' = None /\ counted' = counted + Len(buffer) + omitted
      BY <2>2 DEF Flush
    <3>2. omitted' \in Nat /\ start' \in {None} \cup 0 .. now
      BY <3>1
    <3> DEFINE c == counted'
    <3>3. c = counted + Len(buffer) + omitted
      BY <3>1
    <3> HIDE DEF c
    <3>4. c \in Nat /\ 0 + c = Len(buffer) + omitted + counted
      BY <3>3, <1>7
    <3>5. QED
      BY <3>1, <3>2, <3>4 DEF c
  <2>3. QED
    BY <2>1, <2>2
<1>9. Len(buffer') = 0 /\ Len(buffer') \in Nat /\ buffer' \in Seq(Violations)
  BY <1>8
<1>10. BufferBounded'
  <2>1. Len(buffer') + (IF s.pc = "append" THEN 1 ELSE 0)
          <= Len(buffer) + (IF thread[t].pc = "append" THEN 1 ELSE 0)
    <3>1. 0 <= Len(buffer)
      BY <1>7
    <3>2. QED
      BY <3>1, <1>1, <1>5, <1>7, <1>9
  <2>2. QED
    BY <2>1, <1>1, <1>4, <1>9, BoundStep DEF IInv
<1>11. NoneUncounted'
  <2>1. (IF s.hand # <<>> THEN 1 ELSE 0) + Len(buffer') + omitted' + counted' + thread[t].raised
          = (IF thread[t].hand # <<>> THEN 1 ELSE 0) + Len(buffer) + omitted + counted + s.raised
    <3> DEFINE o == omitted'
               c == counted'
               h == IF thread[t].hand # <<>> THEN 1 ELSE 0
               l == Len(buffer)
               m == omitted
               k == counted
               r == thread[t].raised
    <3>1. o \in Nat /\ c \in Nat /\ o + c = l + m + k /\ h \in Nat
      BY <1>8
    <3>2. l \in Nat /\ m \in Nat /\ k \in Nat /\ r \in Nat
      BY <1>7
    <3> HIDE DEF o, c, h, l, m, k, r
    <3>3. h + 0 + o + c + r = h + l + m + k + r
      BY ONLY <3>1, <3>2
    <3>4. QED
      BY <3>3, <1>5, <1>9 DEF o, c, h, l, m, k, r
  <2>2. QED
    BY <2>1, <1>1, <1>4, <1>5, <1>8, <1>9, CountStep DEF IInv
<1>12. /\ Holding(s) <=> s.hand # <<>>
       /\ s.hand # <<>> => Head(s.hand).by = t /\ Head(s.hand).at \in 0 .. now
  BY <1>5, <1>6 DEF IInv, StagesKept
<1>13. 1 .. Len(buffer') = {}
  BY <1>9
<1>14. /\ \A i \in 1 .. Len(buffer') :
            buffer'[i].by = t \/ \E j \in 1 .. Len(buffer) : buffer'[i].by = buffer[j].by
       /\ Ending(s) => \A i \in 1 .. Len(buffer') : buffer'[i].by # t
  BY <1>13
<1>15. QED
  BY <1>1, <1>4, <1>5, <1>8, <1>9, <1>10, <1>11, <1>12, <1>14, ThreadStep

LEMMA PlaceStep ==
  ASSUME IInv, NEW t \in Threads, Place(t)
  PROVE  IInv'
<1> DEFINE room == Len(buffer) < MaxBuffer
           s == [thread[t] EXCEPT !.pc = IF room THEN "append" ELSE "omit"]
<1>1. /\ Typed /\ thread[t] \in ThreadStates(now) /\ thread[t].pc = "place" /\ thread[t].next = "run"
      /\ UNCHANGED <<window, buffer, omitted, webhook, now, counted>>
      /\ thread[t].hand # <<>> /\ Head(thread[t].hand).by = t /\ Head(thread[t].hand).at \in 0 .. now
  BY DEF IInv, Typed, StagesKept, Holding, Place
<1>2. /\ start' \in {None} \cup 0 .. now
      /\ buffer' \in Seq(Violations) /\ omitted' \in Nat /\ counted' \in Nat
  BY <1>1 DEF Place, Typed
<1>3. thread' = [thread EXCEPT ![t] = s]
  BY <1>1 DEF Place, Typed
<1>4. /\ s \in ThreadStates(now) /\ s.next = "run" /\ s.pc \in {"append", "omit"}
      /\ s.hand = thread[t].hand /\ s.raised = thread[t].raised
      /\ s.pc = "append" => room
  BY <1>1 DEF ThreadStates
<1> HIDE DEF s
<1>5. /\ Holding(s) <=> s.hand # <<>>
      /\ s.hand # <<>> => Head(s.hand).by = t /\ Head(s.hand).at \in 0 .. now
      /\ ~Ending(s) /\ s.pc # "post" /\ s.pc \notin {"flush", "report"}
  BY <1>1, <1>4 DEF Holding, Ending
<1>6. Len(buffer) \in Nat /\ omitted \in Nat /\ counted \in Nat /\ thread[t].raised \in Nat
      /\ MaxBuffer \in Nat
  <2>1. thread[t].raised \in Nat
    BY <1>1, ThreadsFinite DEF ThreadStates
  <2>2. QED
    BY <2>1, <1>1, LenProperties, ThreadsFinite DEF Typed
<1>7. Len(buffer') \in Nat /\ Len(buffer') = Len(buffer)
  BY <1>1, <1>6
<1>8. BufferBounded'
  <2>1. CASE room
    <3> DEFINE n == Cardinality({u \in Threads : thread'[u].pc = "append"})
               l == Len(buffer')
    <3>1. n \in Nat /\ n <= Cardinality(Threads)
      BY ThreadsFinite, FS_Subset, FS_CardinalityType
    <3>2. l = Len(buffer)
      BY <1>7
    <3> HIDE DEF n, l
    <3>3. l + n + 1 <= MaxBuffer + Cardinality(Threads)
      BY <2>1, <3>1, <3>2, <1>6, ThreadsFinite
    <3>4. QED
      BY <3>3 DEF n, l, BufferBounded, Appending
  <2>2. CASE ~room
    <3>1. Len(buffer') + (IF s.pc = "append" THEN 1 ELSE 0)
            <= Len(buffer) + (IF thread[t].pc = "append" THEN 1 ELSE 0)
      <4>1. s.pc # "append" /\ thread[t].pc # "append"
        BY <2>2, <1>1, <1>4
      <4> DEFINE l == Len(buffer')
      <4>2. l = Len(buffer)
        BY <1>7
      <4> HIDE DEF l
      <4>3. l + 0 <= Len(buffer) + 0
        BY <4>2, <1>6
      <4>4. QED
        BY <4>1, <4>3 DEF l
    <3>2. QED
      BY <3>1, <1>1, <1>3, <1>7, BoundStep DEF IInv
  <2>3. QED
    BY <2>1, <2>2
<1>9. NoneUncounted'
  <2>1. (IF s.hand # <<>> THEN 1 ELSE 0) + Len(buffer') + omitted' + counted' + thread[t].raised
          = (IF thread[t].hand # <<>> THEN 1 ELSE 0) + Len(buffer) + omitted + counted + s.raised
    BY <1>1, <1>4
  <2>2. QED
    BY <2>1, <1>1, <1>2, <1>3, <1>4, <1>7, CountStep DEF IInv
<1>10. \A i \in 1 .. Len(buffer') : \E j \in 1 .. Len(buffer) : buffer'[i].by = buffer[j].by
  BY <1>1
<1>11. QED
  BY <1>1, <1>2, <1>3, <1>4, <1>5, <1>8, <1>9, <1>10, ThreadStep

LEMMA KeepStep ==
  ASSUME IInv, NEW t \in Threads, Keep(t)
  PROVE  IInv'
<1> DEFINE s == [thread[t] EXCEPT !.pc = "run", !.hand = <<>>]
           v == Head(thread[t].hand)
<1>1. /\ Typed /\ thread[t] \in ThreadStates(now) /\ thread[t].pc \in {"append", "omit"}
      /\ thread[t].next = "run"
      /\ UNCHANGED <<window, start, webhook, now, counted>>
      /\ thread[t].hand # <<>> /\ Head(thread[t].hand).by = t
  BY DEF IInv, Typed, StagesKept, Holding, Keep
<1>2. v \in Violations /\ thread[t].hand = <<v>>
  <2>1. PICK w \in Violations : thread[t].hand = <<w>>
    BY <1>1 DEF ThreadStates
  <2>2. v = w
    BY <2>1
  <2>3. QED
    BY <2>1, <2>2
<1>3. thread' = [thread EXCEPT ![t] = s]
  BY <1>1 DEF Keep, Typed
<1>4. /\ s \in ThreadStates(now) /\ s.next = "run" /\ s.pc = "run"
      /\ s.hand = <<>> /\ s.raised = thread[t].raised
  BY <1>1 DEF ThreadStates
<1> HIDE DEF s
<1>5. (Holding(s) <=> s.hand # <<>>) /\ ~Ending(s)
  BY <1>4 DEF Holding, Ending
<1>6. Len(buffer) \in Nat /\ omitted \in Nat /\ counted \in Nat /\ thread[t].raised \in Nat
      /\ buffer \in Seq(Violations)
  <2>1. thread[t].raised \in Nat
    BY <1>1, ThreadsFinite DEF ThreadStates
  <2>2. QED
    BY <2>1, <1>1, LenProperties DEF Typed
<1> HIDE DEF v
<1>7. \/ /\ thread[t].pc = "append" /\ buffer' = Append(buffer, v) /\ omitted' = omitted
      \/ /\ thread[t].pc = "omit" /\ buffer' = buffer /\ omitted' = omitted + 1
  <2>1. buffer \o <<v>> = Append(buffer, v)
    BY <1>2, <1>6, AppendIsConcat
  <2>2. QED
    BY <2>1, <1>2 DEF Keep
<1>8. \/ /\ thread[t].pc = "append" /\ omitted' = omitted
         /\ buffer' \in Seq(Violations) /\ Len(buffer') = Len(buffer) + 1
         /\ \A i \in 1 .. Len(buffer') : buffer'[i] = IF i <= Len(buffer) THEN buffer[i] ELSE v
      \/ /\ thread[t].pc = "omit" /\ buffer' = buffer /\ omitted' = omitted + 1
  <2> DEFINE b == Append(buffer, v)
             n == Len(buffer)
  <2>1. /\ b \in Seq(Violations) /\ Len(b) = n + 1
        /\ \A i \in 1 .. n : b[i] = buffer[i]
        /\ b[n + 1] = v
    BY <1>2, <1>6, AppendProperties
  <2>2. n \in Nat /\ \A i \in 1 .. n + 1 : (i <= n /\ i \in 1 .. n) \/ (~(i <= n) /\ i = n + 1)
    BY <1>6
  <2> HIDE DEF b, n
  <2>3. \A i \in 1 .. Len(b) : b[i] = IF i <= n THEN buffer[i] ELSE v
    BY <2>1, <2>2
  <2>4. QED
    BY <2>1, <2>3, <1>7 DEF b, n
<1>9. /\ start' \in {None} \cup 0 .. now
      /\ buffer' \in Seq(Violations) /\ omitted' \in Nat /\ counted' \in Nat /\ Len(buffer') \in Nat
  BY <1>1, <1>6, <1>8 DEF Typed
<1>10. \A i \in 1 .. Len(buffer') :
         buffer'[i].by = t \/ \E j \in 1 .. Len(buffer) : buffer'[i].by = buffer[j].by
  <2>1. v.by = t
    BY <1>1 DEF v
  <2>2. CASE thread[t].pc = "append"
    BY <2>1, <2>2, <1>6, <1>8
  <2>3. CASE thread[t].pc = "omit"
    BY <2>3, <1>8
  <2>4. QED
    BY <2>2, <2>3, <1>1
<1> DEFINE l == Len(buffer')
           o == omitted'
<1>11. /\ l \in Nat /\ o \in Nat
       /\ \/ thread[t].pc = "append" /\ o = omitted /\ l = Len(buffer) + 1
          \/ thread[t].pc = "omit" /\ o = omitted + 1 /\ l = Len(buffer)
  BY <1>8, <1>9
<1>12. BufferBounded'
  <2>1. l + 0 <= Len(buffer) + (IF thread[t].pc = "append" THEN 1 ELSE 0)
    <3> HIDE DEF l, o
    <3>1. QED
      BY <1>6, <1>11
  <2>2. l + (IF s.pc = "append" THEN 1 ELSE 0)
          <= Len(buffer) + (IF thread[t].pc = "append" THEN 1 ELSE 0)
    BY <2>1, <1>4
  <2>3. QED
    BY <2>2, <1>1, <1>3, <1>9, BoundStep DEF IInv
<1>13. NoneUncounted'
  <2>1. 0 + l + o + counted + thread[t].raised
          = 1 + Len(buffer) + omitted + counted + thread[t].raised
    <3> HIDE DEF l, o
    <3>1. QED
      BY <1>6, <1>11
  <2>2. (IF s.hand # <<>> THEN 1 ELSE 0) + Len(buffer') + omitted' + counted' + thread[t].raised
          = (IF thread[t].hand # <<>> THEN 1 ELSE 0) + Len(buffer) + omitted + counted + s.raised
    BY <2>1, <1>1, <1>4
  <2>3. QED
    BY <2>2, <1>1, <1>3, <1>4, <1>9, CountStep DEF IInv
<1>14. QED
  BY <1>1, <1>3, <1>4, <1>5, <1>9, <1>10, <1>12, <1>13, ThreadStep

LEMMA NextAlert ==
  ASSUME Typed, NEW t \in Threads, thread[t].alerts # <<>>
  PROVE  ClauseOf(t) \in Clauses /\ Tail(thread[t].alerts) \in Seq(Alerts)
<1>1. thread[t].alerts \in Seq(Alerts)
  BY DEF Typed, ThreadStates
<1>2. Head(thread[t].alerts) \in Alerts /\ Tail(thread[t].alerts) \in Seq(Alerts)
  BY <1>1, HeadTailProperties
<1>3. QED
  BY <1>2 DEF Alerts, ClauseOf

\* A step of t in the webhook leaves the digest as it is.
LEMMA WebhookLeaves ==
  ASSUME IInv, NEW t \in Threads, NEW s \in ThreadStates(now), thread' = [thread EXCEPT ![t] = s],
         UNCHANGED <<window, digest, now, counted>>,
         lastSent' \in [Clauses -> {None} \cup 0 .. now], sent' \in [Clauses -> Seq(Nat)],
         suppressed' \subseteq [clause : Clauses, at : Nat], overlapped' \subseteq Clauses,
         thread[t].pc \in {"report", "post"}, s.pc \in {"report", "post"},
         s.hand = thread[t].hand, s.raised = thread[t].raised, s.next = thread[t].next,
         s.pc = "post" => s.alerts # <<>>
  PROVE  Typed' /\ StagesKept' /\ EndingLeavesNone' /\ BufferBounded' /\ NoneUncounted'
<1>1. Typed /\ StagesKept /\ EndingLeavesNone /\ thread[t] \in ThreadStates(now)
  BY DEF IInv, Typed
<1>2. Typed'
  BY <1>1 DEF Typed, digest
<1>3. (Holding(s) <=> Holding(thread[t])) /\ (Ending(s) <=> Ending(thread[t]))
  BY DEF Holding, Ending
<1>4. /\ Holding(s) <=> s.hand # <<>>
      /\ s.hand # <<>> => Head(s.hand).by = t /\ Head(s.hand).at \in 0 .. now
  BY <1>1, <1>3 DEF StagesKept
<1>5. StagesKept'
  BY <1>1, <1>4, StagesStep
<1>6. EndingLeavesNone'
  <2>1. /\ \A i \in 1 .. Len(buffer') : \E j \in 1 .. Len(buffer) : buffer'[i].by = buffer[j].by
        /\ Ending(s) => \A i \in 1 .. Len(buffer') : buffer'[i].by # t
    BY <1>1, <1>3 DEF EndingLeavesNone, digest
  <2>2. QED
    BY <1>1, <2>1, EndingStep
<1>7. BufferBounded' /\ NoneUncounted'
  BY CountsKept
<1>8. QED
  BY <1>2, <1>5, <1>6, <1>7

\* The throttle drops the alert only if one was delivered less than the throttle before.
LEMMA SuppressStep ==
  ASSUME IInv, NEW t \in Threads, Notify(t), Throttled(ClauseOf(t))
  PROVE  IInv'
<1> DEFINE s == [thread[t] EXCEPT !.alerts = Tail(@)]
           c == ClauseOf(t)
           alert == [clause |-> c, at |-> now]
<1>1. /\ Typed /\ thread[t] \in ThreadStates(now) /\ thread[t].pc = "report"
      /\ thread[t].alerts # <<>>
      /\ UNCHANGED <<window, digest, lastSent, sent, now, counted, overlapped>>
      /\ suppressed' = suppressed \cup {alert}
  BY DEF IInv, Typed, Notify
<1>2. thread' = [thread EXCEPT ![t] = s]
  BY <1>1 DEF Notify, Typed
<1>3. c \in Clauses /\ Tail(thread[t].alerts) \in Seq(Alerts)
  BY <1>1, NextAlert
<1>4. /\ s \in ThreadStates(now) /\ s.pc = "report" /\ s.next = thread[t].next
      /\ s.hand = thread[t].hand /\ s.raised = thread[t].raised
  BY <1>1, <1>3 DEF ThreadStates
<1>5. now \in Nat /\ Throttle \in Nat
  BY <1>1, ThreadsFinite DEF Typed
<1>6. Throttle > 0 /\ lastSent[c] # None /\ now - lastSent[c] < Throttle
  BY DEF Throttled
<1> HIDE DEF s, c
<1>7. Typed' /\ StagesKept' /\ EndingLeavesNone' /\ BufferBounded' /\ NoneUncounted'
  <2>1. alert \in [clause : Clauses, at : Nat]
    BY <1>3, <1>5
  <2>2. suppressed' \subseteq [clause : Clauses, at : Nat]
    BY <1>1, <2>1 DEF Typed
  <2>3. /\ lastSent' \in [Clauses -> {None} \cup 0 .. now] /\ sent' \in [Clauses -> Seq(Nat)]
        /\ overlapped' \subseteq Clauses
    BY <1>1 DEF Typed
  <2>4. QED
    BY <1>1, <1>2, <1>4, <2>2, <2>3, WebhookLeaves
<1>8. DeliveriesKnown' /\ DeliveredApart'
  BY <1>1 DEF IInv, DeliveriesKnown, DeliveredApart
<1>9. PostsApart'
  <2>1. \A u \in Threads : thread'[u].pc = "post" => thread[u].pc = "post" /\ thread'[u] = thread[u]
    BY <1>1, <1>2, <1>4 DEF Typed
  <2>2. QED
    BY <1>1, <2>1 DEF IInv, PostsApart, ClauseOf
<1>10. SuppressedExact'
  <2> DEFINE n == Len(sent[c])
  <2>1. /\ sent[c] \in Seq(Nat) /\ sent[c] # <<>>
        /\ lastSent[c] = sent[c][n] /\ lastSent[c] \in 0 .. now
    BY <1>1, <1>3, <1>6 DEF IInv, DeliveriesKnown, Typed
  <2>2. n \in 1 .. Len(sent[c])
    <3>1. Len(sent[c]) \in Nat /\ Len(sent[c]) # 0
      BY <2>1, LenProperties, EmptySeq
    <3>2. QED
      BY <3>1
  <2>3. lastSent[c] <= now /\ now < lastSent[c] + Throttle
    <3>1. \A l, m, k \in Nat : m - l < k => m < l + k
      OBVIOUS
    <3>2. lastSent[c] \in Nat /\ lastSent[c] <= now
      BY <2>1, <1>5
    <3>3. QED
      BY <3>1, <3>2, <1>5, <1>6
  <2>4. sent[alert.clause][n] <= alert.at /\ alert.at < sent[alert.clause][n] + Throttle
    BY <2>1, <2>3
  <2> HIDE DEF n
  <2>5. \E i \in 1 .. Len(sent[alert.clause]) :
          /\ sent[alert.clause][i] <= alert.at
          /\ alert.at < sent[alert.clause][i] + Throttle
    BY <2>2, <2>4
  <2> HIDE DEF alert
  <2>6. QED
    BY <2>5, <1>1 DEF IInv, SuppressedExact
<1>11. QED
  BY <1>7, <1>8, <1>9, <1>10 DEF IInv

\* A POST that begins while none of its clause is under way begins a throttle after the
\* last delivery.
LEMMA BeginStep ==
  ASSUME IInv, NEW t \in Threads, Notify(t), ~Throttled(ClauseOf(t))
  PROVE  IInv'
<1> DEFINE s == [thread[t] EXCEPT !.pc = "post", !.began = now]
           c == ClauseOf(t)
           others == {ClauseOf(u) : u \in {u \in Threads : thread[u].pc = "post" /\ ClauseOf(u) = c}}
<1>1. /\ Typed /\ thread[t] \in ThreadStates(now) /\ thread[t].pc = "report"
      /\ thread[t].alerts # <<>>
      /\ UNCHANGED <<window, digest, lastSent, sent, now, counted, suppressed>>
      /\ overlapped' = overlapped \cup others
  BY DEF IInv, Typed, Notify
<1>2. thread' = [thread EXCEPT ![t] = s]
  BY <1>1 DEF Notify, Typed
<1>3. c \in Clauses
  BY <1>1, NextAlert
<1>4. now \in Nat /\ now \in 0 .. now /\ Throttle \in Nat /\ lastSent[c] \in {None} \cup 0 .. now
  <2>1. now \in Nat /\ Throttle \in Nat
    BY <1>1, ThreadsFinite DEF Typed
  <2>2. QED
    BY <2>1, <1>1, <1>3 DEF Typed
<1>5. /\ s \in ThreadStates(now) /\ s.pc = "post" /\ s.next = thread[t].next /\ s.began = now
      /\ s.hand = thread[t].hand /\ s.raised = thread[t].raised /\ s.alerts = thread[t].alerts
  BY <1>1, <1>4 DEF ThreadStates
<1>6. lastSent[c] # None => lastSent[c] + Throttle <= now
  <2>1. ASSUME lastSent[c] # None
        PROVE  lastSent[c] + Throttle <= now
    <3>1. \A l, m, k \in Nat : (k > 0 => ~(m - l < k)) /\ l <= m => l + k <= m
      OBVIOUS
    <3>2. lastSent[c] \in Nat /\ lastSent[c] <= now
      BY <2>1, <1>4
    <3>3. Throttle > 0 => ~(now - lastSent[c] < Throttle)
      BY <2>1 DEF Throttled
    <3>4. QED
      BY <3>1, <3>2, <3>3, <1>4
  <2>2. QED
    BY <2>1
<1>7. \A u \in Threads : thread[u].pc = "post" /\ ClauseOf(u) = c => c \in overlapped'
  BY <1>1
<1> HIDE DEF s, c
<1>8. overlapped \subseteq overlapped' /\ overlapped' \subseteq Clauses
  BY <1>1, <1>3 DEF Typed
<1> HIDE DEF others
<1>9. Typed' /\ StagesKept' /\ EndingLeavesNone' /\ BufferBounded' /\ NoneUncounted'
  <2>1. /\ lastSent' \in [Clauses -> {None} \cup 0 .. now] /\ sent' \in [Clauses -> Seq(Nat)]
        /\ suppressed' \subseteq [clause : Clauses, at : Nat]
    BY <1>1 DEF Typed
  <2>2. QED
    BY <1>1, <1>2, <1>5, <1>8, <2>1, WebhookLeaves
<1>10. DeliveriesKnown' /\ DeliveredApart' /\ SuppressedExact'
  BY <1>1, <1>8 DEF IInv, DeliveriesKnown, DeliveredApart, SuppressedExact
<1>11. PostsApart'
  <2>1. thread'[t] = s /\ \A u \in Threads : u # t => thread'[u] = thread[u]
    BY <1>1, <1>2 DEF Typed
  <2> DEFINE d(u) == Head(thread'[u].alerts).clause
  <2>2. d(t) = c /\ \A u \in Threads : u # t => d(u) = ClauseOf(u)
    BY <2>1, <1>5 DEF ClauseOf, c
  <2> HIDE DEF d
  <2>3. ASSUME NEW u \in Threads, thread'[u].pc = "post", d(u) \notin overlapped'
        PROVE  /\ \A v \in Threads : thread'[v].pc = "post" /\ d(v) = d(u) => v = u
               /\ lastSent'[d(u)] # None => lastSent'[d(u)] + Throttle <= thread'[u].began
    <3>1. CASE u = t
      BY <3>1, <2>1, <2>2, <2>3, <1>1, <1>5, <1>6, <1>7
    <3>2. CASE u # t
      <4>1. thread[u].pc = "post" /\ d(u) = ClauseOf(u) /\ ClauseOf(u) \notin overlapped
        BY <3>2, <2>1, <2>2, <2>3, <1>8
      <4>2. ClauseOf(u) # c
        BY <4>1, <2>3, <1>7
      <4>3. QED
        BY <3>2, <4>1, <4>2, <2>1, <2>2, <1>1 DEF IInv, PostsApart
    <3>3. QED
      BY <3>1, <3>2
  <2>4. QED
    BY <2>3 DEF PostsApart, ClauseOf, d
<1>12. QED
  BY <1>9, <1>10, <1>11 DEF IInv

LEMMA NotifyStep ==
  ASSUME IInv, NEW t \in Threads, Notify(t)
  PROVE  IInv'
BY SuppressStep, BeginStep

LEMMA PostStep ==
  ASSUME IInv, NEW t \in Threads, Post(t)
  PROVE  IInv'
<1> DEFINE s == [thread[t] EXCEPT !.pc = "report", !.alerts = Tail(@), !.began = 0]
           c == ClauseOf(t)
           began == thread[t].began
<1>1. PICK b \in BOOLEAN : Answered(t, b, b)
  BY DEF Post
<1>2. /\ Typed /\ thread[t] \in ThreadStates(now) /\ thread[t].pc = "post"
      /\ thread[t].alerts # <<>>
      /\ UNCHANGED <<window, digest, suppressed, overlapped, now, counted>>
  BY <1>1 DEF IInv, Typed, StagesKept, Answered
<1>3. thread' = [thread EXCEPT ![t] = s]
  BY <1>1, <1>2 DEF Answered, Typed
<1>4. c \in Clauses /\ Tail(thread[t].alerts) \in Seq(Alerts)
  BY <1>2, NextAlert
<1>5. now \in Nat /\ 0 \in 0 .. now /\ began \in 0 .. now /\ began \in Nat /\ Throttle \in Nat
  <2>1. now \in Nat /\ Throttle \in Nat /\ began \in 0 .. now
    BY <1>2, ThreadsFinite DEF Typed, ThreadStates
  <2>2. QED
    BY <2>1
<1>6. /\ s \in ThreadStates(now) /\ s.pc = "report" /\ s.next = thread[t].next
      /\ s.hand = thread[t].hand /\ s.raised = thread[t].raised
  BY <1>2, <1>4, <1>5 DEF ThreadStates
<1>7. \/ lastSent' = lastSent /\ sent' = sent
      \/ /\ lastSent' = [lastSent EXCEPT ![c] = began]
         /\ sent' = [sent EXCEPT ![c] = Append(@, began)]
  BY <1>1 DEF Answered
<1>8. c \notin overlapped =>
        /\ \A u \in Threads : thread[u].pc = "post" /\ ClauseOf(u) = c => u = t
        /\ lastSent[c] # None => lastSent[c] + Throttle <= began
  BY <1>2 DEF IInv, PostsApart
<1> HIDE DEF s, c, began
<1>9. /\ sent[c] \in Seq(Nat) /\ Len(sent[c]) \in Nat
      /\ Append(sent[c], began) \in Seq(Nat)
      /\ Len(Append(sent[c], began)) = Len(sent[c]) + 1
      /\ \A i \in 1 .. Len(sent[c]) : Append(sent[c], began)[i] = sent[c][i]
      /\ Append(sent[c], began)[Len(sent[c]) + 1] = began
  <2>1. sent[c] \in Seq(Nat)
    BY <1>2, <1>4 DEF Typed
  <2>2. QED
    BY <2>1, <1>5, AppendProperties, LenProperties
<1>10. Typed' /\ StagesKept' /\ EndingLeavesNone' /\ BufferBounded' /\ NoneUncounted'
  <2>1. lastSent' \in [Clauses -> {None} \cup 0 .. now] /\ sent' \in [Clauses -> Seq(Nat)]
    BY <1>2, <1>5, <1>7, <1>9 DEF Typed
  <2>2. suppressed' \subseteq [clause : Clauses, at : Nat] /\ overlapped' \subseteq Clauses
    BY <1>2 DEF Typed
  <2>3. QED
    BY <1>2, <1>3, <1>6, <2>1, <2>2, WebhookLeaves
<1>11. \A u \in Threads : thread'[u].pc = "post" =>
         u # t /\ thread[u].pc = "post" /\ thread'[u] = thread[u]
  BY <1>2, <1>3, <1>6 DEF Typed
<1>12. CASE lastSent' = lastSent /\ sent' = sent
  <2>1. DeliveriesKnown' /\ SuppressedExact' /\ DeliveredApart'
    BY <1>2, <1>12 DEF IInv, DeliveriesKnown, SuppressedExact, DeliveredApart
  <2>2. PostsApart'
    BY <1>2, <1>11, <1>12 DEF IInv, PostsApart, ClauseOf
  <2>3. QED
    BY <2>1, <2>2, <1>10 DEF IInv
<1>13. CASE /\ lastSent' = [lastSent EXCEPT ![c] = began]
            /\ sent' = [sent EXCEPT ![c] = Append(@, began)]
  <2> DEFINE n == Len(sent[c])
  <2>1. /\ sent'[c] = Append(sent[c], began) /\ lastSent'[c] = began
        /\ \A d \in Clauses : d # c => sent'[d] = sent[d] /\ lastSent'[d] = lastSent[d]
    BY <1>2, <1>4, <1>13 DEF Typed
  <2>2. n \in Nat /\ Len(sent'[c]) = n + 1 /\ sent'[c][n + 1] = began
        /\ \A i \in 1 .. n : sent'[c][i] = sent[c][i]
    BY <2>1, <1>9
  <2>3. DeliveriesKnown'
    <3>1. ASSUME NEW d \in Clauses
          PROVE  IF sent'[d] = <<>> THEN lastSent'[d] = None
                                    ELSE lastSent'[d] = sent'[d][Len(sent'[d])] /\ lastSent'[d] # None
      <4>1. CASE d = c
        <5>1. sent'[c] # <<>>
          <6>1. Len(<<>>) = 0 /\ n + 1 # 0
            BY <2>2
          <6>2. QED
            BY <6>1, <2>2
        <5>2. began # None
          BY <1>5 DEF None
        <5>3. QED
          BY <4>1, <5>1, <5>2, <2>1, <2>2
      <4>2. CASE d # c
        BY <4>2, <2>1 DEF IInv, DeliveriesKnown
      <4>3. QED
        BY <4>1, <4>2
    <3>2. QED
      BY <3>1 DEF DeliveriesKnown
  <2>4. PostsApart'
    <3>1. ASSUME NEW u \in Threads, thread'[u].pc = "post", ClauseOf(u) \notin overlapped
          PROVE  /\ ClauseOf(u) # c /\ ClauseOf(u) \in Clauses
                 /\ \A v \in Threads : thread[v].pc = "post" /\ ClauseOf(v) = ClauseOf(u) => v = u
                 /\ lastSent[ClauseOf(u)] # None => lastSent[ClauseOf(u)] + Throttle <= thread[u].began
      <4>1. u # t /\ thread[u].pc = "post" /\ thread[u].alerts # <<>>
        BY <3>1, <1>11 DEF IInv, StagesKept
      <4>2. ClauseOf(u) # c
        BY <4>1, <3>1, <1>8
      <4>3. ClauseOf(u) \in Clauses
        BY <4>1, <1>2, NextAlert
      <4>4. QED
        BY <4>1, <4>2, <4>3, <3>1 DEF IInv, PostsApart
    <3> DEFINE e(u) == Head(thread'[u].alerts).clause
    <3>2. \A u \in Threads : thread'[u].pc = "post" => e(u) = ClauseOf(u)
      BY <1>11 DEF ClauseOf
    <3> HIDE DEF e
    <3>3. ASSUME NEW u \in Threads, thread'[u].pc = "post", e(u) \notin overlapped'
          PROVE  /\ \A v \in Threads : thread'[v].pc = "post" /\ e(v) = e(u) => v = u
                 /\ lastSent'[e(u)] # None => lastSent'[e(u)] + Throttle <= thread'[u].began
      <4>1. e(u) = ClauseOf(u) /\ ClauseOf(u) \notin overlapped /\ thread'[u] = thread[u]
        BY <3>2, <3>3, <1>2, <1>11
      <4>2. /\ ClauseOf(u) # c /\ ClauseOf(u) \in Clauses
            /\ \A v \in Threads : thread[v].pc = "post" /\ ClauseOf(v) = ClauseOf(u) => v = u
            /\ lastSent[ClauseOf(u)] # None => lastSent[ClauseOf(u)] + Throttle <= thread[u].began
        BY <4>1, <3>1, <3>3
      <4>3. lastSent'[ClauseOf(u)] = lastSent[ClauseOf(u)]
        BY <4>2, <2>1
      <4>4. \A v \in Threads : thread'[v].pc = "post" => thread[v].pc = "post" /\ e(v) = ClauseOf(v)
        BY <3>2, <1>11
      <4>5. QED
        BY <4>1, <4>2, <4>3, <4>4
    <3>4. QED
      BY <3>3 DEF PostsApart, ClauseOf, e
  <2> HIDE DEF n
  <2>5. SuppressedExact'
    <3>1. ASSUME NEW alert \in suppressed'
          PROVE  \E i \in 1 .. Len(sent'[alert.clause]) :
                   /\ sent'[alert.clause][i] <= alert.at
                   /\ alert.at < sent'[alert.clause][i] + Throttle
      <4>1. /\ alert \in suppressed
            /\ alert.clause \in Clauses
        BY <3>1, <1>2 DEF Typed
      <4>2. PICK i \in 1 .. Len(sent[alert.clause]) :
              /\ sent[alert.clause][i] <= alert.at
              /\ alert.at < sent[alert.clause][i] + Throttle
        BY <4>1 DEF IInv, SuppressedExact
      <4>3. CASE alert.clause = c
        <5>1. i \in 1 .. n /\ sent'[c][i] = sent[c][i]
          BY <4>2, <4>3, <2>2 DEF n
        <5>2. i \in 1 .. n + 1
          BY <5>1, <2>2
        <5>3. QED
          BY <5>1, <5>2, <4>2, <4>3, <2>2
      <4>4. CASE alert.clause # c
        BY <4>4, <4>1, <4>2, <2>1
      <4>5. QED
        BY <4>3, <4>4
    <3>2. QED
      BY <3>1 DEF SuppressedExact
  <2>6. DeliveredApart'
    <3>1. ASSUME NEW d \in Clauses \ overlapped',
                 NEW i \in 1 .. Len(sent'[d]), NEW j \in 1 .. Len(sent'[d]), j = i + 1
          PROVE  sent'[d][i] + Throttle <= sent'[d][j]
      <4>1. d \in Clauses \ overlapped
        BY <1>2
      <4>2. CASE d = c
        <5>1. i \in 1 .. n /\ (j \in 1 .. n \/ (i = n /\ j = n + 1))
          BY <4>2, <3>1, <2>2
        <5>2. CASE j \in 1 .. n
          <6>1. sent[c][i] + Throttle <= sent[c][j]
            BY <5>1, <5>2, <4>1, <4>2, <3>1 DEF IInv, DeliveredApart, n
          <6>2. QED
            BY <6>1, <5>1, <5>2, <4>2, <2>2
        <5>3. CASE i = n /\ j = n + 1
          <6>1. sent[c] # <<>>
            BY <5>1, <5>3 DEF n
          <6>2. lastSent[c] = sent[c][n] /\ lastSent[c] # None
            BY <6>1, <1>4 DEF IInv, DeliveriesKnown, n
          <6>3. lastSent[c] + Throttle <= began
            BY <6>2, <4>1, <4>2, <1>8
          <6>4. QED
            BY <6>2, <6>3, <5>1, <5>3, <4>2, <2>2
        <5>4. QED
          BY <5>1, <5>2, <5>3
      <4>3. CASE d # c
        BY <4>3, <4>1, <3>1, <2>1 DEF IInv, DeliveredApart
      <4>4. QED
        BY <4>2, <4>3
    <3>2. QED
      BY <3>1 DEF DeliveredApart
  <2>7. QED
    BY <2>3, <2>4, <2>5, <2>6, <1>10 DEF IInv
<1>14. QED
  BY <1>7, <1>12, <1>13

LEMMA TickStep ==
  ASSUME IInv, Tick
  PROVE  IInv'
<1>1. /\ Typed /\ now < MaxTime /\ now' = now + 1 /\ now \in 0 .. MaxTime
      /\ UNCHANGED <<window, buffer, omitted, start, lastSent, sent, suppressed, overlapped, thread, counted>>
  BY DEF IInv, Typed, Tick, digest, webhook
<1>2. /\ now' \in 0 .. MaxTime
      /\ 0 .. now \subseteq 0 .. now'
  <2> DEFINE n == now'
  <2>1. n = now + 1 /\ MaxTime \in Nat
    BY <1>1, ThreadsFinite
  <2> HIDE DEF n
  <2>2. n \in 0 .. MaxTime /\ 0 .. now \subseteq 0 .. n
    BY <2>1, <1>1
  <2>3. QED
    BY <2>2 DEF n
<1>3. ThreadStates(now) \subseteq ThreadStates(now')
  BY <1>2 DEF ThreadStates
<1>4. Typed'
  BY <1>1, <1>2, <1>3 DEF Typed
<1>5. StagesKept'
  BY <1>1, <1>2 DEF IInv, StagesKept, Holding
<1>6. EndingLeavesNone' /\ BufferBounded' /\ NoneUncounted'
  BY <1>1 DEF IInv, EndingLeavesNone, Ending, BufferBounded, Appending, NoneUncounted, Raised
<1>7. DeliveriesKnown' /\ PostsApart' /\ SuppressedExact' /\ DeliveredApart'
  BY <1>1 DEF IInv, DeliveriesKnown, PostsApart, ClauseOf, SuppressedExact, DeliveredApart
<1>8. QED
  BY <1>4, <1>5, <1>6, <1>7 DEF IInv

LEMMA StutterStep ==
  ASSUME IInv, UNCHANGED vars
  PROVE  IInv'
<1>1. UNCHANGED <<window, buffer, omitted, start, lastSent, now, thread, counted, sent, suppressed, overlapped>>
  BY DEF vars, digest, webhook
<1>2. Typed' /\ StagesKept' /\ EndingLeavesNone' /\ BufferBounded' /\ NoneUncounted'
  BY <1>1 DEF IInv, Typed, ThreadStates, StagesKept, Holding, EndingLeavesNone, Ending, BufferBounded,
              Appending, NoneUncounted, Raised
<1>3. DeliveriesKnown' /\ PostsApart' /\ SuppressedExact' /\ DeliveredApart'
  BY <1>1 DEF IInv, DeliveriesKnown, PostsApart, ClauseOf, SuppressedExact, DeliveredApart
<1>4. QED
  BY <1>2, <1>3 DEF IInv

LEMMA AlertsInvariant == Spec => []IInv
<1>1. IInv /\ [Next]_vars => IInv'
  <2> SUFFICES ASSUME IInv, [Next]_vars
               PROVE  IInv'
    OBVIOUS
  <2>1. ASSUME NEW t \in Threads, NEW clause \in Clauses, Violate(t, clause)
        PROVE  IInv'
    BY <2>1, ViolateStep
  <2>2. ASSUME NEW t \in Threads,
               \/ End(t) \/ CallDigest(t) \/ Flush(t) \/ Place(t) \/ Keep(t)
               \/ Notify(t) \/ Post(t) \/ Reported(t)
        PROVE  IInv'
    BY <2>2, EndStep, CallDigestStep, FlushStep, PlaceStep, KeepStep, NotifyStep, PostStep, ReportedStep
  <2>3. CASE Tick
    BY <2>3, TickStep
  <2>4. CASE UNCHANGED vars
    BY <2>4, StutterStep
  <2>5. QED
    BY <2>1, <2>2, <2>3, <2>4 DEF Next
<1>2. QED
  BY <1>1, InitIInv, PTL DEF Spec

-----------------------------------------------------------------------------

\* The buffer never holds more than max_buffer violations and one for each other thread
\* that found room in it at the same time.
THEOREM AlertsTypeCorrect == Spec => []TypeOK
<1>1. IInv => TypeOK
  <2> SUFFICES ASSUME IInv
               PROVE  TypeOK
    OBVIOUS
  <2>1. Typed /\ StagesKept /\ BufferBounded
    BY DEF IInv
  <2>2. Len(buffer) <= MaxBuffer + Cardinality(Threads) - 1
    <3>1. Cardinality(Appending) \in Nat
      BY ThreadsFinite, FS_Subset, FS_CardinalityType DEF Appending
    <3>2. Len(buffer) \in Nat
      BY <2>1, LenProperties DEF Typed
    <3>3. QED
      BY <2>1, <3>1, <3>2, ThreadsFinite DEF BufferBounded
  <2>3. QED
    BY <2>1, <2>2 DEF TypeOK, Typed, ThreadStates, StagesKept
<1>2. QED
  BY <1>1, AlertsInvariant, PTL

\* Every violation of every run is in hand, in the buffer, counted as dropped, or counted
\* by an alert.
THEOREM AlertsNoneUncounted == Spec => []NoneUncounted
<1>1. IInv => NoneUncounted
  BY DEF IInv
<1>2. QED
  BY <1>1, AlertsInvariant, PTL

\* A run that ended through on_session_end has left none of its violations in the buffer.
THEOREM AlertsEndLeavesNone == Spec => []EndLeavesNone
<1>1. IInv => EndLeavesNone
  <2> SUFFICES ASSUME IInv
               PROVE  EndLeavesNone
    OBVIOUS
  <2>1. DOMAIN buffer = 1 .. Len(buffer)
    BY LenProperties DEF IInv, Typed
  <2>2. QED
    BY <2>1 DEF IInv, EndingLeavesNone, Ending, EndLeavesNone
<1>2. QED
  BY <1>1, AlertsInvariant, PTL

\* An alert is dropped only within the throttle of a delivery of its clause, and deliveries
\* of a clause are a throttle apart unless two of them were under way at once.
THEOREM AlertsThrottleExact == Spec => []ThrottleExact
<1>1. IInv => ThrottleExact
  <2> SUFFICES ASSUME IInv
               PROVE  ThrottleExact
    OBVIOUS
  <2>1. Typed /\ SuppressedExact /\ DeliveredApart /\ Throttle \in Nat
    BY ThreadsFinite DEF IInv
  <2>2. \A l, m, k \in Nat : (l <= m /\ m < l + k => m - l \in 0 .. k - 1) /\ (l + k <= m => m - l >= k)
    OBVIOUS
  <2>3. \A c \in Clauses : /\ sent[c] \in Seq(Nat) /\ Len(sent[c]) \in Nat
                           /\ DOMAIN sent[c] = 1 .. Len(sent[c])
                           /\ \A i \in 1 .. Len(sent[c]) : sent[c][i] \in Nat
    <3>1. \A c \in Clauses : sent[c] \in Seq(Nat)
      BY <2>1 DEF Typed
    <3>2. QED
      BY <3>1, LenProperties, ElementOfSeq
  <2>4. ASSUME NEW alert \in suppressed
        PROVE  \E i \in DOMAIN sent[alert.clause] : alert.at - sent[alert.clause][i] \in 0 .. Throttle - 1
    <3>1. alert.clause \in Clauses /\ alert.at \in Nat
      BY <2>1 DEF Typed
    <3>2. PICK i \in 1 .. Len(sent[alert.clause]) :
            sent[alert.clause][i] <= alert.at /\ alert.at < sent[alert.clause][i] + Throttle
      BY <2>1 DEF SuppressedExact
    <3>3. sent[alert.clause][i] \in Nat /\ i \in DOMAIN sent[alert.clause]
      BY <3>1, <3>2, <2>3
    <3>4. alert.at - sent[alert.clause][i] \in 0 .. Throttle - 1
      BY <3>1, <3>2, <3>3, <2>1, <2>2
    <3>5. QED
      BY <3>3, <3>4
  <2>5. ASSUME NEW c \in Clauses \ overlapped, NEW i \in 2 .. Len(sent[c])
        PROVE  sent[c][i] - sent[c][i - 1] >= Throttle
    <3>1. i - 1 \in 1 .. Len(sent[c]) /\ i \in 1 .. Len(sent[c]) /\ i = (i - 1) + 1
      BY <2>3
    <3>2. sent[c][i - 1] + Throttle <= sent[c][i]
      BY <3>1, <2>1 DEF DeliveredApart
    <3>3. sent[c][i - 1] \in Nat /\ sent[c][i] \in Nat
      BY <3>1, <2>3
    <3>4. QED
      BY <3>2, <3>3, <2>1, <2>2
  <2>6. QED
    BY <2>4, <2>5 DEF ThrottleExact
<1>2. QED
  BY <1>1, AlertsInvariant, PTL
=============================================================================
