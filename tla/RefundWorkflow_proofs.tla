------------------------ MODULE RefundWorkflow_proofs ------------------------
(***************************************************************************)
(* Proofs about the refund workflow, for any number of workers and         *)
(* reconcilers, any proposals and grants, and any faults of the provider.  *)
(***************************************************************************)
EXTENDS RefundWorkflow, TLAPS

\* The stages of execute() and reconcile() at which a process works for a row.
RowStages == {"reserved", "timedOut", "rejected", "confirmed", "read", "lookedUp"}

\* A row never goes away and is for the proposal that it was made for, which is
\* also the one of every process that works for it.
RowsKept ==
  /\ \A i \in Ids : row[i] # None => rowFor[i] \in Proposals /\ rowFor[i].id = i
  /\ \A w \in Procs : pc[w] \in RowStages =>
       /\ job[w] \in Proposals
       /\ row[job[w].id] # None
       /\ rowFor[job[w].id] = job[w]

\* The inductive strengthening of SentOnce: who reserved a row has not sent anything
\* yet, is the only one that may, and nothing is sent without a row.
SendsClaimed ==
  /\ \A i \in Ids : sends[i] \in 0 .. 1 /\ (sends[i] = 1 => row[i] # None)
  /\ \A w \in Procs : pc[w] = "reserved" =>
       /\ sends[job[w].id] = 0
       /\ \A v \in Procs : pc[v] = "reserved" /\ job[v].id = job[w].id => v = w

\* The inductive strengthening of EffectsGranted: the version that a worker found its
\* grant to be for lies between the one it proposed for and the order's.
GrantsCover ==
  /\ \A g \in consumed : grant[g] # None
  /\ \A w \in Procs : pc[w] \in {"screened", "current", "consumed", "reserved"} =>
       /\ job[w] \in Proposals
       /\ nonce[w] \in Grants
       /\ grant[nonce[w]] # None
       /\ job[w].expected \in Nat
       /\ job[w].expected <= version
  /\ \A w \in Procs : pc[w] \in {"current", "consumed", "reserved"} =>
       /\ grant[nonce[w]].for = job[w]
       /\ job[w].expected <= grant[nonce[w]].version
       /\ grant[nonce[w]].version <= version
  /\ \A w \in Procs : pc[w] \in {"consumed", "reserved"} => nonce[w] \in consumed

\* The inductive strengthening of OutcomesTrue: what a worker or a lookup has seen
\* stays true until it is recorded, as the one call for the row has been made.
SightingsTrue ==
  /\ \A w \in Procs : pc[w] = "rejected" => sends[job[w].id] = 1 /\ job[w] \notin refunds
  /\ \A w \in Procs : pc[w] = "lookedUp" /\ found[w] = "match" => job[w] \in refunds
  /\ \A i \in Ids : row[i] = "rejected" => sends[i] = 1

IInv ==
  /\ TypeOK
  /\ RowsKept
  /\ SendsClaimed
  /\ GrantsCover
  /\ EffectsGranted
  /\ SightingsTrue
  /\ OutcomesTrue

-----------------------------------------------------------------------------
LEMMA IdsOf == \A p \in Proposals : p.id \in Ids
BY DEF Ids

LEMMA InitIInv == Init => IInv
<1> SUFFICES ASSUME Init PROVE IInv
  OBVIOUS
<1> USE RefundAssumption DEF Init
<1>1. TypeOK
  BY DEF TypeOK, Stages
<1>2. /\ \A i \in Ids : row[i] = None /\ sends[i] = 0
      /\ \A w \in Procs : pc[w] = "idle"
  OBVIOUS
<1>3. None # "rejected" /\ None # "verified"
  BY DEF Statuses
<1>4. RowsKept /\ SendsClaimed
  BY <1>2 DEF RowsKept, SendsClaimed, RowStages
<1>5. GrantsCover /\ SightingsTrue
  BY <1>2, <1>3 DEF GrantsCover, SightingsTrue
<1>6. EffectsGranted /\ OutcomesTrue
  BY <1>2, <1>3 DEF EffectsGranted, OutcomesTrue
<1>7. QED
  BY <1>1, <1>4, <1>5, <1>6 DEF IInv

\* A process that only stops takes nothing from the invariant.
LEMMA StopIInv ==
  ASSUME IInv, NEW w \in Procs, NEW stage \in {"ended", "dead", "idle"},
         Goto(w, stage), UNCHANGED <<order, stores, table, local, sends>>
  PROVE  IInv'
<1> USE DEF IInv, Goto, order, stores, table, local
<1>1. TypeOK'
  BY DEF TypeOK, Stages
<1>2. RowsKept'
  BY DEF TypeOK, RowsKept, RowStages
<1>3. SendsClaimed'
  BY DEF TypeOK, SendsClaimed
<1>4. GrantsCover'
  BY DEF TypeOK, GrantsCover
<1>5. EffectsGranted'
  BY DEF EffectsGranted
<1>6. SightingsTrue'
  BY DEF TypeOK, SightingsTrue
<1>7. OutcomesTrue'
  BY DEF OutcomesTrue
<1>8. QED
  BY <1>1, <1>2, <1>3, <1>4, <1>5, <1>6, <1>7

LEMMA ApproveIInv ==
  ASSUME IInv, NEW g \in Grants, NEW p \in Proposals, Approve(g, p)
  PROVE  IInv'
<1> USE RefundAssumption, IdsOf DEF IInv, Approve, Procs, order, table, local
<1>1. TypeOK'
  BY DEF TypeOK, Stages, Finds, Issued, Statuses
<1>2. RowsKept'
  BY DEF TypeOK, RowsKept, RowStages, Statuses
<1>3. SendsClaimed'
  BY DEF TypeOK, SendsClaimed, RowsKept, RowStages, Statuses
<1>4. GrantsCover'
  BY DEF TypeOK, GrantsCover, Issued
<1>5. EffectsGranted'
  BY DEF TypeOK, EffectsGranted, GrantsCover, Issued
<1>6. SightingsTrue'
  BY DEF TypeOK, SightingsTrue, RowsKept, SendsClaimed, RowStages, Statuses, Finds
<1>7. OutcomesTrue'
  BY DEF TypeOK, OutcomesTrue, RowsKept, SendsClaimed, SightingsTrue, RowStages, Statuses, Finds
<1>8. QED
  BY <1>1, <1>2, <1>3, <1>4, <1>5, <1>6, <1>7

LEMMA SpendElsewhereIInv ==
  ASSUME IInv, NEW amount \in Spendings, SpendElsewhere(amount)
  PROVE  IInv'
<1> USE RefundAssumption, IdsOf DEF IInv, SpendElsewhere, Procs, stores, table, local
<1>1. TypeOK'
  <2>1. /\ remaining \in Nat /\ amount \in Nat /\ Balance \in Nat /\ version \in Nat
        /\ remaining <= Balance /\ amount <= remaining
        /\ remaining' = remaining - amount /\ version' = version + 1
    BY DEF TypeOK
  <2>2. remaining' \in 0 .. Balance /\ version' \in Nat \ {0}
    BY ONLY <2>1
  <2>3. QED
    BY <2>2 DEF TypeOK, Stages
<1>2. RowsKept'
  BY DEF TypeOK, RowsKept, RowStages, Statuses
<1>3. SendsClaimed'
  BY DEF TypeOK, SendsClaimed, RowsKept, RowStages, Statuses
<1>4. GrantsCover'
  BY DEF TypeOK, GrantsCover, Issued
<1>5. EffectsGranted'
  BY DEF TypeOK, EffectsGranted, GrantsCover, Issued
<1>6. SightingsTrue'
  BY DEF TypeOK, SightingsTrue, RowsKept, SendsClaimed, RowStages, Statuses, Finds
<1>7. OutcomesTrue'
  BY DEF TypeOK, OutcomesTrue, RowsKept, SendsClaimed, SightingsTrue, RowStages, Statuses, Finds
<1>8. QED
  BY <1>1, <1>2, <1>3, <1>4, <1>5, <1>6, <1>7

LEMMA ScreenIInv ==
  ASSUME IInv, NEW w \in Workers, NEW p \in Proposals, NEW g \in Grants, Screen(w, p, g)
  PROVE  IInv'
<1> USE RefundAssumption, IdsOf DEF IInv, Screen, Procs, order, stores, table, Goto
<1>1. TypeOK'
  BY DEF TypeOK, Stages, Finds, Issued, Statuses
<1>2. RowsKept'
  BY DEF TypeOK, RowsKept, RowStages, Statuses
<1>3. SendsClaimed'
  BY DEF TypeOK, SendsClaimed, RowsKept, RowStages, Statuses
<1>4. GrantsCover'
  BY DEF TypeOK, GrantsCover, Issued
<1>5. EffectsGranted'
  BY DEF TypeOK, EffectsGranted, GrantsCover, Issued
<1>6. SightingsTrue'
  BY DEF TypeOK, SightingsTrue, RowsKept, SendsClaimed, RowStages, Statuses, Finds
<1>7. OutcomesTrue'
  BY DEF TypeOK, OutcomesTrue, RowsKept, SendsClaimed, SightingsTrue, RowStages, Statuses, Finds
<1>8. QED
  BY <1>1, <1>2, <1>3, <1>4, <1>5, <1>6, <1>7

LEMMA CheckGrantIInv ==
  ASSUME IInv, NEW w \in Workers, CheckGrant(w)
  PROVE  IInv'
<1> USE RefundAssumption, IdsOf DEF IInv, CheckGrant, Procs, order, stores, table, local, Goto, Covers
<1>1. TypeOK'
  BY DEF TypeOK, Stages, Finds, Issued, Statuses
<1>2. RowsKept'
  BY DEF TypeOK, RowsKept, RowStages, Statuses
<1>3. SendsClaimed'
  BY DEF TypeOK, SendsClaimed, RowsKept, RowStages, Statuses
<1>4. GrantsCover'
  BY DEF TypeOK, GrantsCover, Issued
<1>5. EffectsGranted'
  BY DEF TypeOK, EffectsGranted, GrantsCover, Issued
<1>6. SightingsTrue'
  BY DEF TypeOK, SightingsTrue, RowsKept, SendsClaimed, RowStages, Statuses, Finds
<1>7. OutcomesTrue'
  BY DEF TypeOK, OutcomesTrue, RowsKept, SendsClaimed, SightingsTrue, RowStages, Statuses, Finds
<1>8. QED
  BY <1>1, <1>2, <1>3, <1>4, <1>5, <1>6, <1>7

LEMMA ConsumeIInv ==
  ASSUME IInv, NEW w \in Workers, Consume(w)
  PROVE  IInv'
<1>0. w \in Procs /\ pc[w] = "current" /\ UNCHANGED <<order, grant, table, local, sends>>
  BY DEF Consume, Procs
<1>1. CASE nonce[w] \in consumed
  BY <1>0, <1>1, StopIInv DEF Consume, stores
<1>2. CASE nonce[w] \notin consumed
  <2>0. /\ consumed' = consumed \cup {nonce[w]}
        /\ pc' = [pc EXCEPT ![w] = "consumed"]
    BY <1>2 DEF Consume, Goto
  <2>9. nonce[w] \in Grants /\ grant[nonce[w]] # None
    BY <1>0 DEF IInv, GrantsCover
  <2> USE <1>0, <2>0, <2>9 DEF IInv, order, table, local
  <2>1. TypeOK'
    BY DEF TypeOK, Stages
  <2>2. RowsKept'
    BY DEF TypeOK, RowsKept, RowStages
  <2>3. SendsClaimed'
    BY DEF TypeOK, SendsClaimed
  <2>4. GrantsCover'
    BY DEF TypeOK, GrantsCover
  <2>5. EffectsGranted'
    BY DEF EffectsGranted
  <2>6. SightingsTrue'
    BY DEF TypeOK, SightingsTrue
  <2>7. OutcomesTrue'
    BY DEF OutcomesTrue
  <2>8. QED
    BY <2>1, <2>2, <2>3, <2>4, <2>5, <2>6, <2>7
<1>3. QED
  BY <1>1, <1>2

LEMMA ReserveIInv ==
  ASSUME IInv, NEW w \in Workers, Reserve(w)
  PROVE  IInv'
<1> DEFINE p == job[w]
<1>0. w \in Procs /\ pc[w] = "consumed" /\ UNCHANGED <<order, stores, local, sends>>
  BY DEF Reserve, Procs
<1>p. p \in Proposals /\ p.id \in Ids
  BY <1>0, IdsOf DEF IInv, GrantsCover
<1>1. CASE ~Free(p.id)
  BY <1>0, <1>1, StopIInv DEF Reserve
<1>2. CASE Free(p.id)
  <2>0. /\ row[p.id] = None
        /\ row' = [row EXCEPT ![p.id] = "reserved"]
        /\ rowFor' = [rowFor EXCEPT ![p.id] = p]
        /\ pc' = [pc EXCEPT ![w] = "reserved"]
    BY <1>2 DEF Reserve, Goto, Free
  <2>9. None # "reserved"
    BY RefundAssumption DEF Statuses
  <2> USE <1>0, <1>p, <2>0, <2>9 DEF IInv, order, stores, local
  <2>1. TypeOK'
    BY DEF TypeOK, Stages, Statuses
  <2>r. /\ row'[p.id] = "reserved" /\ rowFor'[p.id] = p /\ pc'[w] = "reserved"
        /\ \A i \in Ids : i # p.id => row'[i] = row[i] /\ rowFor'[i] = rowFor[i]
        /\ \A v \in Procs : v # w => pc'[v] = pc[v]
    BY DEF TypeOK
  \* Whoever works for a row works for another one, as this one was free.
  <2>v. \A v \in Procs : v # w /\ pc[v] \in RowStages => job[v] \in Proposals /\ job[v].id # p.id
    BY DEF RowsKept
  <2>2. RowsKept'
    <3>1. ASSUME NEW v \in Procs, v # w, pc'[v] \in RowStages
          PROVE  /\ job[v] \in Proposals
                 /\ row'[job[v].id] # None
                 /\ rowFor'[job[v].id] = job[v]
      BY <2>r, <2>v, <3>1, IdsOf DEF RowsKept
    <3>2. ASSUME NEW i \in Ids, row'[i] # None
          PROVE  rowFor'[i] \in Proposals /\ rowFor'[i].id = i
      <4>1. CASE i = p.id
        BY <2>r, <4>1
      <4>2. CASE i # p.id
        BY <2>r, <3>2, <4>2 DEF RowsKept
      <4>3. QED
        BY <4>1, <4>2
    <3>3. job[w] \in Proposals /\ row'[job[w].id] # None /\ rowFor'[job[w].id] = job[w]
      BY <2>r
    <3>4. QED
      BY <3>1, <3>2, <3>3 DEF RowsKept
  <2>3. SendsClaimed'
    <3>1. sends[p.id] = 0
      BY DEF SendsClaimed
    <3>2. \A v \in Procs : v # w /\ pc'[v] = "reserved" => pc[v] = "reserved" /\ job[v].id # p.id
      BY <2>r, <2>v DEF RowStages
    <3>3. \A i \in Ids : sends[i] \in 0 .. 1 /\ (sends[i] = 1 => row'[i] # None)
      BY <2>r DEF SendsClaimed
    <3>4. QED
      BY <3>1, <3>2, <3>3 DEF SendsClaimed
  <2>4. GrantsCover'
    BY DEF TypeOK, GrantsCover
  <2>5. EffectsGranted'
    BY DEF EffectsGranted
  <2>6. SightingsTrue'
    BY DEF TypeOK, SightingsTrue
  <2>7. OutcomesTrue'
    BY DEF TypeOK, OutcomesTrue
  <2>8. QED
    BY <2>1, <2>2, <2>3, <2>4, <2>5, <2>6, <2>7
<1>3. QED
  BY <1>1, <1>2

LEMMA SendIInv ==
  ASSUME IInv, NEW w \in Workers, Send(w)
  PROVE  IInv'
<1> DEFINE p == job[w]
<1>0. w \in Procs /\ pc[w] = "reserved" /\ UNCHANGED <<stores, table, local>>
  BY DEF Send, Procs
<1>p. /\ p \in Proposals /\ p.id \in Ids
      /\ row[p.id] # None /\ rowFor[p.id] = p /\ sends[p.id] = 0
  BY <1>0, IdsOf DEF IInv, RowsKept, SendsClaimed, RowStages
<1>s. sends' = [sends EXCEPT ![p.id] = 1]
  <2>1. sends' = [sends EXCEPT ![p.id] = sends[p.id] + 1]
    BY DEF Send
  <2>2. sends[p.id] + 1 = 1
    BY <1>p
  <2>3. QED
    BY <2>1, <2>2
<1>i. /\ sends'[p.id] = 1
      /\ \A i \in Ids : i # p.id => sends'[i] = sends[i]
  BY <1>p, <1>s DEF IInv, TypeOK
\* Nobody else is about to send for the row, and nobody has seen a rejection of it.
<1>v. \A v \in Procs : v # w =>
        /\ pc[v] = "reserved" => job[v].id # p.id
        /\ pc[v] = "rejected" => job[v].id # p.id
  BY <1>0, <1>p DEF IInv, SendsClaimed, SightingsTrue
<1>j. \A v \in Procs : pc[v] \in RowStages => job[v].id \in Ids
  BY IdsOf DEF IInv, RowsKept
\* The bookkeeping of the call is the same whatever the provider answers.
<1>c. ASSUME NEW stage \in {"timedOut", "rejected", "confirmed"},
             pc' = [pc EXCEPT ![w] = stage]
      PROVE  SendsClaimed'
  <2>1. \A v \in Procs : pc'[v] = "reserved" => v # w /\ pc[v] = "reserved"
    BY <1>c DEF IInv, TypeOK
  <2>2. \A v \in Procs : pc'[v] = "reserved" => sends'[job[v].id] = 0
    BY <1>i, <1>v, <1>j, <2>1 DEF IInv, SendsClaimed, RowStages
  <2>3. \A i \in Ids : sends'[i] \in 0 .. 1 /\ (sends'[i] = 1 => row[i] # None)
    BY <1>i, <1>p DEF IInv, SendsClaimed
  <2>4. QED
    BY <1>0, <2>1, <2>2, <2>3 DEF IInv, SendsClaimed, table, local
\* What was rejected before is still not refunded, as its id is another one.
<1>q. ASSUME NEW stage \in {"timedOut", "rejected", "confirmed"},
             pc' = [pc EXCEPT ![w] = stage],
             refunds' \subseteq refunds \cup {p},
             refunds \subseteq refunds',
             stage = "rejected" => p \notin refunds'
      PROVE  SightingsTrue' /\ OutcomesTrue'
  <2> USE <1>0, <1>p, <1>i, <1>q DEF table, local
  <2>1. \A v \in Procs : pc'[v] = IF v = w THEN stage ELSE pc[v]
    BY DEF IInv, TypeOK
  <2>2. ASSUME NEW v \in Procs, pc'[v] = "rejected"
        PROVE  sends'[job[v].id] = 1 /\ job[v] \notin refunds'
    <3>1. CASE v = w
      BY <2>1, <2>2, <3>1
    <3>2. CASE v # w
      BY <1>v, <1>j, <2>1, <2>2, <3>2 DEF IInv, SightingsTrue, RowStages
    <3>3. QED
      BY <3>1, <3>2
  <2>3. \A v \in Procs : pc'[v] = "lookedUp" /\ found[v] = "match" => job[v] \in refunds'
    BY <2>1 DEF IInv, SightingsTrue
  <2>4. \A i \in Ids : row[i] = "rejected" => i # p.id /\ sends'[i] = 1
    BY DEF IInv, SightingsTrue
  <2>5. SightingsTrue'
    BY <2>2, <2>3, <2>4 DEF SightingsTrue
  <2>6. ASSUME NEW i \in Ids
        PROVE  /\ row[i] = "verified" => rowFor[i] \in refunds'
               /\ row[i] = "rejected" => rowFor[i] \notin refunds'
    <3>1. row[i] = "rejected" => rowFor[i].id = i
      BY RefundAssumption DEF IInv, RowsKept, Statuses
    <3>2. QED
      BY <2>4, <3>1 DEF IInv, OutcomesTrue
  <2>7. QED
    BY <2>5, <2>6 DEF OutcomesTrue
<1>1. ASSUME NEW stage \in {"timedOut", "rejected", "confirmed"},
             pc' = [pc EXCEPT ![w] = stage],
             UNCHANGED order, stage = "rejected" => p \notin refunds
      PROVE  IInv'
  <2> USE <1>0, <1>p, <1>s, <1>1 DEF IInv, order, stores, table, local
  <2>1. TypeOK'
    BY DEF TypeOK, Stages
  <2>2. RowsKept'
    BY DEF TypeOK, RowsKept, RowStages
  <2>3. SendsClaimed'
    BY <1>c
  <2>4. GrantsCover'
    BY DEF TypeOK, GrantsCover
  <2>5. EffectsGranted'
    BY DEF EffectsGranted
  <2>6. SightingsTrue' /\ OutcomesTrue'
    BY <1>q
  <2>7. QED
    BY <2>1, <2>2, <2>3, <2>4, <2>5, <2>6
<1>2. ASSUME NEW stage \in {"timedOut", "confirmed"},
             pc' = [pc EXCEPT ![w] = stage],
             Accepts(p), refunds' = refunds \cup {p},
             remaining' = remaining - p.amount, version' = version + 1
      PROVE  IInv'
  <2> USE <1>0, <1>p, <1>s, <1>2 DEF IInv, stores, table, local
  <2>n. version \in Nat /\ version' = version + 1
    BY DEF TypeOK
  <2>1. TypeOK'
    <3>1. /\ remaining \in Nat /\ p.amount \in Int /\ Balance \in Nat
          /\ remaining <= Balance /\ p.amount > 0 /\ p.amount <= remaining
          /\ remaining' = remaining - p.amount
      BY RefundAssumption DEF TypeOK, Accepts
    <3>2. remaining' \in 0 .. Balance
      BY ONLY <3>1
    <3>3. version' \in Nat \ {0}
      BY <2>n
    <3>4. QED
      BY <3>2, <3>3 DEF TypeOK, Stages
  <2>2. RowsKept'
    BY DEF TypeOK, RowsKept, RowStages
  <2>3. SendsClaimed'
    BY <1>c
  <2>4. GrantsCover'
    <3>1. /\ \A v \in Procs : pc'[v] \in {"screened", "current", "consumed", "reserved"} =>
               v # w /\ pc'[v] = pc[v]
          /\ \A g \in Grants : grant[g] # None => grant[g].version \in Nat
      BY RefundAssumption DEF TypeOK, Issued
    <3>2. ASSUME NEW v \in Procs, pc'[v] \in {"screened", "current", "consumed", "reserved"}
          PROVE  job[v].expected <= version'
      <4>1. job[v].expected \in Nat /\ job[v].expected <= version
        BY <3>1, <3>2 DEF GrantsCover
      <4>2. QED
        BY ONLY <2>n, <4>1
    <3>3. ASSUME NEW v \in Procs, pc'[v] \in {"current", "consumed", "reserved"}
          PROVE  grant[nonce[v]].version <= version'
      <4>1. grant[nonce[v]].version \in Nat /\ grant[nonce[v]].version <= version
        BY <3>1, <3>3 DEF GrantsCover
      <4>2. QED
        BY ONLY <2>n, <4>1
    <3>4. QED
      BY <3>1, <3>2, <3>3 DEF GrantsCover
  <2>5. EffectsGranted'
    <3>1. /\ nonce[w] \in consumed /\ nonce[w] \in Grants /\ grant[nonce[w]] # None
          /\ grant[nonce[w]].for = p
          /\ p.expected <= grant[nonce[w]].version /\ grant[nonce[w]].version <= version
      BY DEF GrantsCover
    <3>2. grant[nonce[w]] \in Issued
      BY <3>1 DEF TypeOK
    <3>3. p.expected = version /\ version \in Nat
      BY DEF Accepts, TypeOK
    <3>4. PICK q \in Proposals, n \in Nat : grant[nonce[w]] = [for |-> q, version |-> n]
      BY ONLY <3>2 DEF Issued
    <3>5. q = p /\ n = p.expected
      BY <3>1, <3>3, <3>4
    <3>6. \E g \in consumed' : grant'[g] = [for |-> p, version |-> p.expected]
      BY <3>1, <3>4, <3>5
    <3>7. QED
      BY <3>6 DEF EffectsGranted
  <2>6. SightingsTrue' /\ OutcomesTrue'
    BY <1>q
  <2>7. QED
    BY <2>1, <2>2, <2>3, <2>4, <2>5, <2>6
<1>3. QED
  <2>1. CASE Goto(w, "timedOut") /\ UNCHANGED order
    BY <1>1, <2>1 DEF Goto
  <2>2. CASE p \notin refunds /\ Goto(w, "rejected") /\ UNCHANGED order
    BY <1>1, <2>2 DEF Goto
  <2>3. CASE /\ p \in refunds
             /\ refunds' = refunds \cup {p} /\ UNCHANGED <<remaining, version>>
             /\ Goto(w, "confirmed") \/ Goto(w, "timedOut")
    <3>1. UNCHANGED order
      BY <2>3 DEF order
    <3>2. QED
      BY <1>1, <2>3, <3>1 DEF Goto
  <2>4. CASE /\ Accepts(p)
             /\ refunds' = refunds \cup {p}
             /\ remaining' = remaining - p.amount /\ version' = version + 1
             /\ Goto(w, "confirmed") \/ Goto(w, "timedOut")
    BY <1>2, <2>4 DEF Goto
  <2>5. QED
    BY <2>1, <2>2, <2>3, <2>4 DEF Send

LEMMA RecordFailureIInv ==
  ASSUME IInv, NEW w \in Workers, RecordFailure(w)
  PROVE  IInv'
<1> USE RefundAssumption, IdsOf DEF IInv, RecordFailure, Procs, order, stores, local, Goto
<1>1. TypeOK'
  BY DEF TypeOK, Stages, Finds, Issued, Statuses
<1>2. RowsKept'
  BY DEF TypeOK, RowsKept, RowStages, Statuses
<1>3. SendsClaimed'
  BY DEF TypeOK, SendsClaimed, RowsKept, RowStages, Statuses
<1>4. GrantsCover'
  BY DEF TypeOK, GrantsCover, Issued
<1>5. EffectsGranted'
  BY DEF TypeOK, EffectsGranted, GrantsCover, Issued
<1>6. SightingsTrue'
  BY DEF TypeOK, SightingsTrue, RowsKept, SendsClaimed, RowStages, Statuses, Finds
<1>7. OutcomesTrue'
  <2>1. /\ pc[w] \in {"timedOut", "rejected"}
        /\ row' = [row EXCEPT ![job[w].id] = IF pc[w] = "timedOut" THEN "unknown" ELSE "rejected"]
        /\ UNCHANGED <<rowFor, refunds>>
    OBVIOUS
  <2>2. /\ job[w].id \in Ids /\ rowFor[job[w].id] = job[w]
        /\ pc[w] = "rejected" => job[w] \notin refunds
    BY DEF RowsKept, RowStages, SightingsTrue
  <2>3. row \in [Ids -> Statuses \cup {None}]
    BY DEF TypeOK
  <2>4. QED
    BY ONLY <2>1, <2>2, <2>3, OutcomesTrue DEF OutcomesTrue
<1>8. QED
  BY <1>1, <1>2, <1>3, <1>4, <1>5, <1>6, <1>7

LEMMA StartReconcileIInv ==
  ASSUME IInv, NEW r \in Reconcilers, NEW i \in Ids, StartReconcile(r, i)
  PROVE  IInv'
<1> USE RefundAssumption, IdsOf DEF IInv, StartReconcile, Procs, order, stores, table, Goto
<1>1. TypeOK'
  BY DEF TypeOK, Stages, Finds, Issued, Statuses
<1>2. RowsKept'
  BY DEF TypeOK, RowsKept, RowStages, Statuses
<1>3. SendsClaimed'
  BY DEF TypeOK, SendsClaimed, RowsKept, RowStages, Statuses
<1>4. GrantsCover'
  BY DEF TypeOK, GrantsCover, Issued
<1>5. EffectsGranted'
  BY DEF TypeOK, EffectsGranted, GrantsCover, Issued
<1>6. SightingsTrue'
  BY DEF TypeOK, SightingsTrue, RowsKept, SendsClaimed, RowStages, Statuses, Finds
<1>7. OutcomesTrue'
  BY DEF TypeOK, OutcomesTrue, RowsKept, SendsClaimed, SightingsTrue, RowStages, Statuses, Finds
<1>8. QED
  BY <1>1, <1>2, <1>3, <1>4, <1>5, <1>6, <1>7

LEMMA LookUpIInv ==
  ASSUME IInv, NEW w \in Procs, LookUp(w)
  PROVE  IInv'
<1>0. PICK e \in Evidence(job[w]) : found' = [found EXCEPT ![w] = e]
  BY DEF LookUp
<1>e. e \in Finds \cup {None} /\ (e = "match" => job[w] \in refunds)
  BY <1>0, RefundAssumption DEF Evidence, Finds
<1>g. /\ pc[w] \in {"read", "confirmed"}
      /\ pc' = [pc EXCEPT ![w] = "lookedUp"]
      /\ UNCHANGED <<order, stores, table, job, nonce, sends>>
  BY DEF LookUp, Goto
<1> USE <1>0, <1>e, <1>g DEF IInv, order, stores, table
<1>1. TypeOK'
  BY DEF TypeOK, Stages
<1>2. RowsKept'
  BY DEF TypeOK, RowsKept, RowStages
<1>3. SendsClaimed'
  BY DEF TypeOK, SendsClaimed
<1>4. GrantsCover'
  BY DEF TypeOK, GrantsCover
<1>5. EffectsGranted'
  BY DEF EffectsGranted
<1>6. SightingsTrue'
  BY DEF TypeOK, SightingsTrue
<1>7. OutcomesTrue'
  BY DEF OutcomesTrue
<1>8. QED
  BY <1>1, <1>2, <1>3, <1>4, <1>5, <1>6, <1>7

LEMMA RecordVerdictIInv ==
  ASSUME IInv, NEW w \in Procs, RecordVerdict(w)
  PROVE  IInv'
<1> USE RefundAssumption, IdsOf DEF IInv, RecordVerdict, Procs, order, stores, local, Goto, Verdict
<1>1. TypeOK'
  BY DEF TypeOK, Stages, Finds, Issued, Statuses
<1>2. RowsKept'
  BY DEF TypeOK, RowsKept, RowStages, Statuses
<1>3. SendsClaimed'
  BY DEF TypeOK, SendsClaimed, RowsKept, RowStages, Statuses
<1>4. GrantsCover'
  BY DEF TypeOK, GrantsCover, Issued
<1>5. EffectsGranted'
  BY DEF TypeOK, EffectsGranted, GrantsCover, Issued
<1>6. SightingsTrue'
  BY DEF TypeOK, SightingsTrue, RowsKept, SendsClaimed, RowStages, Statuses, Finds
<1>7. OutcomesTrue'
  BY DEF TypeOK, OutcomesTrue, RowsKept, SendsClaimed, SightingsTrue, RowStages, Statuses, Finds
<1>8. QED
  BY <1>1, <1>2, <1>3, <1>4, <1>5, <1>6, <1>7

LEMMA CrashIInv ==
  ASSUME IInv, NEW w \in Procs, Crash(w)
  PROVE  IInv'
BY StopIInv DEF Crash

LEMMA StepIInv == IInv /\ [Next]_vars => IInv'
<1> SUFFICES ASSUME IInv, [Next]_vars
             PROVE  IInv'
  OBVIOUS
<1>1. CASE \E g \in Grants, p \in Proposals : Approve(g, p)
  BY <1>1, ApproveIInv
<1>2. CASE \E g \in Grants, p \in Proposals, w \in Workers : Screen(w, p, g)
  BY <1>2, ScreenIInv
<1>3. CASE \E amount \in Spendings : SpendElsewhere(amount)
  BY <1>3, SpendElsewhereIInv
<1>4. CASE \E w \in Workers : CheckGrant(w)
  BY <1>4, CheckGrantIInv
<1>5. CASE \E w \in Workers : Consume(w)
  BY <1>5, ConsumeIInv
<1>6. CASE \E w \in Workers : Reserve(w)
  BY <1>6, ReserveIInv
<1>7. CASE \E w \in Workers : Send(w)
  BY <1>7, SendIInv
<1>8. CASE \E w \in Workers : RecordFailure(w)
  BY <1>8, RecordFailureIInv
<1>9. CASE \E r \in Reconcilers, i \in Ids : StartReconcile(r, i)
  BY <1>9, StartReconcileIInv
<1>10. CASE \E w \in Procs : LookUp(w)
  BY <1>10, LookUpIInv
<1>11. CASE \E w \in Procs : RecordVerdict(w)
  BY <1>11, RecordVerdictIInv
<1>12. CASE \E w \in Procs : Crash(w)
  BY <1>12, CrashIInv
<1>13. CASE UNCHANGED vars
  BY <1>13 DEF vars, order, stores, table, local, IInv, TypeOK, RowsKept, SendsClaimed,
               GrantsCover, EffectsGranted, SightingsTrue, OutcomesTrue
<1>14. QED
  BY <1>1, <1>2, <1>3, <1>4, <1>5, <1>6, <1>7, <1>8, <1>9, <1>10, <1>11, <1>12, <1>13 DEF Next

LEMMA RefundInvariant == Spec => []IInv
<1>1. Init => IInv
  BY InitIInv
<1>2. IInv /\ [Next]_vars => IInv'
  BY StepIInv
<1>3. QED
  BY <1>1, <1>2, PTL DEF Spec

-----------------------------------------------------------------------------
\* The order's balance never goes below zero or above what was paid, and a row, a
\* grant and what a lookup saw only ever hold what the tables may hold.
THEOREM RefundTypeCorrect == Spec => []TypeOK
<1>1. IInv => TypeOK
  BY DEF IInv
<1>2. QED
  BY <1>1, RefundInvariant, PTL

\* The provider is asked at most once for an action id, however many workers carry
\* it, crash, time out, come back with a fresh grant or reconcile (refunds.py:204-240):
\* the primary key of the actions table lets one worker in, and it asks once.
THEOREM RefundSentOnce == Spec => []SentOnce
<1>1. IInv => SentOnce
  BY DEF IInv, SendsClaimed, SentOnce
<1>2. QED
  BY <1>1, RefundInvariant, PTL

\* A refund that took effect was granted for exactly that proposal at the version that
\* the order had, and the grant is spent: between the check of the grant and the call
\* the version may only have grown, and the provider accepts only the proposed one.
THEOREM RefundEffectsGranted == Spec => []EffectsGranted
<1>1. IInv => EffectsGranted
  BY DEF IInv
<1>2. QED
  BY <1>1, RefundInvariant, PTL

\* A row is recorded as verified only when its refund took place, and as rejected only
\* when it did not, also when the provider's lookup may be wrong.
THEOREM RefundOutcomesTrue == Spec => []OutcomesTrue
<1>1. IInv => OutcomesTrue
  BY DEF IInv
<1>2. QED
  BY <1>1, RefundInvariant, PTL

-----------------------------------------------------------------------------
(* The refinement: spending a grant is Authorize, an accepted call is Refund.   *)

Authorized == {grant[g].for : g \in consumed}

LEMMA StutterStep ==
  ASSUME UNCHANGED <<order, stores>>
  PROVE  UNCHANGED Ledger!vars
BY DEF order, stores, Ledger!vars

LEMMA ApproveStep ==
  ASSUME IInv, NEW g \in Grants, NEW p \in Proposals, Approve(g, p)
  PROVE  UNCHANGED Ledger!vars
<1>1. \A h \in consumed : h \in Grants /\ h # g
  BY DEF IInv, GrantsCover, TypeOK, Approve
<1>2. \A h \in consumed : grant'[h] = grant[h]
  BY <1>1 DEF IInv, TypeOK, Approve
<1>3. UNCHANGED <<order, consumed>>
  BY DEF Approve
<1>4. Authorized' = Authorized
  BY <1>2, <1>3 DEF Authorized
<1>5. QED
  BY <1>3, <1>4 DEF Authorized, order, Ledger!vars

LEMMA ConsumeStep ==
  ASSUME IInv, NEW w \in Workers, Consume(w)
  PROVE  [Ledger!Next]_Ledger!vars
<1>1. CASE nonce[w] \in consumed
  BY <1>1, StutterStep DEF Consume, stores
<1>2. CASE nonce[w] \notin consumed
  <2>1. PICK p \in Proposals : p = job[w] /\ grant[nonce[w]].for = p
    BY DEF IInv, GrantsCover, Consume, Procs
  <2>2. consumed' = consumed \cup {nonce[w]} /\ UNCHANGED <<order, grant>>
    BY <1>2 DEF Consume
  <2>3. Authorized' = Authorized \cup {p}
    BY <2>1, <2>2 DEF Authorized
  <2>4. Ledger!Authorize(p)
    BY <2>2, <2>3 DEF Authorized, order, Ledger!Authorize
  <2>5. QED
    BY <2>4 DEF Ledger!Next
<1>3. QED
  BY <1>1, <1>2

LEMMA SpendElsewhereStep ==
  ASSUME NEW amount \in Spendings, SpendElsewhere(amount)
  PROVE  Ledger!Next
<1>1. Ledger!SpendElsewhere(amount)
  BY DEF SpendElsewhere, stores, Ledger!SpendElsewhere
<1>2. QED
  BY <1>1 DEF Ledger!Next

LEMMA SendStep ==
  ASSUME IInv, NEW w \in Workers, Send(w)
  PROVE  [Ledger!Next]_Ledger!vars
<1> DEFINE p == job[w]
<1>1. UNCHANGED stores
  BY DEF Send
<1>2. CASE UNCHANGED order
  BY <1>1, <1>2, StutterStep
<1>3. CASE /\ Accepts(p) /\ refunds' = refunds \cup {p}
           /\ remaining' = remaining - p.amount
  <2>1. /\ p \in Proposals /\ nonce[w] \in consumed /\ grant[nonce[w]].for = p
    BY DEF IInv, GrantsCover, Send, Procs
  <2>2. p \in Authorized /\ Authorized' = Authorized
    BY <1>1, <2>1 DEF Authorized, stores
  <2>3. Ledger!Refund(p)
    BY <1>3, <2>2 DEF Accepts, Authorized, Ledger!Refund
  <2>4. QED
    BY <2>1, <2>3 DEF Ledger!Next
<1>4. QED
  <2>1. CASE /\ p \in refunds /\ refunds' = refunds \cup {p}
             /\ UNCHANGED <<remaining, version>>
    BY <1>2, <2>1 DEF order
  <2>2. QED
    BY <1>2, <1>3, <2>1 DEF Send

LEMMA StepRefines == IInv /\ [Next]_vars => [Ledger!Next]_Ledger!vars
<1> SUFFICES ASSUME IInv, [Next]_vars
             PROVE  [Ledger!Next]_Ledger!vars
  OBVIOUS
<1>1. CASE \E g \in Grants, p \in Proposals : Approve(g, p)
  BY <1>1, ApproveStep
<1>2. CASE \E w \in Workers : Consume(w)
  BY <1>2, ConsumeStep
<1>3. CASE \E amount \in Spendings : SpendElsewhere(amount)
  BY <1>3, SpendElsewhereStep
<1>4. CASE \E w \in Workers : Send(w)
  BY <1>4, SendStep
<1>5. CASE UNCHANGED <<order, stores>>
  BY <1>5, StutterStep
<1>6. CASE UNCHANGED vars
  BY <1>5, <1>6 DEF vars
<1>7. CASE \/ \E g \in Grants, p \in Proposals, w \in Workers : Screen(w, p, g)
           \/ \E w \in Workers : CheckGrant(w) \/ Reserve(w) \/ RecordFailure(w)
           \/ \E r \in Reconcilers, i \in Ids : StartReconcile(r, i)
           \/ \E w \in Procs : LookUp(w) \/ RecordVerdict(w) \/ Crash(w)
  BY <1>5, <1>7 DEF Screen, CheckGrant, Reserve, RecordFailure, StartReconcile,
                    LookUp, RecordVerdict, Crash
<1>8. QED
  BY <1>1, <1>2, <1>3, <1>4, <1>6, <1>7 DEF Next

\* Workers, databases, timeouts, crashes and reconciliation together do no more than
\* the ledger of docs/SUPPORT_REFUND.md: a grant is spent on a proposal, the refund of
\* such a proposal takes effect once and within the balance, and the rest is invisible.
THEOREM RefundRefinesLedger == Spec => RefinesLedger
<1>1. Init => Ledger!Init
  BY DEF Init, Ledger!Init
<1>2. IInv /\ [Next]_vars => [Ledger!Next]_Ledger!vars
  BY StepRefines
<1>3. QED
  BY <1>1, <1>2, RefundInvariant, PTL DEF Spec, RefinesLedger, Ledger!Spec

=============================================================================
