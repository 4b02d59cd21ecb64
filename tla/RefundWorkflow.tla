--------------------------- MODULE RefundWorkflow ---------------------------
(***************************************************************************)
(* scenarios/refunds.py with approval_store.py: workers executing refunds  *)
(* of one order and hosts reconciling them.  Orders, approvals and actions *)
(* live in three SQLite files; each transaction is a step, and between two *)
(* steps other workers run, the provider times out and processes die.      *)
(***************************************************************************)
EXTENDS Integers, FiniteSets

CONSTANTS
  Proposals,    \* refunds that may be proposed: id, amount, expected version,
                \* and whether order and identity match (fits)
  Workers,      \* calls of execute()
  Reconcilers,  \* processes calling reconcile()
  Balance,      \* the order's remaining amount at first
  Spendings,    \* amounts other routes may take from the order
  MaxVersion,   \* bound: the order version other routes stop at
  Grants,       \* nonces of the grants the host may issue
  Faulty,       \* the provider's ledger may answer wrongly to a lookup
  None

Statuses == {"reserved", "unknown", "rejected", "verified", "mismatch"}
Finds    == {"match", "mismatch"}
Issued   == [for : Proposals, version : Nat]

\* None is no value that something may have.
ASSUME RefundAssumption ==
  /\ \A p \in Proposals : p.amount \in Int /\ p.fits \in BOOLEAN
  /\ Balance \in Nat
  /\ Spendings \subseteq Nat
  /\ Faulty \in BOOLEAN
  /\ None \notin Proposals
  /\ None \notin Statuses \cup Finds
  /\ None \notin Issued

Ids == {p.id : p \in Proposals}

VARIABLES
  remaining, version,  \* the order
  refunds,             \* the provider's refunds table: proposals by id
  grant,               \* nonce -> what it was issued for, or None
  consumed,            \* pactrun_used_approvals
  row,                 \* actions table: id -> status, None when absent
  rowFor,              \* the proposal stored in the row
  pc,                  \* where each worker and reconciler is
  job,                 \* a worker's proposal, a reconciler's row id
  nonce,               \* the grant a worker presents
  found,               \* what the lookup saw: "match", "mismatch" or None
  sends                \* history: provider calls made for an action id

order  == <<remaining, version, refunds>>
stores == <<grant, consumed>>
table  == <<row, rowFor>>
local  == <<job, nonce, found>>
vars   == <<order, stores, table, local, pc, sends>>

Procs == Workers \cup Reconcilers
Stages == {"idle", "screened", "current", "consumed", "reserved", "timedOut",
           "rejected", "confirmed", "read", "lookedUp", "ended", "dead"}

TypeOK ==
  /\ remaining \in 0 .. Balance
  /\ version \in Nat \ {0}
  /\ refunds \subseteq Proposals
  /\ grant \in [Grants -> Issued \cup {None}]
  /\ consumed \subseteq Grants
  /\ row \in [Ids -> Statuses \cup {None}]
  /\ rowFor \in [Ids -> Proposals \cup {None}]
  /\ pc \in [Procs -> Stages]
  /\ job \in [Procs -> Proposals \cup {None}]
  /\ nonce \in [Procs -> Grants \cup {None}]
  /\ found \in [Procs -> Finds \cup {None}]
  /\ sends \in [Ids -> Nat]

Init ==
  /\ remaining = Balance
  /\ version = 1
  /\ refunds = {}
  /\ grant = [g \in Grants |-> None]
  /\ consumed = {}
  /\ row = [i \in Ids |-> None]
  /\ rowFor = [i \in Ids |-> None]
  /\ pc = [w \in Procs |-> "idle"]
  /\ job = [w \in Procs |-> None]
  /\ nonce = [w \in Procs |-> None]
  /\ found = [w \in Procs |-> None]
  /\ sends = [i \in Ids |-> 0]

Goto(w, stage) == pc' = [pc EXCEPT ![w] = stage]

-----------------------------------------------------------------------------
(* The host.                                                                *)

\* approve(): a fresh nonce, bound to the proposal and the order's version.
Approve(g, p) ==
  /\ grant[g] = None
  /\ grant' = [grant EXCEPT ![g] = [for |-> p, version |-> version]]
  /\ UNCHANGED <<order, consumed, table, local, pc, sends>>

\* Another route takes money from the order or only changes its version.
SpendElsewhere(amount) ==
  /\ version < MaxVersion
  /\ amount <= remaining
  /\ remaining' = remaining - amount
  /\ version' = version + 1
  /\ UNCHANGED <<refunds, stores, table, local, pc, sends>>

-----------------------------------------------------------------------------
(* The provider.                                                            *)

AcceptsAnyVersion(p) ==                    \* mutant: trusts the caller's checks
  p.fits /\ p.amount > 0 /\ \A q \in refunds : q.id # p.id
\* The checks of FakePaymentProvider.refund, inside its transaction.
Accepts(p) ==
  /\ p.fits /\ p.amount > 0
  /\ p.expected = version
  /\ p.amount <= remaining
  /\ \A q \in refunds : q.id # p.id

-----------------------------------------------------------------------------
(* execute()                                                                *)

\* business_rules, the contract's first clause.
Screen(w, p, g) ==
  /\ pc[w] = "idle"
  /\ grant[g] # None
  /\ job' = [job EXCEPT ![w] = p]
  /\ nonce' = [nonce EXCEPT ![w] = g]
  /\ Goto(w, IF p.fits /\ p.amount \in 1 .. remaining /\ p.expected = version
               THEN "screened" ELSE "ended")
  /\ UNCHANGED <<order, stores, table, found, sends>>

CoversAny(g, p) == g.version = version     \* mutant: no argument is bound
\* _valid_token: the signature covers the proposal and the order's version.
Covers(g, p) == g.for = p /\ g.version = version

\* consent_token_required: the grant is for this proposal and for the version
\* the order has when the context is looked up.
CheckGrant(w) ==
  /\ pc[w] = "screened"
  /\ Goto(w, IF Covers(grant[nonce[w]], job[w]) THEN "current" ELSE "ended")
  /\ UNCHANGED <<order, stores, table, local, sends>>

\* SQLiteApprovalStore.consume_many
Consume(w) ==
  /\ pc[w] = "current"
  /\ IF nonce[w] \notin consumed
       THEN consumed' = consumed \cup {nonce[w]} /\ Goto(w, "consumed")
       ELSE UNCHANGED consumed /\ Goto(w, "ended")
  /\ UNCHANGED <<order, grant, table, local, sends>>

FreeAgain(i) == row[i] \in {None, "rejected", "unknown"}   \* mutant: re-admits
\* The primary key of the actions table.
Free(i) == row[i] = None

\* _reserve
Reserve(w) ==
  LET p == job[w]
  IN  /\ pc[w] = "consumed"
      /\ IF Free(p.id)
           THEN /\ row' = [row EXCEPT ![p.id] = "reserved"]
                /\ rowFor' = [rowFor EXCEPT ![p.id] = p]
                /\ Goto(w, "reserved")
           ELSE Goto(w, "ended") /\ UNCHANGED table
      /\ UNCHANGED <<order, stores, local, sends>>

\* provider.refund commits once, or rejects; the answer may be lost.
Send(w) ==
  LET p == job[w]
  IN  /\ pc[w] = "reserved"
      /\ sends' = [sends EXCEPT ![p.id] = @ + 1]
      /\ \/ Goto(w, "timedOut") /\ UNCHANGED order
         \/ /\ p \notin refunds /\ ~Accepts(p)
            /\ Goto(w, "rejected")
            /\ UNCHANGED order
         \/ /\ p \in refunds \/ Accepts(p)
            /\ refunds' = refunds \cup {p}
            /\ IF p \in refunds THEN UNCHANGED <<remaining, version>>
               ELSE remaining' = remaining - p.amount /\ version' = version + 1
            /\ Goto(w, "confirmed") \/ Goto(w, "timedOut")
      /\ UNCHANGED <<stores, table, local>>

\* _status(..., "unknown") after a timeout, "rejected" after a rejection.
RecordFailure(w) ==
  /\ pc[w] \in {"timedOut", "rejected"}
  /\ row' = [row EXCEPT ![job[w].id] = IF pc[w] = "timedOut" THEN "unknown" ELSE "rejected"]
  /\ Goto(w, "ended")
  /\ UNCHANGED <<order, stores, rowFor, local, sends>>

-----------------------------------------------------------------------------
(* reconcile(), by a host or at the end of execute().                       *)

StartReconcile(r, i) ==
  /\ r \in Reconcilers
  /\ pc[r] = "idle"
  /\ row[i] # None
  /\ job' = [job EXCEPT ![r] = rowFor[i]]
  /\ Goto(r, "read")
  /\ UNCHANGED <<order, stores, table, nonce, found, sends>>

\* What provider.lookup shows for the proposal of the row.
Evidence(p) ==
  {IF p \in refunds THEN "match"
   ELSE IF \E q \in refunds : q.id = p.id THEN "mismatch" ELSE None}
    \cup IF Faulty THEN {None, "mismatch"} ELSE {}

LookUp(w) ==
  /\ pc[w] \in {"read", "confirmed"}
  /\ \E e \in Evidence(job[w]) : found' = [found EXCEPT ![w] = e]
  /\ Goto(w, "lookedUp")
  /\ UNCHANGED <<order, stores, table, job, nonce, sends>>

VerdictTrusting(e) == IF e = None THEN "unknown" ELSE "verified"   \* mutant
Verdict(e) == CASE e = None -> "unknown" [] e = "match" -> "verified" [] OTHER -> "mismatch"

RecordVerdict(w) ==
  /\ pc[w] = "lookedUp"
  /\ row' = [row EXCEPT ![job[w].id] = Verdict(found[w])]
  /\ Goto(w, IF w \in Workers THEN "ended" ELSE "idle")
  /\ UNCHANGED <<order, stores, rowFor, local, sends>>

\* The process dies; what the databases hold stays.
Crash(w) ==
  /\ pc[w] \notin {"ended", "dead", "idle"}
  /\ Goto(w, IF w \in Workers THEN "dead" ELSE "idle")
  /\ UNCHANGED <<order, stores, table, local, sends>>

-----------------------------------------------------------------------------
Next ==
  \/ \E g \in Grants, p \in Proposals :
       Approve(g, p) \/ \E w \in Workers : Screen(w, p, g)
  \/ \E amount \in Spendings : SpendElsewhere(amount)
  \/ \E w \in Workers :
       CheckGrant(w) \/ Consume(w) \/ Reserve(w) \/ Send(w) \/ RecordFailure(w)
  \/ \E r \in Reconcilers, i \in Ids : StartReconcile(r, i)
  \/ \E w \in Procs : LookUp(w) \/ RecordVerdict(w) \/ Crash(w)

Spec == Init /\ [][Next]_vars

-----------------------------------------------------------------------------
(* Properties.                                                              *)

\* "Never blindly issues a second refund": the provider is asked at most once
\* for an action id, whoever crashes, times out, retries with a new grant or
\* reconciles (refunds.py:204-240).
SentOnce == \A i \in Ids : sends[i] <= 1

\* A refund that took effect was granted for exactly that proposal at the
\* version the order had, and its grant is spent (refunds.py:158-188).
EffectsGranted ==
  \A p \in refunds : \E g \in consumed : grant[g] = [for |-> p, version |-> p.expected]

\* A recorded outcome agrees with the provider: a verified row has its refund,
\* and a rejected one has none (refunds.py:198-240).
OutcomesTrue ==
  \A i \in Ids :
    /\ row[i] = "verified" => rowFor[i] \in refunds
    /\ row[i] = "rejected" => rowFor[i] \notin refunds

\* The promise of docs/SUPPORT_REFUND.md, as a ledger of effects.
Ledger == INSTANCE RefundLedger WITH
  authorized <- {grant[g].for : g \in consumed},
  refunded <- refunds

RefinesLedger == Ledger!Spec

=============================================================================
