------------------------ MODULE GuardedClient_proofs ------------------------
(***************************************************************************)
(* Proofs about the guarded client, for any number of calls, any amounts,  *)
(* any on_violation and any sets of tools, and about the prices of its     *)
(* calls, for any table, any requests and any numbers of tokens.           *)
(***************************************************************************)
EXTENDS GuardedClient, Pricing, FiniteSetTheorems, WellFoundedInduction, TLAPS

-----------------------------------------------------------------------------
(* Facts about SumOver that the proofs about the budget rest on.            *)

\* One entry holds as many units as its value.
LEMMA UnitsCount ==
  ASSUME NEW s, NEW f, f[s] \in Nat
  PROVE  /\ IsFiniteSet(UnitsOf(s, f))
         /\ Cardinality(UnitsOf(s, f)) = f[s]
<1>1. /\ IsFiniteSet(1 .. f[s])
      /\ Cardinality(1 .. f[s]) = f[s]
  <2> DEFINE n == f[s]
  <2>1. n \in Nat
    OBVIOUS
  <2> HIDE DEF n
  <2>2. IsFiniteSet(1 .. n) /\ Cardinality(1 .. n) = IF 1 > n THEN 0 ELSE n - 1 + 1
    BY <2>1, FS_Interval
  <2>3. Cardinality(1 .. n) = n
    BY <2>1, <2>2
  <2>4. QED
    BY <2>2, <2>3 DEF n
<1>2. IsFiniteSet({s}) /\ Cardinality({s}) = 1
  BY FS_Singleton
<1>3. /\ IsFiniteSet({s} \X (1 .. f[s]))
      /\ Cardinality({s} \X (1 .. f[s])) = Cardinality({s}) * Cardinality(1 .. f[s])
  BY <1>1, <1>2, FS_Product
<1>4. Cardinality({s}) * Cardinality(1 .. f[s]) = f[s]
  BY <1>1, <1>2
<1>5. QED
  BY <1>3, <1>4 DEF UnitsOf

\* The units of finitely many entries are finite, so their number is a number.
LEMMA SumType ==
  ASSUME NEW S, IsFiniteSet(S), NEW f, \A s \in S : f[s] \in Nat
  PROVE  /\ IsFiniteSet(UNION {UnitsOf(s, f) : s \in S})
         /\ SumOver(S, f) \in Nat
<1> DEFINE U == {UnitsOf(s, f) : s \in S}
<1>1. IsFiniteSet(U)
  <2> DEFINE img == [s \in S |-> UnitsOf(s, f)]
  <2>1. img \in Surjection(S, U)
    BY DEF Surjection
  <2>2. QED
    BY <2>1, FS_Surjection
<1>2. \A u \in U : IsFiniteSet(u)
  BY UnitsCount
<1>3. IsFiniteSet(UNION U)
  BY <1>1, <1>2, FS_UNION
<1>4. QED
  BY <1>3, FS_CardinalityType DEF SumOver

\* A new key adds exactly its value to the sum.
LEMMA SumAdd ==
  ASSUME NEW S, IsFiniteSet(S), NEW x, x \notin S,
         NEW f, \A s \in S \cup {x} : f[s] \in Nat
  PROVE  SumOver(S \cup {x}, f) = SumOver(S, f) + f[x]
<1> DEFINE A == UNION {UnitsOf(s, f) : s \in S}
           B == UnitsOf(x, f)
<1>1. UNION {UnitsOf(s, f) : s \in S \cup {x}} = A \cup B
  OBVIOUS
<1>2. A \cap B = {}
  BY DEF UnitsOf
<1>3. IsFiniteSet(A) /\ Cardinality(A) \in Nat
  BY SumType DEF SumOver
<1>4. IsFiniteSet(B) /\ Cardinality(B) = f[x]
  BY UnitsCount
<1>5. Cardinality(A \cup B) = Cardinality(A) + Cardinality(B) - Cardinality(A \cap B)
  BY <1>3, <1>4, FS_Union
<1>6. Cardinality(A \cap B) = 0
  BY <1>2, FS_EmptySet
<1>7. Cardinality(A \cup B) = Cardinality(A) + f[x]
  BY <1>3, <1>4, <1>5, <1>6
<1>8. QED
  BY <1>1, <1>7 DEF SumOver

\* The sum only looks at the values of its keys.
LEMMA SumCongruence ==
  ASSUME NEW S, NEW f, NEW g, \A s \in S : f[s] = g[s]
  PROVE  SumOver(S, f) = SumOver(S, g)
<1>1. \A s \in S : UnitsOf(s, f) = UnitsOf(s, g)
  BY DEF UnitsOf
<1>2. {UnitsOf(s, f) : s \in S} = {UnitsOf(s, g) : s \in S}
  BY <1>1
<1>3. QED
  BY <1>2 DEF SumOver

-----------------------------------------------------------------------------
(* The invariant of the client.                                             *)

\* Where the reservation of a call is while the call goes through its stages.
HoldsReservation(c) ==
  \/ pc[c] = "dispatched"
  \/ pc[c] \in {"stream", "closing", "abandoned"} /\ ~recorded[c]

\* The inductive strengthening of SettledOnce: the stage of a call and its
\* _recorded flag decide whether the key is still in _reservations.
Accounting ==
  \A c \in Calls :
    /\ c \in pending <=> HoldsReservation(c)
    /\ c \in pending => estimate[c] \in Amounts
    /\ charges[c] = IF pc[c] \in {"idle", "refused"} \/ c \in pending THEN 0 ELSE 1
    /\ pc[c] = "closed" => recorded[c]
    /\ inHand[c] # NoChunk => pc[c] \in {"stream", "closed"}
    /\ pc[c] \in {"idle", "refused", "dispatched", "returned", "raised"} => ~recorded[c]

\* The inductive strengthening of ForbiddenBlocked: a stream marks a name before
\* the session judges it, so a marked forbidden name is one it has raised over.
Screened ==
  \A c \in Calls :
    /\ delivered[c] \cap Forbidden \subseteq blocked[c] \cup unread[c]
    /\ seen[c] \cap Forbidden \subseteq blocked[c]

IInv == TypeOK /\ Accounting /\ Screened

-----------------------------------------------------------------------------
LEMMA ChunkTypes ==
  /\ NoChunk \in Chunks \cup {NoChunk}
  /\ NoChunk.kind = "none"
  /\ \A k \in Chunks \cup {NoChunk} :
       /\ k.kind = "tool" => k.tool \in Tools
       /\ k.kind \in {"text", "meter", "tool", "usage", "stop"} => k # NoChunk
BY DEF Chunks, NoChunk, Chunk

LEMMA ExcessType ==
  ASSUME NEW cost \in Nat, NEW worst \in Nat
  PROVE  Excess(cost, worst) \in Nat
BY DEF Excess

\* What _accounted_usage can return is a well-formed accounting record.
LEMMA AccountedTypes ==
  ASSUME TypeOK, NEW c \in Calls,
         NEW a, a \in Accounted(c) \cup {Unavailable(c)}
  PROVE  /\ a.cost \in Nat
         /\ a.basis \in {"usage", "estimate"}
         /\ a.invalid \in BOOLEAN
         /\ Excess(a.cost, estimate[c]) \in Nat
<1>0. estimate[c] \in Nat
  BY DEF TypeOK
<1>1. CASE a \in [cost : Amounts, basis : {"usage"}, invalid : {FALSE}]
  <2>1. a.cost \in Amounts /\ a.basis = "usage" /\ a.invalid = FALSE
    BY <1>1
  <2>2. a.cost \in Nat
    BY <2>1, WrapAssumption
  <2>3. QED
    BY <1>0, <2>1, <2>2, ExcessType
<1>2. CASE a \in [cost : {estimate[c]}, basis : {"estimate"}, invalid : BOOLEAN]
  <2>1. a.cost = estimate[c] /\ a.basis = "estimate" /\ a.invalid \in BOOLEAN
    BY <1>2
  <2>2. QED
    BY <1>0, <2>1, ExcessType
<1>3. CASE a = Unavailable(c)
  <2>1. a.cost = estimate[c] /\ a.basis = "estimate" /\ a.invalid = FALSE
    BY <1>3 DEF Unavailable
  <2>2. QED
    BY <1>0, <2>1, ExcessType
<1>4. QED
  BY <1>1, <1>2, <1>3 DEF Accounted

\* Charging a call keeps the types of the money variables.
LEMMA ChargeTypes ==
  ASSUME TypeOK, NEW c \in Calls,
         NEW a, a \in Accounted(c) \cup {Unavailable(c)}, Charge(c, a)
  PROVE  /\ total' \in Nat
         /\ pending' = pending \ {c}
         /\ pending' \subseteq Calls
         /\ estimate' = estimate
         /\ estimate' \in [Calls -> Nat]
         /\ charges' \in [Calls -> Nat]
         /\ charges' = [charges EXCEPT ![c] = charges[c] + 1]
         /\ basis' \in [Calls -> {"none", "usage", "estimate"}]
         /\ overrun' \in Nat
<1>1. /\ a.cost \in Nat
      /\ a.basis \in {"usage", "estimate"}
      /\ Excess(a.cost, estimate[c]) \in Nat
  BY AccountedTypes
<1>2. QED
  BY <1>1 DEF Charge, TypeOK

\* A forbidden name that is new to the stream always raises.
LEMMA ForbiddenRaises ==
  ASSUME NEW c \in Calls, NEW t \in Forbidden, t \notin seen[c]
  PROVE  FALSE \notin ToolRaises(c, t)
BY DEF ToolRaises, EventRaises

\* EventRaises answers with Booleans.
LEMMA ToolRaisesBoolean ==
  ASSUME NEW c \in Calls, NEW t, NEW r \in ToolRaises(c, t)
  PROVE  r \in BOOLEAN
BY DEF ToolRaises, EventRaises

-----------------------------------------------------------------------------
LEMMA InitIInv == Init => IInv
<1> SUFFICES ASSUME Init PROVE IInv
  OBVIOUS
<1>1. TypeOK
  BY ChunkTypes DEF Init, TypeOK, Stages
<1>2. Accounting
  BY DEF Init, Accounting, HoldsReservation
<1>3. Screened
  BY DEF Init, Screened
<1>4. QED
  BY <1>1, <1>2, <1>3 DEF IInv

\* One step of one call preserves the invariant; one lemma per action.
LEMMA AdmitIInv ==
  ASSUME IInv, NEW c \in Calls, NEW w \in Amounts, Admit(c, w)
  PROVE  IInv'
<1> USE WrapAssumption DEF IInv, Admit, Goto, stream
<1>1. TypeOK'
  BY DEF TypeOK, Stages
<1>2. Accounting'
  BY DEF TypeOK, Accounting, HoldsReservation
<1>3. Screened'
  BY DEF TypeOK, Screened
<1>4. QED
  BY <1>1, <1>2, <1>3

LEMMA RefuseIInv ==
  ASSUME IInv, NEW c \in Calls, NEW w \in Amounts, Refuse(c, w)
  PROVE  IInv'
<1> USE DEF IInv, Refuse, Goto, stream, money
<1>1. TypeOK'
  BY DEF TypeOK, Stages
<1>2. Accounting'
  BY DEF TypeOK, Accounting, HoldsReservation
<1>3. Screened'
  BY DEF TypeOK, Screened
<1>4. QED
  BY <1>1, <1>2, <1>3

LEMMA FailCallIInv ==
  ASSUME IInv, NEW c \in Calls, FailCall(c)
  PROVE  IInv'
<1> USE DEF IInv, FailCall, Goto, stream
<1>0. TypeOK /\ Charge(c, Unavailable(c))
  OBVIOUS
<1>c. /\ total' \in Nat
      /\ pending' = pending \ {c}
      /\ estimate' = estimate /\ estimate' \in [Calls -> Nat]
      /\ charges' \in [Calls -> Nat]
      /\ charges' = [charges EXCEPT ![c] = charges[c] + 1]
      /\ basis' \in [Calls -> {"none", "usage", "estimate"}]
      /\ overrun' \in Nat
  BY <1>0, ChargeTypes
<1>1. TypeOK'
  BY <1>c DEF TypeOK, Stages
<1>2. Accounting'
  BY <1>c DEF TypeOK, Accounting, HoldsReservation
<1>3. Screened'
  BY DEF TypeOK, Screened
<1>4. QED
  BY <1>1, <1>2, <1>3

LEMMA RespondIInv ==
  ASSUME IInv, NEW c \in Calls, Respond(c)
  PROVE  IInv'
<1> USE DEF IInv
<1>0. PICK a \in Accounted(c), read \in SUBSET Tools, rest \in SUBSET Tools :
        /\ Charge(c, a)
        /\ \/ /\ \A t \in read : FALSE \in EventRaises(total + a.cost, FALSE, t)
              /\ delivered' = [delivered EXCEPT ![c] = read \cup rest]
              /\ unread' = [unread EXCEPT ![c] = rest]
              /\ pc' = [pc EXCEPT ![c] = "returned"]
           \/ /\ pc' = [pc EXCEPT ![c] = "raised"]
              /\ UNCHANGED <<delivered, unread>>
  BY DEF Respond, Goto
<1>g. /\ pc[c] = "dispatched"
      /\ UNCHANGED stream
  BY DEF Respond
<1>c. /\ total' \in Nat
      /\ pending' = pending \ {c}
      /\ estimate' = estimate /\ estimate' \in [Calls -> Nat]
      /\ charges' \in [Calls -> Nat]
      /\ charges' = [charges EXCEPT ![c] = charges[c] + 1]
      /\ basis' \in [Calls -> {"none", "usage", "estimate"}]
      /\ overrun' \in Nat
  BY <1>0, ChargeTypes
<1>1. TypeOK'
  <2>1. CASE UNCHANGED <<delivered, unread>>
    BY <2>1, <1>0, <1>g, <1>c DEF TypeOK, Stages, stream
  <2>2. CASE /\ delivered' = [delivered EXCEPT ![c] = read \cup rest]
             /\ unread' = [unread EXCEPT ![c] = rest]
    <3>1. /\ delivered' \in [Calls -> SUBSET Tools]
          /\ unread' \in [Calls -> SUBSET Tools]
      BY <2>2 DEF TypeOK
    <3>2. pc' \in [Calls -> Stages]
      BY <1>0 DEF TypeOK, Stages
    <3>3. QED
      BY <3>1, <3>2, <1>g, <1>c DEF TypeOK, stream
  <2>3. QED
    BY <1>0, <2>1, <2>2
<1>2. Accounting'
  <2>1. \/ pc' = [pc EXCEPT ![c] = "returned"]
        \/ pc' = [pc EXCEPT ![c] = "raised"]
    BY <1>0
  <2>2. QED
    BY <2>1, <1>g, <1>c DEF TypeOK, Accounting, HoldsReservation, stream
<1>3. Screened'
  <2>1. CASE UNCHANGED <<delivered, unread>>
    BY <2>1, <1>0, <1>g DEF TypeOK, Screened, stream
  <2>2. CASE /\ \A t \in read : FALSE \in EventRaises(total + a.cost, FALSE, t)
             /\ delivered' = [delivered EXCEPT ![c] = read \cup rest]
             /\ unread' = [unread EXCEPT ![c] = rest]
    <3>1. read \cap Forbidden = {}
      BY <2>2 DEF EventRaises
    <3>2. \A d \in Calls :
            /\ delivered'[d] = IF d = c THEN read \cup rest ELSE delivered[d]
            /\ unread'[d] = IF d = c THEN rest ELSE unread[d]
            /\ blocked'[d] = blocked[d] /\ seen'[d] = seen[d]
      BY <2>2, <1>g DEF TypeOK, stream
    <3>3. QED
      BY <3>1, <3>2 DEF Screened
  <2>3. QED
    BY <1>0, <2>1, <2>2
<1>4. QED
  BY <1>1, <1>2, <1>3

LEMMA OpenStreamIInv ==
  ASSUME IInv, NEW c \in Calls, OpenStream(c)
  PROVE  IInv'
<1> USE DEF IInv, OpenStream, Goto, stream, money
<1>1. TypeOK'
  BY DEF TypeOK, Stages
<1>2. Accounting'
  BY DEF TypeOK, Accounting, HoldsReservation
<1>3. Screened'
  BY DEF TypeOK, Screened
<1>4. QED
  BY <1>1, <1>2, <1>3

LEMMA FetchIInv ==
  ASSUME IInv, NEW c \in Calls, Fetch(c)
  PROVE  IInv'
<1> USE DEF IInv, Fetch, money
<1>1. TypeOK'
  BY DEF TypeOK
<1>2. Accounting'
  BY DEF TypeOK, Accounting, HoldsReservation
<1>3. Screened'
  BY DEF TypeOK, Screened
<1>4. QED
  BY <1>1, <1>2, <1>3

LEMMA OnTextOrMeterIInv ==
  ASSUME IInv, NEW c \in Calls, OnTextOrMeter(c)
  PROVE  IInv'
<1> USE ChunkTypes DEF IInv, OnTextOrMeter, Leave, money
<1>1. TypeOK'
  BY DEF TypeOK
<1>2. Accounting'
  BY DEF TypeOK, Accounting, HoldsReservation
<1>3. Screened'
  BY DEF TypeOK, Screened
<1>4. QED
  BY <1>1, <1>2, <1>3

LEMMA OnToolIInv ==
  ASSUME IInv, NEW c \in Calls, OnTool(c)
  PROVE  IInv'
<1> DEFINE t == inHand[c].tool
<1>0. PICK r \in ToolRaises(c, t) :
        /\ delivered' = [delivered EXCEPT ![c] = IF r THEN @ ELSE @ \cup {t}]
        /\ blocked' = [blocked EXCEPT ![c] = IF r THEN @ \cup {t} ELSE @]
        /\ inHand' = [inHand EXCEPT ![c] = NoChunk]
        /\ IF r /\ pc[c] = "stream" THEN pc' = [pc EXCEPT ![c] = "closing"]
                                    ELSE UNCHANGED pc
  BY DEF OnTool, Leave, Goto
<1>g. /\ inHand[c].kind = "tool"
      /\ seen' = [seen EXCEPT ![c] = @ \cup {t}]
      /\ UNCHANGED <<money, usage, recorded, unread>>
  BY DEF OnTool
<1>t. /\ TypeOK
      /\ t \in Tools
      /\ inHand[c] # NoChunk
      /\ pc[c] \in {"stream", "closed"}
      /\ r \in BOOLEAN
  BY <1>g, ChunkTypes, ToolRaisesBoolean DEF IInv, TypeOK, Accounting
<1>1. TypeOK'
  BY <1>0, <1>g, <1>t, ChunkTypes DEF TypeOK, Stages, money
<1>2. Accounting'
  BY <1>0, <1>g, <1>t DEF IInv, TypeOK, Accounting, HoldsReservation, money
<1>3. Screened'
  <2>1. t \in Forbidden => r \/ t \in blocked[c]
    <3>1. CASE t \in seen[c]
      BY <3>1 DEF IInv, Screened
    <3>2. CASE t \notin seen[c]
      <4>1. t \in Forbidden => FALSE \notin ToolRaises(c, t)
        BY <3>2, ForbiddenRaises
      <4>2. QED
        BY <4>1, <1>0, <1>t
    <3>3. QED
      BY <3>1, <3>2
  <2>2. \A d \in Calls :
          /\ delivered'[d] = IF d = c /\ ~r THEN delivered[d] \cup {t} ELSE delivered[d]
          /\ blocked'[d] = IF d = c /\ r THEN blocked[d] \cup {t} ELSE blocked[d]
          /\ seen'[d] = IF d = c THEN seen[d] \cup {t} ELSE seen[d]
          /\ unread'[d] = unread[d]
    BY <1>0, <1>g, <1>t DEF TypeOK
  <2>3. SUFFICES ASSUME NEW d \in Calls
                 PROVE  /\ delivered'[d] \cap Forbidden \subseteq blocked'[d] \cup unread'[d]
                        /\ seen'[d] \cap Forbidden \subseteq blocked'[d]
    BY Zenon DEF Screened
  <2>4. /\ delivered[d] \cap Forbidden \subseteq blocked[d] \cup unread[d]
        /\ seen[d] \cap Forbidden \subseteq blocked[d]
    BY Zenon DEF IInv, Screened
  <2>5. CASE d = c
    <3>1. seen'[d] = seen[d] \cup {t} /\ unread'[d] = unread[d]
      BY <2>2, <2>5
    <3>2. CASE r
      <4>1. delivered'[d] = delivered[d] /\ blocked'[d] = blocked[d] \cup {t}
        BY <2>2, <2>5, <3>2, Zenon
      <4>2. QED
        BY <2>4, <3>1, <4>1
    <3>3. CASE ~r
      <4>1. delivered'[d] = delivered[d] \cup {t} /\ blocked'[d] = blocked[d]
        BY <2>2, <2>5, <3>3, Zenon
      <4>2. t \in Forbidden => t \in blocked[d]
        BY <2>1, <2>5, <3>3, Zenon
      <4>3. QED
        BY <2>4, <3>1, <4>1, <4>2
    <3>4. QED
      BY <3>2, <3>3, Zenon
  <2>6. CASE d # c
    BY <2>2, <2>4, <2>6
  <2>7. QED
    BY <2>5, <2>6
<1>4. QED
  BY <1>1, <1>2, <1>3 DEF IInv

LEMMA OnFinalIInv ==
  ASSUME IInv, NEW c \in Calls, OnFinal(c)
  PROVE  IInv'
<1> USE DEF IInv
<1>g. /\ inHand[c].kind \in {"usage", "stop"}
      /\ usage' = [usage EXCEPT ![c] = usage[c] \/ inHand[c].kind = "usage"]
      /\ recorded' = [recorded EXCEPT ![c] = TRUE]
      /\ UNCHANGED <<seen, delivered, blocked, unread>>
  BY DEF OnFinal
<1>t. /\ inHand[c] # NoChunk
      /\ pc[c] \in {"stream", "closed"}
  BY <1>g, ChunkTypes DEF TypeOK, Accounting
<1>1. CASE recorded[c] /\ Leave(c, FALSE) /\ UNCHANGED money
  <2> USE <1>g, <1>t, <1>1 DEF Leave, money
  <2>1. TypeOK'
    BY ChunkTypes DEF TypeOK
  <2>2. Accounting'
    BY DEF TypeOK, Accounting, HoldsReservation
  <2>3. Screened'
    BY DEF TypeOK, Screened
  <2>4. QED
    BY <2>1, <2>2, <2>3
<1>2. CASE /\ ~recorded[c]
           /\ \E a \in Accounted(c) \cup {Unavailable(c)} :
                Charge(c, a) /\ \E r \in BOOLEAN : Leave(c, r)
  <2>0. PICK a \in Accounted(c) \cup {Unavailable(c)}, r \in BOOLEAN :
          Charge(c, a) /\ Leave(c, r)
    BY <1>2
  <2>c. /\ total' \in Nat
        /\ pending' = pending \ {c}
        /\ estimate' = estimate /\ estimate' \in [Calls -> Nat]
        /\ charges' \in [Calls -> Nat]
        /\ charges' = [charges EXCEPT ![c] = charges[c] + 1]
        /\ basis' \in [Calls -> {"none", "usage", "estimate"}]
        /\ overrun' \in Nat
    BY <2>0, ChargeTypes
  <2>p. /\ inHand' = [inHand EXCEPT ![c] = NoChunk]
        /\ pc[c] = "stream"
        /\ \/ pc' = [pc EXCEPT ![c] = "closing"]
           \/ UNCHANGED pc
    BY <2>0, <1>t, <1>2 DEF Leave, Goto, Accounting
  <2>1. TypeOK'
    BY <1>g, <2>c, <2>p, ChunkTypes DEF TypeOK, Stages
  <2>2. Accounting'
    BY <1>g, <1>2, <2>c, <2>p DEF TypeOK, Accounting, HoldsReservation
  <2>3. Screened'
    BY <1>g, <1>t, <2>p DEF TypeOK, Screened
  <2>4. QED
    BY <2>1, <2>2, <2>3
<1>3. QED
  BY <1>1, <1>2 DEF OnFinal, EventRaises

LEMMA CloseIInv ==
  ASSUME IInv, NEW c \in Calls, Close(c)
  PROVE  IInv'
<1> USE DEF IInv
<1>g. /\ pc[c] \in {"stream", "closing"}
      /\ recorded' = [recorded EXCEPT ![c] = TRUE]
      /\ pc' = [pc EXCEPT ![c] = "closed"]
      /\ UNCHANGED <<usage, seen, inHand, delivered, blocked, unread>>
  BY DEF Close, Goto
<1>3. Screened'
  BY <1>g DEF TypeOK, Screened
<1>1. CASE recorded[c] /\ UNCHANGED money
  <2>1. TypeOK'
    BY <1>g, <1>1 DEF TypeOK, Stages, money
  <2>2. Accounting'
    BY <1>g, <1>1 DEF TypeOK, Accounting, HoldsReservation, money
  <2>3. QED
    BY <2>1, <2>2, <1>3
<1>2. CASE ~recorded[c] /\ Charge(c, Unavailable(c))
  <2>c. /\ total' \in Nat
        /\ pending' = pending \ {c}
        /\ estimate' = estimate /\ estimate' \in [Calls -> Nat]
        /\ charges' \in [Calls -> Nat]
        /\ charges' = [charges EXCEPT ![c] = charges[c] + 1]
        /\ basis' \in [Calls -> {"none", "usage", "estimate"}]
        /\ overrun' \in Nat
    BY <1>2, ChargeTypes
  <2>1. TypeOK'
    BY <1>g, <2>c DEF TypeOK, Stages
  <2>2. Accounting'
    BY <1>g, <1>2, <2>c DEF TypeOK, Accounting, HoldsReservation
  <2>3. QED
    BY <2>1, <2>2, <1>3
<1>4. QED
  BY <1>1, <1>2 DEF Close

LEMMA AbandonIInv ==
  ASSUME IInv, NEW c \in Calls, Abandon(c)
  PROVE  IInv'
<1> USE DEF IInv, Abandon, Goto, stream, money
<1>1. TypeOK'
  BY DEF TypeOK, Stages
<1>2. Accounting'
  BY DEF TypeOK, Accounting, HoldsReservation
<1>3. Screened'
  BY DEF TypeOK, Screened
<1>4. QED
  BY <1>1, <1>2, <1>3

LEMMA StepIInv == IInv /\ [Next]_vars => IInv'
<1> SUFFICES ASSUME IInv, [Next]_vars PROVE IInv'
  OBVIOUS
<1>1. CASE UNCHANGED vars
  BY <1>1 DEF IInv, TypeOK, Accounting, Screened, HoldsReservation, vars
<1>2. CASE Next
  BY <1>2, AdmitIInv, RefuseIInv, FailCallIInv, RespondIInv, OpenStreamIInv,
     FetchIInv, OnTextOrMeterIInv, OnToolIInv, OnFinalIInv, CloseIInv, AbandonIInv
     DEF Next
<1>3. QED
  BY <1>1, <1>2

\* The stages, the reservations and the session totals stay consistent for any
\* number of calls; the theorems below follow from this one.
THEOREM ClientInvariant == Spec => []IInv
BY InitIInv, StepIInv, PTL DEF Spec

\* Every value the wrapper keeps has its type.
THEOREM ClientTypeCorrect == Spec => []TypeOK
<1>1. IInv => TypeOK
  BY DEF IInv
<1>2. QED
  BY <1>1, ClientInvariant, PTL

\* An admitted call holds its reservation or has been charged exactly once,
\* in any interleaving of any number of calls.
THEOREM ClientSettlesOnce == Spec => []SettledOnce
<1>1. IInv => SettledOnce
  BY DEF IInv, Accounting, SettledOnce, HoldsReservation
<1>2. QED
  BY <1>1, ClientInvariant, PTL

\* No forbidden proposal reaches the caller before the session has raised over
\* it, but for those the recorder could not read, for any tools and on_violation.
THEOREM ClientBlocksForbidden == Spec => []ForbiddenBlocked
<1>1. IInv => ForbiddenBlocked
  BY DEF IInv, Screened, ForbiddenBlocked
<1>2. QED
  BY <1>1, ClientInvariant, PTL

-----------------------------------------------------------------------------
(* The wrapper implements the budget ledger.                                *)

Settled == {c \in Calls : charges[c] > 0}

\* The reservations are finitely many numbers, so they add up to a number.
LEMMA PendingSum ==
  ASSUME TypeOK
  PROVE  IsFiniteSet(pending) /\ SumOver(pending, estimate) \in Nat
<1>1. IsFiniteSet(pending)
  BY FS_Subset, WrapAssumption DEF TypeOK
<1>2. \A d \in pending : estimate[d] \in Nat
  BY DEF TypeOK
<1>3. QED
  BY <1>1, <1>2, SumType

\* Reserving an estimate raises the reserved total by the estimate.
LEMMA ReservedByAdmit ==
  ASSUME TypeOK, NEW c \in Calls, c \notin pending, NEW w \in Amounts, Admit(c, w)
  PROVE  SumOver(pending', estimate') = SumOver(pending, estimate) + w
<1> USE WrapAssumption DEF TypeOK
<1>1. estimate' \in [Calls -> Nat] /\ estimate'[c] = w
  BY DEF Admit
<1>2. SumOver(pending, estimate') = SumOver(pending, estimate)
  <2>1. \A d \in pending : estimate'[d] = estimate[d]
    BY DEF Admit
  <2>2. QED
    BY <2>1, SumCongruence
<1>3. SumOver(pending \cup {c}, estimate') = SumOver(pending, estimate') + estimate'[c]
  <2>1. \A d \in pending \cup {c} : estimate'[d] \in Nat
    BY <1>1
  <2>2. QED
    BY <2>1, PendingSum, SumAdd
<1>4. QED
  BY <1>1, <1>2, <1>3 DEF Admit

\* Popping a reservation lowers the reserved total by exactly its estimate.
LEMMA ReservedByCharge ==
  ASSUME TypeOK, NEW c \in pending, NEW a, Charge(c, a)
  PROVE  /\ SumOver(pending', estimate') \in Nat
         /\ SumOver(pending, estimate) = SumOver(pending', estimate') + estimate[c]
<1> DEFINE rest == pending \ {c}
<1>1. pending' = rest /\ estimate' = estimate
  BY DEF Charge
<1>2. IsFiniteSet(rest)
  BY PendingSum, FS_Subset
<1>3. /\ \A d \in rest : estimate[d] \in Nat
      /\ \A d \in rest \cup {c} : estimate[d] \in Nat
  BY DEF TypeOK
<1>4. SumOver(rest, estimate) \in Nat
  BY <1>2, <1>3, SumType
<1>5. SumOver(rest \cup {c}, estimate) = SumOver(rest, estimate) + estimate[c]
  BY <1>2, <1>3, SumAdd
<1>6. rest \cup {c} = pending
  OBVIOUS
<1>7. QED
  BY <1>1, <1>4, <1>5, <1>6

\* Charging a call with a reservation is the ledger's Settle.
LEMMA ChargeSettles ==
  ASSUME IInv, NEW c \in Calls, c \in pending,
         NEW a, a \in Accounted(c) \cup {Unavailable(c)}, Charge(c, a)
  PROVE  Ledger!Settle(c, a.cost)
<1>1. charges' = [charges EXCEPT ![c] = charges[c] + 1]
  BY ChargeTypes DEF IInv
<1>2. Settled' = Settled \cup {c}
  BY <1>1 DEF IInv, TypeOK, Settled
<1>3. SumOver(pending', estimate') = SumOver(pending, estimate) - estimate[c]
  BY ReservedByCharge DEF IInv, TypeOK
<1>4. QED
  BY <1>2, <1>3 DEF Charge, Ledger!Settle, Ledger!Excess, Excess, Settled

\* The cost of a charge is one of the amounts.
LEMMA ChargedAmount ==
  ASSUME IInv, NEW c \in Calls, c \in pending,
         NEW a, a \in Accounted(c) \cup {Unavailable(c)}
  PROVE  a.cost \in Amounts
<1>1. estimate[c] \in Amounts
  BY DEF IInv, Accounting
<1>2. CASE a \in [cost : Amounts, basis : {"usage"}, invalid : {FALSE}]
  BY <1>2
<1>3. CASE a \in [cost : {estimate[c]}, basis : {"estimate"}, invalid : BOOLEAN]
  BY <1>1, <1>3
<1>4. CASE a = Unavailable(c)
  BY <1>1, <1>4 DEF Unavailable
<1>5. QED
  BY <1>2, <1>3, <1>4 DEF Accounted

\* A charge is a step of the ledger.
LEMMA ChargeIsLedgerStep ==
  ASSUME IInv, NEW c \in Calls, c \in pending,
         NEW a, a \in Accounted(c) \cup {Unavailable(c)}, Charge(c, a)
  PROVE  Ledger!Next
BY ChargeSettles, ChargedAmount DEF Ledger!Next

\* Every step of the wrapper admits, settles, or leaves the ledger alone.
LEMMA StepIsLedgerStep ==
  ASSUME IInv, [Next]_vars
  PROVE  Ledger!Next \/ UNCHANGED Ledger!vars
<1> USE DEF IInv
<1>s. UNCHANGED money => UNCHANGED Ledger!vars
  BY DEF money, Ledger!vars
<1>1. ASSUME NEW c \in Calls, NEW w \in Amounts, Admit(c, w)
      PROVE  Ledger!Next
  <2>1. c \notin pending /\ c \notin Settled
    BY <1>1 DEF Admit, Accounting, HoldsReservation, Settled
  <2>2. OnViolation \in Halting => total + SumOver(pending, estimate) + w <= Budget
    <3>1. OnViolation \in Halting => FALSE \notin RecoveryRaises(OnViolation)
      BY DEF RecoveryRaises
    <3>2. IsFiniteSet(pending) /\ \A d \in pending : estimate[d] \in Nat
      BY FS_Subset, WrapAssumption DEF TypeOK
    <3>3. SumOver(pending, estimate) \in Nat
      BY <3>2, SumType
    <3>4. total \in Nat /\ w \in Nat /\ Budget \in Nat
      BY WrapAssumption DEF TypeOK
    <3>5. Projected(w) > Budget => FALSE \in RecoveryRaises(OnViolation)
      BY <1>1 DEF Admit
    <3>6. Projected(w) = total + SumOver(pending, estimate) + w
      BY DEF Projected
    <3>7. Projected(w) \in Nat
      BY <3>3, <3>4, <3>6
    <3>8. OnViolation \in Halting => ~(Projected(w) > Budget)
      BY <3>1, <3>5, Zenon
    <3>9. QED
      BY <3>4, <3>6, <3>7, <3>8
  <2>3. UNCHANGED Settled
    BY <1>1 DEF Admit, Settled
  <2>4. SumOver(pending', estimate') = SumOver(pending, estimate) + w
    BY <1>1, <2>1, ReservedByAdmit
  <2>5. Ledger!Admit(c, w)
    BY <1>1, <2>1, <2>2, <2>3, <2>4 DEF Admit, Ledger!Admit, Ledger!Fits, Settled
  <2>6. QED
    BY <2>5 DEF Ledger!Next
<1>2. ASSUME NEW c \in Calls, NEW w \in Amounts, Refuse(c, w)
      PROVE  UNCHANGED Ledger!vars
  BY <1>s, <1>2 DEF Refuse
<1>3. ASSUME NEW c \in Calls, FailCall(c)
      PROVE  Ledger!Next
  BY <1>3, ChargeIsLedgerStep DEF FailCall, Accounting, HoldsReservation
<1>4. ASSUME NEW c \in Calls, Respond(c)
      PROVE  Ledger!Next
  <2>1. PICK a \in Accounted(c) : Charge(c, a)
    BY <1>4 DEF Respond
  <2>2. c \in pending
    BY <1>4 DEF Respond, Accounting, HoldsReservation
  <2>3. QED
    BY <2>1, <2>2, ChargeIsLedgerStep
<1>5. ASSUME NEW c \in Calls, OpenStream(c) \/ Fetch(c) \/ Abandon(c)
      PROVE  UNCHANGED Ledger!vars
  BY <1>s, <1>5 DEF OpenStream, Fetch, Abandon
<1>6. ASSUME NEW c \in Calls, OnTextOrMeter(c) \/ OnTool(c)
      PROVE  UNCHANGED Ledger!vars
  BY <1>s, <1>6 DEF OnTextOrMeter, OnTool
<1>7. ASSUME NEW c \in Calls, OnFinal(c)
      PROVE  Ledger!Next \/ UNCHANGED Ledger!vars
  <2>1. CASE UNCHANGED money
    BY <1>s, <2>1
  <2>2. CASE ~recorded[c] /\ \E a \in Accounted(c) \cup {Unavailable(c)} : Charge(c, a)
    <3>1. pc[c] = "stream"
      BY <1>7, <2>2, ChunkTypes DEF OnFinal, Accounting, TypeOK
    <3>2. c \in pending
      BY <2>2, <3>1 DEF Accounting, HoldsReservation
    <3>3. QED
      BY <2>2, <3>2, ChargeIsLedgerStep
  <2>3. QED
    BY <1>7, <2>1, <2>2 DEF OnFinal
<1>8. ASSUME NEW c \in Calls, Close(c)
      PROVE  Ledger!Next \/ UNCHANGED Ledger!vars
  <2>1. CASE UNCHANGED money
    BY <1>s, <2>1
  <2>2. CASE ~recorded[c] /\ Charge(c, Unavailable(c))
    <3>1. c \in pending
      BY <1>8, <2>2 DEF Close, Accounting, HoldsReservation
    <3>2. QED
      BY <2>2, <3>1, ChargeIsLedgerStep
  <2>3. QED
    BY <1>8, <2>1, <2>2 DEF Close
<1>9. CASE UNCHANGED vars
  BY <1>9 DEF vars, Ledger!vars
<1>10. CASE Next
  BY <1>10, <1>1, <1>2, <1>3, <1>4, <1>5, <1>6, <1>7, <1>8 DEF Next
<1>11. QED
  BY <1>9, <1>10

\* GuardedClient implements the abstract ledger of docs/wrapper-coverage.md.
THEOREM ClientRefinesLedger == Spec => RefinesLedger
<1>1. Init => Ledger!Init
  <2> SUFFICES ASSUME Init PROVE Ledger!Init
    OBVIOUS
  <2>1. UNION {UnitsOf(c, estimate) : c \in pending} = {}
    BY DEF Init
  <2>2. SumOver(pending, estimate) = 0
    BY <2>1, FS_EmptySet DEF SumOver
  <2>3. QED
    BY <2>2 DEF Init, Ledger!Init
<1>2. IInv /\ [Next]_vars => [Ledger!Next]_(Ledger!vars)
  BY StepIsLedgerStep
<1>3. QED
  BY <1>1, <1>2, ClientInvariant, PTL DEF Spec, RefinesLedger, Ledger!Spec

-----------------------------------------------------------------------------
(* The ledger's promise, for the values that the client gives its constants. *)

LEMMA LedgerConstants == Ledger!LedgerAssumption
BY WrapAssumption DEF Ledger!LedgerAssumption

\* The amounts, sets of calls and totals of the ledger keep their types.
THEOREM LedgerTypeCorrect == Ledger!Spec => []Ledger!TypeOK
<1>1. Ledger!Init => Ledger!TypeOK
  BY DEF Ledger!Init, Ledger!TypeOK
<1>2. Ledger!TypeOK /\ [Ledger!Next]_(Ledger!vars) => Ledger!TypeOK'
  <2> SUFFICES ASSUME Ledger!TypeOK, [Ledger!Next]_(Ledger!vars)
               PROVE  Ledger!TypeOK'
    OBVIOUS
  <2> USE LedgerConstants DEF Ledger!LedgerAssumption, Ledger!TypeOK
  <2>1. ASSUME NEW c \in Calls, NEW a \in Amounts, Ledger!Admit(c, a)
        PROVE  Ledger!TypeOK'
    BY <2>1 DEF Ledger!Admit
  <2>2. ASSUME NEW c \in Calls, NEW a \in Amounts, Ledger!Settle(c, a)
        PROVE  Ledger!TypeOK'
    BY <2>2 DEF Ledger!Settle, Ledger!Excess
  <2>3. CASE UNCHANGED Ledger!vars
    BY <2>3 DEF Ledger!vars
  <2>4. QED
    BY <2>1, <2>2, <2>3 DEF Ledger!Next
<1>3. QED
  BY <1>1, <1>2, PTL DEF Ledger!Spec

\* For every set of calls, every budget and all amounts, a strict ledger
\* keeps spending and open claims within the budget plus the overruns: an
\* admission was checked against the bound, and a settlement trades a claim
\* for a cost whose excess goes to overrun.
THEOREM LedgerWithinBudget == Ledger!Spec => []Ledger!BudgetBound
<1>1. Ledger!Init => Ledger!BudgetBound
  BY LedgerConstants DEF Ledger!LedgerAssumption, Ledger!Init, Ledger!BudgetBound
<1>2. Ledger!TypeOK /\ Ledger!BudgetBound /\ [Ledger!Next]_(Ledger!vars) => Ledger!BudgetBound'
  <2> SUFFICES ASSUME Ledger!TypeOK, Ledger!BudgetBound, [Ledger!Next]_(Ledger!vars)
               PROVE  Ledger!BudgetBound'
    OBVIOUS
  <2> USE LedgerConstants DEF Ledger!LedgerAssumption, Ledger!TypeOK, Ledger!BudgetBound
  <2>1. ASSUME NEW c \in Calls, NEW a \in Amounts, Ledger!Admit(c, a)
        PROVE  Ledger!BudgetBound'
    BY <2>1 DEF Ledger!Admit, Ledger!Fits
  <2>2. ASSUME NEW c \in Calls, NEW a \in Amounts, Ledger!Settle(c, a)
        PROVE  Ledger!BudgetBound'
    <3>1. a <= estimate[c] + Ledger!Excess(a, estimate[c]) /\ Ledger!Excess(a, estimate[c]) \in Nat
      BY DEF Ledger!Excess
    <3>2. QED
      BY <2>2, <3>1 DEF Ledger!Settle
  <2>3. CASE UNCHANGED Ledger!vars
    BY <2>3 DEF Ledger!vars
  <2>4. QED
    BY <2>1, <2>2, <2>3 DEF Ledger!Next
<1>3. QED
  BY <1>1, <1>2, LedgerTypeCorrect, PTL DEF Ledger!Spec

\* For any number of calls, any amounts and any halting on_violation, cost
\* recorded plus cost reserved stays within max_cost plus the overruns.
THEOREM ClientWithinBudget == Spec => []WithinBudget
BY LedgerWithinBudget, ClientRefinesLedger, PTL DEF RefinesLedger, WithinBudget

-----------------------------------------------------------------------------
(* Unknown usage keeps the estimate.                                        *)

\* What UnknownKeepsEstimate says of one step.
EstimateKept ==
  \A c \in pending : (c \notin pending' /\ basis'[c] # "usage") => total' = total + estimate[c]

\* Without a charge no reservation goes.
LEMMA UnchargedKeeps ==
  ASSUME pending \subseteq pending'
  PROVE  EstimateKept
BY DEF EstimateKept

\* A charge takes the reservation of its own call only, and at another cost than
\* the estimate only when it is based on reported usage.
LEMMA ChargeKeepsEstimate ==
  ASSUME TypeOK, NEW c \in Calls,
         NEW a, a \in Accounted(c) \cup {Unavailable(c)}, Charge(c, a)
  PROVE  EstimateKept
<1>1. a.basis # "usage" => a.cost = estimate[c]
  <2>1. CASE a \in [cost : Amounts, basis : {"usage"}, invalid : {FALSE}]
    BY <2>1
  <2>2. CASE a \in [cost : {estimate[c]}, basis : {"estimate"}, invalid : BOOLEAN]
    BY <2>2
  <2>3. CASE a = Unavailable(c)
    BY <2>3 DEF Unavailable
  <2>4. QED
    BY <2>1, <2>2, <2>3 DEF Accounted
<1>2. \A d \in pending : d \notin pending' => d = c
  BY DEF Charge
<1>3. basis'[c] = a.basis
  BY DEF Charge, TypeOK
<1>4. QED
  BY <1>1, <1>2, <1>3 DEF EstimateKept, Charge

LEMMA StepKeepsEstimate ==
  ASSUME IInv, [Next]_vars
  PROVE  EstimateKept
<1>t. TypeOK
  BY DEF IInv
<1>m. UNCHANGED money => EstimateKept
  BY UnchargedKeeps DEF money
<1>1. ASSUME NEW c \in Calls, NEW w \in Amounts, Admit(c, w) \/ Refuse(c, w)
      PROVE  EstimateKept
  BY <1>1, UnchargedKeeps DEF Admit, Refuse, money
<1>2. ASSUME NEW c \in Calls, FailCall(c)
      PROVE  EstimateKept
  BY <1>t, <1>2, ChargeKeepsEstimate DEF FailCall
<1>3. ASSUME NEW c \in Calls, Respond(c)
      PROVE  EstimateKept
  <2>1. PICK a \in Accounted(c) : Charge(c, a)
    BY <1>3 DEF Respond
  <2>2. QED
    BY <1>t, <2>1, ChargeKeepsEstimate
<1>4. ASSUME NEW c \in Calls,
             OpenStream(c) \/ Fetch(c) \/ OnTextOrMeter(c) \/ OnTool(c) \/ Abandon(c)
      PROVE  EstimateKept
  BY <1>m, <1>4 DEF OpenStream, Fetch, OnTextOrMeter, OnTool, Abandon
<1>5. ASSUME NEW c \in Calls, OnFinal(c)
      PROVE  EstimateKept
  <2>1. \/ UNCHANGED money
        \/ \E a \in Accounted(c) \cup {Unavailable(c)} : Charge(c, a)
    BY <1>5 DEF OnFinal
  <2>2. QED
    BY <1>t, <1>m, <2>1, ChargeKeepsEstimate
<1>6. ASSUME NEW c \in Calls, Close(c)
      PROVE  EstimateKept
  BY <1>t, <1>m, <1>6, ChargeKeepsEstimate DEF Close
<1>7. CASE UNCHANGED vars
  BY <1>7, <1>m DEF vars, money
<1>8. QED
  BY <1>1, <1>2, <1>3, <1>4, <1>5, <1>6, <1>7 DEF Next

\* A call that leaves the reservations without trusted usage costs exactly what
\* it had reserved, for any number of calls and any amounts.
THEOREM ClientKeepsUnknownEstimates == Spec => UnknownKeepsEstimate
<1>1. IInv /\ [Next]_vars => [EstimateKept]_vars
  BY StepKeepsEstimate
<1>2. QED
  BY <1>1, ClientInvariant, PTL DEF Spec, UnknownKeepsEstimate, EstimateKept
-----------------------------------------------------------------------------
(* Pricing: what the reports of the providers come to.                      *)

\* The usage that is true of the tokens of a call.
TrueUsage(counts, t) ==
  /\ counts.prompt = InputOf(t) /\ counts.completion = OutputOf(t)
  /\ counts.read = t.read
  /\ counts.write = t.write + t.write1h /\ counts.write1h = t.write1h
  /\ IsValid(counts)

LEMMA TokensAmounts ==
  ASSUME NEW t \in Tokens
  PROVE  /\ t.fresh \in Nat /\ t.read \in Nat /\ t.write \in Nat /\ t.write1h \in Nat
         /\ t.visible \in Nat /\ t.thinking \in Nat
         /\ InputOf(t) \in Nat /\ OutputOf(t) \in Nat
BY PricingAssumption DEF Tokens, InputOf, OutputOf

LEMMA OpenAIReports ==
  ASSUME NEW t \in Tokens, NEW r, r.kind = "openai", MayWrite(r, t),
         NEW garbled \in SUBSET DOMAIN Report("openai", t)
  PROVE  LET counts == Usage("openai", Garble(Report("openai", t), garbled))
         IN  IF garbled = {} THEN TrueUsage(counts, t) ELSE ~IsValid(counts)
<1> DEFINE report == [prompt |-> InputOf(t), cached |-> t.read, cache_write |-> t.write,
                      completion |-> OutputOf(t), reasoning |-> t.thinking]
           read == Garble(report, garbled)
           counts == UsageFromOpenAI(read)
<1>1. Report("openai", t) = report
  BY Zenon DEF Report
<1>2. Usage("openai", Garble(report, garbled)) = counts
  BY Zenon DEF Usage
<1>3. ASSUME garbled = {} PROVE TrueUsage(counts, t)
  <2>1. /\ Count(read, "prompt") = InputOf(t)
        /\ Count(read, "cached") = t.read
        /\ Count(read, "cache_write") = t.write
        /\ Count(read, "completion") = OutputOf(t)
        /\ Count(read, "reasoning") = t.thinking
    BY <1>3 DEF Garble, Count
  <2> HIDE DEF read
  <2>2. QED
    BY <2>1, TokensAmounts DEF TrueUsage, UsageFromOpenAI, TokenUsage, IsValid, MayWrite
<1>4. ASSUME garbled # {} PROVE ~IsValid(counts)
  <2> DEFINE fields == {"prompt", "cached", "cache_write", "completion", "reasoning"}
  <2>1. garbled \subseteq fields /\ DOMAIN report = fields
    BY <1>1
  <2>2. PICK f \in fields : f \in garbled
    BY <1>4, <2>1
  <2>3. Count(read, f) = Invalid
    BY <2>1, <2>2 DEF Garble, Count
  <2>4. \A g \in fields : report[g] \in Nat
    BY TokensAmounts
  <2>5. \A g \in fields : Count(read, g) \in Int
    <3> HIDE DEF report
    <3>1. QED
      BY <2>1, <2>4 DEF Garble, Count, Invalid
  <2> HIDE DEF read
  <2>6. QED
    BY <2>3, <2>5 DEF UsageFromOpenAI, TokenUsage, IsValid, Total, Invalid
<1>5. QED
  BY <1>1, <1>2, <1>3, <1>4

LEMMA AnthropicReports ==
  ASSUME NEW t \in Tokens, NEW r, r.kind = "anthropic", MayWrite(r, t),
         NEW garbled \in SUBSET DOMAIN Report("anthropic", t)
  PROVE  LET counts == Usage("anthropic", Garble(Report("anthropic", t), garbled))
         IN  IF garbled = {} THEN TrueUsage(counts, t) ELSE ~IsValid(counts)
<1> DEFINE report == [input |-> t.fresh, cache_read |-> t.read, cache_creation |-> t.write + t.write1h,
                      ephemeral_1h |-> t.write1h, output |-> OutputOf(t), thinking |-> t.thinking]
           read == Garble(report, garbled)
           counts == UsageFromAnthropic(read)
<1>1. Report("anthropic", t) = report
  BY Zenon DEF Report
<1>2. Usage("anthropic", Garble(report, garbled)) = counts
  BY Zenon DEF Usage
<1>3. ASSUME garbled = {} PROVE TrueUsage(counts, t)
  <2>1. /\ Count(read, "input") = t.fresh
        /\ Count(read, "cache_read") = t.read
        /\ Count(read, "cache_creation") = t.write + t.write1h
        /\ Count(read, "ephemeral_1h") = t.write1h
        /\ Count(read, "output") = OutputOf(t)
        /\ Count(read, "thinking") = t.thinking
    BY <1>3 DEF Garble, Count
  <2> HIDE DEF read
  <2>2. QED
    BY <2>1, TokensAmounts DEF TrueUsage, UsageFromAnthropic, TokenUsage, IsValid, Total, InputOf
<1>4. ASSUME garbled # {} PROVE ~IsValid(counts)
  <2> DEFINE fields == {"input", "cache_read", "cache_creation", "ephemeral_1h", "output", "thinking"}
  <2>1. garbled \subseteq fields /\ DOMAIN report = fields
    BY <1>1
  <2>2. PICK f \in fields : f \in garbled
    BY <1>4, <2>1
  <2>3. Count(read, f) = Invalid
    BY <2>1, <2>2 DEF Garble, Count
  <2>4. \A g \in fields : report[g] \in Nat
    BY TokensAmounts
  <2>5. \A g \in fields : Count(read, g) \in Int
    <3> HIDE DEF report
    <3>1. QED
      BY <2>1, <2>4 DEF Garble, Count, Invalid
  <2> HIDE DEF read
  <2>6. QED
    BY <2>3, <2>5 DEF UsageFromAnthropic, TokenUsage, IsValid, Total, Invalid
<1>5. QED
  BY <1>1, <1>2, <1>3, <1>4

LEMMA GeminiReports ==
  ASSUME NEW t \in Tokens, NEW r, r.kind = "google", MayWrite(r, t),
         NEW garbled \in SUBSET DOMAIN Report("google", t)
  PROVE  LET counts == Usage("google", Garble(Report("google", t), garbled))
         IN  IF garbled = {} THEN TrueUsage(counts, t) ELSE ~IsValid(counts)
<1> DEFINE report == [prompt |-> t.read, tool_use |-> t.fresh, cached |-> t.read,
                      candidates |-> t.visible, thoughts |-> t.thinking]
           read == Garble(report, garbled)
           counts == UsageFromGemini(read)
<1>1. Report("google", t) = report
  BY Zenon DEF Report
<1>2. Usage("google", Garble(report, garbled)) = counts
  BY Zenon DEF Usage
<1>3. ASSUME garbled = {} PROVE TrueUsage(counts, t)
  <2>1. /\ Count(read, "prompt") = t.read
        /\ Count(read, "tool_use") = t.fresh
        /\ Count(read, "cached") = t.read
        /\ Count(read, "candidates") = t.visible
        /\ Count(read, "thoughts") = t.thinking
    BY <1>3 DEF Garble, Count
  <2> HIDE DEF read
  <2>2. QED
    BY <2>1, TokensAmounts
    DEF TrueUsage, UsageFromGemini, TokenUsage, IsValid, Total, InputOf, OutputOf, MayWrite
<1>4. ASSUME garbled # {} PROVE ~IsValid(counts)
  <2> DEFINE fields == {"prompt", "tool_use", "cached", "candidates", "thoughts"}
  <2>1. garbled \subseteq fields /\ DOMAIN report = fields
    BY <1>1
  <2>2. PICK f \in fields : f \in garbled
    BY <1>4, <2>1
  <2>3. Count(read, f) = Invalid
    BY <2>1, <2>2 DEF Garble, Count
  <2>4. \A g \in fields : report[g] \in Nat
    BY TokensAmounts
  <2>5. \A g \in fields : Count(read, g) \in Int
    <3> HIDE DEF report
    <3>1. QED
      BY <2>1, <2>4 DEF Garble, Count, Invalid
  <2> HIDE DEF read
  <2>6. QED
    BY <2>3, <2>5 DEF UsageFromGemini, TokenUsage, IsValid, Total, Invalid
<1>5. QED
  BY <1>1, <1>2, <1>3, <1>4

LEMMA LangChainReports ==
  ASSUME NEW t \in Tokens, NEW r, r.kind = "langchain", MayWrite(r, t),
         NEW garbled \in SUBSET DOMAIN Report("langchain", t)
  PROVE  LET counts == Usage("langchain", Garble(Report("langchain", t), garbled))
         IN  IF garbled = {} THEN TrueUsage(counts, t) ELSE ~IsValid(counts)
<1> DEFINE report == [input |-> InputOf(t), cache_read |-> t.read, cache_creation |-> 0,
                      ephemeral_5m |-> t.write, ephemeral_1h |-> t.write1h,
                      output |-> OutputOf(t), reasoning |-> t.thinking]
           read == Garble(report, garbled)
           counts == UsageFromMetadata(read)
<1>1. Report("langchain", t) = report
  BY Zenon DEF Report
<1>2. Usage("langchain", Garble(report, garbled)) = counts
  BY Zenon DEF Usage
<1>3. ASSUME garbled = {} PROVE TrueUsage(counts, t)
  <2>1. /\ Count(read, "input") = InputOf(t)
        /\ Count(read, "cache_read") = t.read
        /\ Count(read, "cache_creation") = 0
        /\ Count(read, "ephemeral_5m") = t.write
        /\ Count(read, "ephemeral_1h") = t.write1h
        /\ Count(read, "output") = OutputOf(t)
        /\ Count(read, "reasoning") = t.thinking
    BY <1>3 DEF Garble, Count
  <2> HIDE DEF read
  <2>2. QED
    BY <2>1, TokensAmounts DEF TrueUsage, UsageFromMetadata, TokenUsage, IsValid, Total
<1>4. ASSUME garbled # {} PROVE ~IsValid(counts)
  <2> DEFINE fields == {"input", "cache_read", "cache_creation", "ephemeral_5m", "ephemeral_1h",
                        "output", "reasoning"}
  <2>1. garbled \subseteq fields /\ DOMAIN report = fields
    BY <1>1
  <2>2. PICK f \in fields : f \in garbled
    BY <1>4, <2>1
  <2>3. Count(read, f) = Invalid
    BY <2>1, <2>2 DEF Garble, Count
  <2>4. \A g \in fields : report[g] \in Nat
    BY TokensAmounts
  <2>5. \A g \in fields : Count(read, g) \in Int
    <3> HIDE DEF report
    <3>1. QED
      BY <2>1, <2>4 DEF Garble, Count, Invalid
  <2>6. Count(read, "cache_creation") \in {0, Invalid}
    BY DEF Garble, Count
  <2> HIDE DEF read
  <2>7. counts.write = IF Count(read, "cache_creation") = 0
                       THEN Total(Count(read, "ephemeral_5m"), Count(read, "ephemeral_1h"))
                       ELSE Count(read, "cache_creation")
    BY DEF UsageFromMetadata, TokenUsage
  <2>8. CASE f \in {"cache_creation", "ephemeral_5m"}
    BY <2>3, <2>5, <2>6, <2>7, <2>8 DEF UsageFromMetadata, TokenUsage, IsValid, Total, Invalid
  <2>9. CASE f \notin {"cache_creation", "ephemeral_5m"}
    BY <2>3, <2>9 DEF UsageFromMetadata, TokenUsage, IsValid, Invalid
  <2>10. QED
    BY <2>8, <2>9
<1>5. QED
  BY <1>1, <1>2, <1>3, <1>4

\* A report comes to the usage that is true of the tokens, or to an invalid one if one of
\* its counts is no amount, whatever the provider.
LEMMA ReportsRead ==
  ASSUME NEW t \in Tokens, NEW r, r.kind \in Kinds, MayWrite(r, t),
         NEW garbled \in SUBSET DOMAIN Report(r.kind, t)
  PROVE  LET counts == Usage(r.kind, Garble(Report(r.kind, t), garbled))
         IN  IF garbled = {} THEN TrueUsage(counts, t) ELSE ~IsValid(counts)
<1>1. CASE r.kind = "openai"
  BY <1>1, OpenAIReports
<1>2. CASE r.kind = "anthropic"
  BY <1>2, AnthropicReports
<1>3. CASE r.kind = "google"
  BY <1>3, GeminiReports
<1>4. CASE r.kind = "langchain"
  BY <1>4, LangChainReports
<1>5. QED
  BY <1>1, <1>2, <1>3, <1>4 DEF Kinds, Wrapped

-----------------------------------------------------------------------------
(* Pricing: rates and bills.                                                *)

\* The rates of an entry are amounts.
LEMMA TiersAmounts ==
  ASSUME NEW price, IsPrice(price), NEW tier \in Tiers(price)
  PROVE  tier[1] \in Nat /\ tier[2] \in Nat
<1>1. CASE tier = <<price.input, price.output>>
  BY <1>1 DEF IsPrice
<1>2. CASE price.long # <<>> /\ tier = <<price.long[2], price.long[3]>>
  BY <1>2 DEF IsPrice
<1>3. CASE price.fast # <<>> /\ tier = price.fast
  BY <1>3 DEF IsPrice
<1>4. QED
  BY <1>1, <1>2, <1>3 DEF Tiers

LEMMA RatesAreTier ==
  ASSUME NEW price, NEW prompt, NEW fast
  PROVE  Rates(price, prompt, fast) \in Tiers(price)
BY DEF Rates, Tiers

\* The input of a call in quarters of its price.
InputUnits(t, cache) ==
  4 * t.fresh + t.read * cache.read + t.write * cache.write + t.write1h * cache.write1h

LEMMA UnitsAmount ==
  ASSUME NEW t \in Tokens, NEW cache, {cache.read, cache.write, cache.write1h} \subseteq Nat
  PROVE  InputUnits(t, cache) \in Nat
<1>1. /\ t.read * cache.read \in Nat /\ t.write * cache.write \in Nat
      /\ t.write1h * cache.write1h \in Nat /\ 4 * t.fresh \in Nat
  BY TokensAmounts
<1>2. QED
  BY <1>1 DEF InputUnits

\* No clamp takes effect on a true usage.
LEMMA PriceExact ==
  ASSUME NEW t \in Tokens, NEW counts, TrueUsage(counts, t), NEW i \in Nat, NEW o \in Nat,
         NEW cache, {cache.read, cache.write, cache.write1h} \subseteq Nat
  PROVE  /\ Price(counts, i, o, cache) = i * InputUnits(t, cache) + 4 * o * OutputOf(t)
         /\ Price(counts, i, o, cache) \in Nat
<1> DEFINE
      read == AtMost(counts.read, counts.prompt)
      write == AtMost(counts.write, counts.prompt - read)
      write1h == AtMost(counts.write1h, write)
<1>1. read = t.read
  <2>1. t.read <= InputOf(t) /\ t.read \in Nat /\ InputOf(t) \in Nat
    BY TokensAmounts DEF InputOf
  <2>2. QED
    BY <2>1 DEF TrueUsage, AtMost
<1>2. write = t.write + t.write1h
  BY <1>1, TokensAmounts DEF TrueUsage, AtMost, InputOf
<1>3. write1h = t.write1h
  BY <1>2, TokensAmounts DEF TrueUsage, AtMost
<1>4. counts.prompt - read - write = t.fresh /\ write - write1h = t.write
  BY <1>1, <1>2, <1>3, TokensAmounts DEF TrueUsage, InputOf
<1>5. Price(counts, i, o, cache) =
        i * (4 * (counts.prompt - read - write) + read * cache.read
              + (write - write1h) * cache.write + write1h * cache.write1h)
          + 4 * o * counts.completion
  BY DEF Price, TrueUsage
<1> HIDE DEF read, write, write1h
<1>6. Price(counts, i, o, cache) = i * InputUnits(t, cache) + 4 * o * OutputOf(t)
  BY <1>1, <1>3, <1>4, <1>5 DEF InputUnits, TrueUsage
<1>7. i * InputUnits(t, cache) \in Nat /\ 4 * o * OutputOf(t) \in Nat
  BY UnitsAmount, TokensAmounts
<1>8. QED
  BY <1>6, <1>7

\* Pricing a true usage at the rates of an entry gives the bill at that entry.
LEMMA CostExact ==
  ASSUME NEW price, IsPrice(price), NEW c, c.tokens \in Tokens,
         NEW counts, TrueUsage(counts, c.tokens)
  PROVE  LET rates == Rates(price, counts.prompt, c.fast)
         IN  /\ Modifier(Price(counts, rates[1], rates[2], price.cache), c.request.geo) = BillAt(price, c)
             /\ BillAt(price, c) \in Nat
<1> DEFINE rates == Rates(price, counts.prompt, c.fast)
           cost == Price(counts, rates[1], rates[2], price.cache)
           tenths == IF c.request.geo = "us" THEN 11 ELSE 10
<1>1. rates[1] \in Nat /\ rates[2] \in Nat
  BY RatesAreTier, TiersAmounts
<1>2. /\ cost = rates[1] * InputUnits(c.tokens, price.cache) + 4 * rates[2] * OutputOf(c.tokens)
      /\ cost \in Nat
  BY <1>1, PriceExact DEF IsPrice
<1>3. BillAt(price, c) =
        (rates[1] * InputUnits(c.tokens, price.cache) + 4 * rates[2] * OutputOf(c.tokens)) * tenths
  BY DEF BillAt, InputUnits, TrueUsage
<1>4. Modifier(cost, c.request.geo) = cost * tenths
  <2> HIDE DEF cost
  <2>1. cost # Invalid
    BY <1>2 DEF Invalid
  <2>2. QED
    BY <2>1 DEF Modifier
<1> HIDE DEF cost, rates
<1>5. cost * tenths \in Nat
  BY <1>2
<1>6. QED
  BY <1>2, <1>3, <1>4, <1>5 DEF cost, rates

\* An invalid usage has no cost.
LEMMA CostInvalid ==
  ASSUME NEW counts, ~IsValid(counts), NEW i, NEW o, NEW cache, NEW geo
  PROVE  Modifier(Price(counts, i, o, cache), geo) = Invalid
BY DEF Price, Modifier

-----------------------------------------------------------------------------
(* Pricing: the dearest of a table, and the entry of a name.                *)

\* Of the sets of the numbers not below one of S, a least one leaves room for its
\* own number only.
LEMMA MaxIsLast ==
  ASSUME NEW S, S \subseteq Nat, IsFiniteSet(S), S # {}
  PROVE  Max(S) \in S /\ \A y \in S : y <= Max(S)
<1> DEFINE From(x) == {y \in S : x <= y}
           T == {From(x) : x \in S}
<1>1. T \subseteq FiniteSubsetsOf(S) /\ T # {}
  <2>1. FiniteSubsetsOf(S) = SUBSET S
    BY FS_FiniteSubsetsOfFinite
  <2>2. T \subseteq SUBSET S /\ T # {}
    OBVIOUS
  <2>3. QED
    BY <2>1, <2>2
<1>2. PICK A \in T : \A B \in T : <<B, A>> \notin StrictSubsetOrdering(S)
  <2> HIDE DEF T
  <2>1. IsWellFoundedOn(StrictSubsetOrdering(S), FiniteSubsetsOf(S))
    BY FS_StrictSubsetOrderingWellFounded
  <2>2. QED
    BY <1>1, <2>1, WFMin
<1>3. PICK x \in S : A = From(x)
  OBVIOUS
<1>4. \A y \in S : y <= x
  <2> SUFFICES ASSUME NEW y \in S, y > x PROVE FALSE
    OBVIOUS
  <2>1. y \in Nat /\ x \in Nat /\ \A z \in S : z \in Nat
    OBVIOUS
  <2>2. From(y) \subseteq From(x)
    <3>1. \A z \in S : y <= z => x <= z
      BY <2>1
    <3>2. QED
      BY <3>1
  <2>3. x \in From(x) /\ x \notin From(y)
    <3>1. x <= x /\ ~(y <= x)
      BY <2>1
    <3>2. QED
      BY <3>1
  <2>4. <<From(y), A>> \in StrictSubsetOrdering(S)
    BY <1>3, <2>2, <2>3 DEF StrictSubsetOrdering
  <2>5. QED
    BY <1>2, <2>4
<1>5. \E z \in S : \A y \in S : z >= y
  BY <1>4
<1>6. Max(S) \in S /\ \A y \in S : Max(S) >= y
  BY <1>5 DEF Max
<1>7. QED
  BY <1>6

\* The values of a function on a finite set.
LEMMA ImageFinite ==
  ASSUME NEW S, IsFiniteSet(S), NEW f, f = [x \in S |-> f[x]]
  PROVE  IsFiniteSet({f[x] : x \in S})
<1>1. f \in Surjection(S, {f[x] : x \in S})
  BY DEF Surjection
<1>2. QED
  BY <1>1, FS_Surjection

\* A name extends one of the keys, or none.
LEMMA LongestIsKey ==
  ASSUME NEW keys, IsFiniteSet(keys), keys \subseteq Seq(STRING), NEW name, Longest(name, keys) # NoKey
  PROVE  Longest(name, keys) \in keys
<1> DEFINE undated == Undated(name.segments)
           prefixes == {key \in keys : IsStrictPrefix(key, undated)}
           best == CHOOSE key \in prefixes : \A k \in prefixes : Len(k) <= Len(key)
<1>1. prefixes # {} => best \in prefixes
  <2> SUFFICES ASSUME prefixes # {} PROVE best \in prefixes
    OBVIOUS
  <2> DEFINE length == [k \in prefixes |-> Len(k)]
             lengths == {length[k] : k \in prefixes}
  <2>1. prefixes \subseteq keys /\ IsFiniteSet(prefixes)
    BY FS_Subset
  <2>2. \A k \in prefixes : Len(k) \in Nat
    BY <2>1
  <2> HIDE DEF prefixes
  <2>3. IsFiniteSet(lengths)
    BY <2>1, ImageFinite
  <2>4. lengths \subseteq Nat /\ lengths # {}
    BY <2>2
  <2>5. Max(lengths) \in lengths /\ \A y \in lengths : y <= Max(lengths)
    <3> HIDE DEF lengths
    <3>1. QED
      BY <2>3, <2>4, MaxIsLast
  <2>6. PICK key \in prefixes : length[key] = Max(lengths)
    BY <2>5
  <2>7. \A k \in prefixes : Len(k) <= Len(key)
    BY <2>5, <2>6
  <2>8. QED
    BY <2>7
<1>2. QED
  BY <1>1 DEF Longest

\* A name is looked up to a key of the table, or to none.
LEMMA FindsKey ==
  ASSUME NEW table, IsTable(table), NEW name, Find(name, table) # NoKey
  PROVE  Find(name, table) \in DOMAIN table
BY LongestIsKey DEF Find, IsTable

\* Neither a name nor what is left of it without its date is a part of the latter.
LEMMA DatedIsNoPrefix ==
  ASSUME NEW segments \in Seq(STRING)
  PROVE  ~IsStrictPrefix(segments, Undated(segments))
<1> DEFINE last == SelectLastInSeq(segments, LAMBDA x : x \notin Stamps)
           I == {i \in 1 .. Len(segments) : segments[i] \notin Stamps}
<1>1. last = IF I # {} THEN Max(I) ELSE 0
  BY DEF SelectLastInSeq
<1>2. last \in 0 .. Len(segments)
  <2>1. IsFiniteSet(I) /\ I \subseteq Nat /\ Len(segments) \in Nat
    BY FS_Interval, FS_Subset
  <2>2. I # {} => Max(I) \in I
    <3> HIDE DEF I
    <3>1. QED
      BY <2>1, MaxIsLast
  <2> HIDE DEF last
  <2>3. QED
    BY <1>1, <2>1, <2>2
<1> HIDE DEF last
<1>3. Undated(segments) = SubSeq(segments, 1, last)
  BY DEF Undated, last
<1>4. Undated(segments) \in Seq(STRING) /\ Len(Undated(segments)) = last
  BY <1>2, <1>3
<1>5. QED
  <2> SUFFICES ASSUME IsStrictPrefix(segments, Undated(segments)) PROVE FALSE
    OBVIOUS
  <2>1. Len(segments) = last
    BY <1>2, <1>4 DEF IsStrictPrefix, IsPrefix
  <2>2. Undated(segments) = segments
    BY <1>3, <2>1
  <2>3. QED
    BY <2>2 DEF IsStrictPrefix

\* A table that has at most one entry more than another, or another entry for one key.
OneMore(before, after) ==
  \E key : /\ DOMAIN after = DOMAIN before \cup {key}
           /\ \A k \in DOMAIN before \ {key} : after[k] = before[k]

\* A scan of the keys of a table that may have one more than when the name was looked up
\* as it is finds what a look-up at one of the two moments would.
LEMMA ScanFinds ==
  ASSUME NEW before, NEW after, OneMore(before, after),
         NEW name, name.segments \in Seq(STRING),
         name.segments \notin DOMAIN before, Undated(name.segments) \notin DOMAIN before
  PROVE  Longest(name, DOMAIN after) \in {Find(name, before), Find(name, after)}
<1> DEFINE undated == Undated(name.segments)
<1>1. PICK key : DOMAIN after = DOMAIN before \cup {key}
  BY DEF OneMore
<1>2. CASE name.segments \notin DOMAIN after /\ undated \notin DOMAIN after
  BY <1>2 DEF Find
<1>3. CASE name.segments \in DOMAIN after \/ undated \in DOMAIN after
  <2>1. key \in {name.segments, undated}
    BY <1>1, <1>3
  <2>2. ~IsStrictPrefix(key, undated)
    BY <2>1, DatedIsNoPrefix DEF IsStrictPrefix
  <2>3. {k \in DOMAIN after : IsStrictPrefix(k, undated)} = {k \in DOMAIN before : IsStrictPrefix(k, undated)}
    BY <1>1, <2>2
  <2>4. Longest(name, DOMAIN after) = Longest(name, DOMAIN before)
    <3> DEFINE Begun(keys) == {k \in keys : IsStrictPrefix(k, undated)}
               Best(keys) == CHOOSE longest \in Begun(keys) : \A k \in Begun(keys) : Len(k) <= Len(longest)
    <3>1. Begun(DOMAIN after) = Begun(DOMAIN before)
      BY <2>3
    <3>2. Best(DOMAIN after) = Best(DOMAIN before)
      <4> HIDE DEF Begun
      <4>1. QED
        BY <3>1
    <3>3. \A keys : Longest(name, keys) =
            IF Begun(keys) = {}
                 \/ ToSet(SubSeq(undated, Len(Best(keys)) + 1, Len(undated))) \cap PricierVariants # {}
            THEN NoKey ELSE Best(keys)
      BY DEF Longest
    <3> HIDE DEF Begun, Best
    <3>4. QED
      BY <3>1, <3>2, <3>3
  <2>5. QED
    BY <2>4 DEF Find
<1>4. QED
  BY <1>2, <1>3

\* What is found at one of the two moments has the entry of that moment.
LEMMA OneMoreEntry ==
  ASSUME NEW before, IsTable(before), NEW after, IsTable(after), OneMore(before, after), NEW name,
         NEW key, key \in {Find(name, before), Find(name, after)}, key # NoKey
  PROVE  \/ after[key] = before[Find(name, before)]
         \/ after[key] = after[Find(name, after)]
<1>1. PICK new : /\ DOMAIN after = DOMAIN before \cup {new}
                 /\ \A k \in DOMAIN before \ {new} : after[k] = before[k]
  BY DEF OneMore
<1>2. CASE key = Find(name, after)
  BY <1>2
<1>3. CASE key = Find(name, before)
  <2>1. key \in DOMAIN before
    BY <1>3, FindsKey
  <2>2. CASE key = new
    <3>1. DOMAIN after = DOMAIN before
      BY <1>1, <2>1, <2>2
    <3>2. Find(name, after) = Find(name, before)
      BY <3>1 DEF Find
    <3>3. QED
      BY <1>3, <3>2
  <2>3. CASE key # new
    BY <1>1, <1>3, <2>1, <2>3
  <2>4. QED
    BY <2>2, <2>3
<1>4. QED
  BY <1>2, <1>3

\* The entry of a provider's ceiling.
LEMMA CeilingDearest ==
  ASSUME NEW entries, IsFiniteSet(entries), entries # {}, \A p \in entries : IsPrice(p),
         NEW provider
  PROVE  LET top == CeilingOf(entries, provider)
         IN  /\ IsPrice(top) /\ top.long = <<>> /\ top.fast = <<>> /\ top.cache.read = 4
             /\ \A p \in entries :
                  /\ \A tier \in Tiers(p) : tier[1] <= top.input /\ tier[2] <= top.output
                  /\ p.cache.write <= top.cache.write /\ p.cache.write1h <= top.cache.write1h
<1> DEFINE
      tiers == [p \in entries |-> Tiers(p)]
      rates == UNION {Tiers(p) : p \in entries}
      inputs == {r[1] : r \in rates}
      outputs == {r[2] : r \in rates}
      writes == {p.cache.write : p \in entries}
      writes1h == {p.cache.write1h : p \in entries}
<1>1. IsFiniteSet(rates)
  <2>1. {tiers[p] : p \in entries} = {Tiers(p) : p \in entries}
    OBVIOUS
  <2>2. IsFiniteSet({tiers[p] : p \in entries})
    <3> HIDE DEF tiers
    <3>1. tiers = [p \in entries |-> tiers[p]]
      BY DEF tiers
    <3>2. QED
      BY <3>1, ImageFinite
  <2>3. \A p \in entries : IsFiniteSet(Tiers(p))
    <3> TAKE p \in entries
    <3>1. IsFiniteSet({<<p.input, p.output>>})
      BY FS_Singleton
    <3>2. IsFiniteSet(IF p.long = <<>> THEN {} ELSE {<<p.long[2], p.long[3]>>})
      BY FS_Singleton, FS_EmptySet
    <3>3. IsFiniteSet(IF p.fast = <<>> THEN {} ELSE {p.fast})
      BY FS_Singleton, FS_EmptySet
    <3>4. QED
      BY <3>1, <3>2, <3>3, FS_Union DEF Tiers
  <2>4. QED
    BY <2>1, <2>2, <2>3, FS_UNION
<1>2. rates # {} /\ \A r \in rates : r[1] \in Nat /\ r[2] \in Nat
  <2>1. \A p \in entries : <<p.input, p.output>> \in rates
    BY DEF Tiers
  <2>2. \A r \in rates : r[1] \in Nat /\ r[2] \in Nat
    BY TiersAmounts
  <2>3. QED
    BY <2>1, <2>2
<1>3. /\ Max(inputs) \in Nat /\ \A r \in rates : r[1] <= Max(inputs)
      /\ Max(outputs) \in Nat /\ \A r \in rates : r[2] <= Max(outputs)
  <2> DEFINE first == [r \in rates |-> r[1]]
             second == [r \in rates |-> r[2]]
  <2> HIDE DEF rates
  <2>1. inputs = {first[r] : r \in rates} /\ outputs = {second[r] : r \in rates}
    OBVIOUS
  <2>2. /\ first = [r \in rates |-> first[r]]
        /\ second = [r \in rates |-> second[r]]
    OBVIOUS
  <2>3. IsFiniteSet(inputs) /\ IsFiniteSet(outputs)
    <3> HIDE DEF first, second, inputs, outputs
    <3>1. QED
      BY <1>1, <2>1, <2>2, ImageFinite
  <2>4. inputs \subseteq Nat /\ outputs \subseteq Nat /\ inputs # {} /\ outputs # {}
    BY <1>2
  <2>5. /\ Max(inputs) \in inputs /\ \A y \in inputs : y <= Max(inputs)
        /\ Max(outputs) \in outputs /\ \A y \in outputs : y <= Max(outputs)
    <3> HIDE DEF inputs, outputs
    <3>1. QED
      BY <2>3, <2>4, MaxIsLast
  <2>6. \A r \in rates : r[1] \in inputs /\ r[2] \in outputs
    OBVIOUS
  <2>7. QED
    BY <2>4, <2>5, <2>6
<1>4. /\ Max(writes) \in Nat /\ \A p \in entries : p.cache.write <= Max(writes)
      /\ Max(writes1h) \in Nat /\ \A p \in entries : p.cache.write1h <= Max(writes1h)
  <2> DEFINE short == [p \in entries |-> p.cache.write]
             long == [p \in entries |-> p.cache.write1h]
  <2>1. writes = {short[p] : p \in entries} /\ writes1h = {long[p] : p \in entries}
    OBVIOUS
  <2>2. /\ short = [p \in entries |-> short[p]]
        /\ long = [p \in entries |-> long[p]]
    OBVIOUS
  <2>3. IsFiniteSet(writes) /\ IsFiniteSet(writes1h)
    <3> HIDE DEF short, long, writes, writes1h
    <3>1. QED
      BY <2>1, <2>2, ImageFinite
  <2>4. writes \subseteq Nat /\ writes1h \subseteq Nat /\ writes # {} /\ writes1h # {}
    BY DEF IsPrice
  <2>5. /\ Max(writes) \in writes /\ \A y \in writes : y <= Max(writes)
        /\ Max(writes1h) \in writes1h /\ \A y \in writes1h : y <= Max(writes1h)
    <3> HIDE DEF writes, writes1h
    <3>1. QED
      BY <2>3, <2>4, MaxIsLast
  <2>6. \A p \in entries : p.cache.write \in writes /\ p.cache.write1h \in writes1h
    OBVIOUS
  <2>7. QED
    BY <2>4, <2>5, <2>6
<1> DEFINE top == ModelPrice(provider, Max(inputs), Max(outputs),
                            CacheRates(4, Max(writes), Max(writes1h)), <<>>, <<>>)
<1>5. CeilingOf(entries, provider) = top
  BY Zenon DEF CeilingOf
<1>6. \A p \in entries : \A tier \in Tiers(p) : tier \in rates
  OBVIOUS
<1> HIDE DEF inputs, outputs, writes, writes1h, rates
<1>7. /\ top.input = Max(inputs) /\ top.output = Max(outputs) /\ top.long = <<>> /\ top.fast = <<>>
      /\ top.cache.read = 4 /\ top.cache.write = Max(writes) /\ top.cache.write1h = Max(writes1h)
  BY DEF ModelPrice, CacheRates
<1> HIDE DEF top
<1>8. IsPrice(top)
  BY <1>3, <1>4, <1>7 DEF IsPrice
<1>9. QED
  BY <1>3, <1>4, <1>5, <1>6, <1>7, <1>8

\* What the ceilings of a table hold.
IsCeiling(top, table, p) ==
  /\ IsPrice(top) /\ top.long = <<>> /\ top.fast = <<>> /\ top.cache.read = 4
  /\ \A k \in DOMAIN table :
       p \in {"none", table[k].provider} =>
         /\ \A tier \in Tiers(table[k]) : tier[1] <= top.input /\ tier[2] <= top.output
         /\ table[k].cache.write <= top.cache.write
         /\ table[k].cache.write1h <= top.cache.write1h

\* No entry is dearer than a ceiling that it counts for.
LEMMA CeilingOfTable ==
  ASSUME NEW table, IsTable(table), NEW p, EntriesOf(table, p) # {}
  PROVE  IsCeiling(CeilingOf(EntriesOf(table, p), p), table, p)
<1> DEFINE keys == {k \in DOMAIN table : p \in {"none", table[k].provider}}
           at == [k \in keys |-> table[k]]
           entries == EntriesOf(table, p)
<1>1. entries = {at[k] : k \in keys} /\ at = [k \in keys |-> at[k]]
  BY DEF EntriesOf
<1>2. IsFiniteSet(keys)
  BY FS_Subset DEF IsTable
<1>3. \A e \in entries : IsPrice(e)
  BY <1>1 DEF IsTable
<1>4. IsFiniteSet(entries)
  <2> HIDE DEF at, keys, entries
  <2>1. QED
    BY <1>1, <1>2, ImageFinite
<1>5. \A k \in DOMAIN table : p \in {"none", table[k].provider} => table[k] \in entries
  BY DEF EntriesOf
<1> HIDE DEF entries
<1>6. entries # {}
  BY DEF entries
<1>7. IsCeiling(CeilingOf(entries, p), table, p)
  BY <1>3, <1>4, <1>5, <1>6, CeilingDearest DEF IsCeiling
<1>8. QED
  BY <1>7 DEF entries

LEMMA CeilingsDearest ==
  ASSUME NEW table, IsTable(table)
  PROVE  /\ DOMAIN Ceilings(table) = {table[k].provider : k \in DOMAIN table} \cup {"none"}
         /\ \A p \in DOMAIN Ceilings(table) :
              /\ EntriesOf(table, p) # {}
              /\ Ceilings(table)[p] = CeilingOf(EntriesOf(table, p), p)
              /\ IsCeiling(Ceilings(table)[p], table, p)
<1>1. DOMAIN Ceilings(table) = {table[k].provider : k \in DOMAIN table} \cup {"none"}
  BY DEF Ceilings
<1>2. ASSUME NEW p \in DOMAIN Ceilings(table)
      PROVE  EntriesOf(table, p) # {} /\ Ceilings(table)[p] = CeilingOf(EntriesOf(table, p), p)
  <2>1. PICK k \in DOMAIN table : p \in {"none", table[k].provider}
    BY <1>1, <1>2 DEF IsTable
  <2>2. EntriesOf(table, p) # {}
    BY <2>1 DEF EntriesOf
  <2>3. QED
    BY <1>1, <1>2, <2>2 DEF Ceilings
<1>3. QED
  BY <1>1, <1>2, CeilingOfTable

-----------------------------------------------------------------------------
(* Pricing: the invariant.                                                  *)

RegisterStages == {"idle", "inserted", "computing", "failed", "done"}

\* A ceiling by which a price can always be computed.
IsTop(top) == IsPrice(top) /\ top.long = <<>> /\ top.fast = <<>> /\ top.cache.read = 4

IsCeilings(tops) == "none" \in DOMAIN tops /\ \A p \in DOMAIN tops : IsTop(tops[p])

TablesOK ==
  /\ IsTable(prices)
  /\ IsCeilings(ceilings)
  /\ stage \in [Registrars -> RegisterStages]
  /\ DOMAIN own = Registrars /\ DOMAIN todo = Registrars /\ DOMAIN disturbed = Registrars
  /\ \A r \in Registrars :
       IF stage[r] = "computing"
       THEN "none" \in DOMAIN own[r] \cup todo[r] /\ \A p \in DOMAIN own[r] : IsTop(own[r][p])
       ELSE todo[r] = {} /\ own[r] = <<>>

\* Registrations that do not overlap leave the ceilings of the table behind.
CeilingsCurrent ==
  ~crossed =>
    /\ \A q, r \in Registrars : stage[q] \in Busy /\ stage[r] \in Busy => q = r
    /\ \A r \in Registrars : ~disturbed[r]
    /\ \A r \in Registrars : stage[r] = "computing" =>
         /\ todo[r] \subseteq DOMAIN Ceilings(prices)
         /\ own[r] = [p \in DOMAIN Ceilings(prices) \ todo[r] |-> Ceilings(prices)[p]]
    /\ (\A r \in Registrars : stage[r] \notin Busy) => ceilings = Ceilings(prices)

PricingTables == TablesOK /\ CeilingsCurrent

\* A request is under way with the estimate of the prices as they are, unless they changed.
EstimateCurrent ==
  call.stage \in {"sent", "looking", "priced"} =>
    /\ call.request \in Requests
    /\ call.stage # "sent" => (call.fast => call.request.fast)
    /\ settled = "asked" /\ call.request.via = "wrap" => call.estimate = PrecallWorstcase(call.request)

\* What the prices were when the usage arrived, and what became of them.
BeforeKept ==
  call.stage \in {"looking", "priced"} =>
    /\ IsTable(call.before)
    /\ DOMAIN call.before \subseteq DOMAIN prices
    /\ inserted \in Nat
    /\ inserted = 0 => prices = call.before
    /\ inserted = 1 => OneMore(call.before, prices)
    /\ settled # "no" => inserted = 0

LookingFields ==
  {"stage", "request", "estimate", "fast", "garbled", "use", "at", "keys", "key", "entry", "before"}

\* How far a look-up has come.
LookUpOK ==
  call.stage = "looking" =>
    /\ DOMAIN call = LookingFields
    /\ call.use \in {"known", "price", "metadata"}
    /\ call.use # "price" => call.request.via = "wrap"
    /\ call.at \in {"undated", "prefix", "scan"} => call.request.name.segments \notin DOMAIN call.before
    /\ call.at \in {"prefix", "scan"} => Undated(call.request.name.segments) \notin DOMAIN call.before
    /\ call.at = "scan" => DOMAIN call.before \subseteq call.keys /\ call.keys \subseteq DOMAIN prices
    /\ call.at = "found" =>
         /\ call.key # NoKey => call.key \in DOMAIN prices
         /\ inserted <= 1 => call.key \in {Find(call.request.name, call.before), Find(call.request.name, prices)}
    /\ call.use = "price" /\ call.request.via = "wrap" /\ settled # "no" =>
         ~(Find(call.request.name, prices) = NoKey /\ Lite(call.request.name))

\* Whether a name that is looked up in a table has an entry, unless it has none.
IsEntryIn(entry, name, table) == Find(name, table) # NoKey => entry = table[Find(name, table)]

\* The price that has been found for usage to be trusted.
EntryCurrent ==
  (call.stage = "priced" \/ (call.stage = "looking" /\ call.use = "metadata")) /\ ~call.garbled =>
    /\ IsPrice(call.entry) /\ IsGraded(call.entry)
    /\ inserted <= 1 =>
         \/ IsEntryIn(call.entry, call.request.name, call.before)
         \/ IsEntryIn(call.entry, call.request.name, prices)
    /\ settled # "no" =>
         call.entry = IF call.request.via = "wrap" THEN PriceTokens(call.request.name)
                      ELSE Resolve(call.request.name)

PricingCall == EstimateCurrent /\ BeforeKept /\ LookUpOK /\ EntryCurrent

PricingIInv == PricingTables /\ PricingCall

\* Recomputed ceilings are ceilings.
LEMMA CeilingsAreCeilings ==
  ASSUME NEW table, IsTable(table)
  PROVE  IsCeilings(Ceilings(table))
<1>1. "none" \in DOMAIN Ceilings(table)
  BY CeilingsDearest
<1>2. \A p \in DOMAIN Ceilings(table) : IsCeiling(Ceilings(table)[p], table, p)
  BY CeilingsDearest
<1>3. QED
  BY <1>1, <1>2 DEF IsCeilings, IsTop, IsCeiling

LEMMA PricingInitIInv == PricingInit => PricingIInv
<1> SUFFICES ASSUME PricingInit PROVE PricingIInv
  OBVIOUS
<1>1. IsTable(prices) /\ IsCeilings(ceilings)
  BY PricingAssumption, CeilingsAreCeilings DEF PricingInit
<1>2. TablesOK
  BY <1>1 DEF PricingInit, TablesOK, RegisterStages
<1>3. CeilingsCurrent
  <2>1. /\ \A r \in Registrars : stage[r] = "idle" /\ disturbed[r] = FALSE
        /\ ceilings = Ceilings(prices)
    BY DEF PricingInit
  <2>2. QED
    BY <2>1 DEF CeilingsCurrent, Busy
<1>4. PricingCall
  BY DEF PricingInit, PricingCall, EstimateCurrent, BeforeKept, LookUpOK, EntryCurrent, NoCall
<1>5. QED
  BY <1>2, <1>3, <1>4 DEF PricingIInv, PricingTables

\* A registered price is a price of one tier.
LEMMA EntrySound ==
  ASSUME NEW r \in Registrars
  PROVE  IsPrice(Entry(Registered[r])) /\ IsGraded(Entry(Registered[r]))
<1> DEFINE new == Registered[r]
           entry == Entry(new)
<1>1. /\ entry.input = new.input /\ entry.output = new.output
      /\ entry.long = <<>> /\ entry.fast = <<>>
      /\ entry.cache.read = new.read /\ entry.cache.write = new.write /\ entry.cache.write1h = new.write
  BY DEF Entry, ModelPrice, CacheRates
<1>2. {new.input, new.output, new.read, new.write} \subseteq Nat
  BY PricingAssumption DEF Registrars
<1> HIDE DEF entry, new
<1>3. IsPrice(entry)
  BY <1>1, <1>2 DEF IsPrice
<1>4. Tiers(entry) = {<<entry.input, entry.output>>}
  BY <1>1 DEF Tiers
<1>5. IsGraded(entry)
  BY <1>1, <1>2, <1>4 DEF IsGraded
<1>6. QED
  BY <1>3, <1>5 DEF entry, new

\* A registration leaves a table with one more entry, or another entry for one key.
LEMMA InsertTable ==
  ASSUME TablesOK, NEW r \in Registrars, Insert(r)
  PROVE  IsTable(prices') /\ DOMAIN prices \subseteq DOMAIN prices' /\ OneMore(prices, prices')
<1> DEFINE key == Registered[r].name.segments
<1>1. key \in Seq(STRING) \ {NoKey}
  BY PricingAssumption DEF Registrars
<1>2. /\ DOMAIN prices' = DOMAIN prices \cup {key}
      /\ \A k \in DOMAIN prices' : prices'[k] = IF k = key THEN Entry(Registered[r]) ELSE prices[k]
  BY DEF Insert
<1>3. IsFiniteSet(DOMAIN prices \cup {key})
  BY FS_AddElement DEF TablesOK, IsTable
<1> HIDE DEF key
<1>4. \A k \in DOMAIN prices' : IsPrice(prices'[k]) /\ IsGraded(prices'[k])
  BY <1>2, EntrySound DEF TablesOK, IsTable
<1>5. IsTable(prices')
  BY <1>1, <1>2, <1>3, <1>4 DEF TablesOK, IsTable
<1>6. OneMore(prices, prices')
  BY <1>2 DEF OneMore
<1>7. QED
  BY <1>2, <1>5, <1>6

LEMMA InsertTables ==
  ASSUME PricingTables, NEW r \in Registrars, Insert(r)
  PROVE  PricingTables'
<1>1. IsTable(prices')
  BY InsertTable DEF PricingTables
<1>2. /\ stage \in [Registrars -> RegisterStages]
      /\ stage[r] = "idle"
      /\ stage' = [stage EXCEPT ![r] = "inserted"]
      /\ ceilings' = ceilings /\ own' = own /\ todo' = todo /\ DOMAIN disturbed' = Registrars
  BY DEF PricingTables, TablesOK, Insert
<1>3. \A q \in Registrars : stage'[q] = IF q = r THEN "inserted" ELSE stage[q]
  BY <1>2
<1>4. TablesOK'
  <2>1. IsCeilings(ceilings)' /\ DOMAIN own' = Registrars /\ DOMAIN todo' = Registrars /\ DOMAIN disturbed' = Registrars
    BY <1>2 DEF PricingTables, TablesOK, IsCeilings
  <2>2. \A q \in Registrars :
          IF stage'[q] = "computing"
          THEN "none" \in DOMAIN own'[q] \cup todo'[q] /\ \A p \in DOMAIN own'[q] : IsTop(own'[q][p])
          ELSE todo'[q] = {} /\ own'[q] = <<>>
    BY <1>2, <1>3 DEF PricingTables, TablesOK
  <2>3. stage' \in [Registrars -> RegisterStages]
    BY <1>2 DEF RegisterStages
  <2>4. QED
    BY <1>1, <2>1, <2>2, <2>3 DEF TablesOK, IsCeilings, IsTop
<1>5. CeilingsCurrent'
  <2> SUFFICES ASSUME ~crossed' PROVE CeilingsCurrent'
    BY DEF CeilingsCurrent
  <2>1. ~crossed /\ \A q \in Registrars : stage[q] \notin Busy
    BY DEF Insert
  <2>2. \A q \in Registrars : disturbed'[q] = (disturbed[q] \/ (stage[q] \in Busy /\ Registered[r].name.segments \notin DOMAIN prices))
    BY Zenon DEF Insert
  <2>3. \A q \in Registrars : ~disturbed'[q]
    BY <2>1, <2>2, Zenon DEF PricingTables, CeilingsCurrent
  <2>4. /\ \A q \in Registrars : q # r => stage'[q] \notin Busy
        /\ stage'[r] \in Busy /\ \A q \in Registrars : stage'[q] # "computing"
    BY <1>3, <2>1 DEF Busy
  <2>5. QED
    BY <2>3, <2>4, Zenon DEF CeilingsCurrent
<1>6. QED
  BY <1>4, <1>5 DEF PricingTables

LEMMA ListTables ==
  ASSUME PricingTables, NEW r \in Registrars, ListProviders(r)
  PROVE  PricingTables'
<1> DEFINE all == {prices[k].provider : k \in DOMAIN prices} \cup {"none"}
<1>1. /\ stage \in [Registrars -> RegisterStages]
      /\ stage[r] = "inserted"
      /\ stage' = [stage EXCEPT ![r] = "computing"]
      /\ todo' = [todo EXCEPT ![r] = all]
      /\ disturbed' = [disturbed EXCEPT ![r] = FALSE]
      /\ ceilings' = ceilings /\ own' = own /\ prices' = prices /\ crossed' = crossed
      /\ DOMAIN todo = Registrars /\ DOMAIN disturbed = Registrars /\ todo[r] = {} /\ own[r] = <<>>
  BY DEF PricingTables, TablesOK, ListProviders
<1>2. \A q \in Registrars : /\ stage'[q] = IF q = r THEN "computing" ELSE stage[q]
                            /\ todo'[q] = IF q = r THEN all ELSE todo[q]
  BY <1>1
<1>3. TablesOK'
  <2>1. /\ IsTable(prices)' /\ IsCeilings(ceilings)' /\ DOMAIN own' = Registrars
        /\ DOMAIN todo' = Registrars /\ DOMAIN disturbed' = Registrars
    BY <1>1 DEF PricingTables, TablesOK, IsCeilings, IsTable
  <2>2. \A q \in Registrars :
          IF stage'[q] = "computing"
          THEN "none" \in DOMAIN own'[q] \cup todo'[q] /\ \A p \in DOMAIN own'[q] : IsTop(own'[q][p])
          ELSE todo'[q] = {} /\ own'[q] = <<>>
    BY <1>1, <1>2 DEF PricingTables, TablesOK
  <2>3. stage' \in [Registrars -> RegisterStages]
    BY <1>1 DEF RegisterStages
  <2>4. QED
    BY <2>1, <2>2, <2>3 DEF TablesOK, IsCeilings, IsTop
<1>4. CeilingsCurrent'
  <2> SUFFICES ASSUME ~crossed' PROVE CeilingsCurrent'
    BY DEF CeilingsCurrent
  <2>1. ~crossed /\ CeilingsCurrent
    BY <1>1 DEF PricingTables
  <2>2. Ceilings(prices)' = Ceilings(prices) /\ DOMAIN Ceilings(prices) = all
    BY <1>1, CeilingsDearest DEF Ceilings, PricingTables, TablesOK
  <2>3. \A q \in Registrars : ~disturbed'[q]
    BY <1>1, <2>1, Zenon DEF CeilingsCurrent
  <2>4. \A q \in Registrars : (stage'[q] \in Busy) <=> (stage[q] \in Busy)
    BY <1>1, <1>2 DEF Busy
  <2>5. ASSUME NEW q \in Registrars, stage'[q] = "computing"
        PROVE  /\ todo'[q] \subseteq all
               /\ own'[q] = [p \in all \ todo'[q] |-> Ceilings(prices)[p]]
    <3>1. CASE q = r
      <4>1. own'[q] = <<>> /\ todo'[q] = all
        BY <1>1, <1>2, <3>1
      <4>2. all \ all = {}
        OBVIOUS
      <4>3. QED
        BY <4>1, <4>2
    <3>2. CASE q # r
      BY <1>1, <1>2, <2>1, <2>2, <2>5, <3>2, Zenon DEF CeilingsCurrent
    <3>3. QED
      BY <3>1, <3>2
  <2>6. \A q, u \in Registrars : stage'[q] \in Busy /\ stage'[u] \in Busy => q = u
    BY <2>1, <2>4, Zenon DEF CeilingsCurrent
  <2>7. stage'[r] \in Busy
    BY <1>2 DEF Busy
  <2>8. \A q \in Registrars : stage'[q] = "computing" =>
          /\ todo'[q] \subseteq DOMAIN Ceilings(prices)'
          /\ own'[q] = [p \in DOMAIN Ceilings(prices)' \ todo'[q] |-> Ceilings(prices)'[p]]
    BY <2>2, <2>5
  <2>9. QED
    BY <2>3, <2>6, <2>7, <2>8, Zenon DEF CeilingsCurrent
<1>5. QED
  BY <1>3, <1>4 DEF PricingTables

LEMMA ComputeTables ==
  ASSUME PricingTables, NEW r \in Registrars, NEW p \in todo[r], Compute(r, p)
  PROVE  PricingTables'
<1> DEFINE top == CeilingOf(EntriesOf(prices, p), p)
<1>1. stage[r] = "computing"
  BY DEF PricingTables, TablesOK
<1>2. /\ stage \in [Registrars -> RegisterStages]
      /\ todo' = [todo EXCEPT ![r] = @ \ {p}]
      /\ own' = [own EXCEPT ![r] = [q \in DOMAIN @ \cup {p} |-> IF q = p THEN top ELSE @[q]]]
      /\ disturbed' = [disturbed EXCEPT ![r] = FALSE]
      /\ ceilings' = ceilings /\ stage' = stage /\ prices' = prices /\ crossed' = crossed
      /\ DOMAIN todo = Registrars /\ DOMAIN own = Registrars /\ DOMAIN disturbed = Registrars
      /\ EntriesOf(prices, p) # {}
  BY DEF PricingTables, TablesOK, Compute
<1>3. IsCeiling(top, prices, p)
  BY <1>2, CeilingOfTable DEF PricingTables, TablesOK
<1> HIDE DEF top
<1>4. /\ DOMAIN own'[r] = DOMAIN own[r] \cup {p} /\ todo'[r] = todo[r] \ {p}
      /\ \A q \in DOMAIN own'[r] : own'[r][q] = IF q = p THEN top ELSE own[r][q]
      /\ own'[r] = [q \in DOMAIN own[r] \cup {p} |-> IF q = p THEN top ELSE own[r][q]]
      /\ \A q \in Registrars : q # r => own'[q] = own[q] /\ todo'[q] = todo[q]
  BY <1>2
<1>5. TablesOK'
  <2>1. /\ IsTable(prices)' /\ IsCeilings(ceilings)' /\ DOMAIN own' = Registrars
        /\ DOMAIN todo' = Registrars /\ DOMAIN disturbed' = Registrars /\ stage' \in [Registrars -> RegisterStages]
    BY <1>2 DEF PricingTables, TablesOK, IsCeilings, IsTable
  <2>2. IsTop(top)
    BY <1>3 DEF IsCeiling, IsTop
  <2>3. "none" \in DOMAIN own'[r] \cup todo'[r] /\ \A q \in DOMAIN own'[r] : IsTop(own'[r][q])
    BY <1>1, <1>4, <2>2 DEF PricingTables, TablesOK
  <2>4. \A q \in Registrars :
          IF stage'[q] = "computing"
          THEN "none" \in DOMAIN own'[q] \cup todo'[q] /\ \A x \in DOMAIN own'[q] : IsTop(own'[q][x])
          ELSE todo'[q] = {} /\ own'[q] = <<>>
    BY <1>1, <1>2, <1>4, <2>3 DEF PricingTables, TablesOK
  <2>5. QED
    BY <2>1, <2>4 DEF TablesOK, IsCeilings, IsTop
<1>6. CeilingsCurrent'
  <2> SUFFICES ASSUME ~crossed' PROVE CeilingsCurrent'
    BY DEF CeilingsCurrent
  <2> DEFINE all == DOMAIN Ceilings(prices)
  <2>1. ~crossed /\ CeilingsCurrent
    BY <1>2 DEF PricingTables
  <2>2. Ceilings(prices)' = Ceilings(prices)
    BY <1>2 DEF Ceilings
  <2>3. \A q \in Registrars : ~disturbed'[q]
    BY <1>2, <2>1, Zenon DEF CeilingsCurrent
  <2>4. /\ todo[r] \subseteq all
        /\ own[r] = [q \in all \ todo[r] |-> Ceilings(prices)[q]]
    BY <1>1, <2>1 DEF CeilingsCurrent
  <2>5. Ceilings(prices)[p] = top
    BY <2>4, CeilingsDearest DEF PricingTables, TablesOK, top
  <2>6. todo'[r] \subseteq all /\ own'[r] = [q \in all \ todo'[r] |-> Ceilings(prices)[q]]
    <3>1. DOMAIN own[r] \cup {p} = all \ todo'[r]
      BY <1>4, <2>4
    <3>2. \A q \in DOMAIN own[r] \cup {p} :
            (IF q = p THEN top ELSE own[r][q]) = Ceilings(prices)[q]
      BY <2>4, <2>5
    <3>3. QED
      BY <1>4, <2>4, <3>1, <3>2
  <2>7. \A q \in Registrars : stage'[q] = "computing" =>
          todo'[q] \subseteq all /\ own'[q] = [x \in all \ todo'[q] |-> Ceilings(prices)[x]]
    BY <1>2, <1>4, <2>1, <2>6, Zenon DEF CeilingsCurrent
  <2>8. /\ \A q, x \in Registrars : stage'[q] \in Busy /\ stage'[x] \in Busy => q = x
        /\ (\A q \in Registrars : stage'[q] \notin Busy) => ceilings' = Ceilings(prices)
    BY <1>2, <2>1, Zenon DEF CeilingsCurrent
  <2> HIDE DEF all
  <2>9. \A q \in Registrars : stage'[q] = "computing" =>
          /\ todo'[q] \subseteq DOMAIN Ceilings(prices)'
          /\ own'[q] = [x \in DOMAIN Ceilings(prices)' \ todo'[q] |-> Ceilings(prices)'[x]]
    BY <2>2, <2>7, Zenon DEF all
  <2>10. QED
    BY <2>2, <2>3, <2>8, <2>9, Zenon DEF CeilingsCurrent
<1>7. QED
  BY <1>5, <1>6 DEF PricingTables

\* Only registrations that overlap fail.
LEMMA FailTables ==
  ASSUME PricingTables, NEW r \in Registrars, FailToCompute(r)
  PROVE  PricingTables'
<1>1. /\ stage \in [Registrars -> RegisterStages]
      /\ stage' = [stage EXCEPT ![r] = "failed"]
      /\ todo' = [todo EXCEPT ![r] = {}] /\ own' = [own EXCEPT ![r] = <<>>]
      /\ disturbed' = [disturbed EXCEPT ![r] = FALSE]
      /\ ceilings' = ceilings /\ prices' = prices /\ crossed' = crossed
      /\ DOMAIN todo = Registrars /\ DOMAIN own = Registrars /\ DOMAIN disturbed = Registrars
  BY DEF PricingTables, TablesOK, FailToCompute
<1>2. \A q \in Registrars : /\ stage'[q] = IF q = r THEN "failed" ELSE stage[q]
                            /\ todo'[q] = IF q = r THEN {} ELSE todo[q]
                            /\ own'[q] = IF q = r THEN <<>> ELSE own[q]
  BY <1>1
<1>3. TablesOK'
  <2>1. /\ IsTable(prices)' /\ IsCeilings(ceilings)' /\ DOMAIN own' = Registrars
        /\ DOMAIN todo' = Registrars /\ DOMAIN disturbed' = Registrars
    BY <1>1 DEF PricingTables, TablesOK, IsCeilings, IsTable
  <2>2. \A q \in Registrars :
          IF stage'[q] = "computing"
          THEN "none" \in DOMAIN own'[q] \cup todo'[q] /\ \A p \in DOMAIN own'[q] : IsTop(own'[q][p])
          ELSE todo'[q] = {} /\ own'[q] = <<>>
    BY <1>2 DEF PricingTables, TablesOK
  <2>3. stage' \in [Registrars -> RegisterStages]
    BY <1>1 DEF RegisterStages
  <2>4. QED
    BY <2>1, <2>2, <2>3 DEF TablesOK, IsCeilings, IsTop
<1>4. crossed
  <2> SUFFICES ASSUME ~crossed PROVE FALSE
    OBVIOUS
  <2>1. ~disturbed[r] /\ (stage[r] = "computing" => todo[r] \subseteq DOMAIN Ceilings(prices))
    BY Zenon DEF PricingTables, CeilingsCurrent
  <2>2. PICK p \in todo[r] : EntriesOf(prices, p) = {}
    BY <2>1, Zenon DEF FailToCompute
  <2>3. stage[r] = "computing"
    BY <2>2 DEF PricingTables, TablesOK
  <2>4. QED
    BY <2>1, <2>2, <2>3, CeilingsDearest DEF PricingTables, TablesOK
<1>5. CeilingsCurrent'
  BY <1>1, <1>4, Zenon DEF CeilingsCurrent
<1>6. QED
  BY <1>3, <1>5 DEF PricingTables

LEMMA AssignTables ==
  ASSUME PricingTables, NEW r \in Registrars, Assign(r)
  PROVE  PricingTables'
<1>1. /\ stage \in [Registrars -> RegisterStages]
      /\ stage[r] = "computing" /\ todo[r] = {}
      /\ stage' = [stage EXCEPT ![r] = "done"]
      /\ own' = [own EXCEPT ![r] = <<>>]
      /\ disturbed' = [disturbed EXCEPT ![r] = FALSE]
      /\ ceilings' = own[r] /\ prices' = prices /\ todo' = todo /\ crossed' = crossed
      /\ DOMAIN todo = Registrars /\ DOMAIN own = Registrars /\ DOMAIN disturbed = Registrars
  BY DEF PricingTables, TablesOK, Assign
<1>2. \A q \in Registrars : /\ stage'[q] = IF q = r THEN "done" ELSE stage[q]
                            /\ own'[q] = IF q = r THEN <<>> ELSE own[q]
  BY <1>1
<1>3. TablesOK'
  <2>1. IsTable(prices)' /\ DOMAIN own' = Registrars /\ DOMAIN todo' = Registrars /\ DOMAIN disturbed' = Registrars
    BY <1>1 DEF PricingTables, TablesOK, IsTable
  <2>2. IsCeilings(own[r])
    BY <1>1 DEF PricingTables, TablesOK, IsCeilings
  <2>3. \A q \in Registrars :
          IF stage'[q] = "computing"
          THEN "none" \in DOMAIN own'[q] \cup todo'[q] /\ \A p \in DOMAIN own'[q] : IsTop(own'[q][p])
          ELSE todo'[q] = {} /\ own'[q] = <<>>
    BY <1>1, <1>2 DEF PricingTables, TablesOK
  <2>4. stage' \in [Registrars -> RegisterStages]
    BY <1>1 DEF RegisterStages
  <2>5. QED
    BY <1>1, <2>1, <2>2, <2>3, <2>4 DEF TablesOK, IsCeilings, IsTop
<1>4. CeilingsCurrent'
  <2> SUFFICES ASSUME ~crossed' PROVE CeilingsCurrent'
    BY DEF CeilingsCurrent
  <2> DEFINE all == DOMAIN Ceilings(prices)
  <2>1. ~crossed /\ CeilingsCurrent
    BY <1>1 DEF PricingTables
  <2>2. Ceilings(prices)' = Ceilings(prices)
    BY <1>1 DEF Ceilings
  <2>3. \A q \in Registrars : ~disturbed'[q]
    BY <1>1, <2>1, Zenon DEF CeilingsCurrent
  <2>4. stage[r] \in Busy
    BY <1>1 DEF Busy
  <2>5. \A q \in Registrars : stage'[q] \notin Busy
    <3>1. \A q \in Registrars : stage[q] \in Busy => q = r
      BY <2>1, <2>4, Zenon DEF CeilingsCurrent
    <3>2. QED
      BY <1>2, <3>1 DEF Busy
  <2>6. own[r] = [p \in all \ {} |-> Ceilings(prices)[p]]
    BY <1>1, <2>1 DEF CeilingsCurrent
  <2>7. Ceilings(prices) = [p \in all |-> Ceilings(prices)[p]]
    BY DEF Ceilings
  <2>8. own[r] = Ceilings(prices)
    BY <2>6, <2>7
  <2>9. \A q \in Registrars : stage'[q] # "computing"
    BY <2>5 DEF Busy
  <2>10. QED
    BY <1>1, <2>2, <2>3, <2>5, <2>8, <2>9, Zenon DEF CeilingsCurrent
<1>5. QED
  BY <1>3, <1>4 DEF PricingTables

\* The tables are unaffected by a call.
LEMMA TablesStay ==
  ASSUME UNCHANGED tables, PricingTables
  PROVE  PricingTables'
<1>1. /\ prices' = prices /\ ceilings' = ceilings /\ stage' = stage /\ todo' = todo
      /\ own' = own /\ disturbed' = disturbed /\ crossed' = crossed
  BY DEF tables, registry
<1>2. TablesOK'
  BY <1>1 DEF TablesOK, PricingTables
<1>3. CeilingsCurrent'
  BY <1>1 DEF CeilingsCurrent, PricingTables
<1>4. QED
  BY <1>2, <1>3 DEF PricingTables

\* What prices and estimates depend on.
LEMMA PriceDepends ==
  ASSUME UNCHANGED <<prices, ceilings>>
  PROVE  \A name : PriceTokens(name)' = PriceTokens(name) /\ Resolve(name)' = Resolve(name)
<1>1. \A name : Resolve(name)' = Resolve(name)
  BY DEF Resolve, Ceiling
<1>2. QED
  BY <1>1 DEF PriceTokens

LEMMA EstimateDepends ==
  ASSUME UNCHANGED <<prices, ceilings>>
  PROVE  \A r \in Requests : PrecallWorstcase(r)' = PrecallWorstcase(r)
<1>1. \A name : PriceTokens(name)' = PriceTokens(name)
  BY PriceDepends
<1>2. \A name, ttls : CacheWriteMultiplier(name, ttls)' = CacheWriteMultiplier(name, ttls)
  BY DEF CacheWriteMultiplier, Ceiling
<1>3. QED
  BY <1>1, <1>2 DEF PrecallWorstcase

\* What a key, a ceiling or litellm gives is a price.
LEMMA TopSound ==
  ASSUME NEW top, IsTop(top)
  PROVE  IsPrice(top) /\ IsGraded(top)
<1>1. Tiers(top) = {<<top.input, top.output>>}
  BY DEF IsTop, Tiers
<1>2. QED
  BY <1>1 DEF IsTop, IsGraded, IsPrice

LEMMA FoundSound ==
  ASSUME TablesOK, NEW name, NEW key, key # NoKey => key \in DOMAIN prices
  PROVE  LET entry == IF key = NoKey THEN Ceiling(ProviderOf(name)) ELSE prices[key]
         IN  IsPrice(entry) /\ IsGraded(entry)
<1>1. CASE key # NoKey
  BY <1>1 DEF TablesOK, IsTable
<1>2. CASE key = NoKey
  <2>1. IsTop(Ceiling(ProviderOf(name)))
    BY DEF TablesOK, IsCeilings, Ceiling
  <2>2. QED
    BY <1>2, <2>1, TopSound
<1>3. QED
  BY <1>1, <1>2

LEMMA LiteSound ==
  ASSUME NEW name, Lite(name)
  PROVE  IsPrice(LiteEntry(name)) /\ IsGraded(LiteEntry(name))
<1> DEFINE info == LiteLLM[name.segments]
           entry == LiteEntry(name)
           cache == LiteCache(info.cache)
<1>1. /\ {info.input, info.output} \subseteq Nat
      /\ {info.cache.read, info.cache.write, info.cache.write1h} \subseteq Nat
  BY PricingAssumption DEF Lite
<1>2. /\ entry.input = info.input /\ entry.output = info.output
      /\ entry.long = <<>> /\ entry.fast = <<>> /\ entry.cache = cache
  BY DEF LiteEntry, ModelPrice
<1>3. {cache.read, cache.write, cache.write1h} \subseteq Nat
  <2> DEFINE slice == info.cache
  <2>1. {slice.read, slice.write, slice.write1h} \subseteq Nat /\ cache = LiteCache(slice)
    BY <1>1
  <2> HIDE DEF slice, cache
  <2>2. QED
    BY <2>1 DEF LiteCache, CacheRates
<1> HIDE DEF entry, info, cache
<1>4. IsPrice(entry)
  BY <1>1, <1>2, <1>3 DEF IsPrice
<1>5. Tiers(entry) = {<<entry.input, entry.output>>}
  BY <1>2 DEF Tiers
<1>6. IsGraded(entry)
  BY <1>1, <1>2, <1>5 DEF IsGraded
<1>7. QED
  BY <1>4, <1>6 DEF entry

\* What a name resolves to is a price.
LEMMA ResolvesPrice ==
  ASSUME TablesOK, NEW name
  PROVE  /\ IsPrice(Resolve(name)) /\ IsGraded(Resolve(name))
         /\ IsPrice(PriceTokens(name)) /\ IsGraded(PriceTokens(name))
<1>1. IsPrice(Resolve(name)) /\ IsGraded(Resolve(name))
  <2> DEFINE key == Find(name, prices)
  <2>1. key # NoKey => key \in DOMAIN prices
    BY FindsKey DEF TablesOK
  <2>2. Resolve(name) = IF key = NoKey THEN Ceiling(ProviderOf(name)) ELSE prices[key]
    BY DEF Resolve
  <2> HIDE DEF key
  <2>3. QED
    BY <2>1, <2>2, FoundSound
<1>2. QED
  BY <1>1, LiteSound DEF PriceTokens

LEMMA CallStays ==
  ASSUME UNCHANGED <<prices, ceilings, call, inserted, settled>>, PricingCall
  PROVE  PricingCall'
<1>1. EstimateCurrent'
  BY EstimateDepends DEF PricingCall, EstimateCurrent
<1>2. BeforeKept' /\ LookUpOK'
  BY DEF PricingCall, BeforeKept, LookUpOK
<1>3. EntryCurrent'
  BY PriceDepends DEF PricingCall, EntryCurrent, IsEntryIn
<1>4. QED
  BY <1>1, <1>2, <1>3 DEF PricingCall

LEMMA InsertCall ==
  ASSUME PricingIInv, NEW r \in Registrars, Insert(r)
  PROVE  PricingCall'
<1>1. /\ call' = call /\ inserted' = inserted + 1 /\ settled' = "no"
      /\ IsTable(prices') /\ DOMAIN prices \subseteq DOMAIN prices' /\ OneMore(prices, prices')
  BY InsertTable DEF Insert, PricingIInv, PricingTables
<1>2. EstimateCurrent'
  BY <1>1 DEF PricingIInv, PricingCall, EstimateCurrent
<1>3. BeforeKept'
  BY <1>1 DEF PricingIInv, PricingCall, BeforeKept
<1>4. LookUpOK'
  <2> SUFFICES ASSUME call.stage = "looking"
               PROVE  LookUpOK'
    BY <1>1 DEF LookUpOK
  <2>1. LookUpOK /\ BeforeKept
    BY DEF PricingIInv, PricingCall
  <2>2. inserted' <= 1 => prices = call.before
    BY <1>1, <2>1 DEF BeforeKept
  <2>3. call.at = "found" /\ inserted' <= 1 => call.key = Find(call.request.name, call.before)
    <3> SUFFICES ASSUME call.at = "found", inserted' <= 1
                 PROVE  call.key = Find(call.request.name, call.before)
      OBVIOUS
    <3>1. inserted <= 1
      BY <1>1, <2>1 DEF BeforeKept
    <3>2. QED
      BY <2>1, <2>2, <3>1 DEF LookUpOK
  <2>4. QED
    BY <1>1, <2>1, <2>3 DEF LookUpOK
<1>5. EntryCurrent'
  <2> SUFFICES ASSUME call.stage = "priced" \/ (call.stage = "looking" /\ call.use = "metadata"), ~call.garbled
               PROVE  EntryCurrent'
    BY <1>1 DEF EntryCurrent
  <2>1. /\ IsPrice(call.entry) /\ IsGraded(call.entry)
        /\ inserted <= 1 =>
             \/ IsEntryIn(call.entry, call.request.name, call.before)
             \/ IsEntryIn(call.entry, call.request.name, prices)
    BY DEF PricingIInv, PricingCall, EntryCurrent
  <2>2. BeforeKept
    BY DEF PricingIInv, PricingCall
  <2>3. inserted' <= 1 => IsEntryIn(call.entry, call.request.name, call.before)
    BY <1>1, <2>1, <2>2 DEF BeforeKept
  <2>4. QED
    BY <1>1, <2>1, <2>3 DEF EntryCurrent, IsEntryIn
<1>6. QED
  BY <1>2, <1>3, <1>4, <1>5 DEF PricingCall

LEMMA AssignCall ==
  ASSUME PricingIInv, NEW r \in Registrars, Assign(r)
  PROVE  PricingCall'
<1>1. /\ call' = call /\ inserted' = inserted /\ settled' = "no" /\ prices' = prices
  BY DEF Assign
<1>2. EstimateCurrent'
  BY <1>1 DEF PricingIInv, PricingCall, EstimateCurrent
<1>3. BeforeKept' /\ LookUpOK'
  BY <1>1 DEF PricingIInv, PricingCall, BeforeKept, LookUpOK
<1>4. EntryCurrent'
  BY <1>1 DEF PricingIInv, PricingCall, EntryCurrent, IsEntryIn
<1>5. QED
  BY <1>2, <1>3, <1>4 DEF PricingCall

LEMMA AskCall ==
  ASSUME PricingIInv, NEW r \in Requests, Ask(r)
  PROVE  PricingCall'
<1>1. /\ call'.stage = "sent" /\ call'.request = r
      /\ r.via = "wrap" => call'.estimate = PrecallWorstcase(r)
  BY DEF Ask
<1>2. PrecallWorstcase(r)' = PrecallWorstcase(r)
  BY EstimateDepends DEF Ask, tables
<1>3. EstimateCurrent'
  BY <1>1, <1>2 DEF EstimateCurrent
<1>4. BeforeKept' /\ LookUpOK' /\ EntryCurrent'
  BY <1>1 DEF BeforeKept, LookUpOK, EntryCurrent
<1>5. QED
  BY <1>3, <1>4 DEF PricingCall

LEMMA ReceiveCall ==
  ASSUME PricingIInv, NEW fast \in BOOLEAN, NEW garbled \in BOOLEAN, Receive(fast, garbled)
  PROVE  PricingCall'
<1>1. /\ call.stage = "sent" /\ (fast => call.request.fast)
      /\ prices' = prices /\ ceilings' = ceilings /\ inserted' = 0
      /\ (settled' = "asked" => settled = "asked")
  BY DEF Receive, tables
<1>2. /\ call'.stage = "looking" /\ call'.request = call.request /\ call'.estimate = call.estimate
      /\ call'.use = IF call.request.via = "adapter" THEN "price"
                     ELSE IF garbled THEN "metadata" ELSE "known"
      /\ call'.at = "name" /\ call'.before = prices
      /\ DOMAIN call' = LookingFields
  BY DEF Receive, LookingFields
<1>3. call'.fast = fast /\ call'.garbled = garbled
  BY Zenon DEF Receive
<1>4. EstimateCurrent'
  <2>1. call.request \in Requests
    BY <1>1 DEF PricingIInv, PricingCall, EstimateCurrent
  <2>2. settled' = "asked" /\ call.request.via = "wrap" => call.estimate = PrecallWorstcase(call.request)
    BY <1>1 DEF PricingIInv, PricingCall, EstimateCurrent
  <2>3. \A r \in Requests : PrecallWorstcase(r)' = PrecallWorstcase(r)
    BY <1>1, EstimateDepends
  <2>4. call'.fast => call'.request.fast
    BY <1>1, <1>2, <1>3, Zenon
  <2>5. QED
    BY <1>2, <2>1, <2>2, <2>3, <2>4 DEF EstimateCurrent
<1>5. BeforeKept'
  BY <1>1, <1>2 DEF BeforeKept, PricingIInv, PricingTables, TablesOK
<1>6. call.request.via \in {"wrap", "adapter"}
  BY <1>1 DEF PricingIInv, PricingCall, EstimateCurrent, Requests
<1>7. LookUpOK'
  BY <1>2, <1>6 DEF LookUpOK
<1>8. EntryCurrent'
  BY <1>2, <1>3, <1>6 DEF EntryCurrent
<1>9. QED
  BY <1>4, <1>5, <1>7, <1>8 DEF PricingCall

\* The fields that no look-up touches.
LookUpKeeps ==
  /\ UNCHANGED <<prices, ceilings, inserted, settled>>
  /\ call.stage = "looking" /\ call'.stage \in {"looking", "priced", "broken"}
  /\ call'.request = call.request /\ call'.estimate = call.estimate /\ call'.before = call.before
  /\ call'.fast = call.fast /\ call'.garbled = call.garbled
  /\ DOMAIN call' = LookingFields

LEMMA LookUpCall ==
  ASSUME PricingIInv, LookUpKeeps
  PROVE  EstimateCurrent' /\ BeforeKept'
<1>1. call.request \in Requests
  BY DEF LookUpKeeps, PricingIInv, PricingCall, EstimateCurrent
<1>2. \A r \in Requests : PrecallWorstcase(r)' = PrecallWorstcase(r)
  BY EstimateDepends DEF LookUpKeeps
<1>3. EstimateCurrent'
  <2>1. call.fast => call.request.fast
    BY DEF LookUpKeeps, PricingIInv, PricingCall, EstimateCurrent
  <2>2. call'.fast => call'.request.fast
    BY <2>1, Zenon DEF LookUpKeeps
  <2>3. settled' = "asked" /\ call'.request.via = "wrap" => call'.estimate = PrecallWorstcase(call.request)
    BY DEF LookUpKeeps, PricingIInv, PricingCall, EstimateCurrent
  <2>4. QED
    BY <1>1, <1>2, <2>2, <2>3 DEF LookUpKeeps, EstimateCurrent
<1>4. BeforeKept'
  BY DEF LookUpKeeps, PricingIInv, PricingCall, BeforeKept
<1>5. QED
  BY <1>3, <1>4

\* The entry is of use only once it has been found.
LEMMA EntryKept ==
  ASSUME PricingIInv, LookUpKeeps,
         call'.stage # "broken" => call'.use = call.use /\ call'.entry = call.entry,
         call'.stage = "priced" => call.use = "metadata"
  PROVE  EntryCurrent'
<1> SUFFICES ASSUME call'.stage = "priced" \/ (call'.stage = "looking" /\ call'.use = "metadata"),
                    ~call'.garbled
             PROVE  EntryCurrent'
  BY DEF EntryCurrent
<1>1. call.use = "metadata" /\ call'.entry = call.entry
  OBVIOUS
<1>2. ~call.garbled
  BY Zenon DEF LookUpKeeps
<1>3. /\ IsPrice(call.entry) /\ IsGraded(call.entry)
      /\ inserted <= 1 =>
           \/ IsEntryIn(call.entry, call.request.name, call.before)
           \/ IsEntryIn(call.entry, call.request.name, prices)
      /\ settled # "no" =>
           call.entry = IF call.request.via = "wrap" THEN PriceTokens(call.request.name)
                        ELSE Resolve(call.request.name)
  BY <1>1, <1>2 DEF LookUpKeeps, PricingIInv, PricingCall, EntryCurrent
<1>4. \A name : PriceTokens(name)' = PriceTokens(name) /\ Resolve(name)' = Resolve(name)
  BY PriceDepends DEF LookUpKeeps
<1>5. QED
  BY <1>1, <1>3, <1>4 DEF EntryCurrent, LookUpKeeps, IsEntryIn

\* Where the look-up has come, in one of the steps that only read the table.
LookUpReads ==
  /\ LookUpKeeps
  /\ call'.stage # "broken" => call'.stage = "looking" /\ call'.use = call.use /\ call'.entry = call.entry

LEMMA ReadsCall ==
  ASSUME PricingIInv, LookUpReads,
         call'.stage = "looking" => LET name == call.request.name
         IN  /\ call'.at \in {"undated", "prefix", "scan"} => name.segments \notin DOMAIN call.before
             /\ call'.at \in {"prefix", "scan"} => Undated(name.segments) \notin DOMAIN call.before
             /\ call'.at = "scan" => DOMAIN call.before \subseteq call'.keys /\ call'.keys \subseteq DOMAIN prices
             /\ call'.at = "found" =>
                  /\ call'.key # NoKey => call'.key \in DOMAIN prices
                  /\ inserted <= 1 => call'.key \in {Find(name, call.before), Find(name, prices)}
  PROVE  PricingCall'
<1>1. EstimateCurrent' /\ BeforeKept'
  BY LookUpCall DEF LookUpReads
<1>2. EntryCurrent'
  BY EntryKept DEF LookUpReads
<1>3. LookUpOK'
  BY DEF LookUpReads, LookUpKeeps, LookUpOK, PricingIInv, PricingCall
<1>4. QED
  BY <1>1, <1>2, <1>3 DEF PricingCall

\* The entries before a look-up are still there, and their moment has not passed.
LEMMA BeforeFacts ==
  ASSUME PricingIInv, call.stage = "looking"
  PROVE  /\ IsTable(prices) /\ IsTable(call.before) /\ DOMAIN call.before \subseteq DOMAIN prices
         /\ inserted <= 1 => OneMore(call.before, prices)
         /\ call.request.name.segments \in Seq(STRING)
         /\ LookUpOK /\ DOMAIN call = LookingFields
<1>1. BeforeKept /\ LookUpOK /\ IsTable(prices)
  BY DEF PricingIInv, PricingCall, PricingTables, TablesOK
<1>2. PICK key : key \in DOMAIN prices
  BY <1>1 DEF IsTable
<1>3. inserted <= 1 => OneMore(call.before, prices)
  <2>1. CASE inserted = 0
    <3>1. DOMAIN prices = DOMAIN prices \cup {key}
      BY <1>2
    <3>2. prices = call.before
      BY <1>1, <2>1 DEF BeforeKept
    <3>3. QED
      BY <3>1, <3>2 DEF OneMore
  <2>2. CASE inserted = 1
    BY <1>1, <2>2 DEF BeforeKept
  <2>3. QED
    BY <1>1, <2>1, <2>2 DEF BeforeKept
<1>4. call.request.name.segments \in Seq(STRING)
  <2>1. call.request.name \in Names
    BY DEF PricingIInv, PricingCall, EstimateCurrent, Requests
  <2>2. QED
    BY <2>1, PricingAssumption
<1>5. QED
  BY <1>1, <1>3, <1>4 DEF BeforeKept, LookUpOK

\* A step that tries a key of its own.
LEMMA TryReads ==
  ASSUME PricingIInv, NEW at, NEW key, NEW next, TryKey(at, key, next)
  PROVE  /\ LookUpReads /\ call'.stage = "looking" /\ call.at = at
         /\ IF key \in DOMAIN prices THEN call'.at = "found" /\ call'.key = key ELSE call'.at = next
<1>1. /\ call.stage = "looking" /\ call.at = at /\ DOMAIN call = LookingFields
      /\ UNCHANGED <<prices, ceilings, inserted, settled>>
  BY BeforeFacts DEF TryKey, Looking, tables
<1>2. CASE key \in DOMAIN prices
  <2>1. call' = [call EXCEPT !.at = "found", !.key = key]
    BY <1>2 DEF TryKey
  <2>2. /\ DOMAIN call' = LookingFields /\ call'.at = "found" /\ call'.key = key
        /\ call'.stage = call.stage /\ call'.request = call.request /\ call'.estimate = call.estimate
        /\ call'.before = call.before /\ call'.use = call.use /\ call'.entry = call.entry
    BY <1>1, <2>1 DEF LookingFields
  <2>3. call'.fast = call.fast /\ call'.garbled = call.garbled
    BY <1>1, <2>1 DEF LookingFields
  <2>4. QED
    BY <1>1, <1>2, <2>2, <2>3 DEF LookUpReads, LookUpKeeps
<1>3. CASE key \notin DOMAIN prices
  <2>1. call' = [call EXCEPT !.at = next]
    BY <1>3 DEF TryKey
  <2>2. /\ DOMAIN call' = LookingFields /\ call'.at = next
        /\ call'.stage = call.stage /\ call'.request = call.request /\ call'.estimate = call.estimate
        /\ call'.before = call.before /\ call'.use = call.use /\ call'.entry = call.entry
    BY <1>1, <2>1 DEF LookingFields
  <2>3. call'.fast = call.fast /\ call'.garbled = call.garbled
    BY <1>1, <2>1 DEF LookingFields
  <2>4. QED
    BY <1>1, <1>3, <2>2, <2>3 DEF LookUpReads, LookUpKeeps
<1>4. QED
  BY <1>2, <1>3

LEMMA TryNameCall ==
  ASSUME PricingIInv, TryName
  PROVE  PricingCall'
<1> DEFINE name == call.request.name
           key == name.segments
<1>1. /\ LookUpReads /\ call.stage = "looking" /\ call'.stage = "looking"
      /\ IF key \in DOMAIN prices THEN call'.at = "found" /\ call'.key = key ELSE call'.at = "undated"
  BY TryReads DEF TryName, LookUpReads, LookUpKeeps
<1>2. DOMAIN call.before \subseteq DOMAIN prices
  BY <1>1, BeforeFacts
<1>3. key \in DOMAIN prices => Find(name, prices) = key
  BY DEF Find
<1>4. QED
  BY <1>1, <1>2, <1>3, ReadsCall

LEMMA TryUndatedCall ==
  ASSUME PricingIInv, TryUndated
  PROVE  PricingCall'
<1> DEFINE name == call.request.name
           key == Undated(name.segments)
<1>1. /\ LookUpReads /\ call.stage = "looking" /\ call'.stage = "looking" /\ call.at = "undated"
      /\ IF key \in DOMAIN prices THEN call'.at = "found" /\ call'.key = key ELSE call'.at = "prefix"
  BY TryReads DEF TryUndated, LookUpReads, LookUpKeeps
<1>2. /\ DOMAIN call.before \subseteq DOMAIN prices /\ name.segments \notin DOMAIN call.before
      /\ inserted <= 1 => OneMore(call.before, prices)
  BY <1>1, BeforeFacts DEF LookUpOK
<1>3. key \in DOMAIN prices /\ inserted <= 1 => key \in {Find(name, call.before), Find(name, prices)}
  <2> SUFFICES ASSUME key \in DOMAIN prices, inserted <= 1, name.segments \in DOMAIN prices,
                      key # name.segments
               PROVE  key = Find(name, call.before)
    BY DEF Find
  <2>1. PICK new : DOMAIN prices = DOMAIN call.before \cup {new}
    BY <1>2 DEF OneMore
  <2>2. key \in DOMAIN call.before
    BY <1>2, <2>1
  <2>3. QED
    BY <1>2, <2>2 DEF Find
<1>4. QED
  BY <1>1, <1>2, <1>3, ReadsCall

LEMMA StartScanCall ==
  ASSUME PricingIInv, StartScan
  PROVE  PricingCall' /\ call'.stage = "looking"
<1>1. /\ call.stage = "looking" /\ call.at = "prefix" /\ DOMAIN call = LookingFields
      /\ call' = [call EXCEPT !.at = "scan", !.keys = DOMAIN prices]
      /\ UNCHANGED <<prices, ceilings, inserted, settled>>
  BY BeforeFacts DEF StartScan, Looking, tables
<1>2. /\ DOMAIN call' = LookingFields /\ call'.at = "scan" /\ call'.keys = DOMAIN prices
      /\ call'.stage = call.stage /\ call'.request = call.request /\ call'.estimate = call.estimate
      /\ call'.before = call.before /\ call'.use = call.use /\ call'.entry = call.entry
  BY <1>1 DEF LookingFields
<1>3. call'.fast = call.fast /\ call'.garbled = call.garbled
  BY <1>1 DEF LookingFields
<1>4. LookUpReads
  BY <1>1, <1>2, <1>3 DEF LookUpReads, LookUpKeeps
<1>5. /\ DOMAIN call.before \subseteq DOMAIN prices
      /\ call.request.name.segments \notin DOMAIN call.before
      /\ Undated(call.request.name.segments) \notin DOMAIN call.before
  BY <1>1, BeforeFacts DEF LookUpOK
<1>6. QED
  BY <1>1, <1>2, <1>4, <1>5, ReadsCall

LEMMA EndScanCall ==
  ASSUME PricingIInv, EndScan
  PROVE  /\ PricingCall'
         /\ call'.stage = "broken" => DOMAIN call.before # DOMAIN prices
<1> DEFINE name == call.request.name
<1>1. /\ call.stage = "looking" /\ call.at = "scan" /\ DOMAIN call = LookingFields
      /\ UNCHANGED <<prices, ceilings, inserted, settled>>
  BY BeforeFacts DEF EndScan, Looking, tables
<1>2. /\ DOMAIN call.before \subseteq call.keys /\ call.keys \subseteq DOMAIN prices
      /\ name.segments \notin DOMAIN call.before
      /\ Undated(name.segments) \notin DOMAIN call.before
      /\ inserted <= 1 => OneMore(call.before, prices)
      /\ name.segments \in Seq(STRING) /\ IsTable(prices)
  BY <1>1, BeforeFacts DEF LookUpOK
<1>3. CASE DOMAIN prices # call.keys
  <2>1. call' = [call EXCEPT !.stage = "broken"]
    BY <1>3 DEF EndScan
  <2>2. /\ DOMAIN call' = LookingFields /\ call'.stage = "broken"
        /\ call'.request = call.request /\ call'.estimate = call.estimate
        /\ call'.before = call.before
    BY <1>1, <2>1 DEF LookingFields
  <2>3. call'.fast = call.fast /\ call'.garbled = call.garbled
    BY <1>1, <2>1 DEF LookingFields
  <2>4. LookUpReads
    BY <1>1, <2>2, <2>3 DEF LookUpReads, LookUpKeeps
  <2>5. PricingCall'
    BY <2>2, <2>4, ReadsCall
  <2>6. QED
    BY <1>2, <1>3, <2>5
<1>4. CASE DOMAIN prices = call.keys
  <2> DEFINE key == Longest(name, DOMAIN prices)
  <2>1. call' = [call EXCEPT !.at = "found", !.key = key, !.keys = {}]
    BY <1>4 DEF EndScan
  <2>2. /\ DOMAIN call' = LookingFields /\ call'.at = "found" /\ call'.key = key
        /\ call'.stage = call.stage /\ call'.request = call.request /\ call'.estimate = call.estimate
        /\ call'.before = call.before /\ call'.use = call.use /\ call'.entry = call.entry
    BY <1>1, <2>1 DEF LookingFields
  <2>3. call'.fast = call.fast /\ call'.garbled = call.garbled
    BY <1>1, <2>1 DEF LookingFields
  <2>4. LookUpReads
    BY <1>1, <2>2, <2>3 DEF LookUpReads, LookUpKeeps
  <2>5. inserted <= 1 => key \in {Find(name, call.before), Find(name, prices)}
    BY <1>2, ScanFinds
  <2>6. key # NoKey => key \in DOMAIN prices
    BY <1>2, LongestIsKey DEF IsTable
  <2> HIDE DEF key
  <2>7. PricingCall'
    BY <2>2, <2>4, <2>5, <2>6, ReadsCall
  <2>8. QED
    BY <1>1, <2>2, <2>7
<1>5. QED
  BY <1>3, <1>4

\* What a look-up has found, with the entry that a price would read.
FoundEntry ==
  IF call.key = NoKey THEN Ceiling(ProviderOf(call.request.name)) ELSE prices[call.key]

\* A step to another look-up, or to the end of the last.
UseKeeps(use, entry) ==
  /\ LookUpKeeps
  /\ call'.use = use /\ call'.entry = entry
  /\ call'.stage = "looking" => call'.at = "name"

LEMMA AgainKeeps ==
  ASSUME PricingIInv, Looking("found"), UNCHANGED <<tables, inserted, settled>>,
         NEW use, NEW entry, call' = Again(use, entry)
  PROVE  UseKeeps(use, entry) /\ call'.stage = "looking"
<1>1. /\ call.stage = "looking" /\ DOMAIN call = LookingFields
      /\ UNCHANGED <<prices, ceilings, inserted, settled>>
  BY BeforeFacts DEF Looking, tables
<1>2. call' = [call EXCEPT !.use = use, !.entry = entry, !.at = "name", !.key = NoKey]
  BY DEF Again
<1>3. /\ DOMAIN call' = LookingFields /\ call'.use = use /\ call'.entry = entry /\ call'.at = "name"
      /\ call'.stage = call.stage /\ call'.request = call.request /\ call'.estimate = call.estimate
      /\ call'.before = call.before
  BY <1>1, <1>2 DEF LookingFields
<1>4. call'.fast = call.fast /\ call'.garbled = call.garbled
  BY <1>1, <1>2 DEF LookingFields
<1>5. QED
  BY <1>1, <1>3, <1>4 DEF UseKeeps, LookUpKeeps

\* The end of the last look-up.
Priced(entry) == [call EXCEPT !.stage = "priced", !.entry = entry]

LEMMA PricedKeeps ==
  ASSUME PricingIInv, Looking("found"), UNCHANGED <<tables, inserted, settled>>,
         NEW use, call.use = use, NEW entry, call' = Priced(entry)
  PROVE  UseKeeps(use, entry) /\ call'.stage = "priced"
<1>1. /\ call.stage = "looking" /\ DOMAIN call = LookingFields
      /\ UNCHANGED <<prices, ceilings, inserted, settled>>
  BY BeforeFacts DEF Looking, tables
<1>2. /\ DOMAIN call' = LookingFields /\ call'.use = use /\ call'.entry = entry
      /\ call'.stage = "priced" /\ call'.request = call.request /\ call'.estimate = call.estimate
      /\ call'.before = call.before
  BY <1>1 DEF LookingFields, Priced
<1>3. call'.fast = call.fast /\ call'.garbled = call.garbled
  BY <1>1 DEF LookingFields, Priced
<1>4. QED
  BY <1>1, <1>2, <1>3 DEF UseKeeps, LookUpKeeps

\* What has been found is found at the present moment if nothing was registered since.
LEMMA FoundNow ==
  ASSUME PricingIInv, Looking("found")
  PROVE  /\ inserted <= 1 => call.key \in {Find(call.request.name, call.before), Find(call.request.name, prices)}
         /\ settled # "no" => call.key = Find(call.request.name, prices) /\ inserted <= 1
         /\ call.key # NoKey => call.key \in DOMAIN prices
<1>1. LookUpOK /\ BeforeKept /\ call.stage = "looking" /\ call.at = "found"
  BY DEF PricingIInv, PricingCall, Looking
<1>2. settled # "no" => inserted = 0 /\ prices = call.before
  BY <1>1 DEF BeforeKept
<1>3. QED
  BY <1>1, <1>2 DEF LookUpOK

\* The entry that is found is a price before or after a registration.
LEMMA FoundIsEntry ==
  ASSUME PricingIInv, Looking("found")
  PROVE  /\ IsPrice(FoundEntry) /\ IsGraded(FoundEntry)
         /\ inserted <= 1 =>
              \/ IsEntryIn(FoundEntry, call.request.name, call.before)
              \/ IsEntryIn(FoundEntry, call.request.name, prices)
         /\ settled # "no" => FoundEntry = Resolve(call.request.name)
<1> DEFINE name == call.request.name
<1>1. TablesOK /\ call.stage = "looking"
  BY DEF PricingIInv, PricingTables, Looking
<1>2. IsPrice(FoundEntry) /\ IsGraded(FoundEntry)
  BY <1>1, FoundNow, FoundSound DEF FoundEntry
<1>3. CASE call.key = NoKey
  BY <1>2, <1>3, FoundNow DEF IsEntryIn, FoundEntry, Resolve
<1>4. CASE call.key # NoKey
  <2>1. FoundEntry = prices[call.key]
    BY <1>4 DEF FoundEntry
  <2>2. inserted <= 1 =>
          \/ prices[call.key] = call.before[Find(name, call.before)]
          \/ prices[call.key] = prices[Find(name, prices)]
    BY <1>1, <1>4, BeforeFacts, FoundNow, OneMoreEntry
  <2>3. settled # "no" => FoundEntry = Resolve(name)
    BY <1>4, <2>1, FoundNow DEF Resolve
  <2>4. QED
    BY <1>2, <2>1, <2>2, <2>3 DEF IsEntryIn
<1>5. QED
  BY <1>3, <1>4

\* A step that takes an entry into use.
LEMMA UsesCall ==
  ASSUME PricingIInv, NEW use, NEW entry, UseKeeps(use, entry), call'.stage # "broken",
         use \in {"known", "price", "metadata"},
         use # "price" => call.request.via = "wrap",
         use = "price" /\ call.request.via = "wrap" /\ settled # "no" =>
           ~(Find(call.request.name, prices) = NoKey /\ Lite(call.request.name)),
         (call'.stage = "priced" \/ use = "metadata") /\ ~call.garbled =>
           /\ IsPrice(entry) /\ IsGraded(entry)
           /\ inserted <= 1 =>
                \/ IsEntryIn(entry, call.request.name, call.before)
                \/ IsEntryIn(entry, call.request.name, prices)
           /\ settled # "no" =>
                entry = IF call.request.via = "wrap" THEN PriceTokens(call.request.name)
                        ELSE Resolve(call.request.name)
  PROVE  PricingCall'
<1>1. /\ UNCHANGED <<prices, ceilings, inserted, settled>>
      /\ call'.request = call.request /\ call'.before = call.before
      /\ call'.use = use /\ call'.entry = entry /\ DOMAIN call' = LookingFields
      /\ call'.stage = "looking" => call'.at = "name"
  BY DEF UseKeeps, LookUpKeeps
<1>2. EstimateCurrent' /\ BeforeKept'
  BY LookUpCall DEF UseKeeps
<1>3. LookUpOK'
  BY <1>1 DEF LookUpOK
<1>4. EntryCurrent'
  <2> SUFFICES ASSUME call'.stage = "priced" \/ (call'.stage = "looking" /\ call'.use = "metadata"),
                      ~call'.garbled
               PROVE  EntryCurrent'
    BY DEF EntryCurrent
  <2>1. ~call.garbled
    BY Zenon DEF UseKeeps, LookUpKeeps
  <2>2. \A name : PriceTokens(name)' = PriceTokens(name) /\ Resolve(name)' = Resolve(name)
    BY <1>1, PriceDepends
  <2>3. QED
    BY <1>1, <2>1, <2>2 DEF EntryCurrent, IsEntryIn
<1>5. QED
  BY <1>2, <1>3, <1>4 DEF PricingCall

LEMMA UseCall ==
  ASSUME PricingIInv, Use
  PROVE  PricingCall' /\ call'.stage \in {"looking", "priced"}
<1> DEFINE name == call.request.name
<1>1. Looking("found") /\ UNCHANGED <<tables, inserted, settled>>
  BY DEF Use
<1>2. LookUpOK /\ EntryCurrent /\ call.stage = "looking"
  BY <1>1 DEF PricingIInv, PricingCall, Looking
<1>3. call.request.via \in {"wrap", "adapter"}
  BY <1>2 DEF PricingIInv, PricingCall, EstimateCurrent, Requests
<1>4. CASE call.use = "known"
  <2>1. call' = IF call.key = NoKey /\ Lite(name) THEN Again("metadata", LiteEntry(name))
                ELSE Again("price", <<>>)
    BY <1>4, Zenon DEF Use
  <2>2. call.request.via = "wrap"
    BY <1>2, <1>4 DEF LookUpOK
  <2>3. CASE call.key = NoKey /\ Lite(name)
    <3>1. UseKeeps("metadata", LiteEntry(name)) /\ call'.stage = "looking"
      BY <1>1, <2>1, <2>3, AgainKeeps
    <3>2. IsPrice(LiteEntry(name)) /\ IsGraded(LiteEntry(name))
      BY <2>3, LiteSound
    <3>3. inserted <= 1 =>
            \/ IsEntryIn(LiteEntry(name), name, call.before)
            \/ IsEntryIn(LiteEntry(name), name, prices)
      BY <1>1, <2>3, FoundNow DEF IsEntryIn
    <3>4. settled # "no" => LiteEntry(name) = PriceTokens(name)
      BY <1>1, <2>3, FoundNow DEF PriceTokens
    <3>5. QED
      BY <2>2, <3>1, <3>2, <3>3, <3>4, UsesCall
  <2>4. CASE ~(call.key = NoKey /\ Lite(name))
    <3>1. UseKeeps("price", <<>>) /\ call'.stage = "looking"
      BY <1>1, <2>1, <2>4, AgainKeeps
    <3>2. settled # "no" => ~(Find(name, prices) = NoKey /\ Lite(name))
      BY <1>1, <2>4, FoundNow
    <3>3. QED
      BY <3>1, <3>2, UsesCall
  <2>5. QED
    BY <2>3, <2>4
<1>5. CASE call.use = "price"
  <2>1. call' = IF call.request.via = "wrap" THEN Again("metadata", FoundEntry)
                ELSE Priced(FoundEntry)
    BY <1>5, Zenon DEF Use, FoundEntry, Priced
  <2>2. /\ IsPrice(FoundEntry) /\ IsGraded(FoundEntry)
        /\ inserted <= 1 =>
             \/ IsEntryIn(FoundEntry, name, call.before)
             \/ IsEntryIn(FoundEntry, name, prices)
        /\ settled # "no" => FoundEntry = Resolve(name)
    BY <1>1, FoundIsEntry
  <2>3. CASE call.request.via = "wrap"
    <3>1. UseKeeps("metadata", FoundEntry) /\ call'.stage = "looking"
      BY <1>1, <2>1, <2>3, AgainKeeps
    <3>2. settled # "no" => Resolve(name) = PriceTokens(name)
      BY <1>2, <1>5, <2>3 DEF LookUpOK, PriceTokens
    <3>3. QED
      BY <2>2, <2>3, <3>1, <3>2, UsesCall
  <2>4. CASE call.request.via # "wrap"
    <3>1. UseKeeps("price", FoundEntry) /\ call'.stage = "priced"
      BY <1>1, <1>5, <2>1, <2>4, PricedKeeps
    <3>2. QED
      BY <2>2, <2>4, <3>1, UsesCall
  <2>5. QED
    BY <2>3, <2>4
<1>6. CASE call.use = "metadata"
  <2>1. call' = [call EXCEPT !.stage = "priced"]
    BY <1>6, Zenon DEF Use
  <2>2. DOMAIN call = LookingFields
    BY <1>2 DEF LookUpOK
  <2>3. call' = Priced(call.entry)
    BY <2>1, <2>2 DEF LookingFields, Priced
  <2>4. UseKeeps("metadata", call.entry) /\ call'.stage = "priced"
    BY <1>1, <1>6, <2>3, PricedKeeps
  <2>5. ~call.garbled =>
          /\ IsPrice(call.entry) /\ IsGraded(call.entry)
          /\ inserted <= 1 =>
               \/ IsEntryIn(call.entry, name, call.before)
               \/ IsEntryIn(call.entry, name, prices)
          /\ settled # "no" =>
               call.entry = IF call.request.via = "wrap" THEN PriceTokens(name) ELSE Resolve(name)
    BY <1>2, <1>6 DEF EntryCurrent
  <2>6. call.request.via = "wrap"
    BY <1>2, <1>6 DEF LookUpOK
  <2>7. QED
    BY <2>4, <2>5, <2>6, UsesCall
<1>7. QED
  BY <1>2, <1>4, <1>5, <1>6 DEF LookUpOK

LEMMA BillCall ==
  ASSUME NEW t, Bill(t)
  PROVE  PricingCall' /\ call'.stage = "billed"
<1>1. call'.stage = "billed"
  BY DEF Bill
<1>2. QED
  BY <1>1 DEF PricingCall, EstimateCurrent, BeforeKept, LookUpOK, EntryCurrent

LEMMA PricingStepIInv == PricingIInv /\ [PricingNext]_pricingVars => PricingIInv'
<1> SUFFICES ASSUME PricingIInv, [PricingNext]_pricingVars
             PROVE  PricingTables' /\ PricingCall'
  BY DEF PricingIInv
<1>1. PricingTables /\ PricingCall
  BY DEF PricingIInv
<1>2. CASE UNCHANGED pricingVars
  <2>1. UNCHANGED tables /\ UNCHANGED <<prices, ceilings, call, inserted, settled>>
    BY <1>2 DEF pricingVars, tables
  <2>2. QED
    BY <1>1, <2>1, TablesStay, CallStays
<1>3. ASSUME NEW r \in Registrars, Insert(r)
      PROVE  PricingTables' /\ PricingCall'
  BY <1>1, <1>3, InsertTables, InsertCall
<1>4. ASSUME NEW r \in Registrars, ListProviders(r)
      PROVE  PricingTables' /\ PricingCall'
  <2>1. UNCHANGED <<prices, ceilings, call, inserted, settled>>
    BY <1>4 DEF ListProviders
  <2>2. QED
    BY <1>1, <1>4, <2>1, ListTables, CallStays
<1>5. ASSUME NEW r \in Registrars, NEW p \in todo[r], Compute(r, p)
      PROVE  PricingTables' /\ PricingCall'
  <2>1. UNCHANGED <<prices, ceilings, call, inserted, settled>>
    BY <1>5 DEF Compute
  <2>2. QED
    BY <1>1, <1>5, <2>1, ComputeTables, CallStays
<1>6. ASSUME NEW r \in Registrars, FailToCompute(r)
      PROVE  PricingTables' /\ PricingCall'
  <2>1. UNCHANGED <<prices, ceilings, call, inserted, settled>>
    BY <1>6 DEF FailToCompute
  <2>2. QED
    BY <1>1, <1>6, <2>1, FailTables, CallStays
<1>7. ASSUME NEW r \in Registrars, Assign(r)
      PROVE  PricingTables' /\ PricingCall'
  BY <1>1, <1>7, AssignTables, AssignCall
<1>8. ASSUME NEW r \in Requests, Ask(r)
      PROVE  PricingTables' /\ PricingCall'
  <2>1. UNCHANGED tables
    BY <1>8 DEF Ask
  <2>2. QED
    BY <1>1, <1>8, <2>1, TablesStay, AskCall
<1>9. ASSUME NEW fast \in BOOLEAN, NEW garbled \in BOOLEAN, Receive(fast, garbled)
      PROVE  PricingTables' /\ PricingCall'
  <2>1. UNCHANGED tables
    BY <1>9 DEF Receive
  <2>2. QED
    BY <1>1, <1>9, <2>1, TablesStay, ReceiveCall
<1>10. CASE Look
  <2>1. UNCHANGED tables
    BY <1>10 DEF Look, TryName, TryUndated, TryKey, StartScan, EndScan, Use
  <2>2. PricingTables'
    BY <1>1, <2>1, TablesStay
  <2>3. PricingCall'
    BY <1>10, TryNameCall, TryUndatedCall, StartScanCall, EndScanCall, UseCall DEF Look
  <2>4. QED
    BY <2>2, <2>3
<1>11. ASSUME NEW t \in Tokens, Bill(t)
       PROVE  PricingTables' /\ PricingCall'
  <2>1. UNCHANGED tables
    BY <1>11 DEF Bill
  <2>2. QED
    BY <1>1, <1>11, <2>1, TablesStay, BillCall
<1>12. QED
  BY <1>2, <1>3, <1>4, <1>5, <1>6, <1>7, <1>8, <1>9, <1>10, <1>11 DEF PricingNext

\* However registrations, look-ups and bills interleave, the ceilings are those of the
\* table at rest, and a price in hand was the table's when it was looked up.
THEOREM PricingInvariant == PricingSpec => []PricingIInv
<1>1. QED
  BY PricingInitIInv, PricingStepIInv, PTL DEF PricingSpec

-----------------------------------------------------------------------------
(* Pricing: what a bill comes to.                                           *)

\* A call that has just been billed for a usage.
BilledFor(counts) ==
  LET c == call'
      r == call.request
  IN  /\ c.request = r /\ c.estimate = call.estimate /\ c.before = call.before
      /\ c.tokens \in Tokens /\ InputOf(c.tokens) <= MaxInput /\ OutputOf(c.tokens) <= MaxOutput
      /\ r \in Requests /\ MayWrite(r, c.tokens)
      /\ IF call.garbled THEN ~IsValid(counts) ELSE TrueUsage(counts, c.tokens)
      /\ c.cost = IF r.via = "wrap" THEN AccountedUsage(call, counts)
                  ELSE Cost(call.entry, counts, call.fast, r.geo)
      /\ c.fast = call.fast /\ c.garbled = call.garbled

LEMMA BillsUsage ==
  ASSUME PricingIInv, NEW t \in Tokens, Bill(t)
  PROVE  \E counts : BilledFor(counts)
<1> DEFINE r == call.request
           report == Report(r.kind, t)
           Garbled(f) == Usage(r.kind, Garble(report, f))
<1>1. PICK garbled \in (IF call.garbled THEN {{f} : f \in DOMAIN report} ELSE {{}}) :
        call' = [stage |-> "billed", request |-> r, estimate |-> call.estimate,
                 fast |-> call.fast, garbled |-> call.garbled, before |-> call.before, tokens |-> t,
                 cost |-> IF r.via = "wrap" THEN AccountedUsage(call, Garbled(garbled))
                          ELSE Cost(call.entry, Garbled(garbled), call.fast, r.geo)]
  BY Zenon DEF Bill
<1>2. /\ call.stage = "priced" /\ r \in Requests /\ MayWrite(r, t)
      /\ InputOf(t) <= MaxInput /\ OutputOf(t) <= MaxOutput
  BY DEF Bill, PricingIInv, PricingCall, EstimateCurrent
<1>3. r.kind \in Kinds
  BY <1>2 DEF Requests
<1>4. garbled \in SUBSET DOMAIN report /\ (garbled # {} <=> call.garbled)
  <2> HIDE DEF report
  <2>1. CASE call.garbled
    BY <1>1, <2>1
  <2>2. CASE ~call.garbled
    BY <1>1, <2>2
  <2>3. QED
    BY <2>1, <2>2
<1> DEFINE counts == Garbled(garbled)
<1>5. IF garbled = {} THEN TrueUsage(counts, t) ELSE ~IsValid(counts)
  BY <1>2, <1>3, <1>4, ReportsRead
<1> HIDE DEF counts, r
<1>6. /\ call'.request = r /\ call'.estimate = call.estimate /\ call'.before = call.before
      /\ call'.tokens = t
      /\ call'.cost = IF r.via = "wrap" THEN AccountedUsage(call, counts)
                      ELSE Cost(call.entry, counts, call.fast, r.geo)
  BY <1>1 DEF counts
<1>7. call'.fast = call.fast /\ call'.garbled = call.garbled
  BY <1>1
<1>8. BilledFor(counts)
  BY <1>2, <1>4, <1>5, <1>6, <1>7 DEF BilledFor, r
<1>9. QED
  BY <1>8

\* Registrations leave the call alone.
LEMMA CallKept ==
  ASSUME [PricingNext]_pricingVars, call' # call
  PROVE  \/ \E r \in Requests : Ask(r)
         \/ \E fast, garbled \in BOOLEAN : Receive(fast, garbled)
         \/ Look
         \/ \E t \in Tokens : Bill(t)
<1>1. \A r \in Registrars : ~Insert(r) /\ ~ListProviders(r) /\ ~FailToCompute(r) /\ ~Assign(r)
  BY DEF Insert, ListProviders, FailToCompute, Assign
<1>2. \A r \in Registrars : \A p \in todo[r] : ~Compute(r, p)
  BY DEF Compute
<1>3. ~UNCHANGED pricingVars
  BY DEF pricingVars
<1>4. QED
  BY <1>1, <1>2, <1>3 DEF PricingNext

\* Only the tokens of a priced call bill it.
LEMMA BilledByBill ==
  ASSUME PricingIInv, [PricingNext]_pricingVars, Billed
  PROVE  \E counts : BilledFor(counts)
<1>1. call' # call /\ call.stage = "priced"
  BY DEF Billed
<1>2. \A r \in Requests : ~Ask(r)
  BY <1>1 DEF Ask, NoCall
<1>3. \A fast, garbled \in BOOLEAN : ~Receive(fast, garbled)
  BY <1>1 DEF Receive
<1>4. ~Look
  BY <1>1 DEF Look, TryName, TryUndated, TryKey, StartScan, EndScan, Use, Looking
<1>5. \E t \in Tokens : Bill(t)
  BY <1>1, <1>2, <1>3, <1>4, CallKept
<1>6. QED
  BY <1>5, BillsUsage

\* Only the scan of a table that grew breaks a look-up.
LEMMA BrokenByScan ==
  ASSUME PricingIInv, [PricingNext]_pricingVars, Broken
  PROVE  EndScan
<1>1. call' # call /\ call.stage = "looking" /\ call'.stage = "broken"
  BY DEF Broken
<1>2. \A r \in Requests : ~Ask(r)
  BY <1>1 DEF Ask, NoCall
<1>3. \A fast, garbled \in BOOLEAN : ~Receive(fast, garbled)
  BY <1>1 DEF Receive
<1>4. \A t \in Tokens : ~Bill(t)
  BY <1>1 DEF Bill
<1>5. Look
  BY <1>1, <1>2, <1>3, <1>4, CallKept
<1>6. ~TryName /\ ~TryUndated
  BY <1>1, TryReads DEF TryName, TryUndated
<1>7. ~StartScan /\ ~Use
  BY <1>1, StartScanCall, UseCall
<1>8. QED
  BY <1>5, <1>6, <1>7 DEF Look

\* What is charged for a true usage is the bill at the entry that was found.
LEMMA CostFound ==
  ASSUME PricingIInv, Billed, NEW counts, BilledFor(counts), ~call.garbled
  PROVE  LET c == call'
         IN  /\ IsPrice(call.entry) /\ IsGraded(call.entry)
             /\ c.cost = Unit(c) * BillAt(call.entry, c) /\ BillAt(call.entry, c) \in Nat
<1> DEFINE c == call'
           cost == Cost(call.entry, counts, c.fast, c.request.geo)
<1>1. IsPrice(call.entry) /\ IsGraded(call.entry)
  BY DEF Billed, PricingIInv, PricingCall, EntryCurrent
<1>2. TrueUsage(counts, c.tokens) /\ c.tokens \in Tokens /\ IsValid(counts)
  BY DEF BilledFor, TrueUsage
<1>3. cost = BillAt(call.entry, c) /\ BillAt(call.entry, c) \in Nat
  BY <1>1, <1>2, CostExact DEF Cost
<1>4. c.cost = IF c.request.via = "wrap" THEN 4 * cost ELSE cost
  <2>1. Cost(call.entry, counts, call.fast, call.request.geo) = cost
    BY DEF BilledFor
  <2>2. AccountedUsage(call, counts) = 4 * Cost(call.entry, counts, call.fast, call.request.geo)
    BY <1>2 DEF AccountedUsage
  <2> HIDE DEF cost
  <2>3. QED
    BY <2>1, <2>2 DEF BilledFor
<1> HIDE DEF cost
<1>5. c.cost = Unit(c) * cost /\ cost \in Nat
  BY <1>3, <1>4 DEF Unit
<1>6. QED
  BY <1>1, <1>3, <1>5

LEMMA StepBillsExactly ==
  ASSUME PricingIInv, [PricingNext]_pricingVars
  PROVE  BilledExactly
<1> DEFINE c == call'
           name == c.request.name
<1>1. Billed /\ c.garbled => c.cost = IF c.request.via = "wrap" THEN c.estimate ELSE Invalid
  <2> SUFFICES ASSUME Billed, c.garbled
               PROVE  c.cost = IF c.request.via = "wrap" THEN c.estimate ELSE Invalid
    OBVIOUS
  <2>1. PICK counts : BilledFor(counts)
    BY BilledByBill
  <2>2. ~IsValid(counts)
    BY <2>1 DEF BilledFor
  <2>3. AccountedUsage(call, counts) = call.estimate
    BY <2>2 DEF AccountedUsage
  <2>4. Cost(call.entry, counts, call.fast, call.request.geo) = Invalid
    BY <2>2, CostInvalid DEF Cost
  <2>5. QED
    BY <2>1, <2>3, <2>4 DEF BilledFor
<1>2. Billed /\ ~c.garbled /\ inserted <= 1 =>
        \E table \in {c.before, prices} :
          Find(name, table) # NoKey => c.cost = Unit(c) * BillAt(table[Find(name, table)], c)
  <2> SUFFICES ASSUME Billed, ~c.garbled, inserted <= 1
               PROVE  \E table \in {c.before, prices} :
                        Find(name, table) # NoKey => c.cost = Unit(c) * BillAt(table[Find(name, table)], c)
    OBVIOUS
  <2>1. PICK counts : BilledFor(counts)
    BY BilledByBill
  <2>2. ~call.garbled
    BY <2>1 DEF BilledFor
  <2>3. c.cost = Unit(c) * BillAt(call.entry, c)
    BY <2>1, <2>2, CostFound
  <2>4. c.request = call.request /\ c.before = call.before
    BY <2>1 DEF BilledFor
  <2>5. \/ IsEntryIn(call.entry, name, c.before)
        \/ IsEntryIn(call.entry, name, prices)
    BY <2>2, <2>4 DEF Billed, PricingIInv, PricingCall, EntryCurrent
  <2>6. PICK table \in {c.before, prices} : IsEntryIn(call.entry, name, table)
    BY <2>5
  <2>7. QED
    BY <2>3, <2>6 DEF IsEntryIn
<1>3. Broken => DOMAIN call.before # DOMAIN prices
  BY BrokenByScan, EndScanCall DEF Broken
<1>4. QED
  BY <1>1, <1>2, <1>3, Zenon DEF BilledExactly

\* Whatever convention a provider reports usage in, a known model costs what its tokens
\* cost at its price before or after a registration that comes while it is looked up, a
\* look-up raises only if the table grew, and a count that is no amount never becomes a
\* cost: for any table, any registrars and any numbers of tokens.
THEOREM PricingBillsExactly == PricingSpec => BillExact
<1>1. PricingIInv /\ [PricingNext]_pricingVars => [BilledExactly]_pricingVars
  BY StepBillsExactly
<1>2. QED
  BY <1>1, PricingInvariant, PTL DEF PricingSpec, BillExact

\* Products of larger amounts are larger.
LEMMA ProductMono ==
  ASSUME NEW a \in Nat, NEW b \in Nat, NEW x \in Nat, NEW y \in Nat, a <= b, x <= y
  PROVE  a * x <= b * y /\ a * x \in Nat /\ b * y \in Nat
<1>1. PICK d \in Nat : b = a + d
  <2>1. b - a \in Nat /\ b = a + (b - a)
    OBVIOUS
  <2>2. QED
    BY <2>1
<1>2. PICK e \in Nat : y = x + e
  <2>1. y - x \in Nat /\ y = x + (y - x)
    OBVIOUS
  <2>2. QED
    BY <2>1
<1>3. (a + d) * (x + e) = a * x + a * e + d * x + d * e
  OBVIOUS
<1>4. a * x \in Nat /\ a * e \in Nat /\ d * x \in Nat /\ d * e \in Nat
  OBVIOUS
<1>5. QED
  BY <1>1, <1>2, <1>3, <1>4

\* The bill at an entry whose rates are all as high is as high.
LEMMA BillMono ==
  ASSUME NEW p, IsPrice(p), NEW q, IsPrice(q), NEW c, c.tokens \in Tokens,
         LET low == Rates(p, InputOf(c.tokens), c.fast)
             high == Rates(q, InputOf(c.tokens), c.fast)
         IN  low[1] <= high[1] /\ low[2] <= high[2],
         p.cache.read <= q.cache.read, p.cache.write <= q.cache.write,
         p.cache.write1h <= q.cache.write1h
  PROVE  BillAt(p, c) <= BillAt(q, c)
<1> DEFINE t == c.tokens
           low == Rates(p, InputOf(t), c.fast)
           high == Rates(q, InputOf(t), c.fast)
           tenths == IF c.request.geo = "us" THEN 11 ELSE 10
<1>1. /\ low[1] \in Nat /\ low[2] \in Nat /\ high[1] \in Nat /\ high[2] \in Nat
      /\ low[1] <= high[1] /\ low[2] <= high[2]
  BY RatesAreTier, TiersAmounts
<1>2. /\ InputUnits(t, p.cache) \in Nat /\ InputUnits(t, q.cache) \in Nat
      /\ InputUnits(t, p.cache) <= InputUnits(t, q.cache)
  <2>1. /\ t.read \in Nat /\ t.write \in Nat /\ t.write1h \in Nat
        /\ p.cache.read \in Nat /\ p.cache.write \in Nat /\ p.cache.write1h \in Nat
        /\ q.cache.read \in Nat /\ q.cache.write \in Nat /\ q.cache.write1h \in Nat
    BY TokensAmounts DEF IsPrice
  <2>2. \A n \in Nat : \A x, y \in Nat :
          x <= y => n * x <= n * y /\ n * x \in Nat /\ n * y \in Nat
    <3> TAKE n \in Nat
    <3> TAKE x, y \in Nat
    <3>1. n <= n
      OBVIOUS
    <3>2. QED
      BY <3>1, ProductMono
  <2>3. /\ t.read * p.cache.read <= t.read * q.cache.read
        /\ t.read * p.cache.read \in Nat /\ t.read * q.cache.read \in Nat
        /\ t.write * p.cache.write <= t.write * q.cache.write
        /\ t.write * p.cache.write \in Nat /\ t.write * q.cache.write \in Nat
        /\ t.write1h * p.cache.write1h <= t.write1h * q.cache.write1h
        /\ t.write1h * p.cache.write1h \in Nat /\ t.write1h * q.cache.write1h \in Nat
    BY <2>1, <2>2
  <2>4. QED
    BY <2>3, TokensAmounts DEF InputUnits
<1>3. /\ low[1] * InputUnits(t, p.cache) <= high[1] * InputUnits(t, q.cache)
      /\ low[1] * InputUnits(t, p.cache) \in Nat /\ high[1] * InputUnits(t, q.cache) \in Nat
  BY <1>1, <1>2, ProductMono
<1>4. /\ 4 * low[2] * OutputOf(t) <= 4 * high[2] * OutputOf(t)
      /\ 4 * low[2] * OutputOf(t) \in Nat /\ 4 * high[2] * OutputOf(t) \in Nat
  <2>1. OutputOf(t) \in Nat
    BY TokensAmounts
  <2>2. 4 * low[2] \in Nat /\ 4 * high[2] \in Nat /\ 4 * low[2] <= 4 * high[2]
    BY <1>1
  <2> HIDE DEF low, high
  <2>3. QED
    BY <2>1, <2>2, ProductMono
<1>5. /\ BillAt(p, c) = (low[1] * InputUnits(t, p.cache) + 4 * low[2] * OutputOf(t)) * tenths
      /\ BillAt(q, c) = (high[1] * InputUnits(t, q.cache) + 4 * high[2] * OutputOf(t)) * tenths
  BY DEF BillAt, InputUnits
<1>6. tenths \in Nat /\ tenths <= tenths
  OBVIOUS
<1> DEFINE less == low[1] * InputUnits(t, p.cache) + 4 * low[2] * OutputOf(t)
           more == high[1] * InputUnits(t, q.cache) + 4 * high[2] * OutputOf(t)
<1>7. less \in Nat /\ more \in Nat /\ less <= more
  BY <1>3, <1>4
<1> HIDE DEF less, more, tenths
<1>8. less * tenths <= more * tenths
  BY <1>6, <1>7, ProductMono
<1>9. QED
  BY <1>5, <1>8 DEF less, more

LEMMA StepBillsAtCeiling ==
  ASSUME PricingIInv, [PricingNext]_pricingVars
  PROVE  BilledAtCeiling
<1> DEFINE c == call'
           name == c.request.name
           provider == ProviderOf(name)
<1> SUFFICES ASSUME Billed, settled # "no", ~crossed, \A r \in Registrars : stage[r] \notin Busy,
                    ~c.garbled, Find(name, prices) = NoKey, c.request.via = "wrap" => ~Lite(name),
                    NEW k \in DOMAIN prices,
                    provider \in {prices[k].provider, "none"}, prices[k].cache.read <= 4
             PROVE  c.cost >= Unit(c) * BillAt(prices[k], c)
  BY DEF BilledAtCeiling
<1>1. PICK counts : BilledFor(counts)
  BY BilledByBill
<1>2. TablesOK /\ IsPrice(prices[k])
  BY DEF PricingIInv, PricingTables, TablesOK, IsTable
<1>3. ceilings = Ceilings(prices)
  BY DEF PricingIInv, PricingTables, CeilingsCurrent
<1>4. provider \in DOMAIN ceilings
  <2>1. DOMAIN ceilings = {prices[j].provider : j \in DOMAIN prices} \cup {"none"}
    BY <1>2, <1>3, CeilingsDearest DEF TablesOK
  <2>2. QED
    BY <2>1
<1> DEFINE top == ceilings[provider]
<1>5. IsCeiling(top, prices, provider)
  BY <1>2, <1>3, <1>4, CeilingsDearest DEF TablesOK
<1>6. Resolve(name) = top
  BY <1>4 DEF Resolve, Ceiling
<1>7. call.entry = top /\ ~call.garbled
  <2>1. c.request = call.request /\ ~call.garbled
    BY <1>1 DEF BilledFor
  <2>2. call.entry = IF c.request.via = "wrap" THEN PriceTokens(name) ELSE Resolve(name)
    BY <2>1 DEF Billed, PricingIInv, PricingCall, EntryCurrent
  <2>3. c.request.via = "wrap" => PriceTokens(name) = Resolve(name)
    BY DEF PriceTokens
  <2> HIDE DEF top
  <2>4. QED
    BY <1>6, <2>1, <2>2, <2>3
<1> HIDE DEF top
<1>8. c.cost = Unit(c) * BillAt(top, c) /\ BillAt(top, c) \in Nat
  BY <1>1, <1>7, CostFound
<1>9. Rates(top, InputOf(c.tokens), c.fast) = <<top.input, top.output>>
  BY <1>5 DEF IsCeiling, Rates
<1>10. BillAt(prices[k], c) <= BillAt(top, c)
  <2> DEFINE low == Rates(prices[k], InputOf(c.tokens), c.fast)
             high == Rates(top, InputOf(c.tokens), c.fast)
  <2>1. low[1] <= high[1] /\ low[2] <= high[2]
    BY <1>5, <1>9, RatesAreTier DEF IsCeiling
  <2>2. /\ prices[k].cache.read <= top.cache.read
        /\ prices[k].cache.write <= top.cache.write
        /\ prices[k].cache.write1h <= top.cache.write1h
    BY <1>5 DEF IsCeiling
  <2>3. IsPrice(top) /\ c.tokens \in Tokens
    BY <1>1, <1>5 DEF IsCeiling, BilledFor
  <2>4. QED
    BY <1>2, <2>1, <2>2, <2>3, BillMono
<1>11. BillAt(prices[k], c) \in Nat
  <2>1. c.tokens \in Tokens /\ TrueUsage(counts, c.tokens)
    BY <1>1, <1>7 DEF BilledFor
  <2>2. QED
    BY <1>2, <2>1, CostExact
<1>12. QED
  <2>1. Unit(c) \in {1, 4}
    BY DEF Unit
  <2>2. QED
    BY <1>8, <1>10, <1>11, <2>1

\* An unknown model costs at least what any model of its provider would, for any table
\* and any number of threads that register prices one after another.
THEOREM PricingUnknownNotCheaper == PricingSpec => UnknownNotCheaper
<1>1. PricingIInv /\ [PricingNext]_pricingVars => [BilledAtCeiling]_pricingVars
  BY StepBillsAtCeiling
<1>2. QED
  BY <1>1, PricingInvariant, PTL DEF PricingSpec, UnknownNotCheaper

-----------------------------------------------------------------------------
(* Pricing: the estimate before a call.                                     *)

\* The tokens that an estimate assumes: all the input fresh, out of output.
Assumed(out) ==
  [fresh |-> MaxInput, read |-> 0, write |-> 0, write1h |-> 0, visible |-> out, thinking |-> 0]

\* The usage of an estimate is true of the tokens that it assumes.
LEMMA AssumedTokens ==
  ASSUME NEW out \in 0 .. MaxOutput
  PROVE  LET counts == [TokenUsage(MaxInput, 0, 0, 0, 0, 0) EXCEPT !.completion = out]
         IN  /\ Assumed(out) \in Tokens /\ TrueUsage(counts, Assumed(out))
             /\ counts.prompt = MaxInput /\ OutputOf(Assumed(out)) = out
             /\ \A cache : {cache.read, cache.write, cache.write1h} \subseteq Nat =>
                  InputUnits(Assumed(out), cache) = 4 * MaxInput
<1> DEFINE counts == [TokenUsage(MaxInput, 0, 0, 0, 0, 0) EXCEPT !.completion = out]
<1>1. MaxInput \in Nat /\ MaxOutput \in Nat /\ out \in Nat
  BY PricingAssumption
<1>2. Assumed(out) \in Tokens
  BY <1>1 DEF Assumed, Tokens
<1>3. InputOf(Assumed(out)) = MaxInput /\ OutputOf(Assumed(out)) = out
  BY <1>1 DEF Assumed, InputOf, OutputOf
<1>4. counts = [prompt |-> MaxInput, completion |-> out, read |-> 0, write |-> 0, write1h |-> 0,
               reasoning |-> 0]
  BY DEF TokenUsage
<1>5. TrueUsage(counts, Assumed(out)) /\ counts.prompt = MaxInput
  BY <1>1, <1>3, <1>4 DEF TrueUsage, IsValid, Assumed
<1>6. ASSUME NEW cache, {cache.read, cache.write, cache.write1h} \subseteq Nat
      PROVE  InputUnits(Assumed(out), cache) = 4 * MaxInput
  BY <1>1, <1>6 DEF InputUnits, Assumed
<1>7. QED
  BY <1>2, <1>3, <1>5, <1>6

LEMMA MaxOfTwo ==
  ASSUME NEW a \in Nat, NEW b \in Nat
  PROVE  Max({a, b}) \in Nat /\ a <= Max({a, b}) /\ b <= Max({a, b})
<1>1. IsFiniteSet({a, b})
  <2>1. IsFiniteSet({a} \cup {b})
    BY FS_Singleton, FS_AddElement
  <2>2. {a} \cup {b} = {a, b}
    OBVIOUS
  <2>3. QED
    BY <2>1, <2>2
<1>2. {a, b} \subseteq Nat /\ {a, b} # {}
  OBVIOUS
<1>3. Max({a, b}) \in {a, b} /\ \A y \in {a, b} : y <= Max({a, b})
  BY <1>1, <1>2, MaxIsLast
<1>4. QED
  BY <1>3

\* What the whole input may cost more for being written to a cache covers what any part
\* of it costs.
LEMMA MultiplierCovers ==
  ASSUME TablesOK, NEW r \in Requests, r.kind \in Wrapped,
         r.ttls # {} => SaysAnthropic(r.name), HasUsualRates(r),
         NEW t \in Tokens, MayWrite(r, t)
  PROVE  LET m == CacheWriteMultiplier(r.name, r.ttls)
             cache == PriceTokens(r.name).cache
         IN  /\ m \in Nat /\ 4 <= m
             /\ {cache.read, cache.write, cache.write1h} \subseteq Nat /\ cache.read <= m
             /\ t.write # 0 => cache.write <= m
             /\ t.write1h # 0 => cache.write1h <= m
<1> DEFINE m == CacheWriteMultiplier(r.name, r.ttls)
           cache == PriceTokens(r.name).cache
<1>1. {cache.read, cache.write, cache.write1h} \subseteq Nat
  BY ResolvesPrice DEF IsPrice
<1>2. cache.read <= 4 /\ (r.ttls # {} => cache.write <= 5 /\ cache.write1h <= 8)
  BY DEF HasUsualRates
<1>3. CASE SaysAnthropic(r.name)
  <2>1. m = IF "1h" \in r.ttls THEN 8 ELSE IF r.ttls # {} THEN 5 ELSE 4
    BY <1>3 DEF CacheWriteMultiplier
  <2>2. r.kind = "anthropic"
    BY <1>3 DEF Requests, SaysAnthropic, ProviderOf, Family, Wrapped
  <2>3. /\ t.write # 0 => "5m" \in r.ttls
        /\ t.write1h # 0 => "1h" \in r.ttls
    BY <2>2 DEF MayWrite
  <2> HIDE DEF m, cache
  <2>4. QED
    BY <1>1, <1>2, <2>1, <2>3 DEF m, cache
<1>4. CASE ~SaysAnthropic(r.name)
  <2>1. r.ttls = {}
    BY <1>4
  <2>2. t.write1h = 0 /\ (r.kind = "anthropic" => t.write = 0)
    BY <2>1 DEF MayWrite, Wrapped
  <2>3. m \in Nat /\ 4 <= m /\ cache.write <= m
    <3>1. CASE Find(r.name, prices) # NoKey
      <4>1. m = Max({4, cache.write})
        BY <1>4, <3>1 DEF CacheWriteMultiplier, PriceTokens, Resolve
      <4> HIDE DEF m, cache
      <4>2. QED
        BY <1>1, <4>1, MaxOfTwo DEF cache
    <3>2. CASE Find(r.name, prices) = NoKey /\ Lite(r.name)
      <4> DEFINE write == LiteLLM[r.name.segments].cache.write
      <4>1. m = Max({4, write})
        BY <1>4, <3>2 DEF CacheWriteMultiplier
      <4>2. write \in Nat
        BY <3>2, PricingAssumption DEF Lite
      <4>3. cache.write = IF write = 0 THEN 4 ELSE write
        BY <3>2 DEF PriceTokens, LiteEntry, ModelPrice, LiteCache, CacheRates
      <4> HIDE DEF m, cache, write
      <4>4. QED
        BY <4>1, <4>2, <4>3, MaxOfTwo
    <3>3. CASE Find(r.name, prices) = NoKey /\ ~Lite(r.name)
      <4>1. m = Max({4, cache.write})
        BY <1>4, <3>3 DEF CacheWriteMultiplier, PriceTokens, Resolve
      <4> HIDE DEF m, cache
      <4>2. QED
        BY <1>1, <4>1, MaxOfTwo DEF cache
    <3>4. QED
      BY <3>1, <3>2, <3>3
  <2> HIDE DEF m, cache
  <2>4. QED
    BY <1>1, <1>2, <2>2, <2>3 DEF m, cache
<1>5. QED
  BY <1>3, <1>4

\* A call within the tokens assumed, at rates no higher, stays within the estimate.
LEMMA EstimateBound ==
  ASSUME NEW t \in Tokens, InputOf(t) <= MaxInput, OutputOf(t) <= MaxOutput,
         NEW cache, {cache.read, cache.write, cache.write1h} \subseteq Nat,
         NEW m \in Nat, 4 <= m, cache.read <= m,
         t.write # 0 => cache.write <= m, t.write1h # 0 => cache.write1h <= m,
         NEW i \in Nat, NEW high \in Nat, i <= high,
         NEW o \in Nat, NEW top \in Nat, o <= top, NEW tenths \in Nat
  PROVE  4 * ((i * InputUnits(t, cache) + 4 * o * OutputOf(t)) * tenths)
           <= 4 * ((high * (4 * MaxInput) + 4 * top * MaxOutput) * tenths)
                + (m - 4) * ((high * (4 * MaxInput) + 4 * top * 0) * tenths)
<1>1. /\ t.fresh \in Nat /\ t.read \in Nat /\ t.write \in Nat /\ t.write1h \in Nat
      /\ InputOf(t) \in Nat /\ OutputOf(t) \in Nat /\ MaxInput \in Nat /\ MaxOutput \in Nat
  BY TokensAmounts, PricingAssumption
<1>2. \A n, x, y \in Nat : x <= y => n * x <= n * y /\ n * x \in Nat /\ n * y \in Nat
  <2> TAKE n, x, y \in Nat
  <2>1. n <= n
    OBVIOUS
  <2>2. QED
    BY <2>1, ProductMono
<1>3. InputUnits(t, cache) <= m * MaxInput /\ InputUnits(t, cache) \in Nat /\ m * MaxInput \in Nat
  <2>1. t.fresh * 4 <= t.fresh * m /\ t.fresh * m \in Nat
    BY <1>1, <1>2
  <2>2. t.read * cache.read <= t.read * m /\ t.read * m \in Nat /\ t.read * cache.read \in Nat
    BY <1>1, <1>2
  <2>3. t.write * cache.write <= t.write * m /\ t.write * m \in Nat /\ t.write * cache.write \in Nat
    <3>1. CASE t.write = 0
      BY <3>1
    <3>2. CASE t.write # 0
      BY <1>1, <1>2, <3>2
    <3>3. QED
      BY <3>1, <3>2
  <2>4. /\ t.write1h * cache.write1h <= t.write1h * m
        /\ t.write1h * m \in Nat /\ t.write1h * cache.write1h \in Nat
    <3>1. CASE t.write1h = 0
      BY <3>1
    <3>2. CASE t.write1h # 0
      BY <1>1, <1>2, <3>2
    <3>3. QED
      BY <3>1, <3>2
  <2>5. t.fresh * m + t.read * m + t.write * m + t.write1h * m = m * InputOf(t)
    BY <1>1 DEF InputOf
  <2>6. m * InputOf(t) <= m * MaxInput /\ m * MaxInput \in Nat
    BY <1>1, <1>2
  <2> DEFINE a == t.read * cache.read
             b == t.write * cache.write
             d == t.write1h * cache.write1h
             aMost == t.read * m
             bMost == t.write * m
             dMost == t.write1h * m
             fMost == t.fresh * m
             all == m * InputOf(t)
             most == m * MaxInput
  <2>7. InputUnits(t, cache) = 4 * t.fresh + a + b + d
    BY DEF InputUnits
  <2>8. /\ a <= aMost /\ b <= bMost /\ d <= dMost /\ 4 * t.fresh <= fMost
        /\ a \in Nat /\ b \in Nat /\ d \in Nat /\ 4 * t.fresh \in Nat
        /\ aMost \in Nat /\ bMost \in Nat /\ dMost \in Nat /\ fMost \in Nat
    BY <1>1, <2>1, <2>2, <2>3, <2>4
  <2>9. fMost + aMost + bMost + dMost = all /\ all <= most /\ most \in Nat
    BY <2>5, <2>6
  <2> HIDE DEF a, b, d, aMost, bMost, dMost, fMost, all, most
  <2>10. InputUnits(t, cache) <= most /\ InputUnits(t, cache) \in Nat
    BY <2>7, <2>8, <2>9
  <2>11. QED
    BY <2>9, <2>10 DEF most
<1>4. /\ i * InputUnits(t, cache) <= high * (m * MaxInput)
      /\ i * InputUnits(t, cache) \in Nat /\ high * (m * MaxInput) \in Nat
  BY <1>3, ProductMono
<1>5. /\ (4 * o) * OutputOf(t) <= (4 * top) * MaxOutput
      /\ (4 * o) * OutputOf(t) \in Nat /\ (4 * top) * MaxOutput \in Nat
  <2>1. 4 * o \in Nat /\ 4 * top \in Nat /\ 4 * o <= 4 * top
    OBVIOUS
  <2>2. QED
    BY <1>1, <2>1, ProductMono
<1> DEFINE bill == i * InputUnits(t, cache) + 4 * o * OutputOf(t)
           most == high * (m * MaxInput) + 4 * top * MaxOutput
           input == high * (4 * MaxInput)
           output == 4 * top * MaxOutput
<1>6. bill \in Nat /\ most \in Nat /\ bill <= most
  BY <1>4, <1>5
<1>7. bill * tenths <= most * tenths /\ bill * tenths \in Nat /\ most * tenths \in Nat
  <2> HIDE DEF bill, most
  <2>1. tenths <= tenths
    OBVIOUS
  <2>2. QED
    BY <1>6, <2>1, ProductMono
<1>8. 4 * (most * tenths) = 4 * ((input + output) * tenths) + (m - 4) * ((input + 4 * top * 0) * tenths)
  <2> DEFINE part == high * MaxInput
  <2>1. part \in Nat /\ output \in Nat
    BY <1>1, <1>5
  <2>2. input = 4 * part /\ high * (m * MaxInput) = m * part /\ 4 * top * 0 = 0
    BY <1>1
  <2>3. most = m * part + output /\ input + 4 * top * 0 = 4 * part
    BY <2>1, <2>2
  <2> HIDE DEF part, output, most, input
  <2>4. 4 * ((m * part + output) * tenths)
          = 4 * ((4 * part + output) * tenths) + (m - 4) * ((4 * part) * tenths)
    BY <2>1
  <2>5. QED
    BY <2>2, <2>3, <2>4
<1>9. QED
  BY <1>7, <1>8

Tenths(geo) == IF geo = "us" THEN 11 ELSE 10

\* A shorter prompt, or one that is not served fast, is not dearer.
LEMMA RatesRise ==
  ASSUME NEW price, IsPrice(price), IsGraded(price), NEW prompt \in Nat, prompt <= MaxInput,
         NEW fast, NEW asked, fast => asked
  PROVE  LET low == Rates(price, prompt, fast)
             high == Rates(price, MaxInput, asked)
         IN  /\ low[1] \in Nat /\ low[2] \in Nat /\ high[1] \in Nat /\ high[2] \in Nat
             /\ low[1] <= high[1] /\ low[2] <= high[2]
<1> DEFINE low == Rates(price, prompt, fast)
           high == Rates(price, MaxInput, asked)
<1>1. IsPrice(price) /\ IsGraded(price)
  OBVIOUS
<1>2. low \in Tiers(price) /\ high \in Tiers(price)
  BY RatesAreTier
<1>3. low[1] \in Nat /\ low[2] \in Nat /\ high[1] \in Nat /\ high[2] \in Nat
  BY <1>1, <1>2, TiersAmounts
<1>4. low[1] <= high[1] /\ low[2] <= high[2]
  <2>1. CASE asked /\ price.fast # <<>>
    <3>1. high = price.fast
      BY <2>1 DEF Rates
    <3>2. QED
      BY <1>1, <1>2, <2>1, <3>1 DEF IsGraded
  <2>2. CASE ~(asked /\ price.fast # <<>>) /\ price.long # <<>> /\ MaxInput > price.long[1]
    <3>1. high = <<price.long[2], price.long[3]>>
      BY <2>2 DEF Rates
    <3>2. low \in {high, <<price.input, price.output>>}
      BY <2>2, <3>1 DEF Rates
    <3>3. price.input <= high[1] /\ price.output <= high[2]
      BY <1>1, <1>2 DEF IsGraded
    <3> HIDE DEF low, high
    <3>4. CASE low = high
      BY <1>3, <3>4
    <3>5. CASE low = <<price.input, price.output>>
      BY <3>3, <3>5
    <3>6. QED
      BY <3>2, <3>4, <3>5
  <2>3. CASE ~(asked /\ price.fast # <<>>) /\ ~(price.long # <<>> /\ MaxInput > price.long[1])
    <3>1. price.long # <<>> => ~(prompt > price.long[1])
      <4>1. price.long # <<>> => price.long[1] \in Nat
        BY <1>1 DEF IsPrice
      <4>2. MaxInput \in Nat
        BY PricingAssumption
      <4>3. QED
        BY <2>3, <4>1, <4>2
    <3>2. low = high
      BY <2>3, <3>1 DEF Rates
    <3> HIDE DEF low, high
    <3>3. QED
      BY <1>3, <3>2
  <2>4. QED
    BY <2>1, <2>2, <2>3
<1>5. QED
  BY <1>3, <1>4

\* What a true usage costs.
LEMMA CostIs ==
  ASSUME NEW price, IsPrice(price), NEW t \in Tokens, NEW counts, TrueUsage(counts, t), NEW fast, NEW geo
  PROVE  LET rates == Rates(price, counts.prompt, fast)
         IN  Cost(price, counts, fast, geo) =
               (rates[1] * InputUnits(t, price.cache) + 4 * rates[2] * OutputOf(t)) * Tenths(geo)
<1> DEFINE rates == Rates(price, counts.prompt, fast)
           cost == Price(counts, rates[1], rates[2], price.cache)
<1>1. rates[1] \in Nat /\ rates[2] \in Nat
  BY RatesAreTier, TiersAmounts
<1>2. /\ cost = rates[1] * InputUnits(t, price.cache) + 4 * rates[2] * OutputOf(t)
      /\ cost \in Nat
  BY <1>1, PriceExact DEF IsPrice
<1>3. Modifier(cost, geo) = cost * Tenths(geo)
  <2> HIDE DEF cost
  <2>1. cost # Invalid
    BY <1>2 DEF Invalid
  <2>2. QED
    BY <2>1 DEF Modifier, Tenths
<1>4. Cost(price, counts, fast, geo) = Modifier(cost, geo)
  BY DEF Cost
<1> HIDE DEF cost, rates
<1>5. QED
  BY <1>2, <1>3, <1>4 DEF rates

\* What wrap() reserves.
LEMMA EstimateIs ==
  ASSUME TablesOK, NEW r \in Requests
  PROVE  LET high == Rates(PriceTokens(r.name), MaxInput, r.fast)
             m == CacheWriteMultiplier(r.name, r.ttls)
         IN  PrecallWorstcase(r) =
               4 * ((high[1] * (4 * MaxInput) + 4 * high[2] * MaxOutput) * Tenths(r.geo))
                 + (m - 4) * ((high[1] * (4 * MaxInput) + 4 * high[2] * 0) * Tenths(r.geo))
<1> DEFINE price == PriceTokens(r.name)
           high == Rates(price, MaxInput, r.fast)
           m == CacheWriteMultiplier(r.name, r.ttls)
           input == TokenUsage(MaxInput, 0, 0, 0, 0, 0)
           full == [input EXCEPT !.completion = MaxOutput]
           empty == [input EXCEPT !.completion = 0]
<1>1. MaxInput \in Nat /\ MaxOutput \in Nat /\ 0 \in 0 .. MaxOutput /\ MaxOutput \in 0 .. MaxOutput
  BY PricingAssumption
<1>2. input = empty
  BY DEF TokenUsage
<1>3. IsPrice(price) /\ {price.cache.read, price.cache.write, price.cache.write1h} \subseteq Nat
  BY ResolvesPrice DEF IsPrice
<1> HIDE DEF price
<1>4. Cost(price, full, r.fast, r.geo)
        = (high[1] * (4 * MaxInput) + 4 * high[2] * MaxOutput) * Tenths(r.geo)
  <2> DEFINE t == Assumed(MaxOutput)
  <2>1. /\ t \in Tokens /\ TrueUsage(full, t) /\ full.prompt = MaxInput /\ OutputOf(t) = MaxOutput
        /\ InputUnits(t, price.cache) = 4 * MaxInput
    BY <1>1, <1>3, AssumedTokens
  <2> HIDE DEF t, full
  <2>2. QED
    BY <1>3, <2>1, CostIs
<1>5. Cost(price, input, r.fast, r.geo)
        = (high[1] * (4 * MaxInput) + 4 * high[2] * 0) * Tenths(r.geo)
  <2> DEFINE t == Assumed(0)
  <2>1. /\ t \in Tokens /\ TrueUsage(empty, t) /\ empty.prompt = MaxInput /\ OutputOf(t) = 0
        /\ InputUnits(t, price.cache) = 4 * MaxInput
    BY <1>1, <1>3, AssumedTokens
  <2> HIDE DEF t, empty, input
  <2>2. QED
    BY <1>2, <1>3, <2>1, CostIs
<1>6. PrecallWorstcase(r) = 4 * Cost(price, full, r.fast, r.geo)
                              + (m - 4) * Cost(price, input, r.fast, r.geo)
  BY Zenon DEF PrecallWorstcase, price
<1> HIDE DEF full, input, m, high
<1>7. QED
  BY <1>4, <1>5, <1>6 DEF m, high, price

LEMMA StepBillsWithinEstimate ==
  ASSUME PricingIInv, [PricingNext]_pricingVars
  PROVE  BilledWithinEstimate
<1> DEFINE c == call'
           r == c.request
           t == c.tokens
<1> SUFFICES ASSUME Billed, settled = "asked", r.via = "wrap",
                    r.ttls # {} => SaysAnthropic(r.name), HasUsualRates(r)
             PROVE  c.cost <= c.estimate
  BY DEF BilledWithinEstimate
<1>1. PICK counts : BilledFor(counts)
  BY BilledByBill
<1>2. /\ TablesOK /\ r \in Requests /\ t \in Tokens /\ MayWrite(r, t) /\ r.kind \in Wrapped
      /\ InputOf(t) <= MaxInput /\ OutputOf(t) <= MaxOutput
  BY <1>1 DEF PricingIInv, PricingTables, BilledFor, Requests
<1>3. c.estimate = PrecallWorstcase(r)
  BY <1>1 DEF BilledFor, Billed, PricingIInv, PricingCall, EstimateCurrent
<1>4. c.fast => r.fast
  <2>1. r = call.request /\ c.fast = call.fast
    BY <1>1 DEF BilledFor
  <2>2. call.fast => call.request.fast
    BY DEF Billed, PricingIInv, PricingCall, EstimateCurrent
  <2>3. QED
    BY <2>1, <2>2, Zenon
<1> DEFINE m == CacheWriteMultiplier(r.name, r.ttls)
           price == PriceTokens(r.name)
           cache == price.cache
           low == Rates(price, InputOf(t), c.fast)
           high == Rates(price, MaxInput, r.fast)
           bill == (low[1] * InputUnits(t, cache) + 4 * low[2] * OutputOf(t)) * Tenths(r.geo)
           most == (high[1] * (4 * MaxInput) + 4 * high[2] * MaxOutput) * Tenths(r.geo)
           input == (high[1] * (4 * MaxInput) + 4 * high[2] * 0) * Tenths(r.geo)
<1>5. /\ m \in Nat /\ 4 <= m
      /\ {cache.read, cache.write, cache.write1h} \subseteq Nat /\ cache.read <= m
      /\ t.write # 0 => cache.write <= m
      /\ t.write1h # 0 => cache.write1h <= m
  BY <1>2, MultiplierCovers
<1>6. /\ low[1] \in Nat /\ low[2] \in Nat /\ high[1] \in Nat /\ high[2] \in Nat
      /\ low[1] <= high[1] /\ low[2] <= high[2]
  <2>1. IsPrice(price) /\ IsGraded(price)
    BY <1>2, ResolvesPrice
  <2>2. InputOf(t) \in Nat
    BY <1>2, TokensAmounts DEF InputOf
  <2> HIDE DEF price
  <2>3. QED
    BY <1>2, <1>4, <2>1, <2>2, RatesRise
<1>7. Tenths(r.geo) \in Nat
  BY DEF Tenths
<1>8. c.estimate = 4 * most + (m - 4) * input
  BY <1>2, <1>3, <1>5, EstimateIs
<1>9. 4 * bill <= 4 * most + (m - 4) * input
  <2> HIDE DEF m, cache, low, high
  <2>1. QED
    BY <1>2, <1>5, <1>6, <1>7, EstimateBound
<1>10. c.cost = IF c.garbled THEN c.estimate ELSE 4 * bill
  <2>1. r = call.request /\ c.garbled = call.garbled /\ c.fast = call.fast /\ c.estimate = call.estimate
    BY <1>1 DEF BilledFor
  <2>2. c.cost = AccountedUsage(call, counts)
    BY <1>1, <2>1 DEF BilledFor
  <2>3. CASE c.garbled
    BY <1>1, <2>1, <2>2, <2>3 DEF BilledFor, AccountedUsage
  <2>4. CASE ~c.garbled
    <3>1. TrueUsage(counts, t) /\ counts.prompt = InputOf(t) /\ IsValid(counts)
      BY <1>1, <2>1, <2>4 DEF BilledFor, TrueUsage
    <3>2. call.entry = price /\ IsPrice(price)
      BY <2>1, <2>4, <1>2, ResolvesPrice DEF Billed, PricingIInv, PricingCall, EntryCurrent
    <3>3. Cost(price, counts, c.fast, r.geo) = bill
      <4> HIDE DEF c, price
      <4>1. QED
        BY <1>2, <3>1, <3>2, CostIs
    <3>4. c.cost = 4 * Cost(price, counts, c.fast, r.geo)
      BY <2>1, <2>2, <3>1, <3>2 DEF AccountedUsage
    <3>5. QED
      BY <2>4, <3>3, <3>4
  <2>5. QED
    BY <2>3, <2>4
<1>11. most \in Nat /\ input \in Nat /\ m - 4 \in Nat
  <2> HIDE DEF m, high, cache
  <2>1. MaxInput \in Nat /\ MaxOutput \in Nat
    BY PricingAssumption
  <2>2. QED
    BY <1>5, <1>6, <1>7, <2>1
<1>12. c.estimate <= c.estimate
  <2> HIDE DEF most, input, m
  <2>1. (m - 4) * input \in Nat
    BY <1>11
  <2>2. QED
    BY <1>8, <1>11, <2>1
<1>13. QED
  BY <1>8, <1>9, <1>10, <1>12

\* The estimate that wrap() reserves covers the bill whatever was cached, for any table,
\* any request and any numbers of tokens.
THEOREM PricingEstimateCovers == PricingSpec => EstimateCovers
<1>1. PricingIInv /\ [PricingNext]_pricingVars => [BilledWithinEstimate]_pricingVars
  BY StepBillsWithinEstimate
<1>2. QED
  BY <1>1, PricingInvariant, PTL DEF PricingSpec, EstimateCovers
=============================================================================
