--------------------------- MODULE GuardedClient ---------------------------
(***************************************************************************)
(* pactrun/wrap.py: one client shared by several threads or tasks, each    *)
(* making one create() call.  The budget lock makes admission, settlement  *)
(* and the recording of a tool proposal atomic; between them the provider, *)
(* the consumer of a stream and whoever closes it interleave freely.       *)
(***************************************************************************)
EXTENDS Sums, Recovery

CONSTANTS
  Kind,         \* which SDK the client is: "openai" or "anthropic"
  Calls,        \* the create() calls made through one GuardedClient
  Amounts,      \* estimates and computed costs, in units of money
  Budget,       \* max_cost
  OnViolation,  \* on_violation
  Tools,        \* tool names a response may propose
  Forbidden     \* forbid_tools

NoTool == "noTool"

ASSUME WrapAssumption ==
  /\ Kind \in {"openai", "anthropic"}
  /\ IsFiniteSet(Calls)
  /\ Amounts \subseteq Nat
  /\ Budget \in Nat
  /\ OnViolation \in Actions
  /\ Forbidden \subseteq Tools
  /\ NoTool \notin Tools

VARIABLES
  total,      \* session.state.total_cost_usd
  pending,    \* the keys of _reservations
  estimate,   \* the values of _reservations, kept after the key is popped
  pc,         \* how far each call has got
  usage,      \* GuardedStream._usage is set
  recorded,   \* GuardedStream._recorded
  seen,       \* GuardedStream._seen_tools
  inHand,     \* the chunk next(self._stream) returned, before _on_chunk
  delivered,  \* tool proposals the caller got to see
  blocked,    \* history: proposals over which the call's stream has raised
  unread,     \* history: proposals of a response that the recorder never read
  charges,    \* history: LLM events emitted for the call
  basis,      \* metadata["cost_basis"] of the call's LLM event
  overrun     \* history: reported costs beyond their estimates, in total

money  == <<total, pending, estimate, charges, basis, overrun>>
stream == <<usage, recorded, seen, inHand, blocked>>
vars   == <<total, pending, estimate, pc, usage, recorded, seen, inHand,
            delivered, blocked, unread, charges, basis, overrun>>

\* "closing" is an iterator that has raised out of _on_chunk and has not yet
\* run _close_after_error; "abandoned" is a stream nobody will read or close.
Stages == {"idle", "refused", "dispatched", "stream", "closing", "closed",
           "abandoned", "returned", "raised"}

\* What next(self._stream) can hand over: text, a tool name, Anthropic usage
\* counts that are not final (message_start, message_delta), and the chunk that
\* ends the accounting (a chunk with usage, or Anthropic's message_stop).
Chunk(kind) == [kind |-> kind, tool |-> NoTool]
NoChunk == Chunk("none")
Chunks ==
  {Chunk("text")}
    \cup [kind : {"tool"}, tool : Tools]
    \cup IF Kind = "openai" THEN {Chunk("usage")}
                            ELSE {Chunk("meter"), Chunk("stop")}

TypeOK ==
  /\ total \in Nat
  /\ pending \subseteq Calls
  /\ estimate \in [Calls -> Nat]
  /\ pc \in [Calls -> Stages]
  /\ usage \in [Calls -> BOOLEAN]
  /\ recorded \in [Calls -> BOOLEAN]
  /\ seen \in [Calls -> SUBSET Tools]
  /\ inHand \in [Calls -> Chunks \cup {NoChunk}]
  /\ delivered \in [Calls -> SUBSET Tools]
  /\ blocked \in [Calls -> SUBSET Tools]
  /\ unread \in [Calls -> SUBSET Tools]
  /\ charges \in [Calls -> Nat]
  /\ basis \in [Calls -> {"none", "usage", "estimate"}]
  /\ overrun \in Nat

Init ==
  /\ total = 0
  /\ pending = {}
  /\ estimate = [c \in Calls |-> 0]
  /\ pc = [c \in Calls |-> "idle"]
  /\ usage = [c \in Calls |-> FALSE]
  /\ recorded = [c \in Calls |-> FALSE]
  /\ seen = [c \in Calls |-> {}]
  /\ inHand = [c \in Calls |-> NoChunk]
  /\ delivered = [c \in Calls |-> {}]
  /\ blocked = [c \in Calls |-> {}]
  /\ unread = [c \in Calls |-> {}]
  /\ charges = [c \in Calls |-> 0]
  /\ basis = [c \in Calls |-> "none"]
  /\ overrun = 0

-----------------------------------------------------------------------------
(* The session the calls share: wrap() builds a contract of cost_under,     *)
(* _reported_usage_valid and one must_not_call per forbidden tool.          *)

\* Did recording an event raise?  cost is the total after the event, invalid
\* says the event carries the invalid-usage diagnostic.  forbid() clauses
\* block whatever on_violation says.
EventRaises(cost, invalid, tool) ==
  LET lax == cost > Budget \/ invalid
  IN  {raised \in BOOLEAN :
         /\ raised => \/ tool \in Forbidden
                      \/ lax /\ TRUE \in RecoveryRaises(OnViolation)
         /\ ~raised => /\ tool \notin Forbidden
                       /\ lax => FALSE \in RecoveryRaises(OnViolation)}

AccountedUnchecked(c) ==                    \* mutant: no is_valid_amount
  [cost : Amounts \cup {0 - 1}, basis : {"usage"}, invalid : {FALSE}]
    \cup [cost : {estimate[c]}, basis : {"estimate"}, invalid : BOOLEAN]
\* _accounted_usage: complete valid usage gives a computed cost, anything else
\* keeps the estimate, and invalid usage is flagged as well.
Accounted(c) ==
  [cost : Amounts, basis : {"usage"}, invalid : {FALSE}]
    \cup [cost : {estimate[c]}, basis : {"estimate"}, invalid : BOOLEAN]

UnavailableIsFree(c) ==                     \* mutant: a failed call costs nothing
  [cost |-> 0, basis |-> "estimate", invalid |-> FALSE]
Unavailable(c) == [cost |-> estimate[c], basis |-> "estimate", invalid |-> FALSE]

\* By how much a reported cost exceeds what was reserved for it.
Excess(cost, worst) == IF cost > worst THEN cost - worst ELSE 0

\* Popping the reservation and emitting the LLM event, under one lock.
Charge(c, a) ==
  /\ pending' = pending \ {c}
  /\ total' = total + a.cost
  /\ charges' = [charges EXCEPT ![c] = @ + 1]
  /\ basis' = [basis EXCEPT ![c] = a.basis]
  /\ overrun' = overrun + Excess(a.cost, estimate[c])
  /\ UNCHANGED estimate

Goto(c, stage) == pc' = [pc EXCEPT ![c] = stage]
-----------------------------------------------------------------------------
(* Admission and the plain call.                                            *)

ProjectedRecordedOnly(w) == total + w       \* mutant: ignores calls in flight
Projected(w) == total + SumOver(pending, estimate) + w

\* _precall_cost_gate lets the call through and the request is sent.
Admit(c, w) ==
  /\ pc[c] = "idle"
  /\ Projected(w) > Budget => FALSE \in RecoveryRaises(OnViolation)
  /\ pending' = pending \cup {c}
  /\ estimate' = [estimate EXCEPT ![c] = w]
  /\ Goto(c, "dispatched")
  /\ UNCHANGED <<total, charges, basis, overrun, stream, delivered, unread>>

\* _handle_precall_violation raises: nothing is reserved and nothing is sent.
Refuse(c, w) ==
  /\ pc[c] = "idle"
  /\ Projected(w) > Budget
  /\ TRUE \in RecoveryRaises(OnViolation)
  /\ Goto(c, "refused")
  /\ UNCHANGED <<money, stream, delivered, unread>>

FailCallUnsettled(c) ==                     \* mutant: cancellation is not caught
  /\ pc[c] = "dispatched"
  /\ Goto(c, "raised")
  /\ UNCHANGED <<money, stream, delivered, unread>>

\* The request fails or is cancelled.  Policy errors met while accounting for
\* it are swallowed, so the caller sees the original error.
FailCall(c) ==
  /\ pc[c] = "dispatched"
  /\ Charge(c, Unavailable(c))
  /\ Goto(c, "raised")
  /\ UNCHANGED <<stream, delivered, unread>>

\* A plain response is recorded, LLM event first, then the tool proposals the
\* recorder could read, and is handed back whole when no event raised.  What it
\* cannot read is never judged: the other choices of an OpenAI response, and
\* whatever stands behind a part that is not shaped as expected.
Respond(c) ==
  /\ pc[c] = "dispatched"
  /\ \E a \in Accounted(c), read, rest \in SUBSET Tools :
       LET llm     == EventRaises(total + a.cost, a.invalid, NoTool)
           tool(t) == EventRaises(total + a.cost, FALSE, t)
       IN  /\ Charge(c, a)
           /\ \/ /\ FALSE \in llm
                 /\ \A t \in read : FALSE \in tool(t)
                 /\ delivered' = [delivered EXCEPT ![c] = read \cup rest]
                 /\ unread' = [unread EXCEPT ![c] = rest]
                 /\ Goto(c, "returned")
              \/ /\ \/ TRUE \in llm
                    \/ FALSE \in llm /\ \E t \in read : TRUE \in tool(t)
                 /\ Goto(c, "raised")
                 /\ UNCHANGED <<delivered, unread>>
  /\ UNCHANGED stream

-----------------------------------------------------------------------------
(* Streams.                                                                 *)

OpenStream(c) ==
  /\ pc[c] = "dispatched"
  /\ Goto(c, "stream")
  /\ UNCHANGED <<money, stream, delivered, unread>>

\* next(self._stream) returns; a close may still come before _on_chunk.  Nothing
\* in __next__ asks whether the stream was closed: a consumer may call it again
\* after a close or a raise, as long as the upstream stream has chunks to give.
Fetch(c) ==
  /\ pc[c] \in {"stream", "closed"}
  /\ inHand[c] = NoChunk
  /\ \E chunk \in Chunks : inHand' = [inHand EXCEPT ![c] = chunk]
  /\ UNCHANGED <<money, pc, usage, recorded, seen, delivered, blocked, unread>>

\* What the rest of __next__ does once _on_chunk has raised or returned.
Leave(c, raised) ==
  /\ inHand' = [inHand EXCEPT ![c] = NoChunk]
  /\ IF raised /\ pc[c] = "stream" THEN Goto(c, "closing") ELSE UNCHANGED pc

\* Text is handed on; an Anthropic count that is not final is remembered.
OnTextOrMeter(c) ==
  /\ inHand[c].kind \in {"text", "meter"}
  /\ usage' = [usage EXCEPT ![c] = @ \/ inHand[c].kind = "meter"]
  /\ Leave(c, FALSE)
  /\ UNCHANGED <<money, recorded, seen, delivered, blocked, unread>>

\* _note_tool: a name not yet seen in this stream is marked as seen and then
\* recorded as a tool call; if that raises, the mark stays.
ToolRaisesSeenFirst(c, t) == {FALSE}        \* mutant: the name counts as seen at once
ToolRaises(c, t) == IF t \in seen[c] THEN {FALSE} ELSE EventRaises(total, FALSE, t)

OnTool(c) ==
  LET t == inHand[c].tool
  IN  /\ inHand[c].kind = "tool"
      /\ seen' = [seen EXCEPT ![c] = @ \cup {t}]
      /\ \E raised \in ToolRaises(c, t) :
           /\ delivered' = [delivered EXCEPT ![c] = IF raised THEN @ ELSE @ \cup {t}]
           /\ blocked' = [blocked EXCEPT ![c] = IF raised THEN @ \cup {t} ELSE @]
           /\ Leave(c, raised)
      /\ UNCHANGED <<money, usage, recorded, unread>>

\* _finalize(usage_seen=True), reached from the last accounting chunk.
OnFinal(c) ==
  LET known == usage[c] \/ inHand[c].kind = "usage"
  IN  /\ inHand[c].kind \in {"usage", "stop"}
      /\ usage' = [usage EXCEPT ![c] = known]
      /\ recorded' = [recorded EXCEPT ![c] = TRUE]
      /\ \/ /\ recorded[c]
            /\ Leave(c, FALSE)
            /\ UNCHANGED money
         \/ /\ ~recorded[c]
            /\ \E a \in IF known THEN Accounted(c) ELSE {Unavailable(c)} :
                 /\ Charge(c, a)
                 /\ \E raised \in EventRaises(total + a.cost, a.invalid, NoTool) :
                      Leave(c, raised)
      /\ UNCHANGED <<seen, delivered, blocked, unread>>

CloseAgain(c) ==                            \* mutant: no _recorded guard
  /\ pc[c] \in {"stream", "closing"}
  /\ recorded' = [recorded EXCEPT ![c] = TRUE]
  /\ Charge(c, Unavailable(c))
  /\ Goto(c, "closed")
  /\ UNCHANGED <<usage, seen, inHand, delivered, blocked, unread>>

\* close, __exit__, exhaustion, an upstream error, or _close_after_error: they
\* all run _finalize(usage_seen=False) and close the upstream stream.  The
\* closer need not be the thread that is reading.
Close(c) ==
  /\ pc[c] \in {"stream", "closing"}
  /\ recorded' = [recorded EXCEPT ![c] = TRUE]
  /\ \/ recorded[c] /\ UNCHANGED money
     \/ ~recorded[c] /\ Charge(c, Unavailable(c))
  /\ Goto(c, "closed")
  /\ UNCHANGED <<usage, seen, inHand, delivered, blocked, unread>>

\* The consumer stops reading and drops the stream without closing it.
Abandon(c) ==
  /\ pc[c] = "stream"
  /\ inHand[c] = NoChunk
  /\ Goto(c, "abandoned")
  /\ UNCHANGED <<money, stream, delivered, unread>>

-----------------------------------------------------------------------------
OnChunk(c) == OnTextOrMeter(c) \/ OnTool(c) \/ OnFinal(c)

Next ==
  \E c \in Calls :
    \/ \E w \in Amounts : Admit(c, w) \/ Refuse(c, w)
    \/ FailCall(c)
    \/ Respond(c)
    \/ OpenStream(c)
    \/ Fetch(c)
    \/ OnTextOrMeter(c)
    \/ OnTool(c)
    \/ OnFinal(c)
    \/ Close(c)
    \/ Abandon(c)

Spec == Init /\ [][Next]_vars

\* The provider answers or times out, a thread inside __next__ goes on, and a
\* consumer eventually stops reading, tidily or not.
Fairness ==
  \A c \in Calls :
    /\ WF_vars(FailCall(c) \/ Respond(c) \/ OpenStream(c))
    /\ WF_vars(OnChunk(c))
    /\ WF_vars(Close(c) \/ Abandon(c))

FairSpec == Spec /\ Fairness

-----------------------------------------------------------------------------
(* Properties.                                                              *)

\* "Settle once" and "the estimate and actual amount are never both added"
\* (docs/wrapper-coverage.md): an admitted call either still holds its
\* reservation or has put exactly one cost on the session, whatever order
\* responses, errors, usage chunks and closes come in (wrap.py:306-314, 546-566).
SettledOnce ==
  \A c \in Calls :
    /\ charges[c] = IF pc[c] \in {"idle", "refused"} \/ c \in pending THEN 0 ELSE 1
    /\ pc[c] \in {"returned", "raised", "closed"} => c \notin pending

\* No forbidden tool proposal reaches the caller before the session has raised
\* over it, whatever on_violation is and whoever closes or retries the stream;
\* what the recorder could not read of a plain response is the exception
\* (wrap.py:265-271, 373-378, 540-544, 674-683).
ForbiddenBlocked ==
  \A c \in Calls : delivered[c] \cap Forbidden \subseteq blocked[c] \cup unread[c]

\* Unknown accounting never frees reserved budget: a call that leaves the
\* reservations without trusted usage spends exactly what it had reserved
\* (wrap.py:316-323, 627-658).
UnknownKeepsEstimate ==
  [][\A c \in pending :
       (c \notin pending' /\ basis'[c] # "usage") => total' = total + estimate[c]]_vars

\* No reservation is held forever except by an abandoned stream.
EventuallySettled ==
  \A c \in Calls : (c \in pending) ~> (c \notin pending \/ pc[c] = "abandoned")

\* The promise: reservations and recorded costs are a budget ledger.
Ledger == INSTANCE BudgetLedger WITH
  Strict <- OnViolation \in Halting,
  spent <- total, claimed <- SumOver(pending, estimate),
  held <- pending, claim <- estimate,
  settled <- {c \in Calls : charges[c] > 0}

RefinesLedger == Ledger!Spec

\* With a halting on_violation, recorded cost plus open reservations stay
\* within max_cost except for reported costs above their own estimates.
WithinBudget == Ledger!BudgetBound
=============================================================================
