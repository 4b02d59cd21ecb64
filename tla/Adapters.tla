------------------------------ MODULE Adapters ------------------------------
(***************************************************************************)
(* The adapters that patch an SDK (adapters/openai.py, anthropic.py,       *)
(* gemini.py, litellm.py): a method of the SDK, one for the whole process, *)
(* is replaced while a with block of an adapter is open.  Tasks open and   *)
(* close blocks of one or of several adapters, within each other or side   *)
(* by side, while they call the method and have their calls recorded into  *)
(* their own sessions.                                                     *)
(***************************************************************************)
EXTENDS Integers, Sequences, FiniteSets, SequencesExt

CONSTANTS
  Tasks,      \* the tasks
  Adapters,   \* adapter instances for one SDK
  SDKs,       \* which SDK it may be
  PricesMove, \* whether other threads register prices meanwhile
  MaxParts,   \* bound: parts of a response
  MaxBlocks,  \* bound: with blocks opened
  MaxCalls    \* bound: calls of a task

ASSUME AdaptersAssumption ==
  /\ SDKs \subseteq {"openai", "anthropic", "gemini", "litellm"}
  /\ PricesMove \in BOOLEAN
  /\ {MaxParts, MaxBlocks, MaxCalls} \subseteq Nat

(* A wrapper is named by its adapter.  The method is the sequence of the     *)
(* wrappers that a call runs through, outermost first; <<>> is the SDK's own *)
(* method.  The asynchronous method is replaced and put back along with it.  *)
VARIABLES
  sdk,       \* the SDK
  method,    \* what the SDK has as its method
  original,  \* _original_sync of each adapter: the method that it replaced
  patched,   \* _patched of each adapter
  blocks,    \* the open blocks of each task, the innermost last
  open,      \* history: all open blocks in the order of their opening, by adapter
  tidy,      \* history: no adapter was entered while it was patched, and of all open
             \* blocks it was always the last that closed
  opened,    \* history: how many blocks were opened
  task       \* each task's call: its stage pc, whether a session is active, the
             \* wrappers still to run, what comes back, and as history the calls made,
             \* the adapters that are to record it, what was recorded, whether a clause
             \* raised, and whether an exception of an adapter's own did

patches == <<method, original, patched, blocks, open, tidy, opened>>
vars    == <<sdk, patches, task>>

Idle == [pc |-> "idle", session |-> FALSE, chain |-> <<>>, result |-> "none", parts |-> <<>>,
         made |-> 0, due |-> <<>>, log |-> <<>>, raised |-> FALSE, escaped |-> FALSE]

Init ==
  /\ sdk \in SDKs
  /\ method = <<>>
  /\ original = [a \in Adapters |-> <<>>]
  /\ patched = [a \in Adapters |-> FALSE]
  /\ blocks = [t \in Tasks |-> <<>>]
  /\ open = <<>>
  /\ tidy = TRUE
  /\ opened = 0
  /\ task = [t \in Tasks |-> Idle]

-----------------------------------------------------------------------------
(* __enter__ and __exit__, of tasks that are not in a call.                  *)

\* Mutant: an adapter is put in place of another that is there.
PatchReplacing(a) ==
  /\ original' = [original EXCEPT ![a] = method]
  /\ method' = <<a>>
  /\ patched' = [patched EXCEPT ![a] = TRUE]

Patch(a) ==
  IF patched[a]
    THEN UNCHANGED <<method, original, patched>>
    ELSE /\ original' = [original EXCEPT ![a] = method]
         /\ method' = <<a>> \o method
         /\ patched' = [patched EXCEPT ![a] = TRUE]

Unpatch(a) ==
  /\ method' = IF patched[a] THEN original[a] ELSE method
  /\ patched' = [patched EXCEPT ![a] = FALSE]
  /\ UNCHANGED original

Enter(t, a) ==
  /\ task[t].pc = "idle"
  /\ opened < MaxBlocks
  /\ opened' = opened + 1
  /\ blocks' = [blocks EXCEPT ![t] = Append(@, a)]
  /\ open' = Append(open, a)
  /\ tidy' = (tidy /\ ~patched[a])
  /\ Patch(a)
  /\ UNCHANGED <<sdk, task>>

Exit(t) ==
  /\ task[t].pc = "idle"
  /\ blocks[t] # <<>>
  /\ LET a == Last(blocks[t])
     IN  /\ blocks' = [blocks EXCEPT ![t] = Front(@)]
         /\ open' = RemoveAt(open, SelectLastInSeq(open, LAMBDA b : b = a))
         /\ tidy' = (tidy /\ Last(open) = a)
         /\ Unpatch(a)
  /\ UNCHANGED <<sdk, opened, task>>

-----------------------------------------------------------------------------
(* What an adapter emits of a response.  Its parts are tool calls, odd ones   *)
(* (what the extraction for the SDK is not written for, and passes over or     *)
(* gives up at) and, of OpenAI's, broken ones: choices or a list of tool calls *)
(* that are none, or arguments that are no string.  They raise a TypeError,    *)
(* which the OpenAI adapter does not expect.                                   *)

Parts == {"tool", "odd", "broken"}

\* The events of the tool calls among parts.
ToolEvents(parts) == [n \in 1 .. Cardinality({i \in DOMAIN parts : parts[i] = "tool"}) |-> "tool"]

\* Where the first part that raises an exception is, if there is one.
FirstBad(parts) == SelectInSeq(parts, LAMBDA p : p # "tool")

\* The parts before it.
Before(parts) ==
  IF FirstBad(parts) = 0 THEN parts ELSE SubSeq(parts, 1, FirstBad(parts) - 1)

\* A tool call without a function ends the extraction.
EmitOpenAI(parts) == ToolEvents(Before(parts)) \o <<"model">>

\* So does a block whose text is none.
EmitAnthropic(parts) == ToolEvents(Before(parts)) \o <<"model">>

\* Function calls without a name are passed over.
EmitGemini(parts) == ToolEvents(parts) \o <<"model">>

EmitLiteLLM(parts) == ToolEvents(parts) \o <<"model">>

EmitResponse(parts) ==
  CASE sdk = "openai"    -> EmitOpenAI(parts)
    [] sdk = "anthropic" -> EmitAnthropic(parts)
    [] sdk = "gemini"    -> EmitGemini(parts)
    [] sdk = "litellm"   -> EmitLiteLLM(parts)

EmitError == <<"error">>

-----------------------------------------------------------------------------
(* A call.                                                                  *)

\* The call takes the method that the SDK has at this time, and with it the methods
\* that its wrappers replaced.
Begin(t, session) ==
  /\ task[t].pc = "idle"
  /\ task[t].made < MaxCalls
  /\ task' = [task EXCEPT ![t] = [Idle EXCEPT !.pc = "called", !.made = task[t].made + 1,
                 !.session = session, !.chain = method,
                 !.due = IF tidy THEN Reverse(open) ELSE method]]
  /\ UNCHANGED <<sdk, patches>>

\* The SDK answers, raises an Exception, or the call is cancelled (a BaseException).
Answer(t, result, parts) ==
  /\ task[t].pc = "called"
  /\ result # "response" => parts = <<>>
  /\ sdk # "openai" => \A i \in DOMAIN parts : parts[i] # "broken"
  /\ task' = [task EXCEPT ![t].pc = "back", ![t].result = result, ![t].parts = parts]
  /\ UNCHANGED <<sdk, patches>>

\* What the innermost wrapper that is left emits if nothing stops it: nothing of a
\* cancelled call, and nothing without a session.
Emissions(t) ==
  IF ~task[t].session THEN <<>>
  ELSE CASE task[t].result = "response" -> EmitResponse(task[t].parts)
         [] task[t].result = "error"    -> EmitError
         [] OTHER                       -> <<>>

Extracts(t) == task[t].session /\ task[t].result = "response"

\* Mutant: every exception of the extraction is caught.
NeverBroken(t) == FALSE

\* The extraction meets a broken part, so that the model event is not reached.
Broken(t) ==
  /\ Extracts(t) /\ sdk = "openai"
  /\ FirstBad(task[t].parts) # 0 /\ task[t].parts[FirstBad(task[t].parts)] = "broken"

\* After how many events an exception of the adapter's own leaves it: one of a broken
\* part, or of the lookup of the price when another thread registers one.  The OpenAI
\* adapter asks for the price before the tool calls, the others after them.
EscapesAfter(t) ==
  LET tools == Len(Emissions(t)) - 1
  IN  (IF Broken(t) THEN {tools} ELSE {})
        \cup (IF PricesMove /\ Extracts(t) THEN {IF sdk = "openai" THEN 0 ELSE tools} ELSE {})

\* How a wrapper may stop: it is done, a clause raises at an event that has been
\* recorded, or an exception escapes.
Stop(why, after) == [why |-> why, after |-> after]
Stops(t) ==
  LET all == Len(Emissions(t))
  IN  (IF Broken(t) THEN {} ELSE {Stop("done", all)})
        \cup {Stop("clause", k) : k \in 1 .. IF Broken(t) THEN all - 1 ELSE all}
        \cup {Stop("escape", k) : k \in EscapesAfter(t)}

\* Mutant: a raised exception is not told to the wrapper outside.
WrapperSilent(t) ==
  /\ task[t].pc = "back"
  /\ task[t].chain # <<>>
  /\ \E stop \in Stops(t) :
       LET events == SubSeq(Emissions(t), 1, stop.after)
       IN  task' = [task EXCEPT ![t].chain = IF stop.why = "done" THEN Front(@) ELSE <<>>,
             ![t].result = IF stop.why = "done" THEN @ ELSE "error",
             ![t].raised = @ \/ stop.why = "clause",
             ![t].escaped = @ \/ stop.why = "escape",
             ![t].log = @ \o [i \in DOMAIN events |-> [by |-> Last(task[t].chain), event |-> events[i]]]]
  /\ UNCHANGED <<sdk, patches>>

\* The innermost wrapper that is left has its events judged, each once it is recorded,
\* until something stops it.  What a wrapper raises is an error of the call to the next.
Wrapper(t) ==
  /\ task[t].pc = "back"
  /\ task[t].chain # <<>>
  /\ \E stop \in Stops(t) :
       LET events == SubSeq(Emissions(t), 1, stop.after)
       IN  task' = [task EXCEPT ![t].chain = Front(@),
             ![t].result = IF stop.why = "done" THEN @ ELSE "error",
             ![t].raised = @ \/ stop.why = "clause",
             ![t].escaped = @ \/ stop.why = "escape",
             ![t].log = @ \o [i \in DOMAIN events |-> [by |-> Last(task[t].chain), event |-> events[i]]]]
  /\ UNCHANGED <<sdk, patches>>

Return(t) ==
  /\ task[t].pc = "back"
  /\ task[t].chain = <<>>
  /\ task' = [task EXCEPT ![t] = [Idle EXCEPT !.made = task[t].made]]
  /\ UNCHANGED <<sdk, patches>>

Next ==
  \E t \in Tasks :
    \/ \E a \in Adapters : Enter(t, a)
    \/ Exit(t)
    \/ \E session \in BOOLEAN : Begin(t, session)
    \/ \E result \in {"response", "error", "cancelled"}, parts \in SeqOf(Parts, MaxParts) :
         Answer(t, result, parts)
    \/ Wrapper(t)
    \/ Return(t)

Spec == Init /\ [][Next]_vars

-----------------------------------------------------------------------------

\* As long as no adapter is entered twice at once and blocks close in the reverse order
\* of their opening, over all tasks, the SDK's method runs through the adapters of the
\* open blocks and no others, and is its own again when all are closed.
StackKept == tidy => method = Reverse(open)

\* When a call returns, each adapter has recorded it once for every block of it that was
\* open when it began, though other tasks have opened and closed blocks since.  One
\* wrapper at most has not: one whose tool event a clause blocked, or out of which an
\* exception of its own escaped.  The response reaches the caller only if every adapter
\* recorded it and the tool calls before a bad part; and nothing is recorded of a
\* cancelled call or without a session (openai.py:77-96, 113-174).
CallsRecorded ==
  \A t \in Tasks :
    LET call == task[t]
        Recorded(a, events) ==
          Cardinality({i \in DOMAIN call.log : call.log[i].by = a /\ call.log[i].event \in events})
        Due(a) == Cardinality({i \in DOMAIN call.due : call.due[i] = a})
        Missed(a) == Due(a) - Recorded(a, {"model", "error"})
        missed == {a \in Adapters : Missed(a) # 0}
    IN  call.pc = "back" /\ call.chain = <<>> =>
          CASE ~call.session \/ call.result = "cancelled" -> call.log = <<>>
            [] call.session /\ call.result = "response" ->
                 \A a \in Adapters :
                   /\ Recorded(a, {"model"}) = Due(a)
                   /\ Recorded(a, {"tool"}) >= Due(a) * Len(ToolEvents(Before(call.parts)))
            [] OTHER ->
                 /\ missed # {} => call.raised \/ call.escaped
                 /\ Cardinality(missed) <= 1
                 /\ \A a \in missed :
                      Missed(a) = 1 /\ (call.escaped \/ Recorded(a, {"tool"}) > 0)
=============================================================================
