------------------------------ MODULE AgentRun ------------------------------
(***************************************************************************)
(* Runs of a Pydantic AI agent whose PactrunCapability records into one    *)
(* session (adapters/pydantic_ai.py, session.py), judged by one predicate  *)
(* of EventRules with on_fail="block".  A tool call is recorded before the *)
(* tool runs and its event is filled in when the tool returns; several     *)
(* tools may run at once.  The process may die, and the next one restores  *)
(* the session from the trace.                                             *)
(***************************************************************************)
EXTENDS EventRules

CONSTANTS
  Rules,        \* the predicates the contract may consist of
  Guarded,      \* whether the clauses before it and after it may block an event
  MaxEvents,    \* bound: events of the session
  MaxTime,      \* bound: ticks of the machine's clock
  MaxDeaths     \* bound: restarts

WindowRules   == {"call_rate", "key_rate", "key_rate_strict", "quota", "tool_rate", "approvals", "spend_rate"}
RateRules     == WindowRules \cup {"budget", "turn_cost", "drift"}
ProgressRules == {"steps", "stall", "error_rate", "loops", "max_retries", "repeated_output", "redundant",
                  "growth", "error_retries", "disclosure"}
EffectRules   == {"duplicate", "spend", "exfil", "gate", "taint", "memory", "memory_copy", "trifecta", "cap",
                  "value", "stable"}
EndRules      == {"must_call", "order", "order_strict", "flow"}   \* judged when the session ends
TimedRules    == WindowRules \cup {"stall"}        \* read timestamps
ResultRules   == {"quota", "stall", "error_rate"}   \* read how calls turned out

ASSUME AgentAssumption ==
  /\ Rules \subseteq RateRules \cup ProgressRules \cup EffectRules \cup EndRules
  /\ Guarded \in BOOLEAN
  /\ {MaxEvents, MaxTime, MaxDeaths} \subseteq Nat

VARIABLES
  rule,       \* the contract's predicate
  events,     \* session.state.events
  phase,      \* the stage ledger of flow_progression, in session.state.metadata
  now,        \* the machine's clock
  deaths,     \* restarts so far
  ending,     \* whether the session has ended, and with what verdict
  fate,       \* history: what became of each event or call: done, refused, failed,
              \* or lost with its process
  unjudged,   \* history: whether an event was blocked before the predicate
  alarms,     \* history: the events at which the predicate failed
  exposed     \* history: the events recorded after a result arrived in the same process

vars == <<rule, events, phase, now, deaths, ending, fate, unjudged, alarms, exposed>>

Stages == <<"fetch", "send">>
Order  == <<"fetch", "send", "fetch">>
Flow   == <<"fetch", "send", "save">>

\* What the agent may do: respond, with a text or only with calls, output a text, call a
\* tool, one argument of which lacks what a predicate looks for.
Respond      == [kind |-> "llm", tool |-> "none", arg |-> "", text |-> ""]
Saying(text) == [Respond EXCEPT !.text = text]
Output(text) == [kind |-> "output", tool |-> "none", arg |-> "", text |-> text]
Call(t, arg) == [kind |-> "tool", tool |-> t, arg |-> arg, text |-> ""]

\* The host tags what it reports.
Tag(deed) == [deed EXCEPT !.arg = "tagged"]

\* Calls that the host reports once they have run (adapters/manual.py).
Told(tools, args) == [kind : {"told"}, tool : tools, arg : args, text : {""}]
Reports(deed) == deed.kind # "tool"

\* bound: for each predicate the deeds it tells apart and one it ignores.
Deeds ==
  CASE rule \in {"call_rate", "steps"} -> {Respond, Output("one"), Call("fetch", "one")}
    [] rule = "stall" -> {Respond, Saying("one"), Output("one"), Output("two"), Call("fetch", "one")}
    [] rule \in {"key_rate", "key_rate_strict", "spend"} -> {Call("send", a) : a \in {"one", "two", "bad"}}
    [] rule = "repeated_output" -> {Respond} \cup {Saying(t) : t \in {"one", "two"}} \cup {Output(t) : t \in {"one", "two"}}
    [] rule \in {"spend_rate", "budget", "growth", "turn_cost", "drift"} ->
         {Output("one")} \cup {[Respond EXCEPT !.arg = a] : a \in {"one", "two", "bad"}}
    [] rule = "approvals" -> {Respond, Tag(Call("send", "one")), Tag(Output("one"))}
    [] rule = "error_retries" -> Told({"fetch", "send"}, {"", "one", "bad"})
    [] rule = "taint" -> {Saying("bad"), Tag(Saying("bad")), Tag(Output("bad")), Call("send", "bad"), Call("send", "one")}
    [] rule \in {"memory", "memory_copy"} -> {Call("fetch", "one"), Call("save", "one"), Call("save", "copy")}
    [] rule = "trifecta" -> {Call(t, "one") : t \in {"fetch", "save", "send"}}
    [] rule = "redundant" -> {Call("fetch", "one"), Call("fetch", "two"), Call("send", "one")}
    [] rule \in {"quota", "duplicate"} -> {Call("send", "one"), Call("send", "two"), Call("fetch", "one")}
    [] rule = "disclosure" -> {Respond, Saying("one"), Output("one"), Output("two"), Call("fetch", "one")}
    [] rule \in {"value", "stable"} -> {Call("fetch", "one")} \cup {Call("send", a) : a \in {"one", "two", "bad"}}
    [] rule \in EndRules -> {Call(t, "one") : t \in {"fetch", "save", "send"}}
    [] OTHER -> {Respond, Call("fetch", "one"), Call("send", "one")}

\* A call that is told of says how it turned out: "" is a success, "bad" a permanent
\* and "one" a transient error.
Event(deed, at) ==
  [kind |-> IF deed.kind = "told" THEN "tool" ELSE deed.kind, tool |-> deed.tool, arg |-> deed.arg,
   text |-> deed.text, at |-> at, failed |-> deed.kind = "told" /\ deed.arg # "", returned |-> FALSE]

\* The predicates with the parameters used here.
Passes(es, p) ==
  CASE rule = "call_rate"       -> CallRateUnder(1, 1, es)
    [] rule = "key_rate"        -> PerKeyRateLimit("send", 1, 1, "ignore", es)
    [] rule = "key_rate_strict" -> PerKeyRateLimit("send", 1, 1, "block", es)
    [] rule = "tool_rate"       -> ToolRateLimit("send", 1, 1, es)
    [] rule = "approvals"       -> ApprovalRequestRateUnder(1, 1, es)
    [] rule = "spend_rate"      -> SpendRateUnder(2, 1, es)
    [] rule = "budget"          -> CostUnder(2, es)
    [] rule = "growth"          -> ContextGrowthUnder(1, es)
    [] rule = "error_retries"   -> BoundedErrorRetries(2, 1, es)
    [] rule = "taint"           -> UntrustedTaintToSink("send", es)
    [] rule = "memory"          -> NoUntrustedMemoryWrite("fetch", "save", FALSE, es)
    [] rule = "memory_copy"     -> NoUntrustedMemoryWrite("fetch", "save", TRUE, es)
    [] rule = "trifecta"        -> LethalTrifectaGuard("fetch", "save", "send", es)
    [] rule = "cap"             -> MaxToolCalls(2, es)
    [] rule = "quota"           -> ToolQuotaPerPeriod("send", 1, 2, es)
    [] rule = "steps"           -> MaxStepsPerTurn(1, es)
    [] rule = "stall"           -> NoProgressStall(1, 1, es)
    [] rule = "error_rate"      -> ToolErrorRateUnder(1, 2, 2, 2, es)
    [] rule = "loops"           -> NoLoops(2, 1, 1, es)
    [] rule = "max_retries"     -> MaxRetries(1, es)
    [] rule = "repeated_output" -> NoRepeatedOutput(2, es)
    [] rule = "redundant"       -> NoRedundantReads("fetch", 0, es)
    [] rule = "duplicate"       -> NoDuplicateSideEffect("send", es)
    [] rule = "spend"           -> ToolSpendUnder("send", 1, 2, es)
    [] rule = "exfil"           -> NoExfiltrationAfterUntrusted("fetch", "send", es)
    [] rule = "turn_cost"       -> CostPerTurnUnder(1, es)
    [] rule = "drift"           -> DriftBounds(1, 4, es)
    [] rule = "disclosure"      -> AiDisclosureInOutput("one", es)
    [] rule = "value"           -> ToolArgValueGuard({"two"}, es)
    [] rule = "stable"          -> ToolDefinitionsStable(es)
    [] rule \in EndRules        -> TRUE
    [] OTHER                    -> GatePasses(Stages, p, Last(es))

EndPasses(es) ==
  CASE rule = "must_call"    -> MustCall("send", es)
    [] rule = "order"        -> ToolOrder(Order, FALSE, es)
    [] rule = "order_strict" -> ToolOrder(Order, TRUE, es)
    [] OTHER                 -> FlowProgression(Flow, 2, es)

TypeOK ==
  /\ rule \in Rules
  /\ \A i \in DOMAIN events :
       /\ events[i].kind \in {"llm", "output", "tool"}
       /\ events[i].at \in 0 .. now
       /\ events[i].failed => fate[i] = "failed" \/ rule = "error_retries"
  /\ phase \in 0 .. Len(Stages)
  /\ now \in 0 .. MaxTime
  /\ deaths \in 0 .. MaxDeaths
  /\ ending \in {"open", "passed", "failed", "raised"}
  /\ Len(events) <= MaxEvents
  /\ fate \in [DOMAIN events -> {"done", "refused", "failed", "lost"}]
  /\ unjudged \in BOOLEAN
  /\ alarms \cup exposed \subseteq DOMAIN events

Init ==
  /\ rule \in Rules
  /\ events = <<>>
  /\ phase = 0
  /\ now = 0
  /\ deaths = 0
  /\ ending = "open"
  /\ fate = <<>>
  /\ unjudged = FALSE
  /\ alarms = {}
  /\ exposed = {}

-----------------------------------------------------------------------------
(* record_event: the clauses in their order, the first that raises ending   *)
(* the evaluation.  The event stays in the session whatever they say.       *)

\* The predicate is evaluated; a clause after it may block what it passes.
Judged(refused) ==
  LET passes == Passes(events', phase)
  IN  /\ fate' \in {Append(fate, f) : f \in IF ~passes THEN {refused}
                                           ELSE IF Guarded THEN {"done", refused} ELSE {"done"}}
      /\ phase' = IF rule = "gate" THEN GatePhase(Stages, phase, Last(events')) ELSE phase
      /\ alarms' = IF passes THEN alarms ELSE alarms \cup {Len(events')}
      /\ UNCHANGED unjudged

\* A clause before it blocks the event.
Blocked(refused) ==
  /\ fate' = Append(fate, refused)
  /\ unjudged' = TRUE
  /\ UNCHANGED <<phase, alarms>>

Record(deed, refused) ==
  /\ Len(events) < MaxEvents
  /\ now' \in IF rule \in TimedRules THEN now .. MaxTime ELSE {now}
  /\ events' = Append(events, Event(deed, now'))
  /\ \/ Judged(refused)
     \/ Guarded /\ Blocked(refused)
  /\ exposed' = IF \E i \in DOMAIN events : events[i].returned
                  THEN exposed \cup {Len(events')} ELSE exposed
  /\ UNCHANGED <<rule, deaths, ending>>

\* after_model_request and the host's emit_output and emit_tool_call: the response has
\* arrived, the output is out and the call has run, whatever the clauses say.
Report(deed) == Reports(deed) /\ Record(deed, "done")

\* wrap_tool_execute, up to its await: a call that a clause blocks does not run.
Execute(deed) == ~Reports(deed) /\ Record(deed, "refused")

\* wrap_tool_execute, after its await: the event of a tool that raised is filled
\* in.  One that returned, was cancelled or is still under way leaves its event
\* without an error, and only "memory_copy" tells these apart.
Fail(i) ==
  /\ IsCall(events[i])
  /\ ~events[i].returned
  /\ rule # "error_retries"
  /\ fate[i] = "done"
  /\ fate' = [fate EXCEPT ![i] = "failed"]
  /\ events' = [events EXCEPT ![i].failed = TRUE]
  /\ UNCHANGED <<rule, phase, now, deaths, ending, unjudged, alarms, exposed>>

\* The result is filled in.
Return(i) ==
  /\ rule = "memory_copy"
  /\ events[i].tool = "fetch"
  /\ fate[i] = "done"
  /\ events' = [events EXCEPT ![i].returned = TRUE]
  /\ UNCHANGED <<rule, phase, now, deaths, ending, fate, unjudged, alarms, exposed>>

-----------------------------------------------------------------------------
(* The process dies and another restores the session.                       *)

\* The trace holds every event as it was when it was recorded.
Trace ==
  IF rule = "error_retries" THEN events
  ELSE [i \in DOMAIN events |-> [events[i] EXCEPT !.failed = FALSE, !.returned = FALSE]]

\* The _restore hook of the gate is called with every restored event.
PhaseRestored(es) ==
  IF rule = "gate" THEN FoldLeft(LAMBDA p, e : GatePhase(Stages, p, e), 0, es) ELSE 0

Restart ==
  /\ deaths < MaxDeaths
  /\ deaths' = deaths + 1
  /\ events' = Trace
  /\ phase' = PhaseRestored(Trace)
  /\ fate' = [i \in DOMAIN fate |->
               IF IsCall(events[i]) /\ fate[i] = "done" THEN "lost" ELSE fate[i]]
  /\ UNCHANGED <<rule, now, ending, unjudged, alarms, exposed>>

-----------------------------------------------------------------------------

\* _end: a clause before the predicate may raise.  What is recorded after the end is
\* not considered.
End ==
  /\ rule \in EndRules
  /\ ending' \in {IF EndPasses(events) THEN "passed" ELSE "failed"} \cup (IF Guarded THEN {"raised"} ELSE {})
  /\ UNCHANGED <<rule, events, phase, now, deaths, fate, unjudged, alarms, exposed>>

Next ==
  /\ ending = "open"
  /\ \/ \E deed \in Deeds : Report(deed)
     \/ \E deed \in Deeds : Execute(deed)
     \/ \E i \in DOMAIN events : Fail(i) \/ Return(i)
     \/ Restart
     \/ End

Spec == Init /\ [][Next]_vars

-----------------------------------------------------------------------------
(* What each predicate is there to notice, said of a whole set S of events  *)
(* and of how the calls turned out, rather than of the latest event.        *)

Calls(tool, S) == {i \in S : CallOf(events[i], tool)}
With(arg, S)   == {i \in S : events[i].arg = arg}
Kind(kind, S)  == {i \in S : events[i].kind = kind}
Said(S)        == {i \in S : events[i].text # ""}
Failed(S)      == {i \in S : fate[i] = "failed"}

\* More than max of S within width of one another.
Crowded(S, max, width) ==
  \E i \in S : Cardinality({j \in S : events[j].at - events[i].at \in 0 .. width}) > max

\* What the responses of S cost, those of a malformed cost aside.
CostOf(S) == Cardinality(S) + Cardinality(With("two", S)) - Cardinality(With("bad", S))

RateExceeded(S) ==
  CASE rule = "call_rate" -> Crowded(Kind("llm", S), 1, 1)
    [] rule = "tool_rate" -> Crowded(Calls("send", S), 1, 1)
    [] rule = "approvals" -> Crowded(With("tagged", S), 1, 1)
    [] rule = "spend_rate" ->
         \/ With("bad", Kind("llm", S)) # {}
         \/ \E i \in S : CostOf({j \in Kind("llm", S) : events[j].at - events[i].at \in 0 .. 1}) > 2
    [] rule = "budget" -> With("bad", Kind("llm", S)) # {} \/ CostOf(Kind("llm", S)) > 2
    [] rule = "turn_cost" -> With("bad", Kind("llm", S)) \cup With("two", Kind("llm", S)) # {}
    [] rule = "drift" ->
         \E i \in Kind("llm", S) :
           LET turns == {j \in Kind("llm", S) : j <= i}
           IN  /\ Cardinality(turns) > 2
               /\ 4 * Cardinality(turns) * CostOf({i}) > 5 * CostOf(turns)
    [] rule = "quota" ->
         \E p \in 0 .. MaxTime :
           Cardinality({i \in Calls("send", S) \ Failed(S) : events[i].at \div 2 = p}) > 1
    [] OTHER ->
         \/ \E arg \in {"one", "two"} : Crowded(With(arg, Calls("send", S)), 1, 1)
         \/ rule = "key_rate_strict" /\ With("bad", Calls("send", S)) # {}

\* The last n of S.
Latest(n, S) == {i \in S : Cardinality({j \in S : j > i}) < n}

\* A run that moves: the calls that did not fail, what is said for the first time.
Moves(S) ==
  (Kind("tool", S) \ Failed(S)) \cup
  {i \in Said(S) : \A j \in Said(S) : events[j].text = events[i].text => j >= i}

StuckFor(S, turns, time) ==
  LET end == CHOOSE i \in S : \A j \in S : j <= i
  IN  \/ \E i \in S : i .. end \cap Moves(S) = {} /\ Cardinality(Kind("llm", i .. end)) > turns
      \/ \A i \in Moves(S) \cup {1} : events[end].at - events[i].at > time

ProgressLost(S) ==
  LET calls == Kind("tool", S)
  IN  CASE rule = "steps" ->
             \E i, j \in Kind("llm", S) : i < j /\ i .. j \cap Kind("output", S) = {}
        [] rule = "stall" -> StuckFor(S, 1, 1)
        [] rule = "error_rate" -> Cardinality(Latest(2, calls) \cap Failed(S)) = 2
        [] rule \in {"loops", "max_retries"} ->
             \E i, j \in calls : /\ i < j
                                 /\ events[i].tool = events[j].tool
                                 /\ i .. j \cap calls = {i, j}
        [] rule = "repeated_output" ->
             \E i, j \in Said(S) : /\ i < j
                                   /\ events[i].text = events[j].text
                                   /\ i .. j \cap Said(S) = {i, j}
        [] rule = "growth" ->
             \/ With("bad", Kind("llm", S)) # {}
             \/ \E i \in Kind("llm", S), j \in With("two", Kind("llm", S)) : i < j /\ events[i].arg = "one"
                  /\ \A k \in Kind("llm", S) : k >= i
        [] rule = "disclosure" ->
             \E i \in S \ Kind("tool", S) :
               \A j \in S : events[j].text = "one" => j > i
        [] rule = "error_retries" ->
             \E tool \in {"fetch", "send"} : \E i, j \in Calls(tool, S) :
               LET run == Calls(tool, i .. j)
               IN  /\ With("", run) = {}
                   /\ Cardinality(run) > 2 \/ Cardinality(With("bad", run)) > 1
        [] OTHER ->
             \E i, j \in Calls("fetch", S) : i < j /\ events[i].arg = events[j].arg

HarmDone(S) ==
  LET sends == Calls("send", S)
  IN  CASE rule = "duplicate" -> \E i, j \in sends : i < j /\ events[i].arg = events[j].arg
        [] rule = "spend" ->
             \/ With("bad", sends) \cup With("two", sends) # {}
             \/ Cardinality(With("one", sends)) > 2
        [] rule = "exfil" -> \E i \in sends, j \in Calls("fetch", DOMAIN events) : j < i
        [] rule = "taint" -> \E i \in With("bad", sends), j \in With("tagged", DOMAIN events) : j < i
        [] rule = "memory" -> \E i \in Calls("save", S), j \in Calls("fetch", DOMAIN events) : j < i
        [] rule = "memory_copy" -> With("copy", Calls("save", S)) \cap exposed # {}
        [] rule = "trifecta" -> \A tool \in {"fetch", "save", "send"} : Calls(tool, S) # {}
        [] rule = "cap"   -> Cardinality(Kind("tool", S)) > 2
        [] rule = "value" ->
             \/ With("two", S) # {}
             \/ \E i, j \in S \ With("bad", S) : i < j /\ events[i].arg = events[j].arg
        [] rule = "stable" ->
             \E i, j \in sends \ With("bad", S) : events[i].arg # events[j].arg
        [] rule = "gate"  -> \E i \in sends : \A j \in Calls("fetch", DOMAIN events) : j > i
        [] OTHER -> RateExceeded(S)

\* The calls of the session hold the tools of names in their order, with others between.
InOrder(names) ==
  \E place \in [DOMAIN names -> DOMAIN events] :
    /\ \A i \in DOMAIN names : CallOf(events[place[i]], names[i])
    /\ \A i, j \in DOMAIN names : i < j => place[i] < place[j]

WorkDone ==
  CASE rule = "must_call"    -> Calls("send", DOMAIN events) # {}
    [] rule = "order"        -> InOrder(Order)
    [] rule = "order_strict" -> InOrder(Order) /\ Len(events) = Len(Order)
    [] OTHER                 -> InOrder(SubSeq(Flow, 1, 2))

\* An event is judged, and no earlier one was reported or escaped judgement; a
\* predicate that reads how calls turned out has seen them all in this process.
FirstAlarm(R) ==
  /\ rule \in R
  /\ Len(events') > Len(events)
  /\ alarms = {} /\ ~unjudged'
  /\ rule \in ResultRules => deaths = 0

\* The rate predicates look only at the latest event and back, yet report the
\* first event with which the run as a whole breaks the limit, and no other,
\* whatever the order in which calls end (ratelimit.py).
RatesExact ==
  [][FirstAlarm(RateRules) => (alarms' # {} <=> RateExceeded(DOMAIN events)')]_vars

\* The same of the predicates that watch for an agent that no longer gets anywhere
\* (behavioral.py, wallet.py, compliance.py).  Those judged at the end of the session
\* pass exactly if the whole run, over all its processes, did what they ask for, though
\* they read its calls from left to right (tools.py, flow.py).
ProgressExact ==
  [][/\ FirstAlarm(ProgressRules) => (alarms' # {} <=> ProgressLost(DOMAIN events)')
     /\ ending' \in {"passed", "failed"} => (ending' = "passed" <=> WorkDone)]_vars

\* The calls that were let run never do together what the predicate forbids:
\* a failed call, a call lost with its process and a call refused by another
\* clause included, and across restarts.
HarmPrevented ==
  rule \in EffectRules \cup {"key_rate", "key_rate_strict", "quota", "tool_rate"} =>
    ~HarmDone({i \in DOMAIN events : fate[i] # "refused"})
=============================================================================
