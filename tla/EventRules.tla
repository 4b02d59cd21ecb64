----------------------------- MODULE EventRules -----------------------------
(***************************************************************************)
(* The predicates of pactrun/predicates that look back over a session.     *)
(* Each is evaluated right after record_event has appended an event, so    *)
(* the event it judges is the last one.  An event carries its kind, the    *)
(* tool, its argument or the tag of the host, the text of a response or an *)
(* output, its timestamp and whether it says that the call failed or what  *)
(* it returned.  It says so only once an adapter has filled it in: a call  *)
(* still under way looks like a success that returned nothing.             *)
(***************************************************************************)
EXTENDS Integers, Sequences, FiniteSets, SequencesExt

Count(events, Test(_)) == Cardinality({i \in DOMAIN events : Test(events[i])})

\* The events after the last one that passes Test.
SinceLast(events, Test(_)) ==
  SubSeq(events, SelectLastInSeq(events, Test) + 1, Len(events))

LastOf(events, n) == SubSeq(events, IF Len(events) > n THEN Len(events) - n + 1 ELSE 1, Len(events))

IsCall(e) == e.kind = "tool"
CallOf(e, tool) == IsCall(e) /\ e.tool = tool

-----------------------------------------------------------------------------
(* ratelimit.py: windows over the events' own timestamps.                   *)

\* Mutant: the window is open at its start.
OpenWindow(e, event, width) == event.at - width < e.at /\ e.at <= event.at
InWindow(e, event, width) == event.at - width <= e.at /\ e.at <= event.at

CallRateUnder(max, width, events) ==
  Count(events, LAMBDA e : e.kind = "llm" /\ InWindow(e, Last(events), width)) <= max

ToolRateLimit(tool, max, width, events) ==
  Count(events, LAMBDA e : CallOf(e, tool) /\ InWindow(e, Last(events), width)) <= max

Tagged(e) == e.arg = "tagged"

\* Counts the events that the host has tagged, of any kind.
ApprovalRequestRateUnder(max, width, events) ==
  Count(events, LAMBDA e : Tagged(e) /\ InWindow(e, Last(events), width)) <= max

\* An amount: none at all for a malformed one, which counts as 0 in a sum.
Amount == [one |-> 1, two |-> 2]
AmountValid(e) == e.arg \in DOMAIN Amount
SumOf(events, Test(_)) ==
  FoldLeft(LAMBDA sum, e : sum + IF Test(e) /\ AmountValid(e) THEN Amount[e.arg] ELSE 0, 0, events)

\* An event of any kind is judged; one that reports an invalid cost fails.
SpendRateUnder(max, width, events) ==
  LET event == Last(events)
  IN  /\ event.kind = "llm" => AmountValid(event)
      /\ SumOf(events, LAMBDA e : e.kind = "llm" /\ InWindow(e, event, width)) <= max

\* cost.py: over the whole session.
CostUnder(max, events) ==
  /\ Last(events).kind = "llm" => AmountValid(Last(events))
  /\ SumOf(events, LAMBDA e : e.kind = "llm") <= max

\* The cost of each response is a turn's; that of a malformed one is kept as 0.
CostPerTurn(events) ==
  LET responses == SelectSeq(events, LAMBDA e : e.kind = "llm")
  IN  [i \in DOMAIN responses |-> IF AmountValid(responses[i]) THEN Amount[responses[i].arg] ELSE 0]

CostPerTurnUnder(max, events) ==
  LET costs == CostPerTurn(events)
  IN  /\ Last(events).kind = "llm" => AmountValid(Last(events))
      /\ costs # <<>> => Last(costs) <= max

\* behavioral.py: the latest turn costs at most num/den above the average of all.
DriftBounds(num, den, events) ==
  LET costs == CostPerTurn(events)
      total == FoldLeft(+, 0, costs)
  IN  Len(costs) >= 3 => den * (Len(costs) * Last(costs) - total) <= num * total

\* A window for each value of the argument; a call without one is let pass, or
\* not if onMissing is "block".
PerKeyRateLimit(tool, max, width, onMissing, events) ==
  LET event == Last(events)
  IN  CallOf(event, tool) =>
        IF event.arg = "bad"
          THEN onMissing = "ignore"
          ELSE Count(events, LAMBDA e : /\ CallOf(e, tool) /\ e.arg = event.arg
                                        /\ InWindow(e, event, width)) <= max

\* Periods are of the calendar: they start at the multiples of their length.
PeriodStart(at, period) == at - (at % period)
ToolQuotaPerPeriod(tool, limit, period, events) ==
  LET event == Last(events)
  IN  CallOf(event, tool) =>
        Count(events, LAMBDA e : /\ CallOf(e, tool) /\ ~e.failed
                                 /\ PeriodStart(event.at, period) <= e.at
                                 /\ e.at <= event.at) <= limit

-----------------------------------------------------------------------------
(* wallet.py                                                                *)

\* Of the three kinds that end a turn, outputs stand for all.
TurnBoundary(e) == e.kind = "output"
MaxStepsPerTurn(n, events) ==
  Last(events).kind = "llm" =>
    Count(SinceLast(events, TurnBoundary), LAMBDA e : e.kind = "llm") <= n

ToolSpendUnder(tool, perCall, perSession, events) ==
  LET event == Last(events)
  IN  CallOf(event, tool) =>
        /\ AmountValid(event)
        /\ Amount[event.arg] <= perCall
        /\ SumOf(events, LAMBDA e : CallOf(e, tool)) <= perSession

\* A prompt may be at most ratio times the first one that has a size; the argument
\* stands for its size.
ContextGrowthUnder(ratio, events) ==
  LET event  == Last(events)
      prompts == SelectSeq(events, LAMBDA e : e.kind = "llm" /\ AmountValid(e))
  IN  event.kind = "llm" =>
        AmountValid(event) /\ Amount[event.arg] <= ratio * Amount[Head(prompts).arg]

-----------------------------------------------------------------------------
(* behavioral.py                                                            *)

\* The most common of the last window calls makes up less than num/den of them.
NoLoops(window, num, den, events) ==
  LET calls  == SelectSeq(events, IsCall)
      recent == LastOf(calls, window)
  IN  Len(calls) >= window =>
        \A i \in DOMAIN recent :
          den * Count(recent, LAMBDA e : e.tool = recent[i].tool) < num * Len(recent)

MaxRetries(n, events) ==
  LET calls == SelectSeq(events, IsCall)
  IN  Len(calls) >= 2 =>
        Len(SinceLast(calls, LAMBDA e : e.tool # Last(calls).tool)) <= n

\* The texts of responses and outputs alike, but for empty ones.
OutputHistory(events) ==
  LET said == SelectSeq(events, LAMBDA e : e.text # "") IN [i \in DOMAIN said |-> said[i].text]

NoRepeatedOutput(window, events) == IsInjective(LastOf(OutputHistory(events), window))

\* At most num/den of the last window calls failed, once there are minCalls.
ToolErrorRateUnder(num, den, window, minCalls, events) ==
  LET recent == LastOf(SelectSeq(events, IsCall), window)
  IN  Len(recent) >= minCalls => den * Count(recent, LAMBDA e : e.failed) <= num * Len(recent)

\* The failures of the latest tool since its last success, some of them permanent.
\* A call is judged only if it is known to have failed when it is recorded.
BoundedErrorRetries(maxTransient, maxPermanent, events) ==
  LET event  == Last(events)
      calls  == SelectSeq(events, LAMBDA e : CallOf(e, event.tool))
      streak == SinceLast(calls, LAMBDA e : ~e.failed)
  IN  IsCall(event) /\ event.failed =>
        /\ Count(streak, LAMBDA e : e.arg = "bad") <= maxPermanent
        /\ Len(streak) <= maxTransient

NoRedundantReads(tool, maxRepeats, events) ==
  LET event == Last(events)
  IN  CallOf(event, tool) =>
        Count(events, LAMBDA e : CallOf(e, tool) /\ e.arg = event.arg) <= maxRepeats + 1

\* Mutant: a repeated text counts as progress.
AnyOutputProgress(events, i) ==
  \/ IsCall(events[i]) /\ ~events[i].failed
  \/ events[i].text # ""

\* _is_progress: a call that has not failed, or a text that no response and no output
\* had before.
Progress(events, i) ==
  \/ IsCall(events[i]) /\ ~events[i].failed
  \/ events[i].text # "" /\ \A j \in 1 .. i - 1 : events[j].text # events[i].text

NoProgressStall(maxTurns, maxTime, events) ==
  LET checkpoints == {i \in DOMAIN events : Progress(events, i)}
      last   == IF checkpoints = {} THEN 0 ELSE Max(checkpoints)
      anchor == IF last = 0 THEN events[1].at ELSE events[last].at
      turns  == Cardinality({i \in last + 1 .. Len(events) : events[i].kind = "llm"})
  IN  turns <= maxTurns /\ Last(events).at - anchor <= maxTime

\* Mutant: a call that failed may be made again.
RetryAfterFailure(tool, events) ==
  LET event == Last(events)
  IN  CallOf(event, tool) =>
        \A i \in 1 .. Len(events) - 1 :
          CallOf(events[i], tool) /\ ~events[i].failed => events[i].arg # event.arg

NoDuplicateSideEffect(tool, events) ==
  LET event == Last(events)
  IN  CallOf(event, tool) =>
        \A i \in 1 .. Len(events) - 1 : CallOf(events[i], tool) => events[i].arg # event.arg

-----------------------------------------------------------------------------
(* exfil.py and flow.py                                                     *)

NoExfiltrationAfterUntrusted(source, sink, events) ==
  CallOf(Last(events), sink) =>
    \A i \in 1 .. Len(events) - 1 : ~CallOf(events[i], source)

\* The text of a response or an output that the host has tagged is not copied into a call
\* of the sink: an argument equal to it stands for an overlap.
UntrustedTaintToSink(sink, events) ==
  LET event == Last(events)
  IN  CallOf(event, sink) =>
        \A i \in 1 .. Len(events) - 1 : Tagged(events[i]) => events[i].text # event.arg

\* The same of the results of source: any write after a call of it fails, or in the
\* mode "copy" one that overlaps with a result that its event holds.
NoUntrustedMemoryWrite(source, sink, copy, events) ==
  LET event == Last(events)
  IN  CallOf(event, sink) =>
        \A i \in 1 .. Len(events) - 1 :
          CallOf(events[i], source) => copy /\ (events[i].returned => event.arg # "copy")

\* All events of the session count, also those that were blocked.
LethalTrifectaGuard(source, private, egress, events) ==
  \E tool \in {source, private, egress} : Count(events, LAMBDA e : CallOf(e, tool)) = 0

\* tools.py
MaxToolCalls(limit, events) == Count(events, IsCall) <= limit

\* tool_args.py, of no tool in particular: a value that is denied or that a call of any
\* tool had before fails; a call without one passes.
ToolArgValueGuard(deny, events) ==
  LET event == Last(events)
  IN  IsCall(event) /\ event.arg # "bad" =>
        /\ event.arg \notin deny
        /\ \A i \in 1 .. Len(events) - 1 : IsCall(events[i]) => events[i].arg # event.arg

\* supply_chain.py: the definition of a tool, for which the argument stands, is that of
\* its first call that had one.
ToolDefinitionsStable(events) ==
  LET event == Last(events)
      first == SelectInSeq(events, LAMBDA e : CallOf(e, event.tool) /\ e.arg # "bad")
  IN  IsCall(event) /\ event.arg # "bad" => event.arg = events[first].arg

\* compliance.py: the first reply, a response or an output, must say what it has to; one
\* without a text does not.
AiDisclosureInOutput(phrase, events) ==
  LET replies == SelectSeq(events, LAMBDA e : e.kind \in {"llm", "output"})
  IN  replies # <<>> => Head(replies).text = phrase

-----------------------------------------------------------------------------
(* Predicates that are evaluated when the session ends.                     *)

\* tool_call_history
History(events) == LET calls == SelectSeq(events, IsCall) IN [i \in DOMAIN calls |-> calls[i].tool]

MustCall(tool, events) == tool \in Range(History(events))

\* How far the names get when each next one is looked for after the one before.
Matched(names, history) ==
  FoldLeft(LAMBDA p, tool : IF p < Len(names) /\ names[p + 1] = tool THEN p + 1 ELSE p, 0, history)

ToolOrder(expected, strict, events) ==
  IF strict THEN History(events) = expected
            ELSE Matched(expected, History(events)) = Len(expected)

\* flow_progression in diagnostic mode: the stages up to the terminal one.
FlowProgression(stages, terminal, events) == Matched(stages, History(events)) >= terminal

-----------------------------------------------------------------------------
\* The gate of flow_progression keeps the number of stages it has passed, and
\* lets a stage be repeated.
StageOf(stages, e) == IF IsCall(e) THEN SelectInSeq(stages, LAMBDA s : s = e.tool) ELSE 0
GatePasses(stages, phase, event) == StageOf(stages, event) <= phase + 1
GatePhase(stages, phase, event) ==
  IF StageOf(stages, event) = phase + 1 THEN phase + 1 ELSE phase
=============================================================================
