-------------------------- MODULE AgentRun_proofs --------------------------
(***************************************************************************)
(* Proofs about what the calls of an agent run do together, for runs of    *)
(* any length, any times and restarts, and whatever the other clauses block.*)
(***************************************************************************)
EXTENDS AgentRun, FiniteSetTheorems, WellFoundedInduction, TLAPS

HarmRules == EffectRules \cup {"key_rate", "key_rate_strict", "quota", "tool_rate"}

Texts == {"", "one", "two", "bad", "tagged", "copy"}

EventType ==
  [kind : {"llm", "output", "tool"}, tool : {"none", "fetch", "save", "send"}, arg : Texts,
   text : Texts, at : Nat, failed : BOOLEAN, returned : BOOLEAN]

Fates == {"done", "refused", "failed", "lost"}

Typed ==
  /\ rule \in Rules
  /\ now \in Nat
  /\ events \in Seq(EventType)
  /\ fate \in Seq(Fates)
  /\ Len(fate) = Len(events)
  /\ phase \in Nat
  /\ exposed \subseteq DOMAIN events

\* What else is known of every event: it is in the past, it was given an error only if it
\* is known to have failed, only what a source returned is held, and the agent does what
\* Deeds allows.
EventsOK ==
  \A i \in DOMAIN events :
    /\ events[i].at <= now
    /\ events[i].failed => fate[i] = "failed"
    /\ events[i].tool # "none" => IsCall(events[i])
    /\ events[i].returned => CallOf(events[i], "fetch")
    /\ rule = "taint" /\ Tagged(events[i]) => events[i].text = "bad"
    /\ rule = "value" => IsCall(events[i])

\* The gate's ledger moves only with a call of the first stage.
PhaseEarned == phase > 0 => \E i \in DOMAIN events : CallOf(events[i], "fetch")

Ran == {i \in DOMAIN events : fate[i] # "refused"}

\* j came after i, and both are calls of tool.
Pair(tool, i, j) == i < j /\ CallOf(events[i], tool) /\ CallOf(events[j], tool)

SameArg(i, j) == events[i].arg = events[j].arg

\* What the predicate saw of a call j that was let run, said so that nothing that happens
\* later changes it.
Clear(j) ==
  LET event == events[j]
      before == {i \in DOMAIN events : i < j}
  IN  CASE rule = "duplicate" ->
             CallOf(event, "send") => \A i \in before : Pair("send", i, j) => ~SameArg(i, j)
        [] rule = "spend" -> CallOf(event, "send") => event.arg = "one"
        [] rule = "exfil" -> CallOf(event, "send") => \A i \in before : ~CallOf(events[i], "fetch")
        [] rule = "taint" ->
             CallOf(event, "send") => \A i \in before : Tagged(events[i]) => events[i].text # event.arg
        [] rule = "memory" -> CallOf(event, "save") => \A i \in before : ~CallOf(events[i], "fetch")
        [] rule = "memory_copy" -> CallOf(event, "save") /\ event.arg = "copy" => j \notin exposed
        [] rule = "value" ->
             event.arg # "bad" => event.arg # "two" /\ \A i \in before : ~SameArg(i, j)
        [] rule = "stable" ->
             CallOf(event, "send") /\ event.arg # "bad" =>
               \E i \in 1 .. j :
                 /\ CallOf(events[i], "send") /\ events[i].arg = event.arg
                 /\ \A k \in before : k < i => ~(CallOf(events[k], "send") /\ events[k].arg # "bad")
        [] rule = "gate" -> CallOf(event, "send") => \E i \in before : CallOf(events[i], "fetch")
        [] rule \in {"key_rate", "key_rate_strict"} ->
             CallOf(event, "send") =>
               /\ rule = "key_rate_strict" => event.arg # "bad"
               /\ event.arg # "bad" =>
                    \A i \in before :
                      Pair("send", i, j) /\ SameArg(i, j) => event.at - events[i].at > 1
        [] rule = "tool_rate" ->
             \A i \in before : Pair("send", i, j) => event.at - events[i].at > 1
        [] rule = "quota" ->
             \A i \in before :
               Pair("send", i, j) /\ fate[i] # "failed" => event.at \div 2 # events[i].at \div 2
        [] OTHER -> TRUE

\* The rules that count all events that ran.
Counted ==
  CASE rule = "spend" -> Cardinality(Calls("send", Ran)) <= 2
    [] rule = "trifecta" -> \E tool \in {"fetch", "save", "send"} : Calls(tool, Ran) = {}
    [] rule = "cap" -> Cardinality(Kind("tool", Ran)) <= 2
    [] OTHER -> TRUE

IInv ==
  /\ Typed
  /\ rule \in HarmRules =>
       /\ EventsOK
       /\ rule = "gate" => PhaseEarned
       /\ \A j \in Ran : Clear(j)
       /\ Counted

-----------------------------------------------------------------------------
(* What may be recorded.                                                    *)

DeedType ==
  [kind : {"llm", "output", "tool", "told"}, tool : {"none", "fetch", "save", "send"}, arg : Texts,
   text : Texts]

\* What the rules need to know of a deed.
Allowed(deed) ==
  /\ deed \in DeedType
  /\ deed.tool # "none" => deed.kind \in {"tool", "told"}
  /\ rule \in HarmRules => deed.kind # "told"
  /\ rule = "taint" /\ Tagged(deed) => deed.text = "bad"
  /\ rule = "value" => deed.kind = "tool"

LEMMA DeedsMade ==
  /\ rule # "value" => Allowed(Respond)
  /\ \A a \in {"one", "two", "bad"} : rule # "value" => Allowed([Respond EXCEPT !.arg = a])
  /\ \A a \in {"one", "two", "bad"} :
       rule # "value" => /\ Allowed(Saying(a)) /\ Allowed(Output(a))
                         /\ (rule = "taint" => a = "bad") =>
                              Allowed(Tag(Saying(a))) /\ Allowed(Tag(Output(a)))
  /\ \A t \in {"fetch", "save", "send"} :
       \A a \in {"one", "two", "bad", "copy"} :
         Allowed(Call(t, a)) /\ (rule # "taint" => Allowed(Tag(Call(t, a))))
<1>1. /\ Respond \in DeedType /\ Respond.kind = "llm" /\ Respond.tool = "none"
      /\ Respond.arg = "" /\ Respond.text = ""
  BY DEF Respond, DeedType, Texts
<1>2. ASSUME NEW a \in {"one", "two", "bad"}
      PROVE  /\ [Respond EXCEPT !.arg = a] \in DeedType
             /\ [Respond EXCEPT !.arg = a].kind = "llm"
             /\ [Respond EXCEPT !.arg = a].tool = "none"
             /\ [Respond EXCEPT !.arg = a].arg = a
  BY <1>1 DEF DeedType, Texts
<1>3. ASSUME NEW a \in {"one", "two", "bad"}
      PROVE  /\ Saying(a) \in DeedType /\ Saying(a).kind = "llm"
             /\ Saying(a).tool = "none" /\ Saying(a).arg = "" /\ Saying(a).text = a
  BY <1>1 DEF Saying, DeedType, Texts
<1>4. ASSUME NEW a \in {"one", "two", "bad"}
      PROVE  /\ Output(a) \in DeedType /\ Output(a).kind = "output"
             /\ Output(a).tool = "none" /\ Output(a).arg = "" /\ Output(a).text = a
  BY DEF Output, DeedType, Texts
<1>5. ASSUME NEW t \in {"fetch", "save", "send"}, NEW a \in {"one", "two", "bad", "copy"}
      PROVE  Call(t, a) \in DeedType /\ Call(t, a).kind = "tool" /\ Call(t, a).arg = a
  BY DEF Call, DeedType, Texts
<1>6. ASSUME NEW deed \in DeedType
      PROVE  /\ Tag(deed) \in DeedType /\ Tag(deed).kind = deed.kind
             /\ Tag(deed).tool = deed.tool /\ Tag(deed).text = deed.text
  BY DEF Tag, DeedType, Texts
<1>7. ASSUME NEW a \in {"one", "two", "bad"}, rule # "value"
      PROVE  Allowed([Respond EXCEPT !.arg = a]) /\ Allowed(Respond)
  BY <1>1, <1>2, <1>7 DEF Allowed, Tagged
<1>8. ASSUME NEW a \in {"one", "two", "bad"}, rule # "value"
      PROVE  /\ Allowed(Saying(a)) /\ Allowed(Output(a))
             /\ (rule = "taint" => a = "bad") => Allowed(Tag(Saying(a))) /\ Allowed(Tag(Output(a)))
  <2>1. Allowed(Saying(a)) /\ Allowed(Output(a))
    BY <1>3, <1>4, <1>8 DEF Allowed, Tagged
  <2>2. ASSUME NEW deed \in {Saying(a), Output(a)}, rule = "taint" => a = "bad"
        PROVE  Allowed(Tag(deed))
    <3>1. deed \in DeedType /\ deed.kind \in {"llm", "output"} /\ deed.tool = "none" /\ deed.text = a
      BY <1>3, <1>4
    <3>2. /\ Tag(deed) \in DeedType /\ Tag(deed).kind \in {"llm", "output"}
          /\ Tag(deed).tool = "none" /\ Tag(deed).text = a
      BY <1>6, <3>1
    <3>3. QED
      BY <1>8, <2>2, <3>2 DEF Allowed
  <2>3. (rule = "taint" => a = "bad") => Allowed(Tag(Saying(a))) /\ Allowed(Tag(Output(a)))
    BY <2>2
  <2>4. QED
    BY <2>1, <2>3
<1>9. ASSUME NEW t \in {"fetch", "save", "send"}, NEW a \in {"one", "two", "bad", "copy"}
      PROVE  Allowed(Call(t, a)) /\ (rule # "taint" => Allowed(Tag(Call(t, a))))
  <2>1. Allowed(Call(t, a))
    BY <1>5 DEF Allowed, Tagged
  <2>2. rule # "taint" => Allowed(Tag(Call(t, a)))
    BY <1>5, <1>6 DEF Allowed
  <2>3. QED
    BY <2>1, <2>2
<1>10. QED
  BY <1>7, <1>8, <1>9

LEMMA DeedsAllowed ==
  ASSUME AgentAssumption, rule \in Rules
  PROVE  \A deed \in Deeds : Allowed(deed)
<1>1. CASE rule \in {"call_rate", "steps"}
  <2>1. Deeds = {Respond, Output("one"), Call("fetch", "one")}
    BY Zenon, <1>1 DEF Deeds, EndRules
  <2>2. QED
    BY <1>1, <2>1, DeedsMade
<1>2. CASE rule \in {"key_rate", "key_rate_strict", "spend"}
  <2>1. Deeds = {Call("send", a) : a \in {"one", "two", "bad"}}
    BY Zenon, <1>2 DEF Deeds, EndRules
  <2>2. QED
    BY <1>2, <2>1, DeedsMade
<1>3. CASE rule \in {"repeated_output"}
  <2>1. Deeds = {Respond} \cup {Saying(t) : t \in {"one", "two"}} \cup {Output(t) : t \in {"one", "two"}}
    BY Zenon, <1>3 DEF Deeds, EndRules
  <2>2. QED
    BY <1>3, <2>1, DeedsMade
<1>4. CASE rule \in {"spend_rate", "budget", "growth", "turn_cost", "drift"}
  <2>1. Deeds = {Output("one")} \cup {[Respond EXCEPT !.arg = a] : a \in {"one", "two", "bad"}}
    BY Zenon, <1>4 DEF Deeds, EndRules
  <2>2. QED
    BY <1>4, <2>1, DeedsMade
<1>5. CASE rule \in {"approvals"}
  <2>1. Deeds = {Respond, Tag(Call("send", "one")), Tag(Output("one"))}
    BY Zenon, <1>5 DEF Deeds, EndRules
  <2>2. QED
    BY <1>5, <2>1, DeedsMade
<1>6. CASE rule \in {"error_retries"}
  <2>1. Deeds = Told({"fetch", "send"}, {"", "one", "bad"})
    BY Zenon, <1>6 DEF Deeds, EndRules
  <2>2. QED
    BY <1>6, <2>1 DEF Told, DeedType, Texts, Allowed, HarmRules, EffectRules, Tagged
<1>7. CASE rule \in {"taint"}
  <2>1. Deeds = {Saying("bad"), Tag(Saying("bad")), Tag(Output("bad")),
                  Call("send", "bad"), Call("send", "one")}
    BY Zenon, <1>7 DEF Deeds, EndRules
  <2>2. QED
    BY <1>7, <2>1, DeedsMade
<1>8. CASE rule \in {"memory", "memory_copy"}
  <2>1. Deeds = {Call("fetch", "one"), Call("save", "one"), Call("save", "copy")}
    BY Zenon, <1>8 DEF Deeds, EndRules
  <2>2. QED
    BY <1>8, <2>1, DeedsMade
<1>9. CASE rule \in {"trifecta"}
  <2>1. Deeds = {Call(t, "one") : t \in {"fetch", "save", "send"}}
    BY Zenon, <1>9 DEF Deeds, EndRules
  <2>2. QED
    BY <1>9, <2>1, DeedsMade
<1>10. CASE rule \in {"redundant"}
  <2>1. Deeds = {Call("fetch", "one"), Call("fetch", "two"), Call("send", "one")}
    BY Zenon, <1>10 DEF Deeds, EndRules
  <2>2. QED
    BY <1>10, <2>1, DeedsMade
<1>11. CASE rule \in {"quota", "duplicate"}
  <2>1. Deeds = {Call("send", "one"), Call("send", "two"), Call("fetch", "one")}
    BY Zenon, <1>11 DEF Deeds, EndRules
  <2>2. QED
    BY <1>11, <2>1, DeedsMade
<1>12. CASE rule \in {"disclosure"}
  <2>1. Deeds = {Respond, Saying("one"), Output("one"), Output("two"), Call("fetch", "one")}
    BY Zenon, <1>12 DEF Deeds, EndRules
  <2>2. QED
    BY <1>12, <2>1, DeedsMade
<1>13. CASE rule \in {"value", "stable"}
  <2>1. Deeds = {Call("fetch", "one")} \cup {Call("send", a) : a \in {"one", "two", "bad"}}
    BY Zenon, <1>13 DEF Deeds, EndRules
  <2>2. QED
    BY <1>13, <2>1, DeedsMade
<1>14. CASE rule \in EndRules
  <2>1. Deeds = {Call(t, "one") : t \in {"fetch", "save", "send"}}
    BY Zenon, <1>14 DEF Deeds, EndRules
  <2>2. QED
    BY <1>14, <2>1, DeedsMade DEF EndRules
<1>15. CASE rule \in {"tool_rate", "error_rate", "loops", "max_retries", "exfil", "gate", "cap"}
  <2>1. Deeds = {Respond, Call("fetch", "one"), Call("send", "one")}
    BY Zenon, <1>15 DEF Deeds, EndRules
  <2>2. QED
    BY <1>15, <2>1, DeedsMade
<1>16. CASE rule \in {"stall"}
  <2>1. Deeds = {Respond, Saying("one"), Output("one"), Output("two"), Call("fetch", "one")}
    BY Zenon, <1>16 DEF Deeds, EndRules
  <2>2. QED
    BY <1>16, <2>1, DeedsMade
<1>17. rule \in RateRules \cup ProgressRules \cup EffectRules \cup EndRules
  BY DEF AgentAssumption
<1>18. QED
  BY <1>17, <1>16, <1>1, <1>2, <1>3, <1>4, <1>5, <1>6, <1>7, <1>8, <1>9, <1>10, <1>11, <1>12, <1>13,
     <1>14, <1>15
    DEF RateRules, WindowRules, ProgressRules, EffectRules

-----------------------------------------------------------------------------
(* Recording an event.                                                      *)

\* Event e, of fate f, has been recorded.
Recording(e, f) ==
  /\ e \in EventType /\ f \in Fates
  /\ e.at = now' /\ now' \in Nat /\ now <= now'
  /\ ~e.returned
  /\ rule = "taint" /\ Tagged(e) => e.text = "bad"
  /\ rule = "value" => IsCall(e)
  /\ e.tool # "none" => IsCall(e)
  /\ rule \in HarmRules => ~e.failed /\ (IsCall(e) /\ f # "refused" => Passes(events', phase))
  /\ rule' = rule
  /\ events' = Append(events, e)
  /\ fate' = Append(fate, f)
  /\ phase' = phase \/ phase' = GatePhase(Stages, phase, e)
  /\ exposed' = IF \E i \in DOMAIN events : events[i].returned
                  THEN exposed \cup {Len(events')} ELSE exposed

LEMMA EventMade ==
  ASSUME NEW deed \in DeedType, NEW at \in Nat
  PROVE  /\ Event(deed, at) \in EventType
         /\ Event(deed, at).at = at /\ Event(deed, at).arg = deed.arg
         /\ Event(deed, at).text = deed.text
         /\ Event(deed, at).tool = deed.tool
         /\ Event(deed, at).kind = IF deed.kind = "told" THEN "tool" ELSE deed.kind
         /\ ~Event(deed, at).returned
         /\ deed.kind # "told" => ~Event(deed, at).failed
BY DEF Event, DeedType, EventType

LEMMA RecordShape ==
  ASSUME AgentAssumption, Typed, NEW deed \in Deeds, NEW refused \in Fates, Record(deed, refused),
         rule \in HarmRules => refused = "refused" \/ deed.kind # "tool"
  PROVE  \E e, f : Recording(e, f)
<1> DEFINE e == Event(deed, now')
<1>1. Allowed(deed) /\ deed \in DeedType
  BY DeedsAllowed DEF Typed, Allowed
<1>2. now' \in Nat /\ now <= now'
  BY DEF Typed, Record, AgentAssumption
<1>3. /\ e \in EventType
      /\ e.at = now' /\ e.arg = deed.arg /\ e.text = deed.text /\ e.tool = deed.tool
      /\ e.kind = IF deed.kind = "told" THEN "tool" ELSE deed.kind
      /\ ~e.returned
      /\ deed.kind # "told" => ~e.failed
  BY <1>1, <1>2, EventMade
<1>4. events' = Append(events, e) /\ rule' = rule
  BY DEF Record
<1> HIDE DEF e
<1>5. Last(events') = e
  BY <1>3, <1>4 DEF Typed, Last
<1>6. PICK f \in Fates :
        /\ fate' = Append(fate, f)
        /\ f = refused \/ Passes(events', phase)
        /\ phase' = phase \/ phase' = GatePhase(Stages, phase, e)
  <2>1. CASE Judged(refused)
    <3>1. PICK f \in IF ~Passes(events', phase) THEN {refused}
                     ELSE IF Guarded THEN {"done", refused} ELSE {"done"} : fate' = Append(fate, f)
      BY <2>1 DEF Judged
    <3>2. phase' = phase \/ phase' = GatePhase(Stages, phase, e)
      BY <2>1, <1>5 DEF Judged
    <3>3. QED
      BY <3>1, <3>2 DEF Fates
  <2>2. CASE Blocked(refused)
    BY <2>2 DEF Blocked
  <2>3. QED
    BY <2>1, <2>2 DEF Record
<1>7. rule \in HarmRules => ~e.failed /\ (IsCall(e) /\ f # "refused" => Passes(events', phase))
  BY <1>1, <1>3, <1>6 DEF Allowed, IsCall, DeedType
<1>8. /\ rule = "taint" /\ Tagged(e) => e.text = "bad"
      /\ rule = "value" => IsCall(e)
      /\ e.tool # "none" => IsCall(e)
  BY <1>1, <1>3 DEF Allowed, IsCall, DeedType, Tagged
<1>9. exposed' = IF \E i \in DOMAIN events : events[i].returned
                   THEN exposed \cup {Len(events')} ELSE exposed
  BY DEF Record
<1>10. Recording(e, f)
  BY Zenon, <1>2, <1>3, <1>4, <1>6, <1>7, <1>8, <1>9 DEF Recording
<1>11. QED
  BY <1>10

\* The new event is the last, and the earlier ones are as they were.
Grown(e, f) ==
  LET n == Len(events)
  IN  /\ n \in Nat /\ Len(events') = n + 1 /\ Len(fate') = n + 1
      /\ events' \in Seq(EventType) /\ fate' \in Seq(Fates)
      /\ DOMAIN events = 1 .. n /\ DOMAIN events' = 1 .. n + 1
      /\ \A i \in 1 .. n : events'[i] = events[i] /\ fate'[i] = fate[i]
      /\ events'[n + 1] = e /\ fate'[n + 1] = f /\ Last(events') = e

LEMMA RecordingGrows ==
  ASSUME Typed, NEW e, NEW f, Recording(e, f)
  PROVE  /\ Grown(e, f)
         /\ Ran \subseteq 1 .. Len(events)
         /\ Ran' = IF f = "refused" THEN Ran ELSE Ran \cup {Len(events) + 1}
<1>1. Grown(e, f)
  BY DEF Typed, Recording, Grown, Last
<1>2. QED
  BY <1>1 DEF Grown, Ran

LEMMA RecordingTyped ==
  ASSUME Typed, NEW e, NEW f, Recording(e, f)
  PROVE  Typed'
<1>1. Grown(e, f)
  BY RecordingGrows
<1>2. phase' \in Nat
  BY DEF Typed, Recording, GatePhase
<1>3. exposed' \subseteq DOMAIN events'
  BY <1>1 DEF Typed, Recording, Grown
<1>4. QED
  BY <1>1, <1>2, <1>3 DEF Typed, Recording, Grown

LEMMA RecordingEventsOK ==
  ASSUME Typed, NEW e, NEW f, Recording(e, f), rule \in HarmRules, EventsOK
  PROVE  EventsOK'
<1>1. Grown(e, f)
  BY RecordingGrows
<1>2. rule' = rule /\ now' \in Nat /\ now <= now' /\ now \in Nat
  BY DEF Recording, Typed
<1>3. ASSUME NEW i \in 1 .. Len(events)
      PROVE  /\ events'[i].at <= now'
             /\ events'[i].failed => fate'[i] = "failed"
             /\ events'[i].tool # "none" => IsCall(events'[i])
             /\ events'[i].returned => CallOf(events'[i], "fetch")
             /\ rule = "taint" /\ Tagged(events'[i]) => events'[i].text = "bad"
             /\ rule = "value" => IsCall(events'[i])
  <2>1. events'[i] = events[i] /\ fate'[i] = fate[i] /\ i \in DOMAIN events
    BY <1>1 DEF Grown
  <2>2. events[i].at \in Nat
    <3>1. events[i] \in EventType
      BY <2>1 DEF Typed
    <3>2. QED
      BY <3>1 DEF EventType
  <2>3. QED
    BY <1>2, <2>1, <2>2 DEF EventsOK
<1>4. e.at <= now'
  BY <1>2 DEF Recording
<1>5. QED
  BY <1>1, <1>2, <1>3, <1>4 DEF EventsOK, Recording, Grown

-----------------------------------------------------------------------------
(* Filling events in, and restoring them.                                   *)

\* The events are what they were but for how they turned out.
Refilled ==
  /\ events' \in Seq(EventType) /\ Len(events') = Len(events)
  /\ fate' \in Seq(Fates) /\ Len(fate') = Len(fate)
  /\ \A i \in DOMAIN events :
       /\ events'[i].kind = events[i].kind /\ events'[i].tool = events[i].tool
       /\ events'[i].arg = events[i].arg /\ events'[i].at = events[i].at
       /\ events'[i].text = events[i].text
       /\ fate'[i] = "refused" <=> fate[i] = "refused"
       /\ fate[i] = "failed" => fate'[i] = "failed"
       /\ events'[i].failed => fate'[i] = "failed" \/ events[i].failed
       /\ events'[i].returned => events[i].returned \/ events[i].tool = "fetch"
  /\ UNCHANGED <<rule, now, exposed>>

LEMMA FailRefills ==
  ASSUME Typed, NEW i \in DOMAIN events, Fail(i)
  PROVE  Refilled
<1>1. events[i] \in EventType /\ fate[i] = "done" /\ i \in DOMAIN fate
  BY DEF Typed, Fail
<1>2. \A r \in EventType : [r EXCEPT !.failed = TRUE] \in EventType
  BY DEF EventType
<1>3. events' = [events EXCEPT ![i] = [events[i] EXCEPT !.failed = TRUE]]
  BY DEF Fail
<1>4. DEFINE new == [events[i] EXCEPT !.failed = TRUE]
<1>5. /\ new.kind = events[i].kind /\ new.tool = events[i].tool /\ new.arg = events[i].arg
      /\ new.text = events[i].text /\ new.at = events[i].at /\ new.returned = events[i].returned
  BY <1>1 DEF EventType
<1>6. new \in EventType
  BY <1>1, <1>2
<1> HIDE DEF new
<1>7. events' \in Seq(EventType) /\ Len(events') = Len(events) /\ events'[i] = new
      /\ \A j \in DOMAIN events : j # i => events'[j] = events[j]
  BY <1>3, <1>6 DEF Typed, new
<1>8. fate' \in Seq(Fates) /\ Len(fate') = Len(fate) /\ fate'[i] = "failed"
      /\ \A j \in DOMAIN events : j # i => fate'[j] = fate[j]
  BY <1>1 DEF Typed, Fail, Fates
<1>9. QED
  BY <1>1, <1>5, <1>7, <1>8 DEF Refilled, Fail

LEMMA ReturnRefills ==
  ASSUME Typed, NEW i \in DOMAIN events, Return(i)
  PROVE  Refilled
<1>1. events[i] \in EventType /\ events[i].tool = "fetch"
  BY DEF Typed, Return
<1>2. \A r \in EventType : [r EXCEPT !.returned = TRUE] \in EventType
  BY DEF EventType
<1>3. events' = [events EXCEPT ![i] = [events[i] EXCEPT !.returned = TRUE]]
  BY DEF Return
<1>4. DEFINE new == [events[i] EXCEPT !.returned = TRUE]
<1>5. /\ new.kind = events[i].kind /\ new.tool = events[i].tool /\ new.arg = events[i].arg
      /\ new.text = events[i].text /\ new.at = events[i].at /\ new.failed = events[i].failed
  BY <1>1 DEF EventType
<1>6. new \in EventType
  BY <1>1, <1>2
<1> HIDE DEF new
<1>7. events' \in Seq(EventType) /\ Len(events') = Len(events) /\ events'[i] = new
      /\ \A j \in DOMAIN events : j # i => events'[j] = events[j]
  BY <1>3, <1>6 DEF Typed, new
<1>8. fate' \in Seq(Fates) /\ Len(fate') = Len(fate) /\ fate' = fate
  BY DEF Typed, Return
<1>9. QED
  BY <1>1, <1>5, <1>7, <1>8 DEF Refilled, Return

LEMMA RestartRefills ==
  ASSUME Typed, Restart
  PROVE  Refilled
<1>1. /\ Trace \in Seq(EventType) /\ Len(Trace) = Len(events)
      /\ \A i \in DOMAIN events :
           /\ Trace[i].kind = events[i].kind /\ Trace[i].tool = events[i].tool
           /\ Trace[i].arg = events[i].arg /\ Trace[i].at = events[i].at
           /\ Trace[i].text = events[i].text
           /\ Trace[i].failed => events[i].failed
           /\ Trace[i].returned => events[i].returned
  <2>1. CASE rule = "error_retries"
    BY <2>1 DEF Typed, Trace
  <2>2. CASE rule # "error_retries"
    <3> DEFINE Reset(r) == [r EXCEPT !.failed = FALSE, !.returned = FALSE]
    <3>1. ASSUME NEW r \in EventType
          PROVE  /\ Reset(r) \in EventType
                 /\ Reset(r).kind = r.kind /\ Reset(r).tool = r.tool
                 /\ Reset(r).arg = r.arg /\ Reset(r).at = r.at
                 /\ Reset(r).text = r.text
                 /\ ~Reset(r).failed /\ ~Reset(r).returned
      BY DEF EventType
    <3>2. Trace = [i \in DOMAIN events |-> Reset(events[i])]
      BY <2>2 DEF Trace
    <3>3. events \in Seq(EventType) /\ \A i \in DOMAIN events : events[i] \in EventType
      BY DEF Typed
    <3> HIDE DEF Reset
    <3>4. QED
      BY <3>1, <3>2, <3>3
  <2>3. QED
    BY <2>1, <2>2
<1>2. /\ fate' \in Seq(Fates) /\ Len(fate') = Len(fate)
      /\ \A i \in DOMAIN events :
           /\ fate'[i] = "refused" <=> fate[i] = "refused"
           /\ fate[i] = "failed" => fate'[i] = "failed"
  <2> DEFINE Left(i) == IF IsCall(events[i]) /\ fate[i] = "done" THEN "lost" ELSE fate[i]
  <2>1. fate \in Seq(Fates) /\ DOMAIN fate = DOMAIN events /\ fate' = [i \in DOMAIN fate |-> Left(i)]
    BY DEF Typed, Restart
  <2>2. \A i \in DOMAIN fate : fate[i] \in Fates
    BY <2>1
  <2>3. ASSUME NEW i \in DOMAIN fate
        PROVE  /\ Left(i) \in Fates
               /\ Left(i) = "refused" <=> fate[i] = "refused"
               /\ fate[i] = "failed" => Left(i) = "failed"
    BY <2>2 DEF Fates
  <2> HIDE DEF Left
  <2>4. fate' \in Seq(Fates) /\ Len(fate') = Len(fate)
    BY <2>1, <2>3
  <2>5. QED
    BY <2>1, <2>3, <2>4
<1>3. QED
  BY <1>1, <1>2 DEF Refilled, Restart

LEMMA RefilledSame ==
  ASSUME Typed, Refilled
  PROVE  /\ rule' = rule /\ now' = now /\ exposed' = exposed
         /\ DOMAIN events' = DOMAIN events /\ Ran' = Ran
         /\ \A i \in DOMAIN events : \A tool :
              CallOf(events'[i], tool) <=> CallOf(events[i], tool)
BY DEF Typed, Refilled, Ran, CallOf, IsCall

LEMMA RefilledTyped ==
  ASSUME Typed, Refilled, phase' \in Nat
  PROVE  Typed'
BY RefilledSame DEF Typed, Refilled

LEMMA RefilledEventsOK ==
  ASSUME Typed, Refilled, EventsOK
  PROVE  EventsOK'
<1>1. rule' = rule /\ now' = now /\ DOMAIN events' = DOMAIN events
  BY RefilledSame
<1>2. ASSUME NEW i \in DOMAIN events
      PROVE  /\ events'[i].at <= now
             /\ events'[i].failed => fate'[i] = "failed"
             /\ events'[i].tool # "none" => IsCall(events'[i])
             /\ events'[i].returned => CallOf(events'[i], "fetch")
             /\ rule = "taint" /\ Tagged(events'[i]) => events'[i].text = "bad"
             /\ rule = "value" => IsCall(events'[i])
  BY DEF EventsOK, Refilled, CallOf, IsCall, Tagged
<1>3. QED
  BY <1>1, <1>2 DEF EventsOK

LEMMA RefilledClear ==
  ASSUME Typed, Refilled, NEW j \in DOMAIN events, Clear(j)
  PROVE  Clear(j)'
<1>1. rule' = rule /\ exposed' = exposed /\ DOMAIN events' = DOMAIN events
  BY RefilledSame
<1>2. \A i \in DOMAIN events :
        /\ events'[i].kind = events[i].kind /\ events'[i].tool = events[i].tool
        /\ events'[i].arg = events[i].arg /\ events'[i].at = events[i].at
        /\ events'[i].text = events[i].text
        /\ fate[i] = "failed" => fate'[i] = "failed"
  BY DEF Refilled
<1>3. DOMAIN events = 1 .. Len(events)
  BY DEF Typed
<1>4. QED
  BY <1>1, <1>2, <1>3 DEF Clear, Pair, SameArg, CallOf, IsCall, Tagged

LEMMA RefilledCounted ==
  ASSUME Typed, Refilled, Counted
  PROVE  Counted'
<1>1. rule' = rule /\ Ran' = Ran /\ Ran \subseteq DOMAIN events
  BY RefilledSame DEF Ran
<1>2. /\ Kind("tool", Ran)' = Kind("tool", Ran)
      /\ \A tool : Calls(tool, Ran)' = Calls(tool, Ran)
  BY <1>1 DEF Kind, Calls, CallOf, IsCall, Refilled
<1>3. QED
  BY <1>1, <1>2 DEF Counted

-----------------------------------------------------------------------------
(* What it means that a predicate passes.                                   *)

LEMMA PassesIs ==
  ASSUME NEW es, NEW p, Passes(es, p)
  PROVE  /\ rule = "key_rate" => PerKeyRateLimit("send", 1, 1, "ignore", es)
         /\ rule = "key_rate_strict" => PerKeyRateLimit("send", 1, 1, "block", es)
         /\ rule = "tool_rate" => ToolRateLimit("send", 1, 1, es)
         /\ rule = "quota" => ToolQuotaPerPeriod("send", 1, 2, es)
         /\ rule = "taint" => UntrustedTaintToSink("send", es)
         /\ rule = "memory" => NoUntrustedMemoryWrite("fetch", "save", FALSE, es)
         /\ rule = "memory_copy" => NoUntrustedMemoryWrite("fetch", "save", TRUE, es)
         /\ rule = "trifecta" => LethalTrifectaGuard("fetch", "save", "send", es)
         /\ rule = "cap" => MaxToolCalls(2, es)
         /\ rule = "duplicate" => NoDuplicateSideEffect("send", es)
         /\ rule = "spend" => ToolSpendUnder("send", 1, 2, es)
         /\ rule = "exfil" => NoExfiltrationAfterUntrusted("fetch", "send", es)
         /\ rule = "value" => ToolArgValueGuard({"two"}, es)
         /\ rule = "stable" => ToolDefinitionsStable(es)
         /\ rule = "gate" => GatePasses(Stages, p, Last(es))
<1> USE DEF Passes, EndRules
<1>1. rule = "key_rate" => PerKeyRateLimit("send", 1, 1, "ignore", es)
  BY Zenon
<1>2. rule = "key_rate_strict" => PerKeyRateLimit("send", 1, 1, "block", es)
  BY Zenon
<1>3. rule = "tool_rate" => ToolRateLimit("send", 1, 1, es)
  BY Zenon
<1>4. rule = "quota" => ToolQuotaPerPeriod("send", 1, 2, es)
  BY Zenon
<1>5. rule = "taint" => UntrustedTaintToSink("send", es)
  BY Zenon
<1>6. rule = "memory" => NoUntrustedMemoryWrite("fetch", "save", FALSE, es)
  BY Zenon
<1>7. rule = "memory_copy" => NoUntrustedMemoryWrite("fetch", "save", TRUE, es)
  BY Zenon
<1>8. rule = "trifecta" => LethalTrifectaGuard("fetch", "save", "send", es)
  BY Zenon
<1>9. rule = "cap" => MaxToolCalls(2, es)
  BY Zenon
<1>10. rule = "duplicate" => NoDuplicateSideEffect("send", es)
  BY Zenon
<1>11. rule = "spend" => ToolSpendUnder("send", 1, 2, es)
  BY Zenon
<1>12. rule = "exfil" => NoExfiltrationAfterUntrusted("fetch", "send", es)
  BY Zenon
<1>13. rule = "value" => ToolArgValueGuard({"two"}, es)
  BY Zenon
<1>14. rule = "stable" => ToolDefinitionsStable(es)
  BY Zenon
<1>15. rule = "gate" => GatePasses(Stages, p, Last(es))
  BY Zenon
<1>16. QED
  BY Zenon, <1>1, <1>2, <1>3, <1>4, <1>5, <1>6, <1>7, <1>8, <1>9, <1>10, <1>11, <1>12, <1>13,
     <1>14, <1>15

LEMMA MinIsFirst ==
  ASSUME NEW T \in SUBSET Nat, T # {}
  PROVE  Min(T) \in T /\ \A y \in T : Min(T) <= y
<1> DEFINE R == {ss \in Nat \X Nat : ss[1] < ss[2]}
<1>1. PICK x \in T : \A y \in T : ~ (<<y, x>> \in R)
  <2>1. OpToRel(<, Nat) = R
    BY Zenon DEF OpToRel
  <2> HIDE DEF R
  <2>2. IsWellFoundedOn(R, Nat)
    BY NatLessThanWellFounded, <2>1
  <2>3. QED
    BY <2>2, WFMin
<1>2. ASSUME NEW y \in T
      PROVE  x <= y
  <2>1. <<y, x>> \notin R /\ <<y, x>> \in Nat \X Nat
    BY <1>1
  <2>2. QED
    BY <2>1
<1>3. QED
  BY <1>1, <1>2 DEF Min

LEMMA AtMostOne ==
  ASSUME NEW T, IsFiniteSet(T), Cardinality(T) <= 1, NEW a \in T, NEW b \in T
  PROVE  a = b
<1> SUFFICES ASSUME a # b PROVE FALSE
  OBVIOUS
<1>1. IsFiniteSet({a}) /\ Cardinality({a}) = 1 /\ b \notin {a}
  BY FS_Singleton
<1> DEFINE A == {a}
<1> HIDE DEF A
<1>2. Cardinality(A \cup {b}) = 2
  <2>1. IsFiniteSet(A) /\ Cardinality(A) = 1 /\ b \notin A
    BY <1>1 DEF A
  <2>2. Cardinality(A \cup {b}) = Cardinality(A) + 1
    BY <2>1, FS_AddElement
  <2>3. QED
    BY <2>1, <2>2
<1>3. Cardinality(A \cup {b}) <= Cardinality(T)
  BY FS_Subset DEF A
<1>4. Cardinality(T) \in Nat
  BY FS_CardinalityType
<1>5. QED
  BY <1>2, <1>3, <1>4

LEMMA StageIs ==
  ASSUME NEW e \in EventType
  PROVE  StageOf(Stages, e) =
           IF CallOf(e, "fetch") THEN 1 ELSE IF CallOf(e, "send") THEN 2 ELSE 0
<1> DEFINE I == {i \in 1 .. Len(Stages) : Stages[i] = e.tool}
<1>1. StageOf(Stages, e) = IF IsCall(e) THEN IF I # {} THEN Min(I) ELSE 0 ELSE 0
  BY DEF StageOf, SelectInSeq
<1>2. Stages = <<"fetch", "send">> /\ Len(Stages) = 2
  BY DEF Stages
<1>3. I = IF e.tool = "fetch" THEN {1} ELSE IF e.tool = "send" THEN {2} ELSE {}
  BY <1>2
<1> HIDE DEF I
<1>4. Min({1}) = 1 /\ Min({2}) = 2
  BY DEF Min
<1>5. QED
  BY <1>1, <1>3, <1>4 DEF CallOf

-----------------------------------------------------------------------------
(* Calls that were let run, as their predicate saw them.                    *)

LEMMA RecordingKeepsClear ==
  ASSUME Typed, NEW e, NEW f, Recording(e, f), NEW j \in DOMAIN events, Clear(j)
  PROVE  Clear(j)'
<1> DEFINE n == Len(events)
<1>1. /\ n \in Nat /\ j \in 1 .. n /\ rule' = rule
      /\ DOMAIN events = 1 .. n /\ DOMAIN events' = 1 .. n + 1
      /\ \A i \in 1 .. n : events'[i] = events[i] /\ fate'[i] = fate[i]
      /\ j \in exposed' <=> j \in exposed
  <2>1. Grown(e, f)
    BY RecordingGrows
  <2>2. n \in Nat /\ DOMAIN events = 1 .. n /\ Len(events') = n + 1 /\ j # n + 1
    BY <2>1 DEF Grown
  <2>3. j \in exposed' <=> j \in exposed
    BY <2>2 DEF Recording
  <2>4. QED
    BY <2>1, <2>2, <2>3 DEF Grown, Recording
<1>2. {i \in DOMAIN events' : i < j} = {i \in DOMAIN events : i < j}
  BY <1>1
<1>3. {i \in DOMAIN events : i < j} \subseteq 1 .. n /\ 1 .. j \subseteq 1 .. n
  BY <1>1
<1> HIDE DEF n
<1> DEFINE B == {i \in DOMAIN events : i < j}
<1> HIDE DEF B
<1>4. QED
  BY <1>1, <1>2, <1>3 DEF Clear, Pair, SameArg

\* What is known once a call that is let run has been recorded.
LEMMA LetRun ==
  ASSUME Typed, NEW e, NEW f, Recording(e, f), rule \in HarmRules, f # "refused", IsCall(e)
  PROVE  /\ Passes(events', phase) /\ Grown(e, f) /\ e \in EventType
         /\ rule' = rule /\ Last(events') = e /\ Len(events') - 1 = Len(events)
         /\ DOMAIN events' = 1 .. Len(events')
         /\ IsFiniteSet(DOMAIN events')
<1>1. Grown(e, f)
  BY RecordingGrows
<1>2. IsFiniteSet(1 .. Len(events) + 1)
  BY <1>1, FS_Interval DEF Grown
<1>3. QED
  BY <1>1, <1>2 DEF Grown, Recording

\* The predicates that compare the call with those before it.
LEMMA ComparedClear ==
  ASSUME Typed, EventsOK, NEW e, NEW f, Recording(e, f), f # "refused", NEW m, m = Len(events) + 1,
         rule \in {"duplicate", "exfil", "taint", "memory", "value"}
  PROVE  Clear(m)'
<1>1. Grown(e, f) /\ m = Len(events') /\ m \in Nat /\ rule' = rule /\ events'[m] = e
      /\ DOMAIN events' = 1 .. m
      /\ \A i \in DOMAIN events' : i < m => i \in 1 .. Len(events') - 1
  BY RecordingGrows DEF Grown, Recording
<1>2. rule \in HarmRules
  BY DEF HarmRules, EffectRules
<1>3. CASE ~IsCall(e)
  BY <1>1, <1>3 DEF Clear, Pair, CallOf, Recording
<1>4. CASE IsCall(e)
  <2>1. Passes(events', phase) /\ Last(events') = e
    BY <1>2, <1>4, LetRun
  <2>2. CASE rule = "duplicate"
    <3>1. NoDuplicateSideEffect("send", events')
      BY <2>1, <2>2, PassesIs
    <3>2. QED
      BY <1>1, <2>1, <2>2, <3>1 DEF NoDuplicateSideEffect, Clear, Pair, SameArg
  <2>3. CASE rule = "exfil"
    <3>1. NoExfiltrationAfterUntrusted("fetch", "send", events')
      BY <2>1, <2>3, PassesIs
    <3>2. QED
      BY <1>1, <2>1, <2>3, <3>1 DEF NoExfiltrationAfterUntrusted, Clear
  <2>4. CASE rule = "taint"
    <3>1. UntrustedTaintToSink("send", events')
      BY <2>1, <2>4, PassesIs
    <3>2. QED
      BY <1>1, <2>1, <2>4, <3>1 DEF UntrustedTaintToSink, Clear, SameArg
  <2>5. CASE rule = "memory"
    <3>1. NoUntrustedMemoryWrite("fetch", "save", FALSE, events')
      BY <2>1, <2>5, PassesIs
    <3>2. QED
      BY <1>1, <2>1, <2>5, <3>1 DEF NoUntrustedMemoryWrite, Clear
  <2>6. CASE rule = "value"
    <3>1. ToolArgValueGuard({"two"}, events')
      BY <2>1, <2>6, PassesIs
    <3>2. \A i \in 1 .. Len(events') - 1 : IsCall(events'[i])
      BY <1>1, <2>6 DEF EventsOK, Grown
    <3>3. QED
      BY <1>1, <1>4, <2>1, <2>6, <3>1, <3>2 DEF ToolArgValueGuard, Clear, SameArg
  <2>7. QED
    BY <2>2, <2>3, <2>4, <2>5, <2>6
<1>5. QED
  BY <1>3, <1>4

\* Whatever is held when a copying write is recorded has been compared with it.
LEMMA CopyClear ==
  ASSUME Typed, EventsOK, NEW e, NEW f, Recording(e, f), f # "refused",
         NEW m, m = Len(events) + 1, rule = "memory_copy"
  PROVE  Clear(m)'
<1>1. Grown(e, f) /\ m = Len(events') /\ m \in Nat /\ rule' = rule /\ events'[m] = e
  BY RecordingGrows DEF Grown, Recording
<1>2. ASSUME CallOf(e, "save"), e.arg = "copy", NEW i \in DOMAIN events, events[i].returned
      PROVE  FALSE
  <2>1. rule \in HarmRules /\ IsCall(e)
    BY <1>2 DEF HarmRules, EffectRules, CallOf
  <2>2. NoUntrustedMemoryWrite("fetch", "save", TRUE, events') /\ Last(events') = e
    BY <2>1, LetRun, PassesIs
  <2>3. i \in 1 .. Len(events') - 1 /\ events'[i] = events[i]
    BY <1>1 DEF Grown
  <2>4. CallOf(events'[i], "fetch")
    BY <1>2, <2>3 DEF EventsOK
  <2>5. QED
    BY <1>2, <2>2, <2>3, <2>4 DEF NoUntrustedMemoryWrite
<1>3. m \notin exposed
  BY <1>1 DEF Typed, Grown
<1>4. CallOf(e, "save") /\ e.arg = "copy" => m \notin exposed'
  BY <1>2, <1>3 DEF Recording
<1>5. QED
  BY <1>1, <1>4 DEF Clear

\* A stage is let pass only when the one before it has been.
LEMMA GateClear ==
  ASSUME Typed, PhaseEarned, NEW e, NEW f, Recording(e, f), f # "refused",
         NEW m, m = Len(events) + 1, rule = "gate"
  PROVE  Clear(m)'
<1>1. Grown(e, f) /\ m = Len(events') /\ m \in Nat /\ rule' = rule /\ events'[m] = e
  BY RecordingGrows DEF Grown, Recording
<1>2. ASSUME CallOf(e, "send")
      PROVE  \E i \in DOMAIN events : CallOf(events[i], "fetch")
  <2>1. rule \in HarmRules /\ IsCall(e) /\ ~CallOf(e, "fetch")
    BY <1>2 DEF HarmRules, EffectRules, CallOf
  <2>2. GatePasses(Stages, phase, e) /\ e \in EventType
    BY <2>1, LetRun, PassesIs
  <2>3. StageOf(Stages, e) = 2
    BY <1>2, <2>1, <2>2, StageIs
  <2>4. phase > 0
    BY <2>2, <2>3 DEF GatePasses, Typed
  <2>5. QED
    BY <2>4 DEF PhaseEarned
<1>3. CallOf(e, "send") => \E i \in DOMAIN events' : i < m /\ CallOf(events'[i], "fetch")
  BY <1>1, <1>2 DEF Grown
<1>4. QED
  BY <1>1, <1>3 DEF Clear

LEMMA RecordingPhase ==
  ASSUME Typed, PhaseEarned, NEW e, NEW f, Recording(e, f)
  PROVE  PhaseEarned'
<1>1. Grown(e, f) /\ e \in EventType
  BY RecordingGrows DEF Recording
<1>2. CASE phase > 0
  BY <1>1, <1>2 DEF PhaseEarned, Grown
<1>3. CASE phase = 0
  <2>1. phase' > 0 => CallOf(e, "fetch")
    BY <1>1, <1>3, StageIs DEF Recording, GatePhase
  <2>2. QED
    BY <1>1, <2>1 DEF PhaseEarned, Grown
<1>4. QED
  BY <1>2, <1>3 DEF Typed

\* A call has the definition of the first call that had one.
LEMMA DefinedClear ==
  ASSUME Typed, NEW e, NEW f, Recording(e, f), f # "refused",
         NEW m, m = Len(events) + 1, rule = "stable"
  PROVE  Clear(m)'
<1>1. Grown(e, f) /\ m = Len(events') /\ m \in Nat \ {0} /\ rule' = rule /\ events'[m] = e
  BY RecordingGrows DEF Grown, Recording
<1>2. DOMAIN events' = 1 .. m
  BY <1>1 DEF Grown
<1>3. ASSUME CallOf(e, "send"), e.arg # "bad"
      PROVE  \E i \in 1 .. m :
               /\ CallOf(events'[i], "send") /\ events'[i].arg = e.arg
               /\ \A k \in DOMAIN events' :
                    k < i => ~(CallOf(events'[k], "send") /\ events'[k].arg # "bad")
  <2> DEFINE Had == {i \in 1 .. Len(events') : CallOf(events'[i], e.tool) /\ events'[i].arg # "bad"}
             first == IF Had # {} THEN Min(Had) ELSE 0
  <2>1. rule \in HarmRules /\ IsCall(e) /\ e.tool = "send"
    BY <1>3 DEF HarmRules, EffectRules, CallOf
  <2>2. ToolDefinitionsStable(events') /\ Last(events') = e
    BY <2>1, LetRun, PassesIs
  <2>3. e.arg = events'[first].arg
    BY <1>3, <2>1, <2>2 DEF ToolDefinitionsStable, SelectInSeq
  <2>4. m \in Had /\ Had \in SUBSET Nat
    BY <1>1, <1>3, <2>1
  <2>5. Min(Had) \in Had /\ \A k \in Had : Min(Had) <= k
    <3> HIDE DEF Had
    <3>1. QED
      BY <2>4, MinIsFirst
  <2>6. first = Min(Had)
    <3> HIDE DEF Had
    <3>1. QED
      BY <2>4
  <2> HIDE DEF first
  <2>7. first \in 1 .. m /\ CallOf(events'[first], "send")
    BY <1>1, <2>1, <2>5, <2>6
  <2>8. ASSUME NEW k \in DOMAIN events', k < first, CallOf(events'[k], "send"), events'[k].arg # "bad"
        PROVE  FALSE
    <3>1. k \in Had
      BY <1>1, <1>2, <2>1, <2>8
    <3> HIDE DEF Had
    <3>2. first <= k
      BY <2>5, <2>6, <3>1
    <3>3. QED
      BY <1>1, <1>2, <2>7, <2>8, <3>2
  <2>9. QED
    BY <2>3, <2>7, <2>8
<1>4. QED
  BY <1>1, <1>3 DEF Clear

-----------------------------------------------------------------------------
(* The windows.                                                             *)

\* What has been counted in the window of the new event is the event alone.
LEMMA AloneInWindow ==
  ASSUME Typed, EventsOK, rule \in HarmRules, NEW e, NEW f, Recording(e, f),
         NEW m, m = Len(events) + 1,
         NEW T \in SUBSET DOMAIN events', Cardinality(T) <= 1, m \in T
  PROVE  \A i \in DOMAIN events' : i < m => i \notin T
<1>1. IsFiniteSet(DOMAIN events') /\ m \in Nat
  BY RecordingGrows, FS_Interval DEF Grown
<1>2. IsFiniteSet(T)
  BY <1>1, FS_Subset
<1>3. ASSUME NEW i \in DOMAIN events', i < m, i \in T
      PROVE  FALSE
  BY <1>1, <1>2, <1>3, AtMostOne
<1>4. QED
  BY <1>3

LEMMA NewestEvent ==
  ASSUME Typed, EventsOK, rule \in HarmRules, NEW e, NEW f, Recording(e, f),
         NEW i \in DOMAIN events'
  PROVE  /\ e.at \in Nat /\ events'[i].at \in Nat /\ events'[i].at <= e.at
         /\ events'[i].failed => fate'[i] = "failed"
<1>1. EventsOK' /\ e.at = now' /\ events'[i] \in EventType
  BY RecordingEventsOK, RecordingGrows DEF Recording, Grown
<1>2. events'[i].at \in Nat
  BY <1>1 DEF EventType
<1>3. QED
  BY <1>1, <1>2 DEF EventsOK, Recording

LEMMA KeyWindowClear ==
  ASSUME Typed, EventsOK, NEW e, NEW f, Recording(e, f), f # "refused",
         NEW m, m = Len(events) + 1, rule \in {"key_rate", "key_rate_strict"}
  PROVE  Clear(m)'
<1>1. Grown(e, f) /\ m = Len(events') /\ m \in Nat /\ rule' = rule /\ events'[m] = e
  BY RecordingGrows DEF Grown, Recording
<1>2. EventsOK' /\ Typed' /\ rule \in HarmRules
  BY RecordingEventsOK, RecordingTyped DEF HarmRules
<1>3. ASSUME CallOf(e, "send")
      PROVE  /\ rule = "key_rate_strict" => e.arg # "bad"
             /\ e.arg # "bad" =>
                  \A i \in DOMAIN events' :
                    i < m /\ CallOf(events'[i], "send") /\ events'[i].arg = e.arg =>
                      e.at - events'[i].at > 1
  <2> DEFINE T == {i \in DOMAIN events' : /\ CallOf(events'[i], "send") /\ events'[i].arg = e.arg
                                          /\ InWindow(events'[i], e, 1)}
  <2>1. Passes(events', phase) /\ Last(events') = e
    BY <1>2, <1>3, LetRun DEF CallOf
  <2>2. \/ PerKeyRateLimit("send", 1, 1, "ignore", events') /\ rule # "key_rate_strict"
        \/ PerKeyRateLimit("send", 1, 1, "block", events')
    BY <2>1, PassesIs
  <2>3. /\ rule = "key_rate_strict" => e.arg # "bad"
        /\ e.arg # "bad" => Cardinality(T) <= 1
    BY <1>3, <2>1, <2>2 DEF PerKeyRateLimit, Count
  <2>4. ASSUME e.arg # "bad", NEW i \in DOMAIN events', i < m, CallOf(events'[i], "send"),
               events'[i].arg = e.arg, ~(e.at - events'[i].at > 1)
        PROVE  FALSE
    <3>1. e.at \in Nat /\ events'[i].at \in Nat /\ events'[i].at <= e.at
      BY <1>2, NewestEvent
    <3>2. i \in T
      BY <2>4, <3>1 DEF InWindow
    <3>3. m \in T
      BY <1>1, <1>3, <3>1 DEF InWindow, Grown
    <3>4. T \in SUBSET DOMAIN events' /\ Cardinality(T) <= 1
      BY <2>3, <2>4
    <3> HIDE DEF T
    <3>5. QED
      BY <1>2, <2>4, <3>2, <3>3, <3>4, AloneInWindow
  <2>5. QED
    BY <2>3, <2>4
<1>4. QED
  BY <1>1, <1>3 DEF Clear, Pair, SameArg

LEMMA ToolWindowClear ==
  ASSUME Typed, EventsOK, NEW e, NEW f, Recording(e, f), f # "refused",
         NEW m, m = Len(events) + 1, rule = "tool_rate"
  PROVE  Clear(m)'
<1>1. Grown(e, f) /\ m = Len(events') /\ m \in Nat /\ rule' = rule /\ events'[m] = e
  BY RecordingGrows DEF Grown, Recording
<1>2. EventsOK' /\ Typed' /\ rule \in HarmRules
  BY RecordingEventsOK, RecordingTyped DEF HarmRules
<1>3. ASSUME CallOf(e, "send"), NEW i \in DOMAIN events', i < m, CallOf(events'[i], "send"),
             ~(e.at - events'[i].at > 1)
      PROVE  FALSE
  <2> DEFINE T == {k \in DOMAIN events' : CallOf(events'[k], "send") /\ InWindow(events'[k], e, 1)}
  <2>1. ToolRateLimit("send", 1, 1, events') /\ Last(events') = e
    BY <1>2, <1>3, LetRun, PassesIs DEF CallOf
  <2>2. Cardinality(T) <= 1
    BY <2>1 DEF ToolRateLimit, Count
  <2>3. e.at \in Nat /\ events'[i].at \in Nat /\ events'[i].at <= e.at
    BY <1>2, NewestEvent
  <2>4. i \in T
    BY <1>3, <2>3 DEF InWindow
  <2>5. m \in T
    BY <1>1, <1>3, <2>3 DEF InWindow, Grown
  <2>6. T \in SUBSET DOMAIN events'
    OBVIOUS
  <2> HIDE DEF T
  <2>7. QED
    BY <1>2, <1>3, <2>2, <2>4, <2>5, <2>6, AloneInWindow
<1>4. QED
  BY <1>1, <1>3 DEF Clear, Pair

\* The period that the code computes is the one that quotients tell apart.
LEMMA SamePeriod ==
  ASSUME NEW x \in Nat, NEW y \in Nat, x <= y
  PROVE  /\ x \div 2 = y \div 2 => PeriodStart(y, 2) <= x
         /\ PeriodStart(y, 2) <= y
BY DEF PeriodStart

LEMMA QuotaClear ==
  ASSUME Typed, EventsOK, NEW e, NEW f, Recording(e, f), f # "refused",
         NEW m, m = Len(events) + 1, rule = "quota"
  PROVE  Clear(m)'
<1>1. Grown(e, f) /\ m = Len(events') /\ m \in Nat /\ rule' = rule /\ events'[m] = e
  BY RecordingGrows DEF Grown, Recording
<1>2. EventsOK' /\ Typed' /\ rule \in HarmRules /\ (~e.failed \/ ~CallOf(e, "send"))
  BY RecordingEventsOK, RecordingTyped DEF HarmRules, Recording
<1>3. ASSUME CallOf(e, "send"), NEW i \in DOMAIN events', i < m, CallOf(events'[i], "send"),
             fate'[i] # "failed", e.at \div 2 = events'[i].at \div 2
      PROVE  FALSE
  <2> DEFINE T == {k \in DOMAIN events' : /\ CallOf(events'[k], "send") /\ ~events'[k].failed
                                          /\ PeriodStart(e.at, 2) <= events'[k].at
                                          /\ events'[k].at <= e.at}
  <2>1. EventsOK' /\ Typed' /\ rule \in HarmRules /\ ~e.failed
    BY <1>2, <1>3
  <2>2. ToolQuotaPerPeriod("send", 1, 2, events') /\ Last(events') = e
    BY <2>1, <1>3, LetRun, PassesIs DEF CallOf
  <2>3. Cardinality(T) <= 1
    BY <1>3, <2>2 DEF ToolQuotaPerPeriod, Count
  <2>4. e.at \in Nat /\ events'[i].at \in Nat /\ events'[i].at <= e.at /\ ~events'[i].failed
    BY <1>3, <2>1, NewestEvent
  <2>5. i \in T
    BY <1>3, <2>4, SamePeriod
  <2>6. m \in T
    BY <1>1, <1>3, <2>1, <2>4, SamePeriod DEF Grown
  <2>7. T \in SUBSET DOMAIN events'
    OBVIOUS
  <2> HIDE DEF T
  <2>8. QED
    BY <1>3, <2>1, <2>3, <2>5, <2>6, <2>7, AloneInWindow
<1>4. QED
  BY <1>1, <1>3 DEF Clear, Pair

-----------------------------------------------------------------------------
(* Folds.                                                                   *)

LEMMA Induction ==
  ASSUME NEW S, 0 \in S, \A n \in Nat : n \in S => n + 1 \in S
  PROVE  \A n \in Nat : n \in S
<1> DEFINE T == {n \in Nat : n \notin S}
<1> SUFFICES ASSUME T # {} PROVE FALSE
  OBVIOUS
<1>1. Min(T) \in T /\ \A y \in T : Min(T) <= y
  BY MinIsFirst
<1> DEFINE x == Min(T)
<1> HIDE DEF x
<1>2. x \in Nat /\ x \notin S /\ x # 0 /\ x - 1 \in Nat /\ (x - 1) + 1 = x
  BY <1>1 DEF x
<1>3. x - 1 \in S
  <2>1. x - 1 \in T => x <= x - 1
    BY <1>1 DEF x
  <2>2. QED
    BY <1>2, <2>1
<1>4. QED
  BY <1>2, <1>3

\* F holds what folding computes on the way, for every subset of the positions.
Folds(F, base, n, step) ==
  F = [s \in SUBSET (1 .. n) |->
        IF s = {} THEN base ELSE step[<<Max(s), F[s \ {Max(s)}]>>]]

LEMMA FoldExists ==
  ASSUME NEW V, NEW base \in V, NEW n \in Nat, NEW step \in [(1 .. n) \X V -> V]
  PROVE  \E F \in [SUBSET (1 .. n) -> V] : Folds(F, base, n, step)
<1> USE DEF Folds
<1> DEFINE
    Has(k) == \E F \in [SUBSET (1 .. k) -> V] : Folds(F, base, k, step)
    S == {k \in Nat : k <= n => Has(k)}
<1>1. Has(0)
  <2> DEFINE F == [s \in SUBSET (1 .. 0) |-> base]
  <2>1. 1 .. 0 = {} /\ SUBSET (1 .. 0) = {{}}
    OBVIOUS
  <2>2. F \in [SUBSET (1 .. 0) -> V] /\ Folds(F, base, 0, step)
    BY <2>1
  <2>3. QED
    BY <2>2
<1>2. ASSUME NEW k \in Nat, k \in S
      PROVE  k + 1 \in S
  <2> HIDE DEF Has
  <2> SUFFICES ASSUME k + 1 <= n PROVE Has(k + 1)
    OBVIOUS
  <2>1. PICK F \in [SUBSET (1 .. k) -> V] : Folds(F, base, k, step)
    <3>1. Has(k)
      BY <1>2
    <3>2. QED
      BY <3>1 DEF Has
  <2> DEFINE G == [s \in SUBSET (1 .. k + 1) |->
                    IF k + 1 \in s THEN step[<<k + 1, F[s \ {k + 1}]>>] ELSE F[s]]
  <2>2. k + 1 \in 1 .. n
    OBVIOUS
  <2>3. ASSUME NEW s \in SUBSET (1 .. k + 1)
        PROVE  /\ G[s] \in V
               /\ G[s] = IF s = {} THEN base ELSE step[<<Max(s), G[s \ {Max(s)}]>>]
    <3>1. CASE k + 1 \in s
      <4>1. Max(s) = k + 1
        <5>1. \A y \in s : y \in Nat /\ k + 1 >= y
          OBVIOUS
        <5>2. Max(s) \in s /\ \A y \in s : Max(s) >= y
          BY <3>1, <5>1 DEF Max
        <5>3. Max(s) \in Nat /\ k + 1 >= Max(s) /\ Max(s) >= k + 1
          BY <3>1, <5>1, <5>2
        <5>4. QED
          BY ONLY <5>3, k \in Nat
      <4>2. s \ {k + 1} \in SUBSET (1 .. k) /\ s \ {k + 1} \in SUBSET (1 .. k + 1)
        OBVIOUS
      <4>3. F[s \ {k + 1}] \in V /\ G[s \ {k + 1}] = F[s \ {k + 1}]
        BY <2>1, <4>2
      <4>4. G[s] = step[<<k + 1, F[s \ {k + 1}]>>]
        BY <3>1
      <4>5. <<k + 1, F[s \ {k + 1}]>> \in (1 .. n) \X V
        BY <2>2, <4>3
      <4>6. G[s] \in V
        BY <4>4, <4>5
      <4>7. s # {}
        BY <3>1
      <4> HIDE DEF G
      <4>8. QED
        BY <4>1, <4>3, <4>4, <4>6, <4>7
    <3>2. CASE k + 1 \notin s
      <4>1. s \in SUBSET (1 .. k) /\ s \ {Max(s)} \in SUBSET (1 .. k)
        <5>1. s \subseteq 1 .. k
          BY <3>2
        <5>2. QED
          BY <5>1
      <4>2. G[s] = F[s] /\ G[s \ {Max(s)}] = F[s \ {Max(s)}]
        BY <3>2, <4>1
      <4>3. F[s] = IF s = {} THEN base ELSE step[<<Max(s), F[s \ {Max(s)}]>>]
        BY <2>1, <4>1
      <4>4. F[s] \in V
        BY <2>1, <4>1
      <4> HIDE DEF G
      <4>5. QED
        BY <4>2, <4>3, <4>4
    <3>3. QED
      BY <3>1, <3>2
  <2>4. G \in [SUBSET (1 .. k + 1) -> V]
    BY <2>3
  <2>5. Folds(G, base, k + 1, step)
    <3>1. G = [s \in SUBSET (1 .. k + 1) |-> G[s]]
      BY <2>4
    <3> HIDE DEF G
    <3>2. QED
      BY <2>3, <3>1
  <2> HIDE DEF G, Folds
  <2>6. QED
    BY <2>4, <2>5 DEF Has
<1> HIDE DEF Has
<1>3. 0 \in S
  BY <1>1
<1>4. \A k \in Nat : k \in S
  <2> HIDE DEF S
  <2>1. QED
    BY <1>2, <1>3, Induction
<1>5. Has(n)
  BY <1>4
<1>6. QED
  BY <1>5 DEF Has

LEMMA MaxIsLast ==
  ASSUME NEW n \in Nat, NEW s \in SUBSET (1 .. n), s # {}
  PROVE  Max(s) \in s /\ \A y \in s : Max(s) >= y
<1> DEFINE U == {u \in Nat : \A y \in s : u >= y}
<1>1. n \in U
  OBVIOUS
<1>2. Min(U) \in U /\ \A u \in U : Min(U) <= u
  BY <1>1, MinIsFirst
<1> DEFINE m == Min(U)
<1> HIDE DEF m
<1>3. m \in Nat /\ \A y \in s : m >= y
  BY <1>2 DEF m
<1>4. m \in s
  <2>1. SUFFICES ASSUME m \notin s PROVE FALSE
    OBVIOUS
  <2>2. m > 0
    <3>1. PICK y \in s : TRUE
      OBVIOUS
    <3>2. y \in 1 .. n
      BY <3>1
    <3>3. y \in Nat /\ y > 0
      BY <3>2
    <3>4. QED
      BY <1>3, <3>3
  <2>3. m - 1 \in U
    BY <1>3, <2>1, <2>2
  <2>4. m <= m - 1
    BY <1>2, <2>3 DEF m
  <2>5. QED
    BY <1>3, <2>4
<1>5. QED
  BY <1>3, <1>4 DEF Max

LEMMA MaxOfInterval ==
  ASSUME NEW n \in Nat, NEW k \in Nat, k < n
  PROVE  /\ Max(1 .. k + 1) = k + 1 /\ (1 .. k + 1) \ {k + 1} = 1 .. k
         /\ 1 .. k + 1 \in SUBSET (1 .. n) /\ 1 .. k \in SUBSET (1 .. n) /\ 1 .. k + 1 # {}
<1>1. k + 1 \in 1 .. k + 1 /\ 1 .. k + 1 # {} /\ 1 .. k + 1 \in SUBSET (1 .. n)
  OBVIOUS
<1>2. Max(1 .. k + 1) \in 1 .. k + 1 /\ \A y \in 1 .. k + 1 : Max(1 .. k + 1) >= y
  BY <1>1, MaxIsLast
<1>3. Max(1 .. k + 1) = k + 1
  BY <1>1, <1>2
<1>4. QED
  BY <1>1, <1>3

\* The ledger that the restored events make up is moved by a call of the first stage.
LEMMA PhaseRestoredEarned ==
  ASSUME NEW es \in Seq(EventType)
  PROVE  /\ PhaseRestored(es) \in Nat
         /\ PhaseRestored(es) > 0 => \E i \in DOMAIN es : CallOf(es[i], "fetch")
<1> DEFINE n == Len(es)
           Follows(F) == F = [s \in SUBSET (1 .. n) |->
                               IF s = {} THEN 0
                               ELSE GatePhase(Stages, F[s \ {Max(s)}], es[Max(s)])]
           It == CHOOSE F : Follows(F)
<1>1. n \in Nat /\ DOMAIN es = 1 .. n
  OBVIOUS
<1>2. PhaseRestored(es) = IF rule = "gate" THEN It[1 .. n] ELSE 0
  BY <1>1 DEF PhaseRestored, FoldLeft, MapThenFoldSet
<1>3. Follows(It)
  <2> DEFINE step == [p \in (1 .. n) \X Nat |-> GatePhase(Stages, p[2], es[p[1]])]
  <2>1. step \in [(1 .. n) \X Nat -> Nat]
    BY DEF GatePhase
  <2> HIDE DEF n
  <2>2. PICK F \in [SUBSET (1 .. n) -> Nat] : Folds(F, 0, n, step)
    <3> HIDE DEF step
    <3>1. QED
      BY <1>1, <2>1, FoldExists
  <2>3. ASSUME NEW s \in SUBSET (1 .. n), s # {}
        PROVE  step[<<Max(s), F[s \ {Max(s)}]>>] = GatePhase(Stages, F[s \ {Max(s)}], es[Max(s)])
    <3>1. Max(s) \in 1 .. n /\ s \ {Max(s)} \in SUBSET (1 .. n)
      BY <1>1, <2>3, MaxIsLast
    <3>2. F[s \ {Max(s)}] \in Nat
      BY <2>2, <3>1
    <3>3. QED
      BY <3>1, <3>2
  <2> HIDE DEF step
  <2>4. Follows(F)
    BY <2>2, <2>3 DEF Folds
  <2> HIDE DEF Follows
  <2>5. QED
    BY <2>4
<1> HIDE DEF It, n
<1> DEFINE S == {k \in Nat : k <= n => /\ It[1 .. k] \in Nat
                                       /\ It[1 .. k] > 0 => \E i \in 1 .. k : CallOf(es[i], "fetch")}
<1>4. 0 \in S
  <2>1. 1 .. 0 = {} /\ {} \in SUBSET (1 .. n)
    OBVIOUS
  <2>2. It[1 .. 0] = 0
    BY <1>3, <2>1
  <2>3. QED
    BY <2>2
<1>5. ASSUME NEW k \in Nat, k \in S
      PROVE  k + 1 \in S
  <2> SUFFICES ASSUME k < n
               PROVE  /\ It[1 .. k + 1] \in Nat
                      /\ It[1 .. k + 1] > 0 => \E i \in 1 .. k + 1 : CallOf(es[i], "fetch")
    BY <1>1
  <2>1. It[1 .. k + 1] = GatePhase(Stages, It[1 .. k], es[k + 1])
    <3> DEFINE A == 1 .. k + 1
    <3>1. A \in SUBSET (1 .. n) /\ A # {} /\ Max(A) = k + 1 /\ A \ {k + 1} = 1 .. k
      BY <1>1, MaxOfInterval
    <3> HIDE DEF A
    <3>2. It[A] = GatePhase(Stages, It[A \ {Max(A)}], es[Max(A)])
      BY <1>3, <3>1
    <3>3. QED
      BY <3>1, <3>2 DEF A
  <2>2. /\ It[1 .. k] \in Nat
        /\ It[1 .. k] > 0 => \E i \in 1 .. k : CallOf(es[i], "fetch")
    BY <1>1, <1>5
  <2>3. es[k + 1] \in EventType /\ k + 1 \in 1 .. k + 1 /\ 1 .. k \subseteq 1 .. k + 1
    BY <1>1
  <2>4. It[1 .. k] = 0 /\ It[1 .. k + 1] > 0 => CallOf(es[k + 1], "fetch")
    BY <2>1, <2>3, StageIs DEF GatePhase
  <2>5. It[1 .. k + 1] \in Nat
    BY <2>1, <2>2 DEF GatePhase
  <2>6. QED
    BY <2>2, <2>3, <2>4, <2>5
<1>6. n \in S
  <2> HIDE DEF S
  <2>1. QED
    BY <1>1, <1>4, <1>5, Induction
<1>7. QED
  BY <1>1, <1>2, <1>6

\* What the predicate adds up is at least the number of calls that it lets run.
LEMMA SpendAtLeast ==
  ASSUME NEW es \in Seq(EventType), CallOf(Last(es), "send"), ToolSpendUnder("send", 1, 2, es)
  PROVE  /\ Last(es).arg \in {"one", "two"} /\ Last(es).arg # "two"
         /\ Cardinality({i \in DOMAIN es : CallOf(es[i], "send") /\ es[i].arg = "one"}) <= 2
<1> DEFINE n == Len(es)
           Worth(e) == IF CallOf(e, "send") /\ AmountValid(e) THEN Amount[e.arg] ELSE 0
           Follows(F) == F = [s \in SUBSET (1 .. n) |->
                               IF s = {} THEN 0 ELSE F[s \ {Max(s)}] + Worth(es[Max(s)])]
           It == CHOOSE F : Follows(F)
<1>1. n \in Nat /\ DOMAIN es = 1 .. n /\ \A i \in 1 .. n : es[i] \in EventType
  OBVIOUS
<1>2. DOMAIN Amount = {"one", "two"} /\ Amount["one"] = 1 /\ Amount["two"] = 2
  BY DEF Amount
<1>3. Last(es).arg \in {"one", "two"} /\ Last(es).arg # "two"
  BY <1>2 DEF ToolSpendUnder, AmountValid
<1>4. It[1 .. n] <= 2
  BY <1>1 DEF ToolSpendUnder, SumOf, FoldLeft, MapThenFoldSet
<1>5. \A i \in 1 .. n : /\ Worth(es[i]) \in Nat
                        /\ CallOf(es[i], "send") /\ es[i].arg = "one" => Worth(es[i]) = 1
  BY <1>2 DEF AmountValid
<1>6. Follows(It)
  <2> DEFINE step == [p \in (1 .. n) \X Nat |-> p[2] + Worth(es[p[1]])]
  <2> HIDE DEF Worth
  <2>1. step \in [(1 .. n) \X Nat -> Nat]
    BY <1>5
  <2> HIDE DEF n
  <2>2. PICK F \in [SUBSET (1 .. n) -> Nat] : Folds(F, 0, n, step)
    <3> HIDE DEF step
    <3>1. QED
      BY <1>1, <2>1, FoldExists
  <2>3. ASSUME NEW s \in SUBSET (1 .. n), s # {}
        PROVE  step[<<Max(s), F[s \ {Max(s)}]>>] = F[s \ {Max(s)}] + Worth(es[Max(s)])
    <3>1. Max(s) \in 1 .. n /\ s \ {Max(s)} \in SUBSET (1 .. n)
      BY <1>1, <2>3, MaxIsLast
    <3>2. F[s \ {Max(s)}] \in Nat
      BY <2>2, <3>1
    <3>3. QED
      BY <3>1, <3>2
  <2> HIDE DEF step
  <2>4. Follows(F)
    BY <2>2, <2>3 DEF Folds
  <2> HIDE DEF Follows
  <2>5. QED
    BY <2>4
<1> DEFINE Ones(k) == {i \in 1 .. k : CallOf(es[i], "send") /\ es[i].arg = "one"}
           S == {k \in Nat : k <= n => /\ It[1 .. k] \in Nat
                                       /\ IsFiniteSet(Ones(k)) /\ Cardinality(Ones(k)) \in Nat
                                       /\ Cardinality(Ones(k)) <= It[1 .. k]}
<1> HIDE DEF It, n, Worth
<1>7. 0 \in S
  <2>1. 1 .. 0 = {} /\ {} \in SUBSET (1 .. n) /\ Ones(0) = {}
    OBVIOUS
  <2>2. It[1 .. 0] = 0
    BY <1>6, <2>1
  <2>3. IsFiniteSet(Ones(0)) /\ Cardinality(Ones(0)) = 0
    BY <2>1, FS_EmptySet
  <2> HIDE DEF Ones
  <2>4. QED
    BY <2>2, <2>3
<1>8. ASSUME NEW k \in Nat, k \in S
      PROVE  k + 1 \in S
  <2> SUFFICES ASSUME k < n
               PROVE  /\ It[1 .. k + 1] \in Nat
                      /\ IsFiniteSet(Ones(k + 1)) /\ Cardinality(Ones(k + 1)) \in Nat
                      /\ Cardinality(Ones(k + 1)) <= It[1 .. k + 1]
    <3> HIDE DEF Ones
    <3>1. QED
      BY <1>1
  <2>1. It[1 .. k + 1] = It[1 .. k] + Worth(es[k + 1])
    <3> DEFINE A == 1 .. k + 1
    <3>1. A \in SUBSET (1 .. n) /\ A # {} /\ Max(A) = k + 1 /\ A \ {k + 1} = 1 .. k
      BY <1>1, MaxOfInterval
    <3> HIDE DEF A
    <3>2. It[A] = It[A \ {Max(A)}] + Worth(es[Max(A)])
      BY <1>6, <3>1
    <3>3. QED
      BY <3>1, <3>2 DEF A
  <2>2. /\ It[1 .. k] \in Nat
        /\ IsFiniteSet(Ones(k)) /\ Cardinality(Ones(k)) \in Nat
        /\ Cardinality(Ones(k)) <= It[1 .. k]
    <3> HIDE DEF Ones
    <3>1. QED
      BY <1>1, <1>8
  <2>3. k + 1 \in 1 .. n /\ k + 1 \notin Ones(k)
    BY <1>1
  <2>4. Ones(k + 1) = IF CallOf(es[k + 1], "send") /\ es[k + 1].arg = "one"
                        THEN Ones(k) \cup {k + 1} ELSE Ones(k)
    BY <2>3
  <2>5. Worth(es[k + 1]) \in Nat
    BY <1>5, <2>3
  <2>6. CASE CallOf(es[k + 1], "send") /\ es[k + 1].arg = "one"
    <3>1. Worth(es[k + 1]) = 1
      BY <1>5, <2>3, <2>6
    <3> HIDE DEF Ones
    <3>2. IsFiniteSet(Ones(k + 1)) /\ Cardinality(Ones(k + 1)) = Cardinality(Ones(k)) + 1
      BY <2>2, <2>3, <2>4, <2>6, FS_AddElement
    <3>3. QED
      BY <2>1, <2>2, <3>1, <3>2
  <2>7. CASE ~(CallOf(es[k + 1], "send") /\ es[k + 1].arg = "one")
    <3>1. Ones(k + 1) = Ones(k)
      BY <2>4, <2>7
    <3> HIDE DEF Ones
    <3>2. QED
      BY <2>1, <2>2, <2>5, <3>1
  <2>8. QED
    BY <2>6, <2>7
<1>9. n \in S
  <2> HIDE DEF S
  <2>1. QED
    BY <1>1, <1>7, <1>8, Induction
<1>10. Ones(n) = {i \in DOMAIN es : CallOf(es[i], "send") /\ es[i].arg = "one"}
  BY <1>1
<1> HIDE DEF Ones
<1>11. Cardinality(Ones(n)) <= 2
  BY <1>1, <1>4, <1>9
<1>12. QED
  BY <1>3, <1>10, <1>11

-----------------------------------------------------------------------------
(* The predicates that count.                                               *)

LEMMA SpendClear ==
  ASSUME Typed, NEW e, NEW f, Recording(e, f), f # "refused",
         NEW m, m = Len(events) + 1, rule = "spend"
  PROVE  Clear(m)'
<1>1. Grown(e, f) /\ rule' = rule /\ events'[m] = e
  BY RecordingGrows DEF Grown, Recording
<1>2. CallOf(e, "send") => e.arg = "one"
  <2>1. SUFFICES ASSUME CallOf(e, "send") PROVE e.arg = "one"
    OBVIOUS
  <2>2. rule \in HarmRules /\ IsCall(e)
    BY <2>1 DEF HarmRules, EffectRules, CallOf
  <2>3. ToolSpendUnder("send", 1, 2, events') /\ Last(events') = e
    BY <2>2, LetRun, PassesIs
  <2>4. events' \in Seq(EventType)
    BY <1>1 DEF Grown
  <2>5. QED
    BY <2>1, <2>3, <2>4, SpendAtLeast
<1>3. QED
  BY <1>1, <1>2 DEF Clear

LEMMA RecordingCounted ==
  ASSUME Typed, NEW e, NEW f, Recording(e, f), rule \in HarmRules, Counted,
         \A j \in Ran' : Clear(j)'
  PROVE  Counted'
<1> DEFINE m == Len(events) + 1
<1>1. /\ Grown(e, f) /\ rule' = rule /\ events'[m] = e
      /\ Ran' = IF f = "refused" THEN Ran ELSE Ran \cup {m}
      /\ \A i \in Ran : events'[i] = events[i]
      /\ Ran' \subseteq DOMAIN events' /\ IsFiniteSet(DOMAIN events')
  <2>1. /\ Grown(e, f) /\ rule' = rule /\ events'[m] = e
        /\ Ran' = IF f = "refused" THEN Ran ELSE Ran \cup {m}
        /\ Ran \subseteq 1 .. Len(events) /\ DOMAIN events' = 1 .. m /\ m \in Nat
    BY RecordingGrows DEF Grown, Recording
  <2>2. IsFiniteSet(1 .. m)
    BY <2>1, FS_Interval
  <2>3. Ran' \subseteq 1 .. m
    <3>1. 1 .. Len(events) \subseteq 1 .. m /\ m \in 1 .. m
      BY <2>1 DEF Grown
    <3> HIDE DEF m
    <3>2. QED
      BY <2>1, <3>1
  <2>4. \A i \in Ran : events'[i] = events[i]
    BY <2>1 DEF Grown
  <2>5. QED
    BY <2>1, <2>2, <2>3, <2>4
<1> HIDE DEF m
<1>2. CASE f = "refused" \/ ~IsCall(e)
  <2>1. /\ Kind("tool", Ran)' = Kind("tool", Ran)
        /\ \A tool : Calls(tool, Ran)' = Calls(tool, Ran)
    BY <1>1, <1>2 DEF Kind, Calls, CallOf, IsCall
  <2>2. QED
    BY <1>1, <2>1 DEF Counted
<1>3. CASE f # "refused" /\ IsCall(e)
  <2>1. Passes(events', phase) /\ Last(events') = e
    BY <1>3, LetRun
  <2>2. CASE rule = "cap"
    <3> DEFINE T == {i \in DOMAIN events' : IsCall(events'[i])}
    <3>1. Cardinality(T) <= 2
      BY <2>1, <2>2, PassesIs DEF MaxToolCalls, Count
    <3>2. Kind("tool", Ran)' \subseteq T /\ T \subseteq DOMAIN events'
      BY <1>1 DEF Kind, IsCall
    <3> HIDE DEF T
    <3>3. Cardinality(Kind("tool", Ran)') <= 2
      <4>1. IsFiniteSet(T) /\ Cardinality(T) \in Nat
        BY <1>1, <3>2, FS_Subset, FS_CardinalityType
      <4>2. IsFiniteSet(Kind("tool", Ran)') /\ Cardinality(Kind("tool", Ran)') <= Cardinality(T)
        BY <3>2, <4>1, FS_Subset
      <4>3. Cardinality(Kind("tool", Ran)') \in Nat
        BY <4>2, FS_CardinalityType
      <4>4. QED
        BY <3>1, <4>1, <4>2, <4>3
    <3>4. QED
      BY <1>1, <2>2, <3>3 DEF Counted
  <2>3. CASE rule = "trifecta"
    <3>1. LethalTrifectaGuard("fetch", "save", "send", events')
      BY <2>1, <2>3, PassesIs
    <3>2. PICK tool \in {"fetch", "save", "send"} :
            Cardinality({i \in DOMAIN events' : CallOf(events'[i], tool)}) = 0
      BY <3>1 DEF LethalTrifectaGuard, Count
    <3>3. {i \in DOMAIN events' : CallOf(events'[i], tool)} = {}
      BY <1>1, <3>2, FS_Subset, FS_EmptySet
    <3>4. Calls(tool, Ran)' = {}
      BY <1>1, <3>3 DEF Calls
    <3>5. QED
      BY <1>1, <2>3, <3>4 DEF Counted
  <2>4. CASE rule = "spend" /\ CallOf(e, "send")
    <3> DEFINE T == {i \in DOMAIN events' : CallOf(events'[i], "send") /\ events'[i].arg = "one"}
    <3>1. ToolSpendUnder("send", 1, 2, events') /\ events' \in Seq(EventType)
      BY <1>1, <2>1, <2>4, PassesIs DEF Grown
    <3>2. Cardinality(T) <= 2
      BY <2>1, <2>4, <3>1, SpendAtLeast
    <3>3. Calls("send", Ran)' \subseteq T /\ T \subseteq DOMAIN events'
      BY <1>1, <2>4 DEF Calls, Clear
    <3> HIDE DEF T
    <3>4. Cardinality(Calls("send", Ran)') <= 2
      <4>1. IsFiniteSet(T) /\ Cardinality(T) \in Nat
        BY <1>1, <3>3, FS_Subset, FS_CardinalityType
      <4>2. IsFiniteSet(Calls("send", Ran)') /\ Cardinality(Calls("send", Ran)') <= Cardinality(T)
        BY <3>3, <4>1, FS_Subset
      <4>3. Cardinality(Calls("send", Ran)') \in Nat
        BY <4>2, FS_CardinalityType
      <4>4. QED
        BY <3>2, <4>1, <4>2, <4>3
    <3>5. QED
      BY <1>1, <2>4, <3>4 DEF Counted
  <2>5. CASE rule = "spend" /\ ~CallOf(e, "send")
    <3>1. Calls("send", Ran)' = Calls("send", Ran)
      BY <1>1, <2>5 DEF Calls
    <3>2. QED
      BY <1>1, <2>5, <3>1 DEF Counted
  <2>6. CASE rule \notin {"cap", "trifecta", "spend"}
    BY <1>1, <2>6 DEF Counted
  <2>7. QED
    BY <2>2, <2>3, <2>4, <2>5, <2>6
<1>4. QED
  BY <1>2, <1>3

-----------------------------------------------------------------------------
(* The invariant is inductive.                                              *)

LEMMA OtherClear ==
  ASSUME Typed, NEW e, NEW f, Recording(e, f), NEW m, rule \in {"trifecta", "cap"}
  PROVE  Clear(m)'
BY DEF Clear, Recording

LEMMA NewClear ==
  ASSUME IInv, rule \in HarmRules, NEW e, NEW f, Recording(e, f), f # "refused",
         NEW m, m = Len(events) + 1
  PROVE  Clear(m)'
<1>1. Typed /\ EventsOK /\ (rule = "gate" => PhaseEarned)
  BY DEF IInv
<1>2. CASE rule \in {"duplicate", "exfil", "taint", "memory", "value"}
  BY <1>1, <1>2, ComparedClear
<1>3. CASE rule = "memory_copy"
  BY <1>1, <1>3, CopyClear
<1>4. CASE rule = "gate"
  BY <1>1, <1>4, GateClear
<1>5. CASE rule = "stable"
  BY <1>1, <1>5, DefinedClear
<1>6. CASE rule \in {"key_rate", "key_rate_strict"}
  BY <1>1, <1>6, KeyWindowClear
<1>7. CASE rule = "tool_rate"
  BY <1>1, <1>7, ToolWindowClear
<1>8. CASE rule = "quota"
  BY <1>1, <1>8, QuotaClear
<1>9. CASE rule = "spend"
  BY <1>1, <1>9, SpendClear
<1>10. CASE rule \in {"trifecta", "cap"}
  BY <1>1, <1>10, OtherClear
<1>11. QED
  BY <1>2, <1>3, <1>4, <1>5, <1>6, <1>7, <1>8, <1>9, <1>10 DEF HarmRules, EffectRules

LEMMA RecordIInv ==
  ASSUME AgentAssumption, IInv, NEW deed \in Deeds, NEW refused \in Fates, Record(deed, refused),
         rule \in HarmRules => refused = "refused" \/ deed.kind # "tool"
  PROVE  IInv'
<1>1. PICK e, f : Recording(e, f)
  BY RecordShape DEF IInv
<1>2. Typed' /\ rule' = rule
  BY <1>1, RecordingTyped DEF IInv, Recording
<1>3. CASE rule \in HarmRules
  <2>1. EventsOK' /\ (rule = "gate" => PhaseEarned')
    BY <1>1, <1>3, RecordingEventsOK, RecordingPhase DEF IInv
  <2>2. Ran \subseteq DOMAIN events /\ Ran' = IF f = "refused" THEN Ran ELSE Ran \cup {Len(events) + 1}
    BY <1>1, RecordingGrows DEF IInv, Ran
  <2>3. \A j \in Ran : Clear(j)'
    BY <1>1, <1>3, <2>2, RecordingKeepsClear DEF IInv
  <2>4. \A j \in Ran' : Clear(j)'
    BY <1>1, <1>3, <2>2, <2>3, NewClear
  <2>5. Counted'
    BY <1>1, <1>3, <2>4, RecordingCounted DEF IInv
  <2>6. QED
    BY <1>2, <1>3, <2>1, <2>4, <2>5 DEF IInv
<1>4. QED
  BY <1>2, <1>3 DEF IInv

LEMMA RefilledIInv ==
  ASSUME IInv, Refilled, phase' \in Nat, rule = "gate" => PhaseEarned'
  PROVE  IInv'
<1>1. Typed' /\ rule' = rule /\ Ran' = Ran /\ Ran \subseteq DOMAIN events
  BY RefilledTyped, RefilledSame DEF IInv, Ran
<1>2. CASE rule \in HarmRules
  <2>1. EventsOK' /\ Counted'
    BY <1>2, RefilledEventsOK, RefilledCounted DEF IInv
  <2>2. \A j \in Ran' : Clear(j)'
    BY <1>1, <1>2, RefilledClear DEF IInv
  <2>3. QED
    BY <1>1, <1>2, <2>1, <2>2 DEF IInv
<1>3. QED
  BY <1>1, <1>2 DEF IInv

\* What is filled in leaves the gate's ledger, and the calls it stands for, alone.
LEMMA RefilledPhase ==
  ASSUME Typed, Refilled, PhaseEarned, phase' = phase
  PROVE  PhaseEarned'
BY RefilledSame DEF PhaseEarned

LEMMA RestartPhase ==
  ASSUME Typed, Restart, Refilled
  PROVE  phase' \in Nat /\ PhaseEarned'
<1>1. phase' = PhaseRestored(events') /\ events' \in Seq(EventType)
  BY DEF Restart, Refilled
<1>2. QED
  BY <1>1, PhaseRestoredEarned DEF PhaseEarned

LEMMA AgentInitIInv ==
  ASSUME AgentAssumption, Init
  PROVE  IInv
<1>1. Typed
  BY DEF Init, Typed
<1>2. DOMAIN events = {} /\ phase = 0
  BY DEF Init
<1>3. EventsOK /\ PhaseEarned /\ Ran = {}
  BY <1>2 DEF EventsOK, PhaseEarned, Ran
<1>4. Counted
  <2>1. Kind("tool", Ran) = {} /\ \A tool : Calls(tool, Ran) = {}
    BY <1>3 DEF Kind, Calls
  <2>2. Cardinality({}) = 0
    BY FS_EmptySet
  <2>3. QED
    BY <2>1, <2>2 DEF Counted
<1>5. QED
  BY <1>1, <1>3, <1>4 DEF IInv

LEMMA AgentStepIInv ==
  ASSUME AgentAssumption, IInv, [Next]_vars
  PROVE  IInv'
<1>1. ASSUME NEW deed \in Deeds, Report(deed)
      PROVE  IInv'
  BY <1>1, RecordIInv DEF Report, Reports, Fates
<1>2. ASSUME NEW deed \in Deeds, Execute(deed)
      PROVE  IInv'
  BY <1>2, RecordIInv DEF Execute, Fates
<1>3. ASSUME NEW i \in DOMAIN events, Fail(i) \/ Return(i)
      PROVE  IInv'
  <2>1. Typed /\ Refilled /\ phase' = phase
    BY <1>3, FailRefills, ReturnRefills DEF IInv, Fail, Return
  <2>2. phase' \in Nat /\ (rule = "gate" => PhaseEarned')
    BY <2>1, RefilledPhase DEF IInv, Typed, HarmRules, EffectRules
  <2>3. QED
    BY <2>1, <2>2, RefilledIInv
<1>4. ASSUME Restart
      PROVE  IInv'
  <2>1. Typed /\ Refilled
    BY <1>4, RestartRefills DEF IInv
  <2>2. QED
    BY <1>4, <2>1, RestartPhase, RefilledIInv
<1>5. ASSUME UNCHANGED <<rule, events, phase, now, fate, exposed>>
      PROVE  IInv'
  <2>1. /\ (Typed <=> Typed') /\ (EventsOK <=> EventsOK') /\ (PhaseEarned <=> PhaseEarned')
        /\ Ran' = Ran /\ (Counted <=> Counted')
    BY <1>5 DEF Typed, EventsOK, PhaseEarned, Ran, Counted, Kind, Calls
  <2>2. \A j : Clear(j)' <=> Clear(j)
    BY <1>5 DEF Clear, Pair, SameArg
  <2>3. QED
    BY <1>5, <2>1, <2>2 DEF IInv
<1>6. QED
  BY <1>1, <1>2, <1>3, <1>4, <1>5 DEF Next, End, vars

LEMMA AgentInvariant == Spec => []IInv
<1>1. Init => IInv
  BY AgentInitIInv, AgentAssumption
<1>2. IInv /\ [Next]_vars => IInv'
  BY AgentStepIInv, AgentAssumption
<1>3. QED
  BY <1>1, <1>2, PTL DEF Spec

-----------------------------------------------------------------------------
(* What is known of each call that ran says that they did no harm together. *)

\* Two calls that ran and that the predicate of the contract relates.
LEMMA ClearPair ==
  ASSUME IInv, rule \in HarmRules, NEW i \in DOMAIN events, NEW j \in Ran, i < j
  PROVE  /\ rule = "duplicate" /\ CallOf(events[i], "send") /\ CallOf(events[j], "send") =>
              events[i].arg # events[j].arg
         /\ rule = "exfil" /\ CallOf(events[j], "send") => ~CallOf(events[i], "fetch")
         /\ rule = "taint" /\ CallOf(events[j], "send") /\ Tagged(events[i]) =>
              events[i].text # events[j].arg
         /\ rule = "memory" /\ CallOf(events[j], "save") => ~CallOf(events[i], "fetch")
         /\ rule = "value" /\ events[j].arg # "bad" => events[i].arg # events[j].arg
<1>1. Clear(j) /\ i \in {k \in DOMAIN events : k < j}
  BY DEF IInv
<1>2. rule = "duplicate" /\ CallOf(events[i], "send") /\ CallOf(events[j], "send") =>
        events[i].arg # events[j].arg
  BY <1>1 DEF Clear, Pair, SameArg
<1>3. rule = "exfil" /\ CallOf(events[j], "send") => ~CallOf(events[i], "fetch")
  BY <1>1 DEF Clear
<1>4. rule = "taint" /\ CallOf(events[j], "send") /\ Tagged(events[i]) =>
        events[i].text # events[j].arg
  BY <1>1 DEF Clear
<1>5. rule = "memory" /\ CallOf(events[j], "save") => ~CallOf(events[i], "fetch")
  BY <1>1 DEF Clear
<1>6. rule = "value" /\ events[j].arg # "bad" => events[i].arg # events[j].arg
  BY <1>1 DEF Clear, SameArg
<1>7. QED
  BY <1>2, <1>3, <1>4, <1>5, <1>6

LEMMA NoPairHarms ==
  ASSUME IInv, rule \in {"duplicate", "exfil", "taint", "memory", "value"}
  PROVE  ~HarmDone(Ran)
<1>1. rule \in HarmRules /\ Ran \subseteq DOMAIN events /\ DOMAIN events \subseteq Nat
  BY DEF HarmRules, EffectRules, Ran, IInv, Typed
<1>2. CASE rule = "duplicate"
  <2>1. ~(\E i, j \in Calls("send", Ran) : i < j /\ events[i].arg = events[j].arg)
    BY <1>1, <1>2, ClearPair DEF Calls
  <2>2. QED
    BY <1>2, <2>1, Zenon DEF HarmDone
<1>3. CASE rule = "exfil"
  <2>1. ~(\E i \in Calls("send", Ran), j \in Calls("fetch", DOMAIN events) : j < i)
    BY <1>1, <1>3, ClearPair DEF Calls
  <2>2. QED
    BY <1>3, <2>1, Zenon DEF HarmDone
<1>4. CASE rule = "taint"
  <2>1. \A j \in With("tagged", DOMAIN events) : events[j].text = "bad" /\ Tagged(events[j])
    BY <1>1, <1>4 DEF IInv, EventsOK, With, Tagged
  <2>2. ~(\E i \in With("bad", Calls("send", Ran)), j \in With("tagged", DOMAIN events) : j < i)
    BY <1>1, <1>4, <2>1, ClearPair DEF Calls, With
  <2>3. QED
    BY <1>4, <2>2, Zenon DEF HarmDone
<1>5. CASE rule = "memory"
  <2>1. ~(\E i \in Calls("save", Ran), j \in Calls("fetch", DOMAIN events) : j < i)
    BY <1>1, <1>5, ClearPair DEF Calls
  <2>2. QED
    BY <1>5, <2>1, Zenon DEF HarmDone
<1>6. CASE rule = "value"
  <2>1. \A j \in Ran : events[j].arg # "two"
    BY <1>1, <1>6 DEF IInv, Clear
  <2>2. With("two", Ran) = {}
    BY <2>1 DEF With
  <2>3. ~(\E i, j \in Ran \ With("bad", Ran) : i < j /\ events[i].arg = events[j].arg)
    BY <1>1, <1>6, ClearPair DEF With
  <2>4. QED
    BY <1>6, <2>2, <2>3, Zenon DEF HarmDone
<1>7. QED
  BY <1>2, <1>3, <1>4, <1>5, <1>6

\* The definitions of a tool are all that of its first call that had one.
LEMMA OneDefinition ==
  ASSUME IInv, rule = "stable", NEW a \in Calls("send", Ran) \ With("bad", Ran),
         NEW b \in Calls("send", Ran) \ With("bad", Ran)
  PROVE  events[a].arg = events[b].arg
<1>1. /\ DOMAIN events = 1 .. Len(events) /\ Len(events) \in Nat /\ rule \in HarmRules
      /\ a \in Ran /\ b \in Ran /\ a \in DOMAIN events /\ b \in DOMAIN events
      /\ CallOf(events[a], "send") /\ events[a].arg # "bad"
      /\ CallOf(events[b], "send") /\ events[b].arg # "bad"
  BY DEF HarmRules, EffectRules, Ran, IInv, Typed, Calls, With
<1> DEFINE First(i, j) == /\ CallOf(events[i], "send") /\ events[i].arg = events[j].arg
                          /\ \A k \in {h \in DOMAIN events : h < j} :
                               k < i => ~(CallOf(events[k], "send") /\ events[k].arg # "bad")
<1>2. \A j \in Ran : CallOf(events[j], "send") /\ events[j].arg # "bad" => \E i \in 1 .. j : First(i, j)
  BY <1>1 DEF IInv, Clear
<1>3. PICK p \in 1 .. a : First(p, a)
  BY <1>1, <1>2
<1>4. PICK q \in 1 .. b : First(q, b)
  BY <1>1, <1>2
<1>5. ~(p < q) /\ ~(q < p)
  <2>1. p \in DOMAIN events /\ q \in DOMAIN events /\ events[p].arg # "bad" /\ events[q].arg # "bad"
    BY <1>1, <1>3, <1>4
  <2>2. QED
    BY <1>1, <1>3, <1>4, <2>1
<1>6. p = q
  BY <1>1, <1>5
<1>7. QED
  BY <1>3, <1>4, <1>6

LEMMA NoSingleHarms ==
  ASSUME IInv, rule \in {"memory_copy", "stable", "gate", "trifecta", "cap", "spend"}
  PROVE  ~HarmDone(Ran)
<1>1. rule \in HarmRules /\ Ran \subseteq DOMAIN events /\ DOMAIN events \subseteq Nat
  BY DEF HarmRules, EffectRules, Ran, IInv, Typed
<1>2. CASE rule = "memory_copy"
  <2>1. With("copy", Calls("save", Ran)) \cap exposed = {}
    BY <1>1, <1>2 DEF IInv, Clear, With, Calls
  <2>2. QED
    BY <1>2, <2>1, Zenon DEF HarmDone
<1>3. CASE rule = "stable"
  <2>1. ~(\E i, j \in Calls("send", Ran) \ With("bad", Ran) : events[i].arg # events[j].arg)
    BY <1>3, OneDefinition
  <2>2. QED
    BY <1>3, <2>1, Zenon DEF HarmDone
<1>4. CASE rule = "gate"
  <2>1. ~(\E i \in Calls("send", Ran) : \A j \in Calls("fetch", DOMAIN events) : j > i)
    <3>1. SUFFICES ASSUME NEW i \in Calls("send", Ran)
                   PROVE  \E j \in Calls("fetch", DOMAIN events) : ~(j > i)
      OBVIOUS
    <3>2. i \in Ran /\ CallOf(events[i], "send") /\ i \in Nat
      BY <1>1 DEF Calls
    <3>3. PICK j \in {k \in DOMAIN events : k < i} : CallOf(events[j], "fetch")
      BY <1>1, <1>4, <3>2 DEF IInv, Clear
    <3>4. QED
      BY <1>1, <3>2, <3>3 DEF Calls
  <2>2. QED
    BY <1>4, <2>1, Zenon DEF HarmDone
<1>5. CASE rule = "trifecta"
  <2>1. ~(\A tool \in {"fetch", "save", "send"} : Calls(tool, Ran) # {})
    BY <1>1, <1>5 DEF IInv, Counted
  <2>2. QED
    BY <1>5, <2>1, Zenon DEF HarmDone
<1>6. CASE rule = "cap"
  <2>1. Cardinality(Kind("tool", Ran)) <= 2 /\ IsFiniteSet(Ran)
    <3>1. IsFiniteSet(DOMAIN events)
      BY FS_Interval DEF IInv, Typed
    <3>2. QED
      BY <1>1, <1>6, <3>1, FS_Subset DEF IInv, Counted
  <2>2. Cardinality(Kind("tool", Ran)) \in Nat
    BY <2>1, FS_Subset, FS_CardinalityType DEF Kind
  <2>3. ~(Cardinality(Kind("tool", Ran)) > 2)
    BY <2>1, <2>2
  <2>4. QED
    BY <1>6, <2>3, Zenon DEF HarmDone
<1>7. CASE rule = "spend"
  <2>1. \A j \in Calls("send", Ran) : events[j].arg = "one"
    BY <1>1, <1>7 DEF IInv, Clear, Calls
  <2>2. With("bad", Calls("send", Ran)) \cup With("two", Calls("send", Ran)) = {}
    BY <2>1 DEF With
  <2>3. With("one", Calls("send", Ran)) = Calls("send", Ran)
    BY <2>1 DEF With
  <2>4. IsFiniteSet(DOMAIN events)
    BY FS_Interval DEF IInv, Typed
  <2>5. Calls("send", Ran) \in SUBSET DOMAIN events
    BY <1>1 DEF Calls
  <2>6. IsFiniteSet(Calls("send", Ran))
    BY <2>4, <2>5, FS_Subset
  <2>7. Cardinality(Calls("send", Ran)) \in Nat /\ Cardinality(Calls("send", Ran)) <= 2
    BY <1>1, <1>7, <2>6, FS_CardinalityType DEF IInv, Counted
  <2>8. ~(Cardinality(With("one", Calls("send", Ran))) > 2)
    BY <2>3, <2>7
  <2>9. QED
    BY <1>7, <2>2, <2>8, Zenon DEF HarmDone
<1>8. QED
  BY <1>2, <1>3, <1>4, <1>5, <1>6, <1>7

\* A set whose elements are all the same has at most one.
LEMMA AllTheSame ==
  ASSUME NEW T, \A a, b \in T : a = b
  PROVE  Cardinality(T) \in Nat /\ ~(Cardinality(T) > 1)
<1>1. CASE T = {}
  BY <1>1, FS_EmptySet
<1>2. CASE T # {}
  <2>1. PICK a \in T : TRUE
    BY <1>2
  <2>2. T = {a}
    BY <2>1
  <2>3. Cardinality({a}) = 1
    BY FS_Singleton
  <2>4. QED
    BY <2>2, <2>3
<1>3. QED
  BY <1>1, <1>2

LEMMA NotCrowded ==
  ASSUME IInv, NEW S \in SUBSET DOMAIN events,
         \A a, b \in S : a < b => events[b].at - events[a].at > 1
  PROVE  ~Crowded(S, 1, 1)
<1>1. DOMAIN events \subseteq Nat /\ \A k \in DOMAIN events : events[k].at \in Nat
  <2>1. \A k \in DOMAIN events : events[k] \in EventType
    BY DEF IInv, Typed
  <2>2. \A k \in DOMAIN events : events[k].at \in Nat
    BY <2>1 DEF EventType
  <2>3. QED
    BY <2>2 DEF IInv, Typed
<1>2. ASSUME NEW i \in S
      PROVE  ~(Cardinality({j \in S : events[j].at - events[i].at \in 0 .. 1}) > 1)
  <2> DEFINE T == {j \in S : events[j].at - events[i].at \in 0 .. 1}
  <2>1. \A a, b \in T : a = b
    <3>1. SUFFICES ASSUME NEW a \in T, NEW b \in T, a < b
                   PROVE  FALSE
      <4>1. \A a, b \in T : a \in Nat /\ b \in Nat
        BY <1>1
      <4>2. QED
        BY <4>1
    <3>2. /\ events[a].at \in Nat /\ events[b].at \in Nat /\ events[i].at \in Nat
          /\ events[a].at - events[i].at \in 0 .. 1 /\ events[b].at - events[i].at \in 0 .. 1
          /\ events[b].at - events[a].at > 1
      BY <1>1, <3>1
    <3>3. QED
      BY <3>2
  <2> HIDE DEF T
  <2>2. ~(Cardinality(T) > 1)
    BY <2>1, AllTheSame
  <2>3. QED
    BY <2>2 DEF T
<1>3. QED
  BY <1>2 DEF Crowded

LEMMA NoRateHarms ==
  ASSUME IInv, rule \in {"key_rate", "key_rate_strict", "quota", "tool_rate"}
  PROVE  ~HarmDone(Ran)
<1>1. /\ rule \in HarmRules /\ Ran \subseteq DOMAIN events /\ DOMAIN events \subseteq Nat
      /\ \A j \in Ran : Clear(j)
  BY DEF HarmRules, Ran, IInv, Typed
<1>2. HarmDone(Ran) => RateExceeded(Ran)
  <2>1. \/ rule = "key_rate" \/ rule = "key_rate_strict" \/ rule = "quota" \/ rule = "tool_rate"
    OBVIOUS
  <2>2. rule = "key_rate" => (HarmDone(Ran) => RateExceeded(Ran))
    BY Zenon DEF HarmDone
  <2>3. rule = "key_rate_strict" => (HarmDone(Ran) => RateExceeded(Ran))
    BY Zenon DEF HarmDone
  <2>4. rule = "quota" => (HarmDone(Ran) => RateExceeded(Ran))
    BY Zenon DEF HarmDone
  <2>5. rule = "tool_rate" => (HarmDone(Ran) => RateExceeded(Ran))
    BY Zenon DEF HarmDone
  <2>6. QED
    BY <2>1, <2>2, <2>3, <2>4, <2>5, Zenon
<1>3. CASE rule = "tool_rate"
  <2>1. \A a, b \in Calls("send", Ran) : a < b => events[b].at - events[a].at > 1
    BY <1>1, <1>3 DEF Clear, Pair, Calls
  <2>2. ~Crowded(Calls("send", Ran), 1, 1)
    BY <1>1, <2>1, NotCrowded DEF Calls
  <2>3. QED
    BY <1>2, <1>3, <2>2, Zenon DEF RateExceeded
<1>4. CASE rule \in {"key_rate", "key_rate_strict"}
  <2>1. ASSUME NEW arg \in {"one", "two"}
        PROVE  ~Crowded(With(arg, Calls("send", Ran)), 1, 1)
    <3>1. \A a, b \in With(arg, Calls("send", Ran)) : a < b => events[b].at - events[a].at > 1
      BY <1>1, <1>4 DEF Clear, Pair, SameArg, Calls, With
    <3>2. QED
      BY <1>1, <3>1, NotCrowded DEF Calls, With
  <2>2. rule = "key_rate_strict" => With("bad", Calls("send", Ran)) = {}
    BY <1>1 DEF Clear, Calls, With
  <2>3. rule = "key_rate" => ~RateExceeded(Ran)
    BY <2>1, Zenon DEF RateExceeded
  <2>4. rule = "key_rate_strict" => ~RateExceeded(Ran)
    BY <2>1, <2>2, Zenon DEF RateExceeded
  <2>5. QED
    BY <1>2, <1>4, <2>3, <2>4
<1>5. CASE rule = "quota"
  <2>1. ASSUME NEW p \in 0 .. MaxTime
        PROVE  ~(Cardinality({i \in Calls("send", Ran) \ Failed(Ran) : events[i].at \div 2 = p}) > 1)
    <3> DEFINE T == {i \in Calls("send", Ran) \ Failed(Ran) : events[i].at \div 2 = p}
    <3>1. ASSUME NEW a \in T, NEW b \in T, a < b
          PROVE  FALSE
      <4>1. Pair("send", a, b) /\ fate[a] # "failed" /\ events[b].at \div 2 = events[a].at \div 2
            /\ b \in Ran /\ a \in DOMAIN events
        BY <1>1, <3>1 DEF Calls, Failed, Pair
      <4>2. QED
        BY <1>1, <1>5, <3>1, <4>1 DEF Clear
    <3>2. \A a, b \in T : a \in Nat /\ b \in Nat
      BY <1>1 DEF Calls
    <3> HIDE DEF T
    <3>3. \A a, b \in T : a = b
      BY <3>1, <3>2
    <3>4. ~(Cardinality(T) > 1)
      BY <3>3, AllTheSame
    <3>5. QED
      BY <3>4 DEF T
  <2>2. QED
    BY <1>2, <1>5, <2>1, Zenon DEF RateExceeded
<1>6. QED
  BY <1>3, <1>4, <1>5

\* HarmPrevented for every length of the session, times and number of restarts: whatever
\* is refused by other clauses, fails or is lost with its process, the calls that
\* wrap_tool_execute let run never do together what the predicate is there to block.
THEOREM AgentPreventsHarm == Spec => []HarmPrevented
<1>1. IInv => HarmPrevented
  <2>1. SUFFICES ASSUME IInv, rule \in HarmRules
                 PROVE  ~HarmDone(Ran)
    BY DEF HarmPrevented, HarmRules, Ran
  <2>2. \/ rule \in {"duplicate", "exfil", "taint", "memory", "value"}
        \/ rule \in {"memory_copy", "stable", "gate", "trifecta", "cap", "spend"}
        \/ rule \in {"key_rate", "key_rate_strict", "quota", "tool_rate"}
    BY <2>1 DEF HarmRules, EffectRules
  <2>3. QED
    BY <2>1, <2>2, NoPairHarms, NoSingleHarms, NoRateHarms
<1>2. QED
  BY <1>1, AgentInvariant, PTL
=============================================================================
