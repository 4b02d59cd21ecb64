-------------------------- MODULE Telemetry_proofs --------------------------
(***************************************************************************)
(* Proofs about the OpenTelemetry observer, for any sessions and tasks, any *)
(* settings, and any number of events.                                     *)
(***************************************************************************)
EXTENDS Telemetry, FiniteSetTheorems, SequenceTheorems, TLAPS

Runs   == [of : Sessions, llm : Nat, tool : Nat, ended : Nat, late : BOOLEAN]
Events == [of : Sessions, kind : Kinds]

\* The table of runs has its type, and _runs holds for a session a run of its own that
\* has not ended.
RunsTyped(rs) ==
  /\ rs \in [all : Seq(Runs), current : [Sessions -> Nat]]
  /\ \A s \in Sessions : rs.current[s] # 0 =>
       /\ rs.current[s] \in 1 .. Len(rs.all)
       /\ rs.all[rs.current[s]].of = s
       /\ rs.all[rs.current[s]].ended = 0

Typed ==
  /\ setting \in Settings
  /\ context \in [Tasks -> Sessions \cup {None}]
  /\ status \in [Sessions -> {"new", "open", "broken", "ended"}]
  /\ host \in [Sessions -> {<<>>} \cup (Tasks \X (Sessions \cup {None}))]
  /\ \A s \in Sessions : status[s] # "new" => host[s] # <<>>
  /\ RunsTyped(runs)
  /\ events \in Seq(Events)
  /\ ops \in [DOMAIN ops -> Nat]
  /\ DOMAIN ops \subseteq 1 .. Len(events)
  /\ task \in [Tasks -> [pc : {"idle", "look", "told", "judging", "raised"}, event : Nat]]
  /\ disturbed \subseteq Sessions

\* Events that are being recorded are told apart by their tasks, and one that the observer
\* was told of is open if it is a call.
TasksKept ==
  /\ \A t \in Tasks : task[t] = Idle \/ (task[t].pc # "idle" /\ task[t].event \in 1 .. Len(events))
  /\ \A t, u \in Tasks : task[t] # Idle /\ task[t].event = task[u].event => u = t
  /\ \A t \in Tasks : task[t].pc \in {"told", "judging", "raised"} /\ events[task[t].event].kind # "other" =>
       task[t].event \in DOMAIN ops

\* An open event is a call, has a run of its own session, and is being recorded unless an
\* observer raised.
OpsKept ==
  \A e \in DOMAIN ops :
    /\ events[e].kind # "other"
    /\ ops[e] \in 1 .. Len(runs.all)
    /\ runs.all[ops[e]].of = events[e].of
    /\ \/ events[e].of \in disturbed
       \/ \E t \in Tasks : task[t].event = e /\ task[t].pc \in {"told", "judging", "raised"}

\* Only a session that has ended has ended a run.
EndedOnly(rs) ==
  \A r \in 1 .. Len(rs.all) : rs.all[r].ended # 0 => status[rs.all[r].of] = "ended"

\* The inductive strengthening of SpansClosed: a session that has not ended has at most
\* the run that _runs holds, and one that has ended has one from before, ended once.
OneRunOf(rs, s) ==
  IF status[s] = "ended"
    THEN \E r \in 1 .. Len(rs.all) :
           /\ rs.all[r].of = s /\ ~rs.all[r].late /\ rs.all[r].ended = 1
           /\ \A q \in 1 .. Len(rs.all) : rs.all[q].of = s /\ ~rs.all[q].late => q = r
    ELSE \A r \in 1 .. Len(rs.all) : rs.all[r].of = s => r = rs.current[s] /\ ~rs.all[r].late

OneRun(rs) == \A s \in Sessions \ disturbed : OneRunOf(rs, s)

\* The events for whose run a task is looking, and the calls of a session that the
\* observer was told of: the others.
Looking == {task[t].event : t \in {t \in Tasks : task[t].pc = "look"}}

ToldCalls(s, kind) == {e \in (1 .. Len(events)) \ Looking : events[e] = [of |-> s, kind |-> kind]}

LLMCalls(rs, s)  == IF rs.current[s] = 0 THEN 0 ELSE rs.all[rs.current[s]].llm
ToolCalls(rs, s) == IF rs.current[s] = 0 THEN 0 ELSE rs.all[rs.current[s]].tool

\* The inductive strengthening of CallsCounted: the run of a session that has not ended
\* counts the calls that the observer was told of.
CountsOf(rs, s) ==
  /\ LLMCalls(rs, s) = Cardinality(ToldCalls(s, "llm"))
  /\ ToolCalls(rs, s) = Cardinality(ToldCalls(s, "tool"))

CountsRight(rs) == \A s \in Sessions \ disturbed : status[s] # "ended" => CountsOf(rs, s)

IInv ==
  /\ Typed
  /\ TasksKept
  /\ OpsKept
  /\ EndedOnly(runs)
  /\ OneRun(runs)
  /\ CountsRight(runs)
  /\ ViolationsPlaced

-----------------------------------------------------------------------------
(* The table of runs.                                                        *)

\* What another step may not do to the runs there are.
Extends(rs, q) ==
  /\ Len(rs.all) <= Len(q.all)
  /\ \A r \in 1 .. Len(rs.all) :
       q.all[r].of = rs.all[r].of /\ q.all[r].late = rs.all[r].late /\ q.all[r].ended = rs.all[r].ended

LEMMA TableTyped ==
  ASSUME NEW rs, RunsTyped(rs)
  PROVE  /\ rs.all \in Seq(Runs) /\ Len(rs.all) \in Nat
         /\ DOMAIN rs.all = 1 .. Len(rs.all)
         /\ rs.current \in [Sessions -> Nat]
         /\ rs = [all |-> rs.all, current |-> rs.current]
         /\ \A r \in 1 .. Len(rs.all) : rs.all[r] \in Runs
<1>1. rs \in [all : Seq(Runs), current : [Sessions -> Nat]]
  BY DEF RunsTyped
<1>2. rs.all \in Seq(Runs)
  BY <1>1
<1>3. Len(rs.all) \in Nat /\ DOMAIN rs.all = 1 .. Len(rs.all)
  BY <1>2, LenProperties
<1>4. QED
  BY <1>1, <1>2, <1>3, ElementOfSeq

\* A run is appended and is the one of its session.
LEMMA StartRunTable ==
  ASSUME NEW rs, RunsTyped(rs), NEW s \in Sessions,
         status \in [Sessions -> {"new", "open", "broken", "ended"}]
  PROVE  LET q == StartRun(rs, s)
             n == Len(rs.all)
         IN  /\ RunsTyped(q) /\ Extends(rs, q)
             /\ Len(q.all) = n + 1
             /\ \A r \in 1 .. n : q.all[r] = rs.all[r]
             /\ q.all[n + 1] = [of |-> s, llm |-> 0, tool |-> 0, ended |-> 0, late |-> status[s] = "ended"]
             /\ q.current[s] = n + 1
             /\ \A u \in Sessions : u # s => q.current[u] = rs.current[u]
<1> DEFINE q == StartRun(rs, s)
           n == Len(rs.all)
           run == [of |-> s, llm |-> 0, tool |-> 0, ended |-> 0, late |-> status[s] = "ended"]
<1>1. run \in Runs
  BY DEF Runs
<1>2. /\ rs.all \in Seq(Runs) /\ n \in Nat /\ rs.current \in [Sessions -> Nat]
  BY TableTyped
<1>3. q = [all |-> Append(rs.all, run), current |-> [rs.current EXCEPT ![s] = n + 1]]
  BY DEF StartRun
<1>4. /\ q.all = Append(rs.all, run) /\ q.current = [rs.current EXCEPT ![s] = n + 1]
      /\ q = [all |-> q.all, current |-> q.current]
  BY <1>3
<1> HIDE DEF q
<1>5. run.of = s /\ run.ended = 0
  OBVIOUS
<1> HIDE DEF run
<1>6. /\ q.all \in Seq(Runs) /\ Len(q.all) = n + 1
      /\ \A r \in 1 .. n : q.all[r] = rs.all[r]
      /\ q.all[n + 1] = run
  BY <1>1, <1>2, <1>4, AppendProperties
<1>7. /\ q.current \in [Sessions -> Nat] /\ q.current[s] = n + 1
      /\ \A u \in Sessions : u # s => q.current[u] = rs.current[u]
  BY <1>2, <1>4
<1>8. /\ \A r \in 1 .. n : r \in 1 .. n + 1
      /\ n + 1 \in 1 .. n + 1 /\ n <= n + 1
  BY <1>2
<1>9. RunsTyped(q)
  <2>1. q \in [all : Seq(Runs), current : [Sessions -> Nat]]
    BY <1>4, <1>6, <1>7
  <2> HIDE DEF n
  <2>2. ASSUME NEW u \in Sessions, q.current[u] # 0
        PROVE  /\ q.current[u] \in 1 .. n + 1
               /\ q.all[q.current[u]].of = u
               /\ q.all[q.current[u]].ended = 0
    <3>1. CASE u = s
      BY <3>1, <1>5, <1>6, <1>7, <1>8
    <3>2. CASE u # s
      <4>1. /\ rs.current[u] \in 1 .. n
            /\ rs.all[rs.current[u]].of = u /\ rs.all[rs.current[u]].ended = 0
        BY <3>2, <2>2, <1>7 DEF RunsTyped, n
      <4>2. q.current[u] = rs.current[u]
        BY <3>2, <1>7
      <4>3. QED
        BY <4>1, <4>2, <1>6, <1>8
    <3>3. QED
      BY <3>1, <3>2
  <2>3. QED
    BY <2>1, <2>2, <1>6 DEF RunsTyped
<1>10. Extends(rs, q)
  BY <1>6, <1>8 DEF Extends
<1>11. QED
  BY <1>6, <1>7, <1>9, <1>10 DEF q, run

\* _run_for starts a run exactly if the session has none.
LEMMA RunForTable ==
  ASSUME NEW rs, RunsTyped(rs), NEW s \in Sessions \cup {None},
         status \in [Sessions -> {"new", "open", "broken", "ended"}]
  PROVE  LET q == RunFor(rs, s)
             n == Len(rs.all)
         IN  /\ RunsTyped(q) /\ Extends(rs, q)
             /\ \A r \in 1 .. n : q.all[r] = rs.all[r]
             /\ \A u \in Sessions : u # s => q.current[u] = rs.current[u]
             /\ \/ q = rs
                \/ /\ s \in Sessions /\ rs.current[s] = 0
                   /\ Len(q.all) = n + 1 /\ q.current[s] = n + 1
                   /\ q.all[n + 1] =
                        [of |-> s, llm |-> 0, tool |-> 0, ended |-> 0, late |-> status[s] = "ended"]
             /\ s \in Sessions => q.current[s] # 0
<1> DEFINE q == RunFor(rs, s)
<1>1. CASE s = None \/ rs.current[s] # 0
  <2>1. q = rs
    BY <1>1 DEF RunFor
  <2>2. s \in Sessions => q.current[s] # 0
    BY <2>1, <1>1, TelemetryAssumption
  <2>3. Extends(rs, rs)
    BY TableTyped DEF Extends
  <2>4. QED
    BY <2>1, <2>2, <2>3
<1>2. CASE s # None /\ rs.current[s] = 0
  <2>1. q = StartRun(rs, s) /\ s \in Sessions
    BY <1>2 DEF RunFor
  <2>2. Len(rs.all) \in Nat
    BY TableTyped
  <2>3. Len(rs.all) + 1 # 0
    BY <2>2
  <2> HIDE DEF q
  <2>4. /\ RunsTyped(q) /\ Extends(rs, q)
        /\ \A r \in 1 .. Len(rs.all) : q.all[r] = rs.all[r]
    BY <2>1, StartRunTable
  <2>5. /\ Len(q.all) = Len(rs.all) + 1 /\ q.current[s] = Len(rs.all) + 1
        /\ \A u \in Sessions : u # s => q.current[u] = rs.current[u]
    BY <2>1, StartRunTable
  <2>6. q.all[Len(rs.all) + 1] =
          [of |-> s, llm |-> 0, tool |-> 0, ended |-> 0, late |-> status[s] = "ended"]
    BY <2>1, StartRunTable
  <2>7. QED
    BY <2>1, <2>3, <2>4, <2>5, <2>6, <1>2 DEF q
<1>3. QED
  BY <1>1, <1>2

\* One more call on a run.
LEMMA OneMore ==
  ASSUME NEW run \in Runs
  PROVE  /\ [run EXCEPT !.llm = @ + 1] \in Runs
         /\ [run EXCEPT !.llm = @ + 1].of = run.of
         /\ [run EXCEPT !.llm = @ + 1].late = run.late
         /\ [run EXCEPT !.llm = @ + 1].ended = run.ended
         /\ [run EXCEPT !.llm = @ + 1].llm = run.llm + 1
         /\ [run EXCEPT !.llm = @ + 1].tool = run.tool
         /\ [run EXCEPT !.tool = @ + 1] \in Runs
         /\ [run EXCEPT !.tool = @ + 1].of = run.of
         /\ [run EXCEPT !.tool = @ + 1].late = run.late
         /\ [run EXCEPT !.tool = @ + 1].ended = run.ended
         /\ [run EXCEPT !.tool = @ + 1].llm = run.llm
         /\ [run EXCEPT !.tool = @ + 1].tool = run.tool + 1
BY DEF Runs

\* The run that a session has afterwards: the one it had, or the last.
LEMMA RunForCurrent ==
  ASSUME NEW rs, RunsTyped(rs), NEW s \in Sessions \cup {None},
         status \in [Sessions -> {"new", "open", "broken", "ended"}], NEW u \in Sessions
  PROVE  LET q == RunFor(rs, s)
         IN  IF u = s /\ rs.current[u] = 0 THEN q.current[u] = Len(q.all) ELSE q.current[u] = rs.current[u]
<1>1. CASE s = None \/ rs.current[s] # 0
  <2>1. RunFor(rs, s) = rs
    BY <1>1 DEF RunFor
  <2>2. ~(u = s /\ rs.current[u] = 0)
    BY <1>1, TelemetryAssumption
  <2>3. QED
    BY <2>1, <2>2
<1>2. CASE s # None /\ rs.current[s] = 0
  <2>1. RunFor(rs, s) = StartRun(rs, s) /\ s \in Sessions
    BY <1>2 DEF RunFor
  <2> DEFINE q == StartRun(rs, s)
  <2>2. /\ Len(q.all) = Len(rs.all) + 1 /\ q.current[s] = Len(rs.all) + 1
        /\ \A v \in Sessions : v # s => q.current[v] = rs.current[v]
    BY <2>1, StartRunTable
  <2> HIDE DEF q
  <2>3. QED
    BY <2>1, <2>2, <1>2 DEF q
<1>3. QED
  BY <1>1, <1>2

\* A call is counted for the run of its session and no other.
LEMMA CountedTable ==
  ASSUME NEW rs, RunsTyped(rs), NEW s \in Sessions, rs.current[s] # 0, NEW kind \in Kinds
  PROVE  LET q == Counted(rs, s, kind)
         IN  /\ RunsTyped(q) /\ Extends(rs, q) /\ Len(q.all) = Len(rs.all)
             /\ q.current = rs.current
             /\ \A u \in Sessions : u # s => LLMCalls(q, u) = LLMCalls(rs, u) /\ ToolCalls(q, u) = ToolCalls(rs, u)
             /\ LLMCalls(q, s) = LLMCalls(rs, s) + (IF kind = "llm" THEN 1 ELSE 0)
             /\ ToolCalls(q, s) = ToolCalls(rs, s) + (IF kind = "tool" THEN 1 ELSE 0)
<1> DEFINE q == Counted(rs, s, kind)
           i == rs.current[s]
           n == Len(rs.all)
           run == rs.all[i]
<1>1. /\ rs.all \in Seq(Runs) /\ n \in Nat /\ rs.current \in [Sessions -> Nat]
      /\ rs = [all |-> rs.all, current |-> rs.current]
      /\ i \in 1 .. n /\ run.of = s /\ run.ended = 0
      /\ run \in Runs
      /\ \A r \in 1 .. n : rs.all[r] \in Runs
      /\ DOMAIN rs.all = 1 .. n
  BY TableTyped DEF RunsTyped
<1>2. run.llm \in Nat /\ run.tool \in Nat
  BY <1>1 DEF Runs
<1>3. Extends(rs, rs)
  BY <1>1 DEF Extends
<1>4. LLMCalls(rs, s) = run.llm /\ ToolCalls(rs, s) = run.tool
  BY DEF LLMCalls, ToolCalls
<1>5. CASE kind = "other"
  <2>1. q = rs
    BY <1>5 DEF Counted
  <2>2. QED
    BY <2>1, <1>2, <1>3, <1>4, <1>5
<1>6. ASSUME NEW more \in Runs,
             more.of = run.of, more.late = run.late, more.ended = run.ended,
             q.all = [rs.all EXCEPT ![i] = more], q.current = rs.current,
             q = [all |-> q.all, current |-> q.current],
             more.llm = run.llm + (IF kind = "llm" THEN 1 ELSE 0),
             more.tool = run.tool + (IF kind = "tool" THEN 1 ELSE 0)
      PROVE  /\ RunsTyped(q) /\ Extends(rs, q) /\ Len(q.all) = Len(rs.all)
             /\ q.current = rs.current
             /\ \A u \in Sessions : u # s => LLMCalls(q, u) = LLMCalls(rs, u) /\ ToolCalls(q, u) = ToolCalls(rs, u)
             /\ LLMCalls(q, s) = LLMCalls(rs, s) + (IF kind = "llm" THEN 1 ELSE 0)
             /\ ToolCalls(q, s) = ToolCalls(rs, s) + (IF kind = "tool" THEN 1 ELSE 0)
  <2> HIDE DEF q
  <2>1. /\ q.all \in Seq(Runs) /\ Len(q.all) = n
        /\ q.all[i] = more
        /\ \A r \in 1 .. n : r # i => q.all[r] = rs.all[r]
    BY <1>1, <1>6, ExceptSeq
  <2>2. Extends(rs, q)
    <3>1. \A r \in 1 .. n :
            q.all[r].of = rs.all[r].of /\ q.all[r].late = rs.all[r].late /\ q.all[r].ended = rs.all[r].ended
      BY <2>1, <1>6
    <3>2. QED
      BY <3>1, <2>1, <1>1 DEF Extends
  <2>3. RunsTyped(q)
    <3>1. q \in [all : Seq(Runs), current : [Sessions -> Nat]]
      BY <2>1, <1>1, <1>6
    <3>2. ASSUME NEW u \in Sessions, q.current[u] # 0
          PROVE  /\ q.current[u] \in 1 .. Len(q.all)
                 /\ q.all[q.current[u]].of = u /\ q.all[q.current[u]].ended = 0
      <4>1. /\ q.current[u] = rs.current[u] /\ rs.current[u] \in 1 .. n
            /\ rs.all[rs.current[u]].of = u /\ rs.all[rs.current[u]].ended = 0
        BY <3>2, <1>6 DEF RunsTyped
      <4>2. QED
        BY <4>1, <2>1, <2>2 DEF Extends
    <3>3. QED
      BY <3>1, <3>2 DEF RunsTyped
  <2>4. ASSUME NEW u \in Sessions, u # s
        PROVE  LLMCalls(q, u) = LLMCalls(rs, u) /\ ToolCalls(q, u) = ToolCalls(rs, u)
    <3>1. CASE rs.current[u] = 0
      BY <3>1, <1>6 DEF LLMCalls, ToolCalls
    <3>2. CASE rs.current[u] # 0
      <4>1. rs.current[u] \in 1 .. n /\ rs.all[rs.current[u]].of = u
        BY <3>2 DEF RunsTyped
      <4>2. rs.current[u] # i
        BY <4>1, <2>4, <1>1
      <4>3. q.all[q.current[u]] = rs.all[rs.current[u]]
        BY <4>1, <4>2, <2>1, <1>6
      <4>4. QED
        BY <4>3, <1>6 DEF LLMCalls, ToolCalls
    <3>3. QED
      BY <3>1, <3>2
  <2>5. LLMCalls(q, s) = more.llm /\ ToolCalls(q, s) = more.tool
    BY <2>1, <1>6 DEF LLMCalls, ToolCalls
  <2>6. QED
    BY <2>1, <2>2, <2>3, <2>4, <2>5, <1>4, <1>6
<1>7. CASE kind = "llm"
  <2> DEFINE more == [run EXCEPT !.llm = @ + 1]
  <2>1. q = [rs EXCEPT !.all[i].llm = @ + 1]
    BY <1>7 DEF Counted
  <2>2. /\ q.all = [rs.all EXCEPT ![i] = more] /\ q.current = rs.current
        /\ q = [all |-> q.all, current |-> q.current]
    BY <2>1, <1>1
  <2> HIDE DEF q, run
  <2>3. /\ more \in Runs /\ more.of = run.of /\ more.late = run.late /\ more.ended = run.ended
        /\ more.llm = run.llm + 1 /\ more.tool = run.tool
    BY <1>1, OneMore
  <2> HIDE DEF more
  <2>4. /\ more.llm = run.llm + (IF kind = "llm" THEN 1 ELSE 0)
        /\ more.tool = run.tool + (IF kind = "tool" THEN 1 ELSE 0)
    BY <2>3, <1>2, <1>7
  <2>5. QED
    BY <2>2, <2>3, <2>4, <1>6 DEF q
<1>8. CASE kind = "tool"
  <2> DEFINE more == [run EXCEPT !.tool = @ + 1]
  <2>1. q = [rs EXCEPT !.all[i].tool = @ + 1]
    BY <1>8 DEF Counted
  <2>2. /\ q.all = [rs.all EXCEPT ![i] = more] /\ q.current = rs.current
        /\ q = [all |-> q.all, current |-> q.current]
    BY <2>1, <1>1
  <2> HIDE DEF q, run
  <2>3. /\ more \in Runs /\ more.of = run.of /\ more.late = run.late /\ more.ended = run.ended
        /\ more.tool = run.tool + 1 /\ more.llm = run.llm
    BY <1>1, OneMore
  <2> HIDE DEF more
  <2>4. /\ more.llm = run.llm + (IF kind = "llm" THEN 1 ELSE 0)
        /\ more.tool = run.tool + (IF kind = "tool" THEN 1 ELSE 0)
    BY <2>3, <1>2, <1>8
  <2>5. QED
    BY <2>2, <2>3, <2>4, <1>6 DEF q
<1>9. QED
  BY <1>5, <1>7, <1>8 DEF Kinds

-----------------------------------------------------------------------------
(* What the steps on the table keep of it.                                   *)

\* Starting the first run of a session, or any run of another, leaves the runs of a
\* session as OneRunOf has them, and what they have counted.
LEMMA StartRunKeeps ==
  ASSUME NEW rs, RunsTyped(rs), EndedOnly(rs), NEW s \in Sessions,
         status \in [Sessions -> {"new", "open", "broken", "ended"}]
  PROVE  LET q == StartRun(rs, s)
         IN  /\ EndedOnly(q)
             /\ \A u \in Sessions : u # s \/ rs.current[u] = 0 =>
                  /\ OneRunOf(rs, u) => OneRunOf(q, u)
                  /\ LLMCalls(q, u) = LLMCalls(rs, u)
                  /\ ToolCalls(q, u) = ToolCalls(rs, u)
<1> DEFINE q == StartRun(rs, s)
           n == Len(rs.all)
<1>0. /\ n \in Nat /\ Len(q.all) = n + 1
      /\ RunsTyped(q)
      /\ \A r \in 1 .. n : q.all[r] = rs.all[r]
      /\ q.all[n + 1] = [of |-> s, llm |-> 0, tool |-> 0, ended |-> 0, late |-> status[s] = "ended"]
      /\ q.current[s] = n + 1
      /\ \A u \in Sessions : u # s => q.current[u] = rs.current[u]
  <2>1. n \in Nat
    BY TableTyped
  <2>2. QED
    BY <2>1, StartRunTable
<1> HIDE DEF q, n
<1>1. /\ n \in Nat /\ Len(q.all) = n + 1
      /\ RunsTyped(q)
      /\ \A r \in 1 .. n : q.all[r] = rs.all[r]
      /\ q.all[n + 1].of = s /\ q.all[n + 1].ended = 0 /\ q.all[n + 1].llm = 0 /\ q.all[n + 1].tool = 0
      /\ q.all[n + 1].late <=> status[s] = "ended"
      /\ q.current[s] = n + 1
      /\ \A u \in Sessions : u # s => q.current[u] = rs.current[u]
  <2>1. /\ q.all[n + 1].of = s /\ q.all[n + 1].ended = 0
        /\ q.all[n + 1].llm = 0 /\ q.all[n + 1].tool = 0
    BY <1>0
  <2>2. q.all[n + 1].late = (status[s] = "ended")
    BY <1>0
  <2>3. QED
    BY <1>0, <2>1, <2>2
<1>2. \A r \in 1 .. n + 1 : r \in 1 .. n \/ r = n + 1
  BY <1>1
<1>3. \A r \in 1 .. n : r \in 1 .. n + 1
  BY <1>1
<1>4. n + 1 # 0
  BY <1>1
<1>5. EndedOnly(q)
  <2>1. \A r \in 1 .. n : rs.all[r].ended # 0 => status[rs.all[r].of] = "ended"
    BY DEF EndedOnly, n
  <2>2. QED
    BY <2>1, <1>1, <1>2 DEF EndedOnly
<1>6. ASSUME NEW u \in Sessions, u # s \/ rs.current[u] = 0, OneRunOf(rs, u)
      PROVE  OneRunOf(q, u)
  <2>1. CASE status[u] = "ended"
    <3>1. PICK r \in 1 .. n :
            /\ rs.all[r].of = u /\ ~rs.all[r].late /\ rs.all[r].ended = 1
            /\ \A p \in 1 .. n : rs.all[p].of = u /\ ~rs.all[p].late => p = r
      BY <2>1, <1>6 DEF OneRunOf, n
    <3>2. ASSUME NEW p \in 1 .. n + 1, q.all[p].of = u, ~q.all[p].late
          PROVE  p = r
      <4>1. CASE p \in 1 .. n
        BY <4>1, <3>1, <3>2, <1>1
      <4>2. CASE p = n + 1
        BY <4>2, <3>2, <2>1, <1>1
      <4>3. QED
        BY <4>1, <4>2, <1>2
    <3>3. r \in 1 .. n + 1 /\ q.all[r] = rs.all[r]
      BY <1>1, <1>3
    <3>4. QED
      BY <3>1, <3>2, <3>3, <2>1, <1>1 DEF OneRunOf
  <2>2. CASE status[u] # "ended"
    <3>1. \A r \in 1 .. n : rs.all[r].of = u => r = rs.current[u] /\ ~rs.all[r].late
      BY <2>2, <1>6 DEF OneRunOf, n
    <3>2. ASSUME NEW r \in 1 .. n + 1, q.all[r].of = u
          PROVE  r = q.current[u] /\ ~q.all[r].late
      <4>1. CASE r \in 1 .. n
        <5>1. r = rs.current[u] /\ ~q.all[r].late
          BY <4>1, <3>1, <3>2, <1>1
        <5>2. r # 0
          BY <4>1, <1>1
        <5>3. u # s
          BY <5>1, <5>2, <1>6
        <5>4. QED
          BY <5>1, <5>3, <1>1
      <4>2. CASE r = n + 1
        BY <4>2, <3>2, <2>2, <1>1
      <4>3. QED
        BY <4>1, <4>2, <1>2
    <3>3. QED
      BY <3>2, <2>2, <1>1 DEF OneRunOf
  <2>3. QED
    BY <2>1, <2>2
<1>7. ASSUME NEW u \in Sessions, u # s \/ rs.current[u] = 0
      PROVE  LLMCalls(q, u) = LLMCalls(rs, u) /\ ToolCalls(q, u) = ToolCalls(rs, u)
  <2>1. CASE u = s
    BY <2>1, <1>7, <1>1, <1>4 DEF LLMCalls, ToolCalls
  <2>2. CASE u # s /\ rs.current[u] = 0
    BY <2>2, <1>1 DEF LLMCalls, ToolCalls
  <2>3. CASE u # s /\ rs.current[u] # 0
    <3>1. rs.current[u] \in 1 .. n
      BY <2>3 DEF RunsTyped, n
    <3>2. QED
      BY <3>1, <2>3, <1>1 DEF LLMCalls, ToolCalls
  <2>4. QED
    BY <2>1, <2>2, <2>3
<1>8. QED
  BY <1>5, <1>6, <1>7 DEF q

LEMMA RunForKeeps ==
  ASSUME NEW rs, RunsTyped(rs), EndedOnly(rs), NEW s \in Sessions \cup {None},
         status \in [Sessions -> {"new", "open", "broken", "ended"}]
  PROVE  LET q == RunFor(rs, s)
         IN  /\ EndedOnly(q)
             /\ \A u \in Sessions :
                  /\ OneRunOf(rs, u) => OneRunOf(q, u)
                  /\ LLMCalls(q, u) = LLMCalls(rs, u)
                  /\ ToolCalls(q, u) = ToolCalls(rs, u)
<1>1. CASE s = None \/ rs.current[s] # 0
  BY <1>1 DEF RunFor
<1>2. CASE s # None /\ rs.current[s] = 0
  <2>1. RunFor(rs, s) = StartRun(rs, s) /\ s \in Sessions
    BY <1>2 DEF RunFor
  <2>2. \A u \in Sessions : u # s \/ rs.current[u] = 0
    BY <1>2
  <2>3. QED
    BY <2>1, <2>2, StartRunKeeps
<1>3. QED
  BY <1>1, <1>2

\* Counting leaves everything else of the runs as it is.
LEMMA CountedKeeps ==
  ASSUME NEW rs, RunsTyped(rs), EndedOnly(rs), NEW s \in Sessions, rs.current[s] # 0,
         NEW kind \in Kinds
  PROVE  LET q == Counted(rs, s, kind)
         IN  EndedOnly(q) /\ \A u \in Sessions : OneRunOf(rs, u) => OneRunOf(q, u)
<1> DEFINE q == Counted(rs, s, kind)
<1>1. Extends(rs, q) /\ Len(q.all) = Len(rs.all) /\ q.current = rs.current
  BY CountedTable
<1> HIDE DEF q
<1>2. \A r \in 1 .. Len(rs.all) :
        q.all[r].of = rs.all[r].of /\ q.all[r].late = rs.all[r].late /\ q.all[r].ended = rs.all[r].ended
  BY <1>1 DEF Extends
<1>3. EndedOnly(q)
  BY <1>1, <1>2 DEF EndedOnly
<1>4. ASSUME NEW u \in Sessions, OneRunOf(rs, u)
      PROVE  OneRunOf(q, u)
  BY <1>1, <1>2, <1>4 DEF OneRunOf
<1>5. QED
  BY <1>3, <1>4 DEF q

\* Ending the run of a session ends no other run.
LEMMA EndRunTable ==
  ASSUME NEW rs, RunsTyped(rs), NEW s \in Sessions, rs.current[s] # 0
  PROVE  LET q == EndRun(rs, s)
             i == rs.current[s]
         IN  /\ RunsTyped(q) /\ Len(q.all) = Len(rs.all)
             /\ i \in 1 .. Len(rs.all)
             /\ \A r \in 1 .. Len(rs.all) :
                  /\ q.all[r].of = rs.all[r].of /\ q.all[r].late = rs.all[r].late
                  /\ q.all[r].llm = rs.all[r].llm /\ q.all[r].tool = rs.all[r].tool
                  /\ r # i => q.all[r] = rs.all[r]
             /\ q.all[i].ended = 1
             /\ \A u \in Sessions : u # s => q.current[u] = rs.current[u]
<1> DEFINE q == EndRun(rs, s)
           i == rs.current[s]
           n == Len(rs.all)
           run == rs.all[i]
           more == [run EXCEPT !.ended = @ + 1]
<1>1. /\ rs.all \in Seq(Runs) /\ n \in Nat /\ rs.current \in [Sessions -> Nat]
      /\ i \in 1 .. n /\ run.of = s /\ run.ended = 0
      /\ run \in Runs
      /\ \A r \in 1 .. n : rs.all[r] \in Runs
      /\ DOMAIN rs.all = 1 .. n
  BY TableTyped DEF RunsTyped
<1>2. /\ q.all = [rs.all EXCEPT ![i] = more] /\ q.current = [rs.current EXCEPT ![s] = 0]
      /\ q = [all |-> q.all, current |-> q.current]
  BY DEF EndRun
<1> HIDE DEF q, run
<1>3. /\ more \in Runs /\ more.of = run.of /\ more.late = run.late
      /\ more.llm = run.llm /\ more.tool = run.tool /\ more.ended = 1
  <2>1. run \in Runs /\ run.ended = 0
    BY <1>1 DEF run
  <2>2. ASSUME NEW p \in Runs, p.ended = 0
        PROVE  LET m == [p EXCEPT !.ended = @ + 1]
               IN  /\ m \in Runs /\ m.of = p.of /\ m.late = p.late
                   /\ m.llm = p.llm /\ m.tool = p.tool /\ m.ended = 1
    BY <2>2 DEF Runs
  <2>3. QED
    BY <2>1, <2>2
<1> HIDE DEF more
<1>4. /\ q.all \in Seq(Runs) /\ Len(q.all) = n
      /\ q.all[i] = more
      /\ \A r \in 1 .. n : r # i => q.all[r] = rs.all[r]
  BY <1>1, <1>2, <1>3, ExceptSeq
<1>5. /\ q.current \in [Sessions -> Nat] /\ q.current[s] = 0
      /\ \A u \in Sessions : u # s => q.current[u] = rs.current[u]
  BY <1>1, <1>2
<1>6. RunsTyped(q)
  <2>1. q \in [all : Seq(Runs), current : [Sessions -> Nat]]
    BY <1>2, <1>4, <1>5
  <2>2. ASSUME NEW u \in Sessions, q.current[u] # 0
        PROVE  /\ q.current[u] \in 1 .. Len(q.all)
               /\ q.all[q.current[u]].of = u /\ q.all[q.current[u]].ended = 0
    <3>1. u # s /\ q.current[u] = rs.current[u]
      BY <2>2, <1>5
    <3>2. rs.current[u] \in 1 .. n /\ rs.all[rs.current[u]].of = u /\ rs.all[rs.current[u]].ended = 0
      BY <3>1, <2>2 DEF RunsTyped
    <3>3. rs.current[u] # i
      BY <3>1, <3>2, <1>1 DEF run
    <3>4. QED
      BY <3>1, <3>2, <3>3, <1>4
  <2>3. QED
    BY <2>1, <2>2 DEF RunsTyped
<1>7. ASSUME NEW r \in 1 .. n
      PROVE  /\ q.all[r].of = rs.all[r].of /\ q.all[r].late = rs.all[r].late
             /\ q.all[r].llm = rs.all[r].llm /\ q.all[r].tool = rs.all[r].tool
  BY <1>3, <1>4 DEF run
<1>8. QED
  BY <1>1, <1>3, <1>4, <1>5, <1>6, <1>7 DEF q

-----------------------------------------------------------------------------
(* The calls that the observer was told of.                                  *)

LEMMA ToldFinite ==
  ASSUME events \in Seq(Events), NEW s, NEW kind
  PROVE  /\ IsFiniteSet(ToldCalls(s, kind))
         /\ Cardinality(ToldCalls(s, kind)) \in Nat
<1>1. Len(events) \in Nat
  BY LenProperties
<1>2. IsFiniteSet(1 .. Len(events))
  BY <1>1, FS_Interval
<1>3. ToldCalls(s, kind) \subseteq 1 .. Len(events)
  BY DEF ToldCalls
<1>4. QED
  BY <1>2, <1>3, FS_Subset, FS_CardinalityType

\* A step that records nothing, and in which nobody starts or stops looking, tells of none.
LEMMA ToldSame ==
  ASSUME events' = events,
         \A u \in Tasks : task'[u] = task[u] \/ (task[u].pc # "look" /\ task'[u].pc # "look"),
         NEW s, NEW kind
  PROVE  ToldCalls(s, kind)' = ToldCalls(s, kind)
<1>1. Looking' = Looking
  BY DEF Looking
<1>2. QED
  BY <1>1 DEF ToldCalls

\* A step that tells of one event tells of no other.
LEMMA ToldOneMore ==
  ASSUME events \in Seq(Events), events' \in Seq(Events),
         NEW s, NEW kind, NEW e,
         1 .. Len(events') = (1 .. Len(events)) \cup {e},
         \A i \in 1 .. Len(events) : events'[i] = events[i],
         events'[e] = [of |-> s, kind |-> kind],
         e \notin (1 .. Len(events)) \ Looking,
         Looking' = Looking \ {e},
         NEW u, NEW k
  PROVE  Cardinality(ToldCalls(u, k)') =
           Cardinality(ToldCalls(u, k)) + (IF u = s /\ k = kind THEN 1 ELSE 0)
<1>1. IsFiniteSet(ToldCalls(u, k)) /\ Cardinality(ToldCalls(u, k)) \in Nat
  BY ToldFinite
<1>2. e \notin ToldCalls(u, k)
  BY DEF ToldCalls
<1>3. ToldCalls(u, k)' = {i \in (1 .. Len(events')) \ Looking' : events'[i] = [of |-> u, kind |-> k]}
  BY DEF ToldCalls
<1>4. (1 .. Len(events')) \ Looking' = ((1 .. Len(events)) \ Looking) \cup {e}
  OBVIOUS
<1>5. \A i \in (1 .. Len(events)) \ Looking :
        events'[i] = [of |-> u, kind |-> k] <=> i \in ToldCalls(u, k)
  BY DEF ToldCalls
<1>6. CASE u = s /\ k = kind
  <2>1. ToldCalls(u, k)' = ToldCalls(u, k) \cup {e}
    <3>1. ToldCalls(u, k) \subseteq (1 .. Len(events)) \ Looking
      BY DEF ToldCalls
    <3>2. QED
      BY <3>1, <1>3, <1>4, <1>5, <1>6
  <2>2. Cardinality(ToldCalls(u, k) \cup {e}) = Cardinality(ToldCalls(u, k)) + 1
    BY <1>1, <1>2, FS_AddElement
  <2>3. QED
    BY <2>1, <2>2, <1>6
<1>7. CASE ~(u = s /\ k = kind)
  <2>1. events'[e] # [of |-> u, kind |-> k]
    <3>1. [of |-> s, kind |-> kind].of = s /\ [of |-> s, kind |-> kind].kind = kind
      OBVIOUS
    <3>2. [of |-> u, kind |-> k].of = u /\ [of |-> u, kind |-> k].kind = k
      OBVIOUS
    <3>3. QED
      BY <3>1, <3>2, <1>7
  <2>2. ToldCalls(u, k)' = ToldCalls(u, k)
    <3>1. ToldCalls(u, k) \subseteq (1 .. Len(events)) \ Looking
      BY DEF ToldCalls
    <3>2. QED
      BY <3>1, <2>1, <1>3, <1>4, <1>5
  <2>3. QED
    BY <2>2, <1>1, <1>7
<1>8. QED
  BY <1>6, <1>7

\* What a violation does to the table of runs.
LEMMA RunsAfterKeeps ==
  ASSUME Typed, EndedOnly(runs), NEW t \in Tasks, NEW e
  PROVE  LET q == RunsAfter(t, e)
         IN  /\ RunsTyped(q) /\ Extends(runs, q) /\ EndedOnly(q)
             /\ \A u \in Sessions :
                  /\ OneRunOf(runs, u) => OneRunOf(q, u)
                  /\ LLMCalls(q, u) = LLMCalls(runs, u)
                  /\ ToolCalls(q, u) = ToolCalls(runs, u)
<1>1. /\ RunsTyped(runs) /\ context[t] \in Sessions \cup {None}
      /\ status \in [Sessions -> {"new", "open", "broken", "ended"}]
  BY DEF Typed
<1>2. CASE e \in DOMAIN ops
  <2>1. RunsAfter(t, e) = runs
    BY <1>2 DEF RunsAfter
  <2>2. Extends(runs, runs)
    BY <1>1, TableTyped DEF Extends
  <2>3. QED
    BY <2>1, <2>2, <1>1
<1>3. CASE e \notin DOMAIN ops
  <2>1. RunsAfter(t, e) = RunFor(runs, context[t])
    BY <1>3 DEF RunsAfter
  <2> DEFINE c == context[t]
  <2> HIDE DEF c
  <2>2. c \in Sessions \cup {None} /\ RunsAfter(t, e) = RunFor(runs, c)
    BY <2>1, <1>1 DEF c
  <2>3. RunsTyped(RunFor(runs, c)) /\ Extends(runs, RunFor(runs, c))
    BY <2>2, <1>1, RunForTable
  <2>4. /\ EndedOnly(RunFor(runs, c))
        /\ \A u \in Sessions :
             /\ OneRunOf(runs, u) => OneRunOf(RunFor(runs, c), u)
             /\ LLMCalls(RunFor(runs, c), u) = LLMCalls(runs, u)
             /\ ToolCalls(RunFor(runs, c), u) = ToolCalls(runs, u)
    BY <2>2, <1>1, RunForKeeps
  <2>5. QED
    BY <2>2, <2>3, <2>4
<1>4. QED
  BY <1>2, <1>3

\* Where the violation is reported: an open event has a run of its own session, and
\* the run of the active session is one that has not ended.
LEMMA ReportPlaced ==
  ASSUME Typed, EndedOnly(runs), OpsKept, NEW t \in Tasks, NEW s \in Sessions, NEW e, NEW kind \in Kinds,
         IF e \in DOMAIN ops THEN events[e] = [of |-> s, kind |-> kind] ELSE kind = "other"
  PROVE  LET r == Report(t, s, e, kind)
             q == RunsAfter(t, e)
         IN  /\ r.of = s /\ r.kind = kind
             /\ HasSpan(kind) => r.on = "event"
             /\ ~HasSpan(kind) /\ setting.agent /\ (kind = "llm" \/ r.active = s) =>
                  r.on = "run" /\ q.all[r.run].of = s
             /\ r.on = "run" => r.run \in 1 .. Len(q.all) /\ q.all[r.run].of \in {s, r.active}
             /\ r.lost => r.over
<1> DEFINE r == Report(t, s, e, kind)
           q == RunsAfter(t, e)
           run == RunOf(t, e)
           own == e \in DOMAIN ops /\ HasSpan(kind)
<1>1. /\ r.of = s /\ r.kind = kind /\ r.active = context[t] /\ r.run = run
      /\ r.over = (status[s] = "ended")
      /\ r.on = (IF own THEN "event" ELSE IF run # 0 /\ setting.agent THEN "run" ELSE "alone")
      /\ r.lost = (~own /\ run # 0 /\ setting.agent /\ q.all[run].ended # 0)
  BY DEF Report
<1>2. e \in DOMAIN ops \/ kind = "other"
  OBVIOUS
<1>3. ~HasSpan("other")
  BY DEF HasSpan
<1>4. HasSpan(kind) => own
  BY <1>2, <1>3
<1>5. RunsTyped(q) /\ context[t] \in Sessions \cup {None} /\ RunsTyped(runs)
  BY RunsAfterKeeps DEF Typed
<1>6. /\ run # 0 => run \in 1 .. Len(q.all) /\ q.all[run].of \in {s, context[t]}
      /\ kind = "llm" \/ context[t] = s => run # 0 /\ q.all[run].of = s
      /\ run # 0 /\ q.all[run].ended # 0 => status[s] = "ended"
  <2>1. CASE e \in DOMAIN ops
    <3>1. q = runs /\ run = ops[e]
      BY <2>1 DEF RunsAfter, RunOf
    <3>2. ops[e] \in 1 .. Len(runs.all) /\ runs.all[ops[e]].of = s
      BY <2>1 DEF OpsKept
    <3>3. ops[e] # 0
      BY <3>2, <1>5, TableTyped
    <3>4. runs.all[ops[e]].ended # 0 => status[s] = "ended"
      BY <3>2 DEF EndedOnly
    <3>5. QED
      BY <3>1, <3>2, <3>3, <3>4
  <2>2. CASE e \notin DOMAIN ops
    <3>1. q = RunFor(runs, context[t]) /\ run = Current(q, context[t])
      BY <2>2 DEF RunsAfter, RunOf
    <3> HIDE DEF q, run
    <3>2. CASE context[t] = None
      <4>1. run = 0
        BY <3>1, <3>2 DEF Current
      <4>2. context[t] # s
        BY <3>2, TelemetryAssumption
      <4>3. QED
        BY <4>1, <4>2, <2>2, <1>2
    <3>3. CASE context[t] # None
      <4>1. context[t] \in Sessions /\ run = q.current[context[t]]
        BY <3>1, <3>3, <1>5 DEF Current
      <4>2. run # 0
        <5>1. status \in [Sessions -> {"new", "open", "broken", "ended"}]
          BY DEF Typed
        <5>2. ASSUME NEW c \in Sessions
              PROVE  RunFor(runs, c).current[c] # 0
          <6>1. c \in Sessions \cup {None}
            OBVIOUS
          <6>2. QED
            BY <6>1, <5>1, <1>5, RunForTable
        <5>3. QED
          BY <5>2, <4>1, <3>1
      <4>3. run \in 1 .. Len(q.all) /\ q.all[run].of = context[t] /\ q.all[run].ended = 0
        BY <4>1, <4>2, <1>5 DEF RunsTyped
      <4>4. QED
        BY <4>2, <4>3, <2>2, <1>2
    <3>4. QED
      BY <3>2, <3>3
  <2>3. QED
    BY <2>1, <2>2
<1> HIDE DEF r, q, run, own
<1>7. HasSpan(kind) => r.on = "event"
  BY <1>1, <1>4
<1>8. own => HasSpan(kind)
  BY DEF own
<1>9. ASSUME ~HasSpan(kind), setting.agent, kind = "llm" \/ r.active = s
      PROVE  r.on = "run" /\ q.all[r.run].of = s
  BY <1>1, <1>6, <1>8, <1>9
<1>10. ASSUME r.on = "run"
       PROVE  r.run \in 1 .. Len(q.all) /\ q.all[r.run].of \in {s, r.active}
  <2>1. run # 0
    BY <1>1, <1>10
  <2>2. QED
    BY <2>1, <1>1, <1>6
<1>11. ASSUME r.lost
       PROVE  r.over
  <2>1. run # 0 /\ q.all[run].ended # 0
    BY <1>1, <1>11
  <2>2. QED
    BY <2>1, <1>1, <1>6
<1>12. QED
  BY <1>1, <1>7, <1>9, <1>10, <1>11 DEF r, q

-----------------------------------------------------------------------------
(* The invariant.                                                            *)

LEMMA InitIInv == Init => IInv
<1> SUFFICES ASSUME Init
             PROVE  IInv
  OBVIOUS
<1> USE DEF Init
<1>1. Len(<<>>) = 0 /\ 1 .. 0 = {}
  OBVIOUS
<1>2. /\ runs.all = <<>> /\ \A s \in Sessions : runs.current[s] = 0
      /\ runs \in [all : Seq(Runs), current : [Sessions -> Nat]]
  OBVIOUS
<1>3. Typed
  <2>1. RunsTyped(runs)
    BY <1>2 DEF RunsTyped
  <2>2. task \in [Tasks -> [pc : {"idle", "look", "told", "judging", "raised"}, event : Nat]]
    BY DEF Idle
  <2>3. events \in Seq(Events)
    OBVIOUS
  <2>4. ops \in [DOMAIN ops -> Nat] /\ DOMAIN ops \subseteq 1 .. Len(events)
    OBVIOUS
  <2>5. QED
    BY <2>1, <2>2, <2>3, <2>4 DEF Typed
<1>4. TasksKept
  BY DEF TasksKept, Idle
<1>5. OpsKept
  BY DEF OpsKept
<1>6. EndedOnly(runs)
  BY <1>1, <1>2 DEF EndedOnly
<1>7. OneRun(runs)
  BY <1>1, <1>2 DEF OneRun, OneRunOf
<1>8. CountsRight(runs)
  <2>1. ASSUME NEW s, NEW kind
        PROVE  Cardinality(ToldCalls(s, kind)) = 0
    <3>1. ToldCalls(s, kind) = {}
      BY <1>1 DEF ToldCalls
    <3>2. QED
      BY <3>1, FS_EmptySet
  <2>2. QED
    BY <2>1, <1>2 DEF CountsRight, CountsOf, LLMCalls, ToolCalls
<1>9. ViolationsPlaced
  BY DEF ViolationsPlaced
<1>10. QED
  BY <1>3, <1>4, <1>5, <1>6, <1>7, <1>8, <1>9 DEF IInv

\* A step in which no session ends.
LEMMA TableStep ==
  ASSUME IInv, RunsTyped(runs'), EndedOnly(runs'), disturbed \subseteq disturbed',
         \A u \in Sessions : status'[u] = "ended" <=> status[u] = "ended",
         \A u \in Sessions \ disturbed' :
           /\ OneRunOf(runs, u) => OneRunOf(runs', u)
           /\ CountsOf(runs, u) => CountsOf(runs, u)'
  PROVE  EndedOnly(runs)' /\ OneRun(runs)' /\ CountsRight(runs)'
<1>1. EndedOnly(runs)'
  <2>1. \A r \in 1 .. Len(runs'.all) : runs'.all[r].of \in Sessions
    BY TableTyped DEF Runs
  <2>2. QED
    BY <2>1 DEF EndedOnly
<1>2. OneRun(runs)'
  <2>1. ASSUME NEW u \in Sessions \ disturbed'
        PROVE  OneRunOf(runs, u)'
    <3>1. OneRunOf(runs', u)
      BY DEF IInv, OneRun
    <3>2. status'[u] = "ended" <=> status[u] = "ended"
      OBVIOUS
    <3>3. QED
      BY <3>1, <3>2 DEF OneRunOf
  <2>2. QED
    BY <2>1 DEF OneRun
<1>3. CountsRight(runs)'
  BY DEF IInv, CountsRight
<1>4. QED
  BY <1>1, <1>2, <1>3

\* A step that tells of no event.
LEMMA CountsSame ==
  ASSUME NEW u,
         LLMCalls(runs', u) = LLMCalls(runs, u), ToolCalls(runs', u) = ToolCalls(runs, u),
         \A kind \in {"llm", "tool"} : ToldCalls(u, kind)' = ToldCalls(u, kind)
  PROVE  CountsOf(runs, u) => CountsOf(runs, u)'
<1>1. /\ CountsOf(runs, u)' =
           (/\ LLMCalls(runs', u) = Cardinality(ToldCalls(u, "llm")')
            /\ ToolCalls(runs', u) = Cardinality(ToldCalls(u, "tool")'))
  BY DEF CountsOf, LLMCalls, ToolCalls
<1>2. QED
  BY <1>1 DEF CountsOf

\* A step that closes no event.
LEMMA OpsSame ==
  ASSUME Typed, OpsKept, ops' = ops, disturbed \subseteq disturbed',
         Len(runs.all) \in Nat, Len(runs'.all) \in Nat, Len(runs.all) <= Len(runs'.all),
         \A r \in 1 .. Len(runs.all) : runs'.all[r].of = runs.all[r].of,
         \A e \in 1 .. Len(events) : events'[e] = events[e],
         \A t \in Tasks : task[t].pc \in {"told", "judging", "raised"} =>
           \/ task'[t].event = task[t].event /\ task'[t].pc \in {"told", "judging", "raised"}
           \/ events[task[t].event].of \in disturbed'
  PROVE  OpsKept'
<1> SUFFICES ASSUME NEW e \in DOMAIN ops
             PROVE  /\ events'[e].kind # "other"
                    /\ ops[e] \in 1 .. Len(runs'.all)
                    /\ runs'.all[ops[e]].of = events'[e].of
                    /\ \/ events'[e].of \in disturbed'
                       \/ \E t \in Tasks : task'[t].event = e /\ task'[t].pc \in {"told", "judging", "raised"}
  BY DEF OpsKept
<1>1. events'[e] = events[e]
  BY DEF Typed
<1>2. /\ events[e].kind # "other"
      /\ ops[e] \in 1 .. Len(runs.all)
      /\ runs.all[ops[e]].of = events[e].of
  BY DEF OpsKept
<1>3. runs'.all[ops[e]].of = runs.all[ops[e]].of
  BY <1>2
<1>5. ops[e] \in 1 .. Len(runs'.all)
  BY <1>2
<1>6. CASE events[e].of \in disturbed
  BY <1>1, <1>2, <1>3, <1>5, <1>6
<1>7. CASE \E t \in Tasks : task[t].event = e /\ task[t].pc \in {"told", "judging", "raised"}
  BY <1>1, <1>2, <1>3, <1>5, <1>7
<1>8. QED
  BY <1>6, <1>7 DEF OpsKept

\* A step that tells of no event and ends no session.
LEMMA QuietTable ==
  ASSUME IInv, RunsTyped(runs'), EndedOnly(runs'), disturbed \subseteq disturbed',
         events' = events,
         \A t \in Tasks : task'[t] = task[t] \/ (task[t].pc # "look" /\ task'[t].pc # "look"),
         \A u \in Sessions : status'[u] = "ended" <=> status[u] = "ended",
         \A u \in Sessions : /\ OneRunOf(runs, u) => OneRunOf(runs', u)
                             /\ LLMCalls(runs', u) = LLMCalls(runs, u)
                             /\ ToolCalls(runs', u) = ToolCalls(runs, u)
  PROVE  EndedOnly(runs)' /\ OneRun(runs)' /\ CountsRight(runs)'
<1>1. \A u \in Sessions : \A kind \in {"llm", "tool"} : ToldCalls(u, kind)' = ToldCalls(u, kind)
  BY ToldSame
<1>2. \A u \in Sessions \ disturbed' : CountsOf(runs, u) => CountsOf(runs, u)'
  BY <1>1, CountsSame
<1>3. QED
  BY <1>2, TableStep

LEMMA ReportKept ==
  ASSUME IInv, NEW t \in Tasks, NEW s \in Sessions, NEW e, NEW kind \in Kinds,
         IF e \in DOMAIN ops THEN events[e] = [of |-> s, kind |-> kind] ELSE kind = "other",
         setting' = setting, latest' = {Report(t, s, e, kind)},
         \A r \in 1 .. Len(RunsAfter(t, e).all) : runs'.all[r].of = RunsAfter(t, e).all[r].of
  PROVE  ViolationsPlaced'
<1> DEFINE r == Report(t, s, e, kind)
           q == RunsAfter(t, e)
<1>1. /\ r.of = s /\ r.kind = kind
      /\ HasSpan(kind) => r.on = "event"
      /\ ~HasSpan(kind) /\ setting.agent /\ (kind = "llm" \/ r.active = s) =>
           r.on = "run" /\ q.all[r.run].of = s
      /\ r.on = "run" => r.run \in 1 .. Len(q.all) /\ q.all[r.run].of \in {s, r.active}
      /\ r.lost => r.over
  BY ReportPlaced DEF IInv
<1> HIDE DEF r, q
<1>2. r.on = "run" => runs'.all[r.run].of = q.all[r.run].of
  BY <1>1 DEF q
<1>3. latest' = {r}
  BY DEF r
<1>4. ASSUME NEW v \in latest'
      PROVE  /\ HasSpan(v.kind)' => v.on = "event"
             /\ ~HasSpan(v.kind)' /\ setting'.agent /\ (v.kind = "llm" \/ v.active = v.of) =>
                  v.on = "run" /\ runs'.all[v.run].of = v.of
             /\ v.on = "run" => runs'.all[v.run].of \in {v.of, v.active}
             /\ v.lost => v.over
  <2>1. v = r
    BY <1>3
  <2>2. HasSpan(v.kind)' <=> HasSpan(kind)
    BY <2>1, <1>1 DEF HasSpan
  <2>3. QED
    BY <2>1, <2>2, <1>1, <1>2
<1>5. QED
  BY <1>4 DEF ViolationsPlaced

LEMMA EnterStep ==
  ASSUME IInv, NEW t \in Tasks, NEW s \in Sessions, Enter(t, s)
  PROVE  IInv'
<1>1. /\ task[t] = Idle /\ status[s] = "new"
      /\ context' = [context EXCEPT ![t] = s]
      /\ host' = [host EXCEPT ![s] = <<t, context[t]>>]
      /\ setting' = setting /\ ops' = ops /\ task' = task /\ events' = events /\ disturbed' = disturbed
      /\ \E after \in {"open", "broken"} : status' = [status EXCEPT ![s] = after]
      /\ runs' = runs \/ runs' = RunFor(runs, s)
  BY DEF Enter
<1>2. /\ setting \in Settings
      /\ context \in [Tasks -> Sessions \cup {None}]
      /\ status \in [Sessions -> {"new", "open", "broken", "ended"}]
      /\ host \in [Sessions -> {<<>>} \cup (Tasks \X (Sessions \cup {None}))]
      /\ \A u \in Sessions : status[u] # "new" => host[u] # <<>>
      /\ RunsTyped(runs)
  BY DEF IInv, Typed
<1>3. /\ RunsTyped(runs') /\ Extends(runs, runs') /\ EndedOnly(runs')
      /\ \A u \in Sessions : /\ OneRunOf(runs, u) => OneRunOf(runs', u)
                             /\ LLMCalls(runs', u) = LLMCalls(runs, u)
                             /\ ToolCalls(runs', u) = ToolCalls(runs, u)
  <2>1. CASE runs' = runs
    <3>1. Extends(runs, runs)
      BY <1>2, TableTyped DEF Extends
    <3>2. QED
      BY <2>1, <3>1, <1>2 DEF IInv
  <2>2. CASE runs' = RunFor(runs, s)
    <3>1. s \in Sessions \cup {None} /\ EndedOnly(runs)
      BY DEF IInv
    <3>2. RunsTyped(runs') /\ Extends(runs, runs')
      BY <2>2, <3>1, <1>2, RunForTable
    <3>3. EndedOnly(runs') /\ \A u \in Sessions : /\ OneRunOf(runs, u) => OneRunOf(runs', u)
                                                  /\ LLMCalls(runs', u) = LLMCalls(runs, u)
                                                  /\ ToolCalls(runs', u) = ToolCalls(runs, u)
      BY <2>2, <3>1, <1>2, RunForKeeps
    <3>4. QED
      BY <3>2, <3>3
  <2>3. QED
    BY <2>1, <2>2, <1>1
<1>4. Typed'
  <2>1. /\ context' \in [Tasks -> Sessions \cup {None}]
        /\ status' \in [Sessions -> {"new", "open", "broken", "ended"}]
    BY <1>1, <1>2
  <2>2. context[t] \in Sessions \cup {None}
    BY <1>2
  <2>3. <<t, context[t]>> \in Tasks \X (Sessions \cup {None}) /\ <<t, context[t]>> # <<>>
    BY <2>2
  <2>4. host' \in [Sessions -> {<<>>} \cup (Tasks \X (Sessions \cup {None}))]
    BY <2>3, <1>1, <1>2
  <2>5. \A u \in Sessions : status'[u] # "new" => host'[u] # <<>>
    BY <2>3, <1>1, <1>2
  <2>6. RunsTyped(runs)'
    BY <1>3 DEF RunsTyped
  <2>7. QED
    BY <2>1, <2>4, <2>5, <2>6, <1>1 DEF IInv, Typed
<1>5. TasksKept'
  BY <1>1 DEF IInv, TasksKept
<1>6. OpsKept'
  <2>1. Len(runs.all) \in Nat /\ Len(runs'.all) \in Nat
    BY <1>2, <1>3, TableTyped
  <2>2. QED
    BY <2>1, <1>1, <1>3, OpsSame DEF IInv, Extends
<1>7. \A u \in Sessions : status'[u] = "ended" <=> status[u] = "ended"
  BY <1>1, <1>2
<1>8. EndedOnly(runs)' /\ OneRun(runs)' /\ CountsRight(runs)'
  BY <1>1, <1>3, <1>7, QuietTable
<1>9. ViolationsPlaced'
  <2>1. CASE latest' = {}
    BY <2>1 DEF ViolationsPlaced
  <2>2. CASE latest' # {}
    <3> DEFINE r == [of |-> s, kind |-> "other", active |-> s, over |-> FALSE, lost |-> FALSE,
                     on |-> IF setting.agent THEN "run" ELSE "alone", run |-> runs'.current[s]]
    <3>1. runs' = RunFor(runs, s) /\ latest' = {r}
      BY <2>2 DEF Enter
    <3>2. s \in Sessions \cup {None}
      OBVIOUS
    <3>3. runs'.current[s] # 0
      BY <3>1, <3>2, <1>2, RunForTable
    <3>4. runs'.all[runs'.current[s]].of = s
      BY <3>3, <1>3 DEF RunsTyped
    <3>5. /\ r.of = s /\ r.active = s /\ r.kind = "other" /\ r.lost = FALSE /\ r.run = runs'.current[s]
          /\ setting.agent => r.on = "run"
      OBVIOUS
    <3> HIDE DEF r
    <3>6. ASSUME NEW v \in latest'
          PROVE  /\ ~HasSpan(v.kind)' /\ (setting'.agent => v.on = "run")
                 /\ runs'.all[v.run].of = v.of /\ ~v.lost
      <4>1. v = r
        BY <3>1
      <4>2. ~HasSpan(v.kind)'
        BY <4>1, <3>5 DEF HasSpan
      <4>3. QED
        BY <4>1, <4>2, <3>4, <3>5, <1>1
    <3>7. QED
      BY <3>6 DEF ViolationsPlaced
  <2>3. QED
    BY <2>1, <2>2
<1>10. QED
  BY <1>4, <1>5, <1>6, <1>8, <1>9 DEF IInv

LEMMA InheritStep ==
  ASSUME IInv, NEW t \in Tasks, NEW u \in Tasks, Inherit(t, u)
  PROVE  IInv'
<1>1. /\ context' = [context EXCEPT ![u] = context[t]]
      /\ setting' = setting /\ status' = status /\ host' = host /\ runs' = runs /\ ops' = ops
      /\ task' = task /\ events' = events /\ disturbed' = disturbed /\ latest' = {}
  BY DEF Inherit
<1>2. Typed'
  <2>1. context' \in [Tasks -> Sessions \cup {None}]
    BY <1>1 DEF IInv, Typed
  <2>2. QED
    BY <2>1, <1>1 DEF IInv, Typed, RunsTyped
<1>3. TasksKept' /\ OpsKept'
  BY <1>1 DEF IInv, TasksKept, OpsKept
<1>4. EndedOnly(runs)' /\ OneRun(runs)' /\ CountsRight(runs)'
  BY <1>1, QuietTable DEF IInv, Typed
<1>5. ViolationsPlaced'
  BY <1>1 DEF ViolationsPlaced
<1>6. QED
  BY <1>2, <1>3, <1>4, <1>5 DEF IInv

\* The event that a task is recording.
LEMMA TaskEvent ==
  ASSUME IInv, NEW t \in Tasks, task[t] # Idle
  PROVE  LET e == task[t].event
         IN  /\ e \in 1 .. Len(events) /\ events[e] \in Events
             /\ events[e].of \in Sessions /\ events[e].kind \in Kinds
             /\ events[e] = [of |-> events[e].of, kind |-> events[e].kind]
             /\ task[t].pc # "idle"
<1> DEFINE e == task[t].event
<1>1. e \in 1 .. Len(events) /\ task[t].pc # "idle"
  BY DEF IInv, TasksKept
<1>2. events \in Seq(Events)
  BY DEF IInv, Typed
<1>3. events[e] \in Events
  BY <1>1, <1>2, ElementOfSeq
<1>4. QED
  BY <1>1, <1>3 DEF Events

LEMMA ViolateStep ==
  ASSUME IInv, NEW t \in Tasks, Violate(t)
  PROVE  IInv'
<1> DEFINE e == task[t].event
           q == RunsAfter(t, e)
<1>1. /\ task[t].pc \in {"told", "judging"}
      /\ runs' = q /\ latest' = {Report(t, events[e].of, e, events[e].kind)}
      /\ setting' = setting /\ context' = context /\ status' = status /\ host' = host /\ ops' = ops
      /\ events' = events /\ disturbed' = disturbed
  BY DEF Violate
<1>2. PICK stage \in {"judging", "raised"} : task' = [task EXCEPT ![t].pc = stage]
  BY DEF Violate, Goto
<1>3. task \in [Tasks -> [pc : {"idle", "look", "told", "judging", "raised"}, event : Nat]]
  BY DEF IInv, Typed
<1>4. task[t] # Idle
  BY <1>1 DEF Idle
<1>5. /\ e \in 1 .. Len(events) /\ events[e].of \in Sessions /\ events[e].kind \in Kinds
      /\ events[e] = [of |-> events[e].of, kind |-> events[e].kind]
  BY <1>4, TaskEvent
<1>6. /\ RunsTyped(q) /\ Extends(runs, q) /\ EndedOnly(q)
      /\ \A u \in Sessions : /\ OneRunOf(runs, u) => OneRunOf(q, u)
                             /\ LLMCalls(q, u) = LLMCalls(runs, u)
                             /\ ToolCalls(q, u) = ToolCalls(runs, u)
  BY RunsAfterKeeps DEF IInv
<1> HIDE DEF q
<1>7. /\ task' \in [Tasks -> [pc : {"idle", "look", "told", "judging", "raised"}, event : Nat]]
      /\ task'[t].pc = stage /\ task'[t].event = e
      /\ \A u \in Tasks : u # t => task'[u] = task[u]
  BY <1>2, <1>3
<1>8. Typed'
  <2>1. RunsTyped(runs)'
    BY <1>1, <1>6 DEF RunsTyped
  <2>2. QED
    BY <2>1, <1>1, <1>7 DEF IInv, Typed
<1>9. TasksKept'
  <2>1. \A u \in Tasks : task'[u].event = task[u].event
    BY <1>7
  <2>2. task'[t] # Idle /\ task'[t].pc # "idle"
    BY <1>7 DEF Idle
  <2>3. \A u \in Tasks : task'[u] # Idle => task[u] # Idle
    BY <1>4, <1>7
  <2>4. \A u \in Tasks : task'[u] = Idle \/ (task'[u].pc # "idle" /\ task'[u].event \in 1 .. Len(events))
    BY <2>2, <1>5, <1>7 DEF IInv, TasksKept
  <2>5. \A u, v \in Tasks : task'[u] # Idle /\ task'[u].event = task'[v].event => v = u
    BY <2>1, <2>3 DEF IInv, TasksKept
  <2>6. \A u \in Tasks : task'[u].pc \in {"told", "judging", "raised"} /\ events[task'[u].event].kind # "other" =>
          task'[u].event \in DOMAIN ops
    BY <2>1, <1>1, <1>7 DEF IInv, TasksKept
  <2>7. QED
    BY <2>4, <2>5, <2>6, <1>1 DEF TasksKept
<1>10. OpsKept'
  <2>1. Len(runs.all) \in Nat /\ Len(runs'.all) \in Nat
    BY <1>1, <1>6, TableTyped DEF IInv, Typed
  <2>2. \A u \in Tasks : task[u].pc \in {"told", "judging", "raised"} =>
          task'[u].event = task[u].event /\ task'[u].pc \in {"told", "judging", "raised"}
    BY <1>7
  <2>3. QED
    BY <2>1, <2>2, <1>1, <1>6, OpsSame DEF IInv, Extends
<1>11. EndedOnly(runs)' /\ OneRun(runs)' /\ CountsRight(runs)'
  <2>1. \A u \in Tasks : task'[u] = task[u] \/ (task[u].pc # "look" /\ task'[u].pc # "look")
    BY <1>1, <1>7
  <2>2. QED
    BY <2>1, <1>1, <1>6, QuietTable
<1>12. ViolationsPlaced'
  <2>1. e \notin DOMAIN ops => events[e].kind = "other"
    BY <1>1 DEF IInv, TasksKept
  <2>2. \A r \in 1 .. Len(q.all) : runs'.all[r].of = q.all[r].of
    BY <1>1
  <2>3. QED
    BY <2>1, <2>2, <1>1, <1>5, ReportKept DEF q
<1>13. QED
  BY <1>8, <1>9, <1>10, <1>11, <1>12 DEF IInv

\* A task that is done with its event leaves the others theirs.
LEMMA TaskDone ==
  ASSUME IInv, NEW t \in Tasks, task[t] # Idle,
         task' = [task EXCEPT ![t] = Idle], events' = events,
         \A i \in DOMAIN ops : i # task[t].event => i \in DOMAIN ops'
  PROVE  TasksKept'
<1> DEFINE e == task[t].event
<1>1. task'[t] = Idle /\ \A u \in Tasks : u # t => task'[u] = task[u]
  BY DEF IInv, Typed
<1>2. \A u \in Tasks : task[u].event = e => u = t
  BY DEF IInv, TasksKept
<1>3. Idle.pc = "idle" /\ Idle.event = 0
  BY DEF Idle
<1>4. \A u \in Tasks : task'[u] # Idle => u # t /\ task'[u] = task[u] /\ task[u].event # 0
  <2>1. \A u \in Tasks : task[u] # Idle => task[u].event \in 1 .. Len(events)
    BY DEF IInv, TasksKept
  <2>2. 0 \notin 1 .. Len(events)
    OBVIOUS
  <2>3. QED
    BY <2>1, <2>2, <1>1
<1>5. \A u \in Tasks : task'[u] = Idle \/ (task'[u].pc # "idle" /\ task'[u].event \in 1 .. Len(events))
  BY <1>4 DEF IInv, TasksKept
<1>6. \A u, v \in Tasks : task'[u] # Idle /\ task'[u].event = task'[v].event => v = u
  BY <1>1, <1>3, <1>4 DEF IInv, TasksKept
<1>7. \A u \in Tasks : task'[u].pc \in {"told", "judging", "raised"} /\ events[task'[u].event].kind # "other" =>
        task'[u].event \in DOMAIN ops'
  BY <1>1, <1>2, <1>3 DEF IInv, TasksKept
<1>8. QED
  BY <1>5, <1>6, <1>7 DEF TasksKept

\* on_event_end closes the event, whatever became of it.
LEMMA FinishStep ==
  ASSUME IInv, NEW t \in Tasks, Finish(t)
  PROVE  IInv'
<1> DEFINE e == task[t].event
<1>1. /\ task[t].pc \in {"told", "judging", "raised"}
      /\ task' = [task EXCEPT ![t] = Idle]
      /\ ops' = [i \in DOMAIN ops \ {e} |-> ops[i]]
      /\ setting' = setting /\ context' = context /\ status' = status /\ host' = host /\ runs' = runs
      /\ events' = events /\ disturbed' = disturbed /\ latest' = {}
  BY DEF Finish
<1>2. /\ task \in [Tasks -> [pc : {"idle", "look", "told", "judging", "raised"}, event : Nat]]
      /\ RunsTyped(runs) /\ ops \in [DOMAIN ops -> Nat] /\ DOMAIN ops \subseteq 1 .. Len(events)
  BY DEF IInv, Typed
<1>3. task[t] # Idle
  BY <1>1 DEF Idle
<1>4. /\ task' \in [Tasks -> [pc : {"idle", "look", "told", "judging", "raised"}, event : Nat]]
      /\ task'[t] = Idle /\ \A u \in Tasks : u # t => task'[u] = task[u]
  BY <1>1, <1>2 DEF Idle
<1>5. /\ DOMAIN ops' = DOMAIN ops \ {e} /\ \A i \in DOMAIN ops' : ops'[i] = ops[i]
      /\ ops' \in [DOMAIN ops' -> Nat] /\ DOMAIN ops' \subseteq 1 .. Len(events)
  BY <1>1, <1>2
<1>6. \A u \in Tasks : task[u].event = e => u = t
  BY <1>3 DEF IInv, TasksKept
<1>7. Typed'
  <2>1. RunsTyped(runs)'
    BY <1>1, <1>2 DEF RunsTyped
  <2>2. QED
    BY <2>1, <1>1, <1>4, <1>5 DEF IInv, Typed
<1>8. TasksKept'
  BY <1>1, <1>3, <1>5, TaskDone
<1>9. OpsKept'
  <2>1. ASSUME NEW i \in DOMAIN ops'
        PROVE  /\ events[i].kind # "other"
               /\ ops'[i] \in 1 .. Len(runs.all)
               /\ runs.all[ops'[i]].of = events[i].of
               /\ \/ events[i].of \in disturbed
                  \/ \E u \in Tasks : task'[u].event = i /\ task'[u].pc \in {"told", "judging", "raised"}
    <3>1. i \in DOMAIN ops /\ i # e /\ ops'[i] = ops[i]
      BY <1>5
    <3>2. /\ events[i].kind # "other"
          /\ ops[i] \in 1 .. Len(runs.all)
          /\ runs.all[ops[i]].of = events[i].of
          /\ \/ events[i].of \in disturbed
             \/ \E u \in Tasks : task[u].event = i /\ task[u].pc \in {"told", "judging", "raised"}
      BY <3>1 DEF IInv, OpsKept
    <3>3. \A u \in Tasks : task[u].event = i => task'[u] = task[u]
      BY <3>1, <1>4
    <3>4. QED
      BY <3>1, <3>2, <3>3
  <2>2. QED
    BY <2>1, <1>1 DEF OpsKept
<1>10. EndedOnly(runs)' /\ OneRun(runs)' /\ CountsRight(runs)'
  <2>1. \A u \in Tasks : task'[u] = task[u] \/ (task[u].pc # "look" /\ task'[u].pc # "look")
    BY <1>1, <1>4 DEF Idle
  <2>2. QED
    BY <2>1, <1>1, <1>2, QuietTable DEF IInv
<1>11. ViolationsPlaced'
  BY <1>1 DEF ViolationsPlaced
<1>12. QED
  BY <1>7, <1>8, <1>9, <1>10, <1>11 DEF IInv

\* An observer that raises leaves the event open, and marks its session as disturbed.
LEMMA BreakStep ==
  ASSUME IInv, NEW t \in Tasks, Break(t)
  PROVE  IInv'
<1> DEFINE e == task[t].event
<1>1. /\ task[t].pc = "told"
      /\ task' = [task EXCEPT ![t] = Idle]
      /\ disturbed' = disturbed \cup {events[e].of}
      /\ setting' = setting /\ context' = context /\ status' = status /\ host' = host /\ runs' = runs
      /\ ops' = ops /\ events' = events /\ latest' = {}
  BY DEF Break
<1>2. /\ task \in [Tasks -> [pc : {"idle", "look", "told", "judging", "raised"}, event : Nat]]
      /\ RunsTyped(runs) /\ disturbed \subseteq Sessions
  BY DEF IInv, Typed
<1>3. task[t] # Idle
  BY <1>1 DEF Idle
<1>4. events[e].of \in Sessions
  BY <1>3, TaskEvent
<1>5. /\ task' \in [Tasks -> [pc : {"idle", "look", "told", "judging", "raised"}, event : Nat]]
      /\ task'[t] = Idle /\ \A u \in Tasks : u # t => task'[u] = task[u]
  BY <1>1, <1>2 DEF Idle
<1>6. Typed'
  <2>1. RunsTyped(runs)'
    BY <1>1, <1>2 DEF RunsTyped
  <2>2. QED
    BY <2>1, <1>1, <1>4, <1>5 DEF IInv, Typed
<1>7. TasksKept'
  BY <1>1, <1>3, TaskDone
<1>8. OpsKept'
  <2>1. Len(runs.all) \in Nat /\ Extends(runs, runs')
    BY <1>1, <1>2, TableTyped DEF Extends
  <2>2. \A u \in Tasks : task[u].pc \in {"told", "judging", "raised"} =>
          \/ task'[u].event = task[u].event /\ task'[u].pc \in {"told", "judging", "raised"}
          \/ events[task[u].event].of \in disturbed'
    BY <1>1, <1>5
  <2>3. QED
    BY <2>1, <2>2, <1>1, OpsSame DEF IInv, Extends
<1>9. EndedOnly(runs)' /\ OneRun(runs)' /\ CountsRight(runs)'
  <2>1. \A u \in Tasks : task'[u] = task[u] \/ (task[u].pc # "look" /\ task'[u].pc # "look")
    BY <1>1, <1>5 DEF Idle
  <2>2. QED
    BY <2>1, <1>1, <1>2, QuietTable DEF IInv
<1>10. ViolationsPlaced'
  BY <1>1 DEF ViolationsPlaced
<1>11. QED
  BY <1>6, <1>7, <1>8, <1>9, <1>10 DEF IInv

\* The session ends: its run from before, or one started for it, is ended, and it is the
\* only one that it has.
LEMMA SessionEnded ==
  ASSUME IInv, NEW s \in Sessions, status[s] = "open",
         NEW rs, RunsTyped(rs), EndedOnly(rs), rs.current[s] # 0,
         \A u \in Sessions : OneRunOf(runs, u) => OneRunOf(rs, u),
         \A u \in Sessions : LLMCalls(rs, u) = LLMCalls(runs, u) /\ ToolCalls(rs, u) = ToolCalls(runs, u),
         runs' = EndRun(rs, s), status' = [status EXCEPT ![s] = "ended"],
         events' = events, task' = task, disturbed' = disturbed
  PROVE  /\ RunsTyped(runs)' /\ EndedOnly(runs)' /\ OneRun(runs)' /\ CountsRight(runs)'
         /\ \A r \in 1 .. Len(rs.all) : runs'.all[r].of = rs.all[r].of
         /\ Len(runs'.all) = Len(rs.all)
<1> DEFINE i == rs.current[s]
           n == Len(rs.all)
           q == EndRun(rs, s)
<1>1. /\ RunsTyped(q) /\ Len(q.all) = n
      /\ i \in 1 .. n
      /\ \A r \in 1 .. n :
           /\ q.all[r].of = rs.all[r].of /\ q.all[r].late = rs.all[r].late
           /\ q.all[r].llm = rs.all[r].llm /\ q.all[r].tool = rs.all[r].tool
           /\ r # i => q.all[r] = rs.all[r]
      /\ q.all[i].ended = 1
      /\ \A u \in Sessions : u # s => q.current[u] = rs.current[u]
  BY EndRunTable
<1> HIDE DEF q
<1>2. /\ status \in [Sessions -> {"new", "open", "broken", "ended"}]
      /\ status'[s] = "ended" /\ \A u \in Sessions : u # s => status'[u] = status[u]
      /\ runs' = q
  BY DEF IInv, Typed, q
<1>3. rs.all[i].of = s
  BY DEF RunsTyped
<1>4. \A r \in 1 .. n : rs.all[r] \in Runs /\ rs.all[r].of \in Sessions
  BY TableTyped DEF Runs
<1>5. EndedOnly(runs)'
  <2>1. ASSUME NEW r \in 1 .. n, q.all[r].ended # 0
        PROVE  status'[q.all[r].of] = "ended"
    <3>1. CASE r = i
      BY <3>1, <1>1, <1>2, <1>3
    <3>2. CASE r # i
      <4>1. status[rs.all[r].of] = "ended"
        BY <3>2, <2>1, <1>1 DEF EndedOnly
      <4>2. QED
        BY <4>1, <3>2, <1>1, <1>2, <1>4
    <3>3. QED
      BY <3>1, <3>2
  <2>2. QED
    BY <2>1, <1>1, <1>2 DEF EndedOnly
<1>6. OneRun(runs)'
  <2>1. ASSUME NEW u \in Sessions \ disturbed
        PROVE  OneRunOf(runs, u)'
    <3>1. OneRunOf(rs, u)
      BY DEF IInv, OneRun
    <3>2. CASE u = s
      <4>1. \A r \in 1 .. n : rs.all[r].of = s => r = i /\ ~rs.all[r].late
        BY <3>1, <3>2 DEF OneRunOf
      <4>2. q.all[i].of = s /\ ~q.all[i].late /\ q.all[i].ended = 1
        BY <4>1, <1>1, <1>3
      <4>3. \A r \in 1 .. n : q.all[r].of = s /\ ~q.all[r].late => r = i
        BY <4>1, <1>1
      <4>4. QED
        BY <4>2, <4>3, <3>2, <1>1, <1>2 DEF OneRunOf
    <3>3. CASE u # s /\ status[u] = "ended"
      <4>1. PICK r \in 1 .. n :
              /\ rs.all[r].of = u /\ ~rs.all[r].late /\ rs.all[r].ended = 1
              /\ \A p \in 1 .. n : rs.all[p].of = u /\ ~rs.all[p].late => p = r
        BY <3>1, <3>3 DEF OneRunOf
      <4>2. q.all[r] = rs.all[r]
        BY <4>1, <3>3, <1>1, <1>3
      <4>3. \A p \in 1 .. n : q.all[p].of = u /\ ~q.all[p].late => p = r
        BY <4>1, <1>1
      <4>4. QED
        BY <4>1, <4>2, <4>3, <3>3, <1>1, <1>2 DEF OneRunOf
    <3>4. CASE u # s /\ status[u] # "ended"
      <4>1. \A r \in 1 .. n : rs.all[r].of = u => r = rs.current[u] /\ ~rs.all[r].late
        BY <3>1, <3>4 DEF OneRunOf
      <4>2. \A r \in 1 .. n : q.all[r].of = u => r = q.current[u] /\ ~q.all[r].late
        BY <4>1, <3>4, <1>1
      <4>3. QED
        BY <4>2, <3>4, <1>1, <1>2 DEF OneRunOf
    <3>5. QED
      BY <3>2, <3>3, <3>4
  <2>2. QED
    BY <2>1 DEF OneRun
<1>7. CountsRight(runs)'
  <2>1. ASSUME NEW u \in Sessions \ disturbed, status'[u] # "ended"
        PROVE  CountsOf(runs, u)'
    <3>1. u # s /\ status[u] # "ended"
      BY <2>1, <1>2
    <3>2. CountsOf(runs, u)
      BY <3>1 DEF IInv, CountsRight
    <3>3. LLMCalls(q, u) = LLMCalls(rs, u) /\ ToolCalls(q, u) = ToolCalls(rs, u)
      <4>1. q.current[u] = rs.current[u]
        BY <3>1, <1>1
      <4>2. rs.current[u] # 0 => rs.current[u] \in 1 .. n
        BY DEF RunsTyped
      <4>3. QED
        BY <4>1, <4>2, <1>1 DEF LLMCalls, ToolCalls
    <3>4. \A kind \in {"llm", "tool"} : ToldCalls(u, kind)' = ToldCalls(u, kind)
      BY ToldSame
    <3>5. QED
      BY <3>2, <3>3, <3>4, <1>2, CountsSame
  <2>2. QED
    BY <2>1 DEF CountsRight
<1>8. RunsTyped(runs)'
  BY <1>1, <1>2 DEF RunsTyped
<1>9. QED
  BY <1>1, <1>2, <1>5, <1>6, <1>7, <1>8

\* The table at the end of a session, judged (if a clause fails) and with a run for it.
LEMMA ExitTable ==
  ASSUME IInv, NEW t \in Tasks, NEW s \in Sessions, NEW fails \in BOOLEAN,
         NEW judged, judged = IF fails THEN RunsAfter(t, Dummy) ELSE runs,
         NEW rs, rs = RunFor(judged, s)
  PROVE  /\ RunsTyped(judged) /\ EndedOnly(judged) /\ Extends(runs, judged)
         /\ RunsTyped(rs) /\ EndedOnly(rs) /\ Extends(judged, rs)
         /\ \A u \in Sessions :
              /\ OneRunOf(runs, u) => OneRunOf(judged, u) /\ OneRunOf(rs, u)
              /\ LLMCalls(judged, u) = LLMCalls(runs, u) /\ LLMCalls(rs, u) = LLMCalls(runs, u)
              /\ ToolCalls(judged, u) = ToolCalls(runs, u) /\ ToolCalls(rs, u) = ToolCalls(runs, u)
         /\ rs.current[s] # 0
         /\ rs.current[s] = IF runs.current[s] # 0 THEN runs.current[s] ELSE Len(rs.all)
<1>1. /\ RunsTyped(runs) /\ EndedOnly(runs)
      /\ status \in [Sessions -> {"new", "open", "broken", "ended"}]
      /\ context[t] \in Sessions \cup {None} /\ s \in Sessions \cup {None}
  BY DEF IInv, Typed
<1>2. judged = runs \/ judged = RunFor(runs, context[t])
  BY DEF RunsAfter
<1>3. /\ RunsTyped(judged) /\ EndedOnly(judged) /\ Extends(runs, judged)
      /\ \A u \in Sessions : /\ OneRunOf(runs, u) => OneRunOf(judged, u)
                             /\ LLMCalls(judged, u) = LLMCalls(runs, u)
                             /\ ToolCalls(judged, u) = ToolCalls(runs, u)
  <2>1. CASE fails
    BY <2>1, RunsAfterKeeps DEF IInv
  <2>2. CASE ~fails
    <3>1. Extends(runs, runs)
      BY <1>1, TableTyped DEF Extends
    <3>2. QED
      BY <3>1, <2>2, <1>1
  <2>3. QED
    BY <2>1, <2>2
<1>4. RunsTyped(rs) /\ Extends(judged, rs) /\ rs.current[s] # 0
  BY <1>1, <1>3, RunForTable
<1>5. /\ EndedOnly(rs)
      /\ \A u \in Sessions : /\ OneRunOf(judged, u) => OneRunOf(rs, u)
                             /\ LLMCalls(rs, u) = LLMCalls(judged, u)
                             /\ ToolCalls(rs, u) = ToolCalls(judged, u)
  BY <1>1, <1>3, RunForKeeps
<1>6. judged.current[s] # 0 => rs = judged
  BY DEF RunFor
<1>7. judged.current[s] = 0 => rs.current[s] = Len(rs.all)
  BY <1>1, <1>3, RunForCurrent
<1>8. judged.current[s] = runs.current[s] \/ (runs.current[s] = 0 /\ judged.current[s] = Len(judged.all))
  <2>1. CASE judged = runs
    BY <2>1
  <2>2. CASE judged = RunFor(runs, context[t])
    <3> DEFINE c == context[t]
    <3> HIDE DEF c
    <3>1. c \in Sessions \cup {None} /\ judged = RunFor(runs, c)
      BY <2>2, <1>1 DEF c
    <3>2. QED
      BY <3>1, <1>1, RunForCurrent
  <2>3. QED
    BY <2>1, <2>2, <1>2
<1>9. rs.current[s] = IF runs.current[s] # 0 THEN runs.current[s] ELSE Len(rs.all)
  BY <1>6, <1>7, <1>8
<1>10. QED
  BY <1>3, <1>4, <1>5, <1>9

LEMMA ExitStep ==
  ASSUME IInv, NEW t \in Tasks, NEW s \in Sessions, Exit(t, s)
  PROVE  IInv'
<1>1. /\ task[t] = Idle /\ status[s] = "open"
      /\ setting' = setting /\ host' = host /\ ops' = ops /\ task' = task
      /\ events' = events /\ disturbed' = disturbed
  BY DEF Exit, Innermost
<1>2. PICK fails \in BOOLEAN, raises \in BOOLEAN :
        LET judged == IF fails THEN RunsAfter(t, Dummy) ELSE runs
        IN  /\ latest' = IF fails THEN {Report(t, s, Dummy, "other")} ELSE {}
            /\ IF raises
                 THEN /\ runs' = judged
                      /\ status' = [status EXCEPT ![s] = "broken"]
                      /\ context' = context
                 ELSE /\ runs' = EndRun(RunFor(judged, s), s)
                      /\ status' = [status EXCEPT ![s] = "ended"]
                      /\ context' = [context EXCEPT ![t] = host[s][2]]
  BY DEF Exit
<1> DEFINE judged == IF fails THEN RunsAfter(t, Dummy) ELSE runs
           rs == RunFor(judged, s)
<1>3. /\ latest' = IF fails THEN {Report(t, s, Dummy, "other")} ELSE {}
      /\ raises => /\ runs' = judged
                   /\ status' = [status EXCEPT ![s] = "broken"]
                   /\ context' = context
      /\ ~raises => /\ runs' = EndRun(rs, s)
                    /\ status' = [status EXCEPT ![s] = "ended"]
                    /\ context' = [context EXCEPT ![t] = host[s][2]]
  BY <1>2
<1>4. fails => judged = RunsAfter(t, Dummy)
  OBVIOUS
<1>5. /\ RunsTyped(judged) /\ EndedOnly(judged) /\ Extends(runs, judged)
      /\ RunsTyped(rs) /\ EndedOnly(rs) /\ Extends(judged, rs)
      /\ \A u \in Sessions :
           /\ OneRunOf(runs, u) => OneRunOf(judged, u) /\ OneRunOf(rs, u)
           /\ LLMCalls(judged, u) = LLMCalls(runs, u) /\ LLMCalls(rs, u) = LLMCalls(runs, u)
           /\ ToolCalls(judged, u) = ToolCalls(runs, u) /\ ToolCalls(rs, u) = ToolCalls(runs, u)
      /\ rs.current[s] # 0
  BY ExitTable
<1> HIDE DEF judged, rs
<1>6. /\ context \in [Tasks -> Sessions \cup {None}]
      /\ status \in [Sessions -> {"new", "open", "broken", "ended"}]
      /\ host \in [Sessions -> {<<>>} \cup (Tasks \X (Sessions \cup {None}))]
      /\ host[s] # <<>>
  BY <1>1 DEF IInv, Typed
<1>7. /\ RunsTyped(runs') /\ RunsTyped(runs)'
      /\ EndedOnly(runs)' /\ OneRun(runs)' /\ CountsRight(runs)'
      /\ \A r \in 1 .. Len(judged.all) : runs'.all[r].of = judged.all[r].of
      /\ Len(judged.all) <= Len(runs'.all)
  <2>1. CASE raises
    <3>1. \A u \in Sessions : status'[u] = "ended" <=> status[u] = "ended"
      BY <2>1, <1>1, <1>3, <1>6
    <3>2. EndedOnly(runs)' /\ OneRun(runs)' /\ CountsRight(runs)'
      BY <3>1, <2>1, <1>1, <1>3, <1>5, QuietTable
    <3>3. Len(judged.all) \in Nat
      BY <1>5, TableTyped
    <3>4. RunsTyped(runs)'
      BY <2>1, <1>3, <1>5 DEF RunsTyped
    <3>5. QED
      BY <3>2, <3>3, <3>4, <2>1, <1>3, <1>5
  <2>2. CASE ~raises
    <3>1. /\ RunsTyped(runs)' /\ EndedOnly(runs)' /\ OneRun(runs)' /\ CountsRight(runs)'
          /\ \A r \in 1 .. Len(rs.all) : runs'.all[r].of = rs.all[r].of
          /\ Len(runs'.all) = Len(rs.all)
      BY <2>2, <1>1, <1>3, <1>5, SessionEnded
    <3>2. Len(judged.all) \in Nat /\ Len(rs.all) \in Nat
      BY <1>5, TableTyped
    <3>3. Len(judged.all) <= Len(rs.all) /\ \A r \in 1 .. Len(judged.all) : rs.all[r].of = judged.all[r].of
      BY <1>5 DEF Extends
    <3>4. \A r \in 1 .. Len(judged.all) : r \in 1 .. Len(rs.all)
      BY <3>2, <3>3
    <3>5. RunsTyped(runs')
      BY <3>1 DEF RunsTyped
    <3>6. QED
      BY <3>1, <3>3, <3>4, <3>5
  <2>3. QED
    BY <2>1, <2>2
<1>8. Typed'
  <2>1. host[s][2] \in Sessions \cup {None}
    BY <1>6
  <2>2. context' \in [Tasks -> Sessions \cup {None}]
    BY <2>1, <1>3, <1>6
  <2>3. /\ status' \in [Sessions -> {"new", "open", "broken", "ended"}]
        /\ \A u \in Sessions : status'[u] # "new" => status[u] # "new"
    BY <1>1, <1>3, <1>6
  <2>4. QED
    BY <2>2, <2>3, <1>1, <1>7 DEF IInv, Typed
<1>9. TasksKept'
  BY <1>1 DEF IInv, TasksKept
<1>10. OpsKept'
  <2>1. RunsTyped(runs)
    BY DEF IInv, Typed
  <2>2. Len(runs.all) \in Nat /\ Len(judged.all) \in Nat /\ Len(runs'.all) \in Nat
    BY <2>1, <1>5, <1>7, TableTyped
  <2>3. Len(runs.all) <= Len(judged.all) /\ \A r \in 1 .. Len(runs.all) : judged.all[r].of = runs.all[r].of
    BY <1>5 DEF Extends
  <2>4. \A r \in 1 .. Len(runs.all) : r \in 1 .. Len(judged.all)
    BY <2>2, <2>3
  <2>5. Len(runs.all) <= Len(runs'.all)
    BY <2>2, <2>3, <1>7
  <2>6. \A r \in 1 .. Len(runs.all) : runs'.all[r].of = runs.all[r].of
    BY <2>3, <2>4, <1>7
  <2>7. QED
    BY <2>2, <2>5, <2>6, <1>1, OpsSame DEF IInv
<1>11. ViolationsPlaced'
  <2>1. CASE fails
    <3>1. Dummy \notin DOMAIN ops
      BY DEF IInv, Typed, Dummy
    <3>2. latest' = {Report(t, s, Dummy, "other")}
      BY <2>1, <1>3
    <3>3. "other" \in Kinds
      BY DEF Kinds
    <3>4. \A r \in 1 .. Len(RunsAfter(t, Dummy).all) : runs'.all[r].of = RunsAfter(t, Dummy).all[r].of
      BY <2>1, <1>4, <1>7
    <3>5. QED
      BY <3>1, <3>2, <3>3, <3>4, <1>1, ReportKept
  <2>2. CASE ~fails
    BY <2>2, <1>3 DEF ViolationsPlaced
  <2>3. QED
    BY <2>1, <2>2
<1>12. QED
  BY <1>7, <1>8, <1>9, <1>10, <1>11 DEF IInv

\* on_event of task t has the table rs, with a run for the session s of the event e.
Tells(t, s, kind, e, rs) ==
  /\ e # 0
  /\ RunsTyped(rs) /\ EndedOnly(rs) /\ Extends(runs, rs) /\ rs.current[s] # 0
  /\ disturbed \subseteq disturbed' /\ disturbed' \subseteq Sessions
  /\ \A u \in Sessions \ disturbed' : /\ OneRunOf(runs, u) => OneRunOf(rs, u)
                                      /\ LLMCalls(rs, u) = LLMCalls(runs, u)
                                      /\ ToolCalls(rs, u) = ToolCalls(runs, u)
  /\ events' \in Seq(Events) /\ 1 .. Len(events') = (1 .. Len(events)) \cup {e}
  /\ \A i \in 1 .. Len(events) : events'[i] = events[i]
  /\ events'[e] = [of |-> s, kind |-> kind]
  /\ task[t] = Idle \/ (task[t].pc = "look" /\ task[t].event = e)
  /\ e \notin (1 .. Len(events)) \ Looking
  /\ \A u \in Tasks : task[u].event = e => u = t
  /\ task' = [task EXCEPT ![t] = [pc |-> "told", event |-> e]]
  /\ runs' = Counted(rs, s, kind)
  /\ ops' = [i \in DOMAIN ops \cup (IF kind = "other" THEN {} ELSE {e}) |->
               IF i = e THEN rs.current[s] ELSE ops[i]]
  /\ latest' = {} /\ UNCHANGED <<setting, context, status, host>>

\* The event is counted, and open if it is a call.
LEMMA ToldStep ==
  ASSUME IInv, NEW t \in Tasks, NEW s \in Sessions, NEW kind \in Kinds, NEW e, NEW rs,
         Tells(t, s, kind, e, rs)
  PROVE  IInv'
<1> USE DEF Tells
<1> DEFINE q == Counted(rs, s, kind)
<1>1. /\ RunsTyped(q) /\ Extends(rs, q) /\ Len(q.all) = Len(rs.all)
      /\ q.current = rs.current
      /\ \A u \in Sessions : u # s => LLMCalls(q, u) = LLMCalls(rs, u) /\ ToolCalls(q, u) = ToolCalls(rs, u)
      /\ LLMCalls(q, s) = LLMCalls(rs, s) + (IF kind = "llm" THEN 1 ELSE 0)
      /\ ToolCalls(q, s) = ToolCalls(rs, s) + (IF kind = "tool" THEN 1 ELSE 0)
  BY CountedTable
<1>2. EndedOnly(q) /\ \A u \in Sessions : OneRunOf(rs, u) => OneRunOf(q, u)
  BY CountedKeeps
<1>3. runs' = q
  OBVIOUS
<1> HIDE DEF q
<1>4. /\ task \in [Tasks -> [pc : {"idle", "look", "told", "judging", "raised"}, event : Nat]]
      /\ RunsTyped(runs) /\ ops \in [DOMAIN ops -> Nat] /\ DOMAIN ops \subseteq 1 .. Len(events)
      /\ events \in Seq(Events)
      /\ status \in [Sessions -> {"new", "open", "broken", "ended"}]
  BY DEF IInv, Typed
<1>5. Len(runs.all) \in Nat /\ Len(rs.all) \in Nat /\ Len(events) \in Nat /\ Len(events') \in Nat
  BY <1>4, TableTyped, LenProperties
<1>6. e \in 1 .. Len(events') /\ e \in Nat /\ \A i \in 1 .. Len(events) : i \in 1 .. Len(events')
  <2>1. 1 .. Len(events') = (1 .. Len(events)) \cup {e}
    OBVIOUS
  <2>2. e \in 1 .. Len(events') /\ \A i \in 1 .. Len(events) : i \in 1 .. Len(events')
    BY ONLY <2>1
  <2>3. \A m \in Nat : \A i \in 1 .. m : i \in Nat
    OBVIOUS
  <2>4. QED
    BY ONLY <2>2, <2>3, <1>5
<1>7. /\ task' \in [Tasks -> [pc : {"idle", "look", "told", "judging", "raised"}, event : Nat]]
      /\ task'[t].pc = "told" /\ task'[t].event = e
      /\ \A u \in Tasks : u # t => task'[u] = task[u]
  BY <1>4, <1>6
<1>8. /\ DOMAIN ops' = DOMAIN ops \cup (IF kind = "other" THEN {} ELSE {e})
      /\ \A i \in DOMAIN ops' : ops'[i] = IF i = e THEN rs.current[s] ELSE ops[i]
      /\ ops' = [i \in DOMAIN ops' |-> IF i = e THEN rs.current[s] ELSE ops[i]]
  OBVIOUS
<1>9. rs.current[s] \in 1 .. Len(rs.all) /\ rs.all[rs.current[s]].of = s /\ rs.current[s] \in Nat
  BY <1>5 DEF RunsTyped
<1>10. Typed'
  <2>1. RunsTyped(runs)'
    BY <1>1, <1>3 DEF RunsTyped
  <2>2. \A i \in DOMAIN ops' : ops'[i] \in Nat
    BY <1>4, <1>8, <1>9
  <2>3. ops' \in [DOMAIN ops' -> Nat]
    BY <2>2, <1>8
  <2>4. DOMAIN ops' \subseteq 1 .. Len(events')
    BY <1>4, <1>6, <1>8
  <2>5. QED
    BY <2>1, <2>3, <2>4, <1>7 DEF IInv, Typed
<1>11. TasksKept'
  <2>1. ASSUME NEW u \in Tasks
        PROVE  task'[u] = Idle \/ (task'[u].pc # "idle" /\ task'[u].event \in 1 .. Len(events'))
    BY <1>6, <1>7 DEF IInv, TasksKept
  <2>2. \A u \in Tasks : u # t => task'[u].event # e
    BY <1>7
  <2>3. \A u, v \in Tasks : task'[u] # Idle /\ task'[u].event = task'[v].event => v = u
    BY <2>2, <1>7 DEF IInv, TasksKept
  <2>4. ASSUME NEW u \in Tasks, task'[u].pc \in {"told", "judging", "raised"},
               events'[task'[u].event].kind # "other"
        PROVE  task'[u].event \in DOMAIN ops'
    <3>1. CASE u = t
      <4>1. events'[e].kind = kind
        OBVIOUS
      <4>2. QED
        BY <4>1, <3>1, <2>4, <1>7, <1>8
    <3>2. CASE u # t
      <4>1. task'[u] = task[u] /\ task[u].pc # "idle"
        BY <3>2, <2>4, <1>7
      <4>2. task[u].event \in 1 .. Len(events)
        BY <4>1 DEF IInv, TasksKept, Idle
      <4>3. task[u].event \in DOMAIN ops
        BY <4>1, <4>2, <2>4 DEF IInv, TasksKept
      <4>4. QED
        BY <4>1, <4>3, <1>8
    <3>3. QED
      BY <3>1, <3>2
  <2>5. QED
    BY <2>1, <2>3, <2>4 DEF TasksKept
<1>12. OpsKept'
  <2>1. /\ \A r \in 1 .. Len(runs.all) : r \in 1 .. Len(rs.all) /\ rs.all[r].of = runs.all[r].of
        /\ \A r \in 1 .. Len(rs.all) : q.all[r].of = rs.all[r].of
    BY <1>1, <1>5 DEF Extends
  <2>2. ASSUME NEW i \in DOMAIN ops'
        PROVE  /\ events'[i].kind # "other"
               /\ ops'[i] \in 1 .. Len(q.all)
               /\ q.all[ops'[i]].of = events'[i].of
               /\ \/ events'[i].of \in disturbed'
                  \/ \E u \in Tasks : task'[u].event = i /\ task'[u].pc \in {"told", "judging", "raised"}
    <3>1. CASE i = e
      <4>1. ops'[i] = rs.current[s] /\ events'[i].of = s /\ events'[i].kind = kind
        BY <3>1, <1>8
      <4>2. task'[t].event = i /\ task'[t].pc \in {"told", "judging", "raised"}
        BY <3>1, <1>7
      <4>3. kind # "other"
        <5>1. CASE e \in DOMAIN ops
          <6>1. events[e].kind # "other" /\ events'[e] = events[e]
            BY <5>1, <1>4 DEF IInv, OpsKept
          <6>2. QED
            BY <6>1, <4>1, <3>1
        <5>2. CASE e \notin DOMAIN ops
          BY <5>2, <3>1, <1>8
        <5>3. QED
          BY <5>1, <5>2
      <4>4. QED
        BY <4>1, <4>2, <4>3, <2>1, <1>1, <1>9
    <3>2. CASE i # e
      <4>1. i \in DOMAIN ops /\ ops'[i] = ops[i] /\ events'[i] = events[i]
        BY <3>2, <1>4, <1>8
      <4>2. /\ events[i].kind # "other"
            /\ ops[i] \in 1 .. Len(runs.all)
            /\ runs.all[ops[i]].of = events[i].of
            /\ \/ events[i].of \in disturbed
               \/ \E u \in Tasks : task[u].event = i /\ task[u].pc \in {"told", "judging", "raised"}
        BY <4>1 DEF IInv, OpsKept
      <4>3. \A u \in Tasks : task[u].event = i /\ task[u].pc \in {"told", "judging", "raised"} => u # t
        BY <3>2 DEF Idle
      <4>4. q.all[ops[i]].of = events[i].of /\ ops[i] \in 1 .. Len(q.all)
        BY <4>2, <2>1, <1>1
      <4>5. QED
        BY <4>1, <4>2, <4>3, <4>4, <1>7
    <3>3. QED
      BY <3>1, <3>2
  <2>3. QED
    BY ONLY <2>2, <1>3 DEF OpsKept
<1>13. Looking' = Looking \ {e}
  <2>1. \A u \in Tasks : task'[u].pc = "look" <=> task[u].pc = "look" /\ u # t
    BY <1>7
  <2>2. \A u \in Tasks : task[u].pc = "look" /\ task[u].event # e => u # t
    BY DEF Idle
  <2>3. QED
    BY <2>1, <2>2, <1>7 DEF Looking
<1>14. EndedOnly(runs)' /\ OneRun(runs)' /\ CountsRight(runs)'
  <2>1. \A u \in Sessions \ disturbed' : OneRunOf(runs, u) => OneRunOf(runs', u)
    BY <1>2, <1>3
  <2>2. ASSUME NEW u \in Sessions \ disturbed', CountsOf(runs, u)
        PROVE  CountsOf(runs, u)'
    <3>1. \A k \in {"llm", "tool"} :
            Cardinality(ToldCalls(u, k)') = Cardinality(ToldCalls(u, k)) + (IF u = s /\ k = kind THEN 1 ELSE 0)
      <4>1. ASSUME NEW k
            PROVE  Cardinality(ToldCalls(u, k)') = Cardinality(ToldCalls(u, k)) + (IF u = s /\ k = kind THEN 1 ELSE 0)
        <5>1. /\ events \in Seq(Events) /\ events' \in Seq(Events)
              /\ 1 .. Len(events') = (1 .. Len(events)) \cup {e}
              /\ \A i \in 1 .. Len(events) : events'[i] = events[i]
              /\ events'[e] = [of |-> s, kind |-> kind]
              /\ e \notin (1 .. Len(events)) \ Looking
              /\ Looking' = Looking \ {e}
          BY <1>4, <1>13
        <5>2. QED
          BY ONLY <5>1, ToldOneMore
      <4>2. QED
        BY <4>1
    <3>2. /\ LLMCalls(runs', u) = LLMCalls(runs, u) + (IF u = s /\ "llm" = kind THEN 1 ELSE 0)
          /\ ToolCalls(runs', u) = ToolCalls(runs, u) + (IF u = s /\ "tool" = kind THEN 1 ELSE 0)
      <4>1. LLMCalls(rs, u) = LLMCalls(runs, u) /\ ToolCalls(rs, u) = ToolCalls(runs, u)
        OBVIOUS
      <4>2. LLMCalls(runs, u) \in Nat /\ ToolCalls(runs, u) \in Nat
        BY <2>2, <1>4, ToldFinite DEF CountsOf
      <4>3. QED
        BY <4>1, <4>2, <1>1, <1>3
    <3>3. /\ LLMCalls(runs', u) = Cardinality(ToldCalls(u, "llm")')
          /\ ToolCalls(runs', u) = Cardinality(ToldCalls(u, "tool")')
      BY <3>1, <3>2, <2>2 DEF CountsOf
    <3>4. QED
      BY <3>3 DEF CountsOf, LLMCalls, ToolCalls
  <2>3. RunsTyped(runs') /\ EndedOnly(runs')
    BY <1>1, <1>2, <1>3
  <2>4. QED
    BY <2>1, <2>2, <2>3, TableStep
<1>15. ViolationsPlaced'
  BY DEF ViolationsPlaced
<1>16. QED
  BY <1>10, <1>11, <1>12, <1>14, <1>15 DEF IInv

LEMMA RecordStep ==
  ASSUME IInv, NEW t \in Tasks, NEW s \in Sessions, NEW kind \in Kinds, Record(t, s, kind)
  PROVE  IInv'
<1> DEFINE n == Len(events)
           new == [of |-> s, kind |-> kind]
<1>1. /\ task[t] = Idle
      /\ events' = Append(events, new)
      /\ latest' = {} /\ UNCHANGED <<setting, context, status, host>>
      /\ \/ /\ runs.current[s] # 0
            /\ task' = [task EXCEPT ![t] = [pc |-> "told", event |-> Len(events')]]
            /\ Told(runs, Len(events'))
            /\ disturbed' = disturbed
         \/ /\ task' = [task EXCEPT ![t] = [pc |-> "look", event |-> Len(events')]]
            /\ runs' = runs /\ ops' = ops /\ disturbed' = disturbed
         \/ /\ disturbed' = disturbed \cup {s}
            /\ task' = task /\ runs' = runs /\ ops' = ops
  BY DEF Record
<1>2. /\ task \in [Tasks -> [pc : {"idle", "look", "told", "judging", "raised"}, event : Nat]]
      /\ RunsTyped(runs) /\ ops \in [DOMAIN ops -> Nat] /\ DOMAIN ops \subseteq 1 .. Len(events)
      /\ events \in Seq(Events) /\ disturbed \subseteq Sessions
  BY DEF IInv, Typed
<1>3. new \in Events /\ n \in Nat
  BY <1>2, LenProperties DEF Events
<1>4. /\ events' \in Seq(Events) /\ Len(events') = n + 1
      /\ \A i \in 1 .. n : events'[i] = events[i]
      /\ events'[n + 1] = new
  BY <1>1, <1>2, <1>3, AppendProperties
<1> HIDE DEF n, new
<1>5. /\ 1 .. n + 1 = (1 .. n) \cup {n + 1} /\ n + 1 \notin 1 .. n /\ n + 1 # 0 /\ n + 1 \in Nat
      /\ 0 \notin 1 .. n
  BY <1>3
<1>6. \A u \in Tasks : task[u].event # n + 1 /\ (task[u] # Idle => task[u].event \in 1 .. n)
  <2>1. \A u \in Tasks : task[u] = Idle \/ task[u].event \in 1 .. n
    BY DEF IInv, TasksKept, n
  <2>2. Idle.event = 0
    BY DEF Idle
  <2>3. QED
    BY <2>1, <2>2, <1>5
<1>7. Extends(runs, runs) /\ Len(runs.all) \in Nat /\ EndedOnly(runs)
  BY <1>2, TableTyped DEF Extends, IInv
<1>8. ASSUME runs.current[s] # 0,
             task' = [task EXCEPT ![t] = [pc |-> "told", event |-> Len(events')]],
             Told(runs, Len(events')), disturbed' = disturbed
      PROVE  IInv'
  <2>1. new.of = s /\ new.kind = kind
    BY DEF new
  <2>2. /\ runs' = Counted(runs, s, kind)
        /\ ops' = [i \in DOMAIN ops \cup (IF kind = "other" THEN {} ELSE {n + 1}) |->
                     IF i = n + 1 THEN runs.current[s] ELSE ops[i]]
    BY <2>1, <1>4, <1>8 DEF Told
  <2>3. task' = [task EXCEPT ![t] = [pc |-> "told", event |-> n + 1]]
    BY <1>4, <1>8
  <2>4. /\ 1 .. Len(events') = (1 .. Len(events)) \cup {n + 1}
        /\ \A i \in 1 .. Len(events) : events'[i] = events[i]
        /\ events'[n + 1] = [of |-> s, kind |-> kind]
        /\ n + 1 \notin (1 .. Len(events)) \ Looking
    BY <1>4, <1>5 DEF n, new
  <2>5. \A u \in Tasks : task[u].event = n + 1 => u = t
    BY <1>6
  <2> DEFINE e == n + 1
  <2> HIDE DEF e
  <2>6. /\ e # 0 /\ runs' = Counted(runs, s, kind)
        /\ ops' = [i \in DOMAIN ops \cup (IF kind = "other" THEN {} ELSE {e}) |->
                     IF i = e THEN runs.current[s] ELSE ops[i]]
        /\ task' = [task EXCEPT ![t] = [pc |-> "told", event |-> e]]
        /\ 1 .. Len(events') = (1 .. Len(events)) \cup {e}
        /\ \A i \in 1 .. Len(events) : events'[i] = events[i]
        /\ events'[e] = [of |-> s, kind |-> kind]
        /\ e \notin (1 .. Len(events)) \ Looking
        /\ \A u \in Tasks : task[u].event = e => u = t
    BY <2>2, <2>3, <2>4, <2>5, <1>5 DEF e
  <2>7. disturbed \subseteq disturbed' /\ disturbed' \subseteq Sessions
    BY <1>2, <1>8
  <2>8. \A u \in Sessions \ disturbed' : /\ OneRunOf(runs, u) => OneRunOf(runs, u)
                                         /\ LLMCalls(runs, u) = LLMCalls(runs, u)
                                         /\ ToolCalls(runs, u) = ToolCalls(runs, u)
    OBVIOUS
  <2>9. task[t] = Idle \/ (task[t].pc = "look" /\ task[t].event = e)
    BY <1>1
  <2>10. IInv
    OBVIOUS
  <2>11. latest' = {} /\ UNCHANGED <<setting, context, status, host>>
    BY <1>1
  <2>12. t \in Tasks /\ s \in Sessions /\ kind \in Kinds /\ runs.current[s] # 0 /\ events' \in Seq(Events)
    BY <1>4, <1>8
  <2>13. Tells(t, s, kind, e, runs)
    BY ONLY <2>6, <2>7, <2>8, <2>9, <2>11, <2>12, <1>2, <1>7 DEF Tells
  <2>14. QED
    BY <2>13, ToldStep
\* No run, or no observer that gets so far: nobody is told.
<1>9. ASSUME runs' = runs, ops' = ops, disturbed \subseteq disturbed', disturbed' \subseteq Sessions,
             \/ task' = [task EXCEPT ![t] = [pc |-> "look", event |-> n + 1]]
             \/ task' = task /\ s \in disturbed'
      PROVE  IInv'
  <2>1. \/ task'[t].pc = "look" /\ task'[t].event = n + 1
        \/ task'[t] = task[t] /\ s \in disturbed'
    <3>1. CASE task' = [task EXCEPT ![t] = [pc |-> "look", event |-> n + 1]]
      BY <3>1, <1>2
    <3>2. CASE task' = task /\ s \in disturbed'
      BY <3>2
    <3>3. QED
      BY <3>1, <3>2, <1>9
  <2>2. \A u \in Tasks : u # t => task'[u] = task[u]
    BY <1>2, <1>9
  <2>3. task' \in [Tasks -> [pc : {"idle", "look", "told", "judging", "raised"}, event : Nat]]
    <3>1. [pc |-> "look", event |-> n + 1] \in [pc : {"idle", "look", "told", "judging", "raised"}, event : Nat]
      BY <1>5
    <3>2. QED
      BY <3>1, <1>2, <1>9
  <2>4. DOMAIN ops \subseteq 1 .. n + 1
    BY <1>2, <1>5 DEF n
  <2>5. Typed'
    <3>1. RunsTyped(runs)'
      BY <1>2, <1>9 DEF RunsTyped
    <3>2. QED
      BY <3>1, <2>3, <2>4, <1>1, <1>4, <1>9 DEF IInv, Typed
  <2>6. TasksKept'
    <3>1. \A u \in Tasks : task'[u] = Idle \/ (task'[u].pc # "idle" /\ task'[u].event \in 1 .. Len(events'))
      <4>1. \A u \in Tasks : task[u] = Idle \/ (task[u].pc # "idle" /\ task[u].event \in 1 .. n)
        BY DEF IInv, TasksKept, n
      <4>2. QED
        BY <4>1, <2>1, <2>2, <1>1, <1>4, <1>5
    <3>2. \A u, v \in Tasks : task'[u] # Idle /\ task'[u].event = task'[v].event => v = u
      BY <2>1, <2>2, <1>1, <1>6 DEF IInv, TasksKept
    <3>3. ASSUME NEW u \in Tasks, task'[u].pc \in {"told", "judging", "raised"},
                 events'[task'[u].event].kind # "other"
          PROVE  task'[u].event \in DOMAIN ops'
      <4>1. task'[u] = task[u] /\ task[u] # Idle
        BY <3>3, <2>1, <2>2, <1>1 DEF Idle
      <4>2. events'[task[u].event] = events[task[u].event]
        BY <4>1, <1>4, <1>6
      <4>3. QED
        BY <4>1, <4>2, <3>3, <1>9 DEF IInv, TasksKept
    <3>4. QED
      BY <3>1, <3>2, <3>3 DEF TasksKept
  <2>7. OpsKept'
    <3>1. \A u \in Tasks : task[u].pc \in {"told", "judging", "raised"} =>
            task'[u].event = task[u].event /\ task'[u].pc \in {"told", "judging", "raised"}
      BY <2>2, <1>1 DEF Idle
    <3>2. \A i \in 1 .. Len(events) : events'[i] = events[i]
      BY <1>4 DEF n
    <3>3. QED
      BY <3>1, <3>2, <1>7, <1>9, OpsSame DEF IInv, Extends
  <2>8. \A u \in Sessions \ disturbed' : \A k \in {"llm", "tool"} : ToldCalls(u, k)' = ToldCalls(u, k)
    <3>1. CASE task'[t].pc = "look" /\ task'[t].event = n + 1
      <4>1. Looking' = Looking \cup {n + 1}
        BY <3>1, <2>2, <1>1 DEF Looking, Idle
      <4>2. (1 .. n + 1) \ Looking' = (1 .. n) \ Looking
        BY <4>1, <1>5
      <4>3. QED
        BY <4>2, <1>4 DEF ToldCalls, n
    <3>2. CASE task'[t] = task[t] /\ s \in disturbed'
      <4>1. Looking' = Looking
        BY <3>2, <2>2 DEF Looking
      <4>2. ASSUME NEW u \in Sessions \ disturbed', NEW k
            PROVE  ToldCalls(u, k)' = ToldCalls(u, k)
        <5>1. u # s /\ new.of = s /\ [of |-> u, kind |-> k].of = u
          BY <3>2 DEF new
        <5>2. events'[n + 1] # [of |-> u, kind |-> k]
          BY <5>1, <1>4
        <5>3. ToldCalls(u, k)' = {i \in (1 .. n + 1) \ Looking : events'[i] = [of |-> u, kind |-> k]}
          BY <4>1, <1>4 DEF ToldCalls
        <5>4. ToldCalls(u, k) = {i \in (1 .. n) \ Looking : events[i] = [of |-> u, kind |-> k]}
          BY DEF ToldCalls, n
        <5>5. QED
          BY <5>2, <5>3, <5>4, <1>4, <1>5
      <4>3. QED
        BY <4>2
    <3>3. QED
      BY <3>1, <3>2, <2>1
  <2>9. \A u \in Sessions \ disturbed' : CountsOf(runs, u) => CountsOf(runs, u)'
    BY <2>8, <1>9, CountsSame
  <2>10. EndedOnly(runs)' /\ OneRun(runs)' /\ CountsRight(runs)'
    BY <2>9, <1>1, <1>2, <1>7, <1>9, TableStep
  <2>11. ViolationsPlaced'
    BY <1>1 DEF ViolationsPlaced
  <2>12. QED
    BY <2>5, <2>6, <2>7, <2>10, <2>11 DEF IInv
<1>10. QED
  BY <1>1, <1>2, <1>4, <1>8, <1>9

LEMMA StartStep ==
  ASSUME IInv, NEW t \in Tasks, Start(t)
  PROVE  IInv'
<1> DEFINE e == task[t].event
           s == events[e].of
           kind == events[e].kind
           rs == StartRun(runs, s)
<1>1. /\ task[t].pc = "look" /\ task' = [task EXCEPT ![t].pc = "told"] /\ events' = events
      /\ Told(rs, e)
      /\ disturbed' = IF runs.current[s] = 0 THEN disturbed ELSE disturbed \cup {s}
      /\ latest' = {} /\ UNCHANGED <<setting, context, status, host>>
  BY DEF Start, Goto
<1>2. task[t] # Idle
  BY <1>1 DEF Idle
<1>3. /\ e \in 1 .. Len(events) /\ s \in Sessions /\ kind \in Kinds
      /\ events[e] = [of |-> s, kind |-> kind]
  BY <1>2, TaskEvent
<1>4. /\ task \in [Tasks -> [pc : {"idle", "look", "told", "judging", "raised"}, event : Nat]]
      /\ RunsTyped(runs) /\ EndedOnly(runs) /\ events \in Seq(Events) /\ disturbed \subseteq Sessions
      /\ status \in [Sessions -> {"new", "open", "broken", "ended"}]
  BY DEF IInv, Typed
<1>5. task' = [task EXCEPT ![t] = [pc |-> "told", event |-> e]]
  <2>1. [task[t] EXCEPT !.pc = "told"] = [pc |-> "told", event |-> e]
    <3>1. task[t] \in [pc : {"idle", "look", "told", "judging", "raised"}, event : Nat]
      BY <1>4
    <3>2. QED
      BY <3>1
  <2>2. task' = [task EXCEPT ![t] = [task[t] EXCEPT !.pc = "told"]]
    BY <1>1
  <2>3. QED
    BY <2>1, <2>2
<1>6. /\ runs' = Counted(rs, s, kind)
      /\ ops' = [i \in DOMAIN ops \cup (IF kind = "other" THEN {} ELSE {e}) |->
                   IF i = e THEN rs.current[s] ELSE ops[i]]
  BY <1>1 DEF Told
<1>7. \A u \in Tasks : task[u].event = e => u = t
  BY <1>2 DEF IInv, TasksKept
<1>8. e \in Looking /\ e # 0
  BY <1>1, <1>3 DEF Looking
<1> HIDE DEF e, s, kind
<1>9. Len(runs.all) \in Nat
  BY <1>4, TableTyped
<1>10. RunsTyped(rs) /\ Extends(runs, rs) /\ rs.current[s] = Len(runs.all) + 1
  BY <1>3, <1>4, StartRunTable
<1>11. EndedOnly(rs) /\ \A u \in Sessions : u # s \/ runs.current[u] = 0 =>
                          /\ OneRunOf(runs, u) => OneRunOf(rs, u)
                          /\ LLMCalls(rs, u) = LLMCalls(runs, u)
                          /\ ToolCalls(rs, u) = ToolCalls(runs, u)
  BY <1>3, <1>4, StartRunKeeps
<1> HIDE DEF rs
<1>12. disturbed \subseteq disturbed' /\ disturbed' \subseteq Sessions
  BY <1>1, <1>3, <1>4
<1>13. \A u \in Sessions \ disturbed' : u # s \/ runs.current[u] = 0
  BY <1>1
<1>14. \A u \in Sessions \ disturbed' : /\ OneRunOf(runs, u) => OneRunOf(rs, u)
                                        /\ LLMCalls(rs, u) = LLMCalls(runs, u)
                                        /\ ToolCalls(rs, u) = ToolCalls(runs, u)
  BY <1>11, <1>13
<1>15. /\ 1 .. Len(events') = (1 .. Len(events)) \cup {e}
       /\ \A i \in 1 .. Len(events) : events'[i] = events[i]
       /\ events'[e] = [of |-> s, kind |-> kind]
       /\ e \notin (1 .. Len(events)) \ Looking /\ events' \in Seq(Events)
       /\ task[t] = Idle \/ (task[t].pc = "look" /\ task[t].event = e)
  BY <1>1, <1>3, <1>4, <1>8 DEF e
<1>16. rs.current[s] # 0
  BY <1>9, <1>10
<1>17. IInv /\ t \in Tasks /\ latest' = {} /\ UNCHANGED <<setting, context, status, host>>
  BY <1>1
<1>18. Tells(t, s, kind, e, rs)
  BY ONLY <1>3, <1>5, <1>6, <1>7, <1>8, <1>10, <1>11, <1>12, <1>14, <1>15, <1>16, <1>17 DEF Tells
<1>19. QED
  BY <1>3, <1>18, ToldStep

LEMMA NextIInv == IInv /\ [Next]_vars => IInv'
<1> SUFFICES ASSUME IInv, [Next]_vars
             PROVE  IInv'
  OBVIOUS
<1>1. ASSUME NEW t \in Tasks, NEW s \in Sessions, Enter(t, s)
      PROVE  IInv'
  BY <1>1, EnterStep
<1>2. ASSUME NEW t \in Tasks, NEW s \in Sessions, Exit(t, s)
      PROVE  IInv'
  BY <1>2, ExitStep
<1>3. ASSUME NEW t \in Tasks, NEW u \in Tasks, Inherit(u, t)
      PROVE  IInv'
  BY <1>3, InheritStep
<1>4. ASSUME NEW t \in Tasks, NEW s \in Sessions, NEW kind \in Kinds, Record(t, s, kind)
      PROVE  IInv'
  BY <1>4, RecordStep
<1>5. ASSUME NEW t \in Tasks, Start(t)
      PROVE  IInv'
  BY <1>5, StartStep
<1>6. ASSUME NEW t \in Tasks, Violate(t)
      PROVE  IInv'
  BY <1>6, ViolateStep
<1>7. ASSUME NEW t \in Tasks, Finish(t)
      PROVE  IInv'
  BY <1>7, FinishStep
<1>8. ASSUME NEW t \in Tasks, Break(t)
      PROVE  IInv'
  BY <1>8, BreakStep
<1>9. CASE UNCHANGED vars
  <2>1. /\ setting' = setting /\ context' = context /\ status' = status /\ host' = host /\ runs' = runs
        /\ ops' = ops /\ task' = task /\ events' = events /\ latest' = latest /\ disturbed' = disturbed
    BY <1>9 DEF vars
  <2>2. Typed' /\ TasksKept' /\ OpsKept'
    BY <2>1 DEF IInv, Typed, RunsTyped, TasksKept, OpsKept
  <2>3. EndedOnly(runs)' /\ OneRun(runs)' /\ CountsRight(runs)'
    BY <2>1, QuietTable DEF IInv, Typed
  <2>4. ViolationsPlaced'
    BY <2>1 DEF IInv, ViolationsPlaced, HasSpan
  <2>5. QED
    BY <2>2, <2>3, <2>4 DEF IInv
<1>10. QED
  BY <1>1, <1>2, <1>3, <1>4, <1>5, <1>6, <1>7, <1>8, <1>9 DEF Next

LEMMA InvariantIInv == Spec => []IInv
BY InitIInv, NextIInv, PTL DEF Spec

-----------------------------------------------------------------------------
(* The results.                                                              *)

\* on_violation, for any sessions and tasks: a violation is on the span of its own event
\* or session where the observer can know it, and is lost only if its session has ended.
THEOREM TelemetryViolationsPlaced == Spec => []ViolationsPlaced
<1>1. IInv => ViolationsPlaced
  BY DEF IInv
<1>2. QED
  BY <1>1, InvariantIInv, PTL

\* on_session_end and on_event_end, for any sessions and tasks: a session that has ended
\* has one agent span from before its end, ended once, and leaves no event open that is
\* not being recorded.
THEOREM TelemetrySpansClosed == Spec => []SpansClosed
<1>1. ASSUME IInv
      PROVE  SpansClosed
  <2>1. ASSUME NEW s \in Sessions \ disturbed, NEW e \in DOMAIN ops, events[e].of = s
        PROVE  e \in InFlight(s)
    <3>1. PICK t \in Tasks : task[t].event = e /\ task[t].pc \in {"told", "judging", "raised"}
      BY <1>1, <2>1 DEF IInv, OpsKept
    <3>2. task[t] # Idle
      BY <3>1 DEF Idle
    <3>3. QED
      BY <3>1, <3>2, <2>1 DEF InFlight
  <2>2. ASSUME NEW s \in Sessions \ disturbed, status[s] = "ended"
        PROVE  LET early == {r \in DOMAIN runs.all : runs.all[r].of = s /\ ~runs.all[r].late}
               IN  Cardinality(early) = 1 /\ \A r \in early : runs.all[r].ended = 1
    <3> DEFINE early == {r \in DOMAIN runs.all : runs.all[r].of = s /\ ~runs.all[r].late}
    <3>1. DOMAIN runs.all = 1 .. Len(runs.all)
      BY <1>1, TableTyped DEF IInv, Typed
    <3>2. PICK r \in 1 .. Len(runs.all) :
            /\ runs.all[r].of = s /\ ~runs.all[r].late /\ runs.all[r].ended = 1
            /\ \A q \in 1 .. Len(runs.all) : runs.all[q].of = s /\ ~runs.all[q].late => q = r
      BY <1>1, <2>2 DEF IInv, OneRun, OneRunOf
    <3>3. early = {r}
      BY <3>1, <3>2
    <3>4. Cardinality({r}) = 1
      BY FS_Singleton
    <3>5. QED
      BY <3>2, <3>3, <3>4
  <2>3. QED
    BY <2>1, <2>2 DEF SpansClosed
<1>2. QED
  BY <1>1, InvariantIInv, PTL

\* What the agent span tells at the end of a session lies between the calls that are no
\* longer being recorded and all calls of the session.
LEMMA ExitCounted ==
  ASSUME IInv, NEW t \in Tasks, NEW s \in Sessions \ disturbed, Exit(t, s), status'[s] = "ended"
  PROVE  LET run == IF runs.current[s] # 0 THEN runs.current[s] ELSE Len(runs'.all)
             Calls(kind) == {e \in DOMAIN events : events[e] = [of |-> s, kind |-> kind]}
         IN  \A kind \in {"llm", "tool"} :
               /\ runs'.all[run][kind] <= Cardinality(Calls(kind))
               /\ runs'.all[run][kind] >= Cardinality(Calls(kind) \ InFlight(s))
<1> DEFINE Calls(kind) == {e \in DOMAIN events : events[e] = [of |-> s, kind |-> kind]}
           run == IF runs.current[s] # 0 THEN runs.current[s] ELSE Len(runs'.all)
<1>1. PICK fails \in BOOLEAN :
        runs' = EndRun(RunFor(IF fails THEN RunsAfter(t, Dummy) ELSE runs, s), s)
  <2>1. PICK fails \in BOOLEAN, raises \in BOOLEAN :
          LET judged == IF fails THEN RunsAfter(t, Dummy) ELSE runs
          IN  IF raises THEN status' = [status EXCEPT ![s] = "broken"]
                        ELSE runs' = EndRun(RunFor(judged, s), s)
    BY DEF Exit
  <2>2. ~raises
    <3>1. status \in [Sessions -> {"new", "open", "broken", "ended"}]
      BY DEF IInv, Typed
    <3>2. QED
      BY <3>1, <2>1
  <2>3. QED
    BY <2>1, <2>2
<1> DEFINE judged == IF fails THEN RunsAfter(t, Dummy) ELSE runs
           rs == RunFor(judged, s)
<1>2. /\ RunsTyped(rs) /\ rs.current[s] # 0
      /\ rs.current[s] = IF runs.current[s] # 0 THEN runs.current[s] ELSE Len(rs.all)
      /\ LLMCalls(rs, s) = LLMCalls(runs, s) /\ ToolCalls(rs, s) = ToolCalls(runs, s)
  BY ExitTable
<1>3. runs' = EndRun(rs, s)
  BY <1>1
<1> HIDE DEF judged, rs
<1>4. /\ Len(runs'.all) = Len(rs.all) /\ rs.current[s] \in 1 .. Len(rs.all)
      /\ \A r \in 1 .. Len(rs.all) : runs'.all[r].llm = rs.all[r].llm /\ runs'.all[r].tool = rs.all[r].tool
  BY <1>2, <1>3, EndRunTable
<1>5. run = rs.current[s]
  BY <1>2, <1>4
<1> HIDE DEF run
<1>6. runs'.all[run].llm = LLMCalls(runs, s) /\ runs'.all[run].tool = ToolCalls(runs, s)
  BY <1>2, <1>4, <1>5 DEF LLMCalls, ToolCalls
<1>7. status[s] # "ended"
  BY DEF Exit, Innermost
<1>8. CountsOf(runs, s)
  BY <1>7 DEF IInv, CountsRight
<1>9. \A kind \in {"llm", "tool"} : runs'.all[run][kind] = Cardinality(ToldCalls(s, kind))
  BY <1>6, <1>8 DEF CountsOf
<1>10. ASSUME NEW kind \in {"llm", "tool"}
       PROVE  /\ Cardinality(ToldCalls(s, kind)) <= Cardinality(Calls(kind))
              /\ Cardinality(ToldCalls(s, kind)) >= Cardinality(Calls(kind) \ InFlight(s))
  <2>1. events \in Seq(Events)
    BY DEF IInv, Typed
  <2>2. Len(events) \in Nat /\ DOMAIN events = 1 .. Len(events)
    BY <2>1, LenProperties
  <2>3. IsFiniteSet(1 .. Len(events))
    BY <2>2, FS_Interval
  <2>4. Calls(kind) \subseteq 1 .. Len(events)
    BY <2>2
  <2>5. IsFiniteSet(Calls(kind))
    BY <2>3, <2>4, FS_Subset
  <2>6. ToldCalls(s, kind) \subseteq Calls(kind)
    BY <2>2 DEF ToldCalls
  <2>7. IsFiniteSet(ToldCalls(s, kind))
    BY <2>1, ToldFinite
  <2>8. Calls(kind) \ InFlight(s) \subseteq ToldCalls(s, kind)
    <3>1. ASSUME NEW e \in Calls(kind), e \in Looking
          PROVE  e \in InFlight(s)
      <4>1. PICK u \in Tasks : task[u].pc = "look" /\ task[u].event = e
        BY <3>1 DEF Looking
      <4>2. task[u] # Idle /\ events[e].of = s
        BY <4>1 DEF Idle
      <4>3. QED
        BY <4>1, <4>2 DEF InFlight
    <3>2. QED
      BY <3>1, <2>2 DEF ToldCalls
  <2> HIDE DEF Calls
  <2>9. Cardinality(ToldCalls(s, kind)) <= Cardinality(Calls(kind))
    BY <2>5, <2>6, FS_Subset
  <2>10. Cardinality(Calls(kind) \ InFlight(s)) <= Cardinality(ToldCalls(s, kind))
    BY <2>7, <2>8, FS_Subset
  <2>11. Cardinality(ToldCalls(s, kind)) \in Nat /\ Cardinality(Calls(kind) \ InFlight(s)) \in Nat
    <3>1. IsFiniteSet(Calls(kind) \ InFlight(s))
      BY <2>7, <2>8, FS_Subset
    <3>2. QED
      BY <2>7, <3>1, FS_CardinalityType
  <2>12. QED
    BY <2>9, <2>10, <2>11
<1>11. QED
  BY <1>9, <1>10 DEF run

\* "so one observer can serve several sessions" (otel.py), for any sessions, tasks and
\* number of events: the agent span of a session counts its own calls, whatever session
\* was the active one of the task that recorded them.
THEOREM TelemetryCallsCounted == Spec => CallsCounted
<1> DEFINE A == \A s \in Sessions \ disturbed : status[s] = "open" /\ status'[s] = "ended" =>
                  LET run == IF runs.current[s] # 0 THEN runs.current[s] ELSE Len(runs'.all)
                      Calls(kind) == {e \in DOMAIN events : events[e] = [of |-> s, kind |-> kind]}
                  IN  \A kind \in {"llm", "tool"} :
                        /\ runs'.all[run][kind] <= Cardinality(Calls(kind))
                        /\ runs'.all[run][kind] >= Cardinality(Calls(kind) \ InFlight(s))
<1>1. ASSUME IInv, [Next]_vars
      PROVE  [A]_vars
  <2> SUFFICES ASSUME NEW s \in Sessions \ disturbed, status[s] = "open", status'[s] = "ended"
               PROVE  \E t \in Tasks : Exit(t, s)
    BY <1>1, ExitCounted
  <2>1. status \in [Sessions -> {"new", "open", "broken", "ended"}]
    BY <1>1 DEF IInv, Typed
  <2>2. status' # status
    OBVIOUS
  <2>3. PICK t \in Tasks : \E u \in Sessions : Enter(t, u) \/ Exit(t, u)
    BY <2>2, <1>1 DEF Next, vars, Inherit, Record, Start, Violate, Finish, Break
  <2>4. PICK u \in Sessions : Enter(t, u) \/ Exit(t, u)
    BY <2>3
  <2>5. CASE Enter(t, u)
    <3>1. \E after \in {"open", "broken"} : status' = [status EXCEPT ![u] = after]
      BY <2>5 DEF Enter
    <3>2. QED
      BY <3>1, <2>1
  <2>6. CASE Exit(t, u)
    <3>1. \E after \in {"broken", "ended"} : status' = [status EXCEPT ![u] = after]
      BY <2>6 DEF Exit
    <3>2. u = s
      BY <3>1, <2>1
    <3>3. QED
      BY <3>2, <2>6
  <2>7. QED
    BY <2>4, <2>5, <2>6
<1>2. QED
  BY <1>1, InvariantIInv, PTL DEF Spec, CallsCounted
=============================================================================
