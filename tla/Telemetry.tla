------------------------------ MODULE Telemetry ------------------------------
(***************************************************************************)
(* One OTelObserver (observability/otel.py) that several sessions share.   *)
(* Sessions are nested in a task or run side by side, tasks inherit the    *)
(* context of others, and callbacks of any task record into a session that *)
(* they were given, also when it is not the active one or is over.  The    *)
(* observer takes no lock: tasks may meet between its looking for a run    *)
(* and its starting one, and between its hooks.                            *)
(***************************************************************************)
EXTENDS Naturals, Sequences, FiniteSets

CONSTANTS
  Sessions,
  Tasks,
  Settings,   \* how the observer may be set up
  MaxEvents   \* bound: events recorded, over all sessions

None == 0

ASSUME TelemetryAssumption ==
  /\ Settings \subseteq [agent : BOOLEAN, llm : BOOLEAN]
  /\ None \notin Sessions
  /\ MaxEvents \in Nat

VARIABLES
  setting,    \* emit_agent_span and emit_llm_spans
  context,    \* the active session in the context of each task
  status,     \* of each session; one that a clause broke has told no observer of its end
  host,       \* the task that entered each session, and what its context held before
  runs,       \* all runs started, and the one in _runs for each session
  ops,        \* _open: the run of each event that is open
  task,       \* what each task does: its stage and the event it records
  events,     \* history: the events of all sessions
  latest,     \* history: where the last step reported a violation, if it did
  disturbed   \* history: sessions in which another observer raised, or whose run
              \* two tasks started at once

vars == <<setting, context, status, host, runs, ops, task, events, latest, disturbed>>

Kinds == {"llm", "tool", "other"}
Idle  == [pc |-> "idle", event |-> 0]

TypeOK ==
  /\ setting \in Settings
  /\ context \in [Tasks -> Sessions \cup {None}]
  /\ status \in [Sessions -> {"new", "open", "broken", "ended"}]
  /\ \A s \in Sessions : runs.current[s] \in 0 .. Len(runs.all)
  /\ \A s \in Sessions : runs.current[s] # 0 => runs.all[runs.current[s]].of = s
  /\ DOMAIN ops \subseteq DOMAIN events
  /\ task \in [Tasks -> [pc : {"idle", "look", "told", "judging", "raised"}, event : 0 .. Len(events)]]
  /\ disturbed \subseteq Sessions

Init ==
  /\ setting \in Settings
  /\ context = [t \in Tasks |-> None]
  /\ status = [s \in Sessions |-> "new"]
  /\ host = [s \in Sessions |-> <<>>]
  /\ runs = [all |-> <<>>, current |-> [s \in Sessions |-> 0]]
  /\ ops = <<>>
  /\ task = [t \in Tasks |-> Idle]
  /\ events = <<>>
  /\ latest = {}
  /\ disturbed = {}

-----------------------------------------------------------------------------
(* The observer's runs, as functions of what runs holds.                    *)

StartRun(rs, s) ==
  [all     |-> Append(rs.all, [of |-> s, llm |-> 0, tool |-> 0, ended |-> 0, late |-> status[s] = "ended"]),
   current |-> [rs.current EXCEPT ![s] = Len(rs.all) + 1]]

\* _run_for; with no session, as _active_run may ask for, there is no run.
RunFor(rs, s) == IF s = None \/ rs.current[s] # 0 THEN rs ELSE StartRun(rs, s)
Current(rs, s) == IF s = None THEN 0 ELSE rs.current[s]

\* on_event, once there is a run: the call is counted.
Counted(rs, s, kind) ==
  IF kind = "other" THEN rs ELSE [rs EXCEPT !.all[rs.current[s]][kind] = @ + 1]

\* on_session_end: with emit_agent_span off there is no span to end.
EndRun(rs, s) == [all |-> [rs.all EXCEPT ![rs.current[s]].ended = @ + 1],
                  current |-> [rs.current EXCEPT ![s] = 0]]

\* Whether an event gets a span of its own.
HasSpan(kind) == kind = "tool" \/ (kind = "llm" /\ setting.llm)

\* on_violation: the run of an event that is not open is that of the active session.
RunsAfter(t, e) == IF e \in DOMAIN ops THEN runs ELSE RunFor(runs, context[t])
\* Mutant: the run is always that of the active session.
ActiveRunOf(t, e) == Current(RunFor(runs, context[t]), context[t])
RunOf(t, e) == IF e \in DOMAIN ops THEN ops[e] ELSE Current(RunsAfter(t, e), context[t])

\* The violation goes on the span of the event, else on that of the run, else on one of
\* its own.  A span that has ended takes nothing any more.
Report(t, s, e, kind) ==
  LET run == RunOf(t, e)
      own == e \in DOMAIN ops /\ HasSpan(kind)
  IN  [of |-> s, kind |-> kind, active |-> context[t], over |-> status[s] = "ended",
       on |-> IF own THEN "event" ELSE IF run # 0 /\ setting.agent THEN "run" ELSE "alone",
       run |-> run,
       lost |-> ~own /\ run # 0 /\ setting.agent /\ RunsAfter(t, e).all[run].ended # 0]

-----------------------------------------------------------------------------
(* Sessions.                                                                *)

\* A violation of the start or the end belongs to an event that nobody was told of.
Dummy == 0

\* _start: a clause may fail, and may raise, which leaves the session entered but not run.
Enter(t, s) ==
  /\ task[t] = Idle
  /\ status[s] = "new"
  /\ context' = [context EXCEPT ![t] = s]
  /\ host' = [host EXCEPT ![s] = <<t, context[t]>>]
  /\ \/ /\ status' = [status EXCEPT ![s] = "open"]
        /\ latest' = {}
        /\ UNCHANGED runs
     \/ /\ status' \in {[status EXCEPT ![s] = after] : after \in {"open", "broken"}}
        /\ runs' = RunFor(runs, s)
        /\ latest' =
             {[of |-> s, kind |-> "other", active |-> s, over |-> FALSE, lost |-> FALSE,
               on |-> IF setting.agent THEN "run" ELSE "alone", run |-> runs'.current[s]]}
  /\ UNCHANGED <<setting, ops, task, events, disturbed>>

\* A block may close once those within it are closed.
Innermost(t, s) ==
  /\ status[s] = "open"
  /\ host[s][1] = t
  /\ \A r \in Sessions \ {s} : status[r] = "open" /\ host[r][1] = t => host[r][2] # s

\* _end: if a clause raises, observers are not told and the context is left as it is.
Exit(t, s) ==
  /\ task[t] = Idle
  /\ Innermost(t, s)
  /\ \E fails, raises \in BOOLEAN :
       /\ raises => fails
       /\ LET judged == IF fails THEN RunsAfter(t, Dummy) ELSE runs
          IN  /\ latest' = IF fails THEN {Report(t, s, Dummy, "other")} ELSE {}
              /\ IF raises
                   THEN /\ runs' = judged
                        /\ status' = [status EXCEPT ![s] = "broken"]
                        /\ UNCHANGED context
                   ELSE /\ runs' = EndRun(RunFor(judged, s), s)
                        /\ status' = [status EXCEPT ![s] = "ended"]
                        /\ context' = [context EXCEPT ![t] = host[s][2]]
  /\ UNCHANGED <<setting, host, ops, task, events, disturbed>>

\* A task starts with a copy of the context of another.
Inherit(t, u) ==
  /\ task[u] = Idle
  /\ context[u] = None
  /\ \A s \in Sessions : host[s] # <<>> => host[s][1] # u
  /\ context' = [context EXCEPT ![u] = context[t]]
  /\ latest' = {}
  /\ UNCHANGED <<setting, status, host, runs, ops, task, events, disturbed>>

-----------------------------------------------------------------------------
(* record_event of a session that a task was given.                         *)

Goto(t, stage) == task' = [task EXCEPT ![t].pc = stage]

\* on_event has its run.
Told(rs, e) ==
  LET s == events'[e].of
      kind == events'[e].kind
  IN  /\ runs' = Counted(rs, s, kind)
      /\ ops' = [i \in DOMAIN ops \cup (IF kind = "other" THEN {} ELSE {e}) |->
                   IF i = e THEN rs.current[s] ELSE ops[i]]

\* Mutant: events are counted for the active session.
RecordActive(t, s, kind) ==
  /\ task[t] = Idle
  /\ status[s] # "new"
  /\ Len(events) < MaxEvents
  /\ events' = Append(events, [of |-> s, kind |-> kind])
  /\ LET a == IF context[t] = None THEN s ELSE context[t]
         rs == RunFor(runs, a)
     IN  /\ task' = [task EXCEPT ![t] = [pc |-> "told", event |-> Len(events')]]
         /\ runs' = Counted(rs, a, kind)
         /\ ops' = [i \in DOMAIN ops \cup (IF kind = "other" THEN {} ELSE {Len(events')}) |->
                      IF i = Len(events') THEN rs.current[a] ELSE ops[i]]
  /\ latest' = {}
  /\ UNCHANGED <<setting, context, status, host, disturbed>>

\* on_event looks for the run of the session, unless an observer before it raised.
Record(t, s, kind) ==
  /\ task[t] = Idle
  /\ status[s] # "new"
  /\ Len(events) < MaxEvents
  /\ events' = Append(events, [of |-> s, kind |-> kind])
  /\ \/ /\ runs.current[s] # 0
        /\ task' = [task EXCEPT ![t] = [pc |-> "told", event |-> Len(events')]]
        /\ Told(runs, Len(events'))
        /\ UNCHANGED disturbed
     \/ /\ runs.current[s] = 0
        /\ task' = [task EXCEPT ![t] = [pc |-> "look", event |-> Len(events')]]
        /\ UNCHANGED <<runs, ops, disturbed>>
     \/ /\ disturbed' = disturbed \cup {s}
        /\ UNCHANGED <<task, runs, ops>>
  /\ latest' = {}
  /\ UNCHANGED <<setting, context, status, host>>

\* It starts the run that it has not found, whether or not there is one by now.
Start(t) ==
  LET s == events[task[t].event].of
  IN  /\ task[t].pc = "look"
      /\ Goto(t, "told")
      /\ UNCHANGED events
      /\ Told(StartRun(runs, s), task[t].event)
      /\ disturbed' = IF runs.current[s] = 0 THEN disturbed ELSE disturbed \cup {s}
      /\ latest' = {}
      /\ UNCHANGED <<setting, context, status, host>>

\* A clause fails, and may raise.
Violate(t) ==
  LET e == task[t].event
  IN  /\ task[t].pc \in {"told", "judging"}
      /\ \E stage \in {"judging", "raised"} : Goto(t, stage)
      /\ runs' = RunsAfter(t, e)
      /\ latest' = {Report(t, events[e].of, e, events[e].kind)}
      /\ UNCHANGED <<setting, context, status, host, ops, events, disturbed>>

\* Mutant: a clause that raised keeps on_event_end from being called.
FinishIfQuiet(t) ==
  /\ task[t].pc \in {"told", "judging", "raised"}
  /\ task' = [task EXCEPT ![t] = Idle]
  /\ ops' = IF task[t].pc = "raised" THEN ops ELSE [i \in DOMAIN ops \ {task[t].event} |-> ops[i]]
  /\ latest' = {}
  /\ UNCHANGED <<setting, context, status, host, runs, events, disturbed>>

\* on_event_end, whatever the clauses did.
Finish(t) ==
  /\ task[t].pc \in {"told", "judging", "raised"}
  /\ task' = [task EXCEPT ![t] = Idle]
  /\ ops' = [i \in DOMAIN ops \ {task[t].event} |-> ops[i]]
  /\ latest' = {}
  /\ UNCHANGED <<setting, context, status, host, runs, events, disturbed>>

\* An observer after it raises in on_event: the event is not judged and does not end.
Break(t) ==
  /\ task[t].pc = "told"
  /\ task' = [task EXCEPT ![t] = Idle]
  /\ disturbed' = disturbed \cup {events[task[t].event].of}
  /\ latest' = {}
  /\ UNCHANGED <<setting, context, status, host, runs, ops, events>>

Next ==
  \E t \in Tasks :
    \/ \E s \in Sessions : Enter(t, s)
    \/ \E s \in Sessions : Exit(t, s)
    \/ \E u \in Tasks : Inherit(u, t)
    \/ \E s \in Sessions, kind \in Kinds : Record(t, s, kind)
    \/ Start(t) \/ Violate(t) \/ Finish(t) \/ Break(t)

Spec == Init /\ [][Next]_vars

-----------------------------------------------------------------------------

\* The events of s that a task is recording.
InFlight(s) == {task[t].event : t \in {t \in Tasks : task[t] # Idle /\ events[task[t].event].of = s}}

\* "so one observer can serve several sessions" (otel.py): when a session ends, its agent
\* span tells the calls of this session and no others, whatever task recorded them and
\* whatever session was the active one; a call still being recorded may be missing.
CallsCounted ==
  [][\A s \in Sessions \ disturbed : status[s] = "open" /\ status'[s] = "ended" =>
       LET run == IF runs.current[s] # 0 THEN runs.current[s] ELSE Len(runs'.all)
           Calls(kind) == {e \in DOMAIN events : events[e] = [of |-> s, kind |-> kind]}
       IN  \A kind \in {"llm", "tool"} :
             /\ runs'.all[run][kind] <= Cardinality(Calls(kind))
             /\ runs'.all[run][kind] >= Cardinality(Calls(kind) \ InFlight(s))]_vars

\* "on the span of the event that broke the clause (else the invoke_agent span)"
\* (otel.py): where the session is the active one, a violation is on a span of its own
\* event or session, and that of a call is so anywhere; it is lost only if the session
\* ended while the event was judged.
ViolationsPlaced ==
  \A r \in latest :
    /\ HasSpan(r.kind) => r.on = "event"
    /\ ~HasSpan(r.kind) /\ setting.agent /\ (r.kind = "llm" \/ r.active = r.of) =>
         r.on = "run" /\ runs.all[r.run].of = r.of
    /\ r.on = "run" => runs.all[r.run].of \in {r.of, r.active}
    /\ r.lost => r.over

\* A session that has ended leaves one agent span, ended once, and no event open that is
\* not being recorded; only what is recorded after its end starts another.
SpansClosed ==
  \A s \in Sessions \ disturbed :
    /\ \A e \in DOMAIN ops : events[e].of = s => e \in InFlight(s)
    /\ status[s] = "ended" =>
         LET early == {r \in DOMAIN runs.all : runs.all[r].of = s /\ ~runs.all[r].late}
         IN  Cardinality(early) = 1 /\ \A r \in early : runs.all[r].ended = 1
=============================================================================
