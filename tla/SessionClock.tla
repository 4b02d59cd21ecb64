---------------------------- MODULE SessionClock ----------------------------
(***************************************************************************)
(* The elapsed time of a session (session.py): what session_timeout judges.*)
(* The wall clock can be paused, and goes on by itself at the next event.  *)
(* A process may end or die, and a session of the next one restores the    *)
(* trace: it starts with the time its host hands over, or else with the    *)
(* span of the trace's timestamps.  The event clock reads the timestamps   *)
(* only.                                                                   *)
(***************************************************************************)
EXTENDS Integers

CONSTANTS
  Stamps,       \* timestamps of events on the event clock
  MaxNow,       \* bound: the latest time
  MaxRecorded,  \* bound: events of all sessions
  MaxSetBacks,  \* bound: how often the machine's clock is set back
  MaxRestarts   \* bound: processes after the first

ASSUME ClockAssumption ==
  /\ Stamps \subseteq Nat
  /\ {MaxSetBacks, MaxRestarts} \subseteq Nat

NotPaused  == 0 - 1
NoOverride == 0 - 1

VARIABLES
  clock,       \* _clock, of all sessions
  now,         \* time.time()
  active,      \* _active
  startedAt,   \* _started_at, 0 before _start
  pausedAt,    \* _paused_at
  pausedFor,   \* _paused_s
  override,    \* _restore_elapsed_override
  restored,    \* _restored_elapsed_ms
  pending,     \* _pending_restore: what it holds of the trace
  elapsed,     \* state.elapsed_ms
  first,       \* _first_event_ts
  last,        \* timestamp of the last event, on the event clock
  recorded,    \* number of events in the state
  trace,       \* the recorded trace of all sessions
  setBacks,    \* how often the machine's clock was set back
  restarts,    \* processes so far, after the first
  begun,       \* history: when the first session started or recorded, 0 before
  used,        \* history: time that earlier sessions ran, active and not paused
  ran,         \* history: time that this session ran
  told,        \* history: running time between the first event and the last of each session
  quiet,       \* history: running time of this session since then
  rough        \* history: whether time that nothing ran is counted as elapsed

life  == <<clock, active, startedAt, override, restored, pending>>
pause == <<pausedAt, pausedFor>>
meter == <<elapsed, first, last, recorded, trace>>
past  == <<restarts, used, rough>>
count == <<begun, ran, told, quiet>>
clockVars == <<life, pause, meter, past, count, now, setBacks>>

\* Of a trace: how many events, and the timestamps that a restored session reads, the
\* earliest and the latest on the wall clock, the first and the last on the event clock.
NoTrace == [n |-> 0, from |-> 0, to |-> 0]
Grown(stamp) ==
  IF trace.n = 0 THEN [n |-> 1, from |-> stamp, to |-> stamp]
  ELSE [n    |-> trace.n + 1,
        from |-> IF clock = "wall" /\ stamp < trace.from THEN stamp ELSE trace.from,
        to   |-> IF clock = "wall" /\ stamp < trace.to THEN trace.to ELSE stamp]

\* max(0.0, x)
AtLeast0(x) == IF x < 0 THEN 0 ELSE x

TraceType == [n : Nat, from : Nat, to : Nat]

ClockTypeOK ==
  /\ clock \in {"wall", "event"}
  /\ now \in Nat \ {0}
  /\ active \in BOOLEAN
  /\ startedAt \in Nat
  /\ pausedAt \in Nat \cup {NotPaused}
  /\ pausedFor \in Nat
  /\ override \in Nat \cup {NoOverride}
  /\ restored \in Nat
  /\ pending \in TraceType
  /\ elapsed \in Int
  /\ first \in Nat
  /\ last \in Nat
  /\ recorded \in Nat
  /\ trace \in TraceType
  /\ setBacks \in 0 .. MaxSetBacks
  /\ restarts \in 0 .. MaxRestarts
  /\ {begun, used, ran, told, quiet} \subseteq Nat
  /\ rough \in BOOLEAN

ClockInit ==
  /\ active = FALSE
  /\ startedAt = 0
  /\ pausedAt = NotPaused
  /\ pausedFor = 0
  /\ restored = 0
  /\ elapsed = 0
  /\ first = 0
  /\ last = 0
  /\ recorded = 0
  /\ ran = 0
  /\ quiet = 0
  /\ clock \in {"wall", "event"}
  /\ now = 1
  /\ override = NoOverride
  /\ pending = NoTrace
  /\ trace = NoTrace
  /\ setBacks = 0
  /\ restarts = 0
  /\ begun = 0
  /\ used = 0
  /\ told = 0
  /\ rough = FALSE

\* time.time() goes on; ran counts the time in which the agent can act.
Tick ==
  /\ now < MaxNow
  /\ now' = now + 1
  /\ IF active /\ pausedAt = NotPaused
       THEN ran' = ran + 1 /\ quiet' = quiet + 1
       ELSE UNCHANGED <<ran, quiet>>
  /\ UNCHANGED <<life, pause, meter, past, begun, told, setBacks>>

SetBack ==
  /\ setBacks < MaxSetBacks
  /\ setBacks' = setBacks + 1
  /\ now' \in 1 .. now - 1
  /\ UNCHANGED <<life, pause, meter, past, count>>

Begin == begun' = IF begun = 0 THEN now ELSE begun

OverrideOnly == IF override # NoOverride THEN override ELSE 0   \* mutant: no time without one
\* What the wall clock of a restored session starts from.
RestoredElapsed == IF override # NoOverride THEN override ELSE AtLeast0(pending.to - pending.from)

\* _apply_restored: without events it does nothing, whatever the host has handed over.
Apply ==
  IF pending.n = 0
    THEN UNCHANGED <<restored, elapsed, first, last, recorded>>
    ELSE /\ recorded' = recorded + pending.n
         /\ IF clock = "wall"
              THEN /\ restored' = RestoredElapsed
                   /\ elapsed' = RestoredElapsed
                   /\ UNCHANGED <<first, last>>
              ELSE /\ first' = IF recorded = 0 THEN pending.from ELSE first
                   /\ last' = pending.to
                   /\ elapsed' = AtLeast0(pending.to - first')
                   /\ UNCHANGED restored

ClockStart ==
  /\ startedAt = 0
  /\ Apply
  /\ pending' = NoTrace
  /\ startedAt' = now
  /\ active' = TRUE
  /\ Begin
  /\ rough' = (pending.n > 0 /\ (rough \/ override = NoOverride))
  /\ UNCHANGED <<clock, override, pause, now, trace, setBacks, restarts, used, ran, told, quiet>>

PauseAtAgain == now                        \* mutant: a second pause starts over
\* A pause that is already running goes on.
PauseAt == IF pausedAt = NotPaused THEN now ELSE pausedAt

Pause ==
  /\ active
  /\ pausedAt' = PauseAt
  /\ UNCHANGED <<life, meter, past, count, now, pausedFor, setBacks>>

\* resume(): what _paused_s becomes.
Unpaused == IF pausedAt = NotPaused THEN pausedFor ELSE pausedFor + AtLeast0(now - pausedAt)

Resume ==
  /\ pausedAt # NotPaused
  /\ pausedFor' = Unpaused
  /\ pausedAt' = NotPaused
  /\ UNCHANGED <<life, meter, past, count, now, setBacks>>

WallElapsed(paused) == restored + AtLeast0(now - startedAt - paused)

\* record_event: resumes the clock, then _update_state reads it.  It does so before the
\* start and after the end of a session as well.
ClockRecord(stamp) ==
  /\ trace.n < MaxRecorded
  /\ trace' = Grown(stamp)
  /\ recorded' = recorded + 1
  /\ pausedFor' = Unpaused
  /\ pausedAt' = NotPaused
  /\ IF clock = "event"
       THEN /\ first' = IF recorded = 0 THEN stamp ELSE first
            /\ last' = stamp
            /\ elapsed' = AtLeast0(stamp - first')
       ELSE /\ elapsed' = IF startedAt # 0 THEN WallElapsed(pausedFor') ELSE elapsed
            /\ UNCHANGED <<first, last>>
  /\ Begin
  /\ told' = IF trace.n = 0 THEN 0 ELSE told + quiet
  /\ quiet' = 0
  /\ rough' = (rough \/ (startedAt # 0 /\ ~active))
  /\ UNCHANGED <<life, now, setBacks, restarts, used, ran>>

\* _end; no clause raises.
ClockEnd ==
  /\ active
  /\ active' = FALSE
  /\ pausedFor' = Unpaused
  /\ pausedAt' = NotPaused
  /\ elapsed' = CASE clock = "wall" -> WallElapsed(pausedFor')
                  [] clock = "event" /\ recorded > 0 -> last - first
                  [] OTHER -> elapsed
  /\ UNCHANGED <<clock, now, startedAt, override, restored, pending, first, last, recorded, trace,
                 past, count, setBacks>>

\* The process ends or dies, and the host makes a session from the trace, with the elapsed
\* time that the last one showed or without.
Restart ==
  /\ startedAt # 0
  /\ restarts < MaxRestarts
  /\ restarts' = restarts + 1
  /\ active' = FALSE
  /\ startedAt' = 0
  /\ pausedAt' = NotPaused
  /\ pausedFor' = 0
  /\ restored' = 0
  /\ elapsed' = 0
  /\ first' = 0
  /\ last' = 0
  /\ recorded' = 0
  /\ ran' = 0
  /\ quiet' = 0
  /\ pending' = trace
  /\ override' \in IF clock = "wall" THEN {elapsed, NoOverride} ELSE {NoOverride}
  /\ used' = used + ran
  /\ UNCHANGED <<clock, now, trace, setBacks, begun, told, rough>>

ClockNext ==
  \/ Tick
  \/ SetBack
  \/ ClockStart
  \/ Pause
  \/ Resume
  \/ \E stamp \in IF clock = "wall" THEN {now} ELSE Stamps : ClockRecord(stamp)
  \/ ClockEnd
  \/ Restart

ClockSpec == ClockInit /\ [][ClockNext]_clockVars

-----------------------------------------------------------------------------
\* A running session records an event or ends.
Judged == clock = "wall" /\ active /\ (recorded' # recorded \/ ~active') /\ restarts' = restarts

\* What a running session is judged by never counts more than the time it and its
\* predecessors ran, pauses left out, also when the machine's clock is set back
\* (session.py:266-289), as long as each was told what the one before it had used.  One
\* that took the span of the trace instead counts pauses and the time between processes
\* (session.py:258-261), as does one that was told a time read at an event after the end.
\* Even so it counts, unless the clock was set back, no time from before the run began.
NeverOvercounts ==
  [][Judged => /\ ~rough => elapsed' <= used + ran
               /\ setBacks = 0 => elapsed' <= now - begun]_clockVars

\* Unless that clock was set back, it is judged by all the time it ran: "a running agent
\* cannot hide behind a forgotten pause" (session.py:269-272), and by all the time that
\* any session before it ran between the first event of the trace and its own last,
\* whether that was handed over or is taken from the trace.
NothingHidden ==
  [][Judged /\ setBacks = 0 => elapsed' = restored + ran /\ elapsed' >= told']_clockVars
=============================================================================
