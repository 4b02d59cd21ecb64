----------------------------- MODULE ObservedRun -----------------------------
(***************************************************************************)
(* A run that is recorded and resumed: session.py with a TraceRecorder     *)
(* (observability/trace.py) and an AuditLogObserver (audit.py).  The       *)
(* process may die, and a write may fail, at every point; a later process  *)
(* restores the session from the trace and resumes the hash chain.  The    *)
(* audit file is shared with a neighbour, another session of the service.  *)
(***************************************************************************)
EXTENDS Naturals, Sequences, FiniteSets, SequencesExt

CONSTANTS
  Amounts,        \* reported costs: nothing, one unit, or not an amount
  MaxEvents,      \* bound: events of the run, over all its processes
  MaxProcesses,   \* bound: processes that try to open the run
  MaxFaults,      \* bound: crashes and failed writes
  MaxForeign      \* bound: records of the neighbour

ASSUME RunAssumption ==
  /\ Amounts \subseteq {"none", "one", "invalid"}
  /\ {MaxEvents, MaxProcesses, MaxFaults, MaxForeign} \subseteq Nat

VARIABLES
  trace,       \* the trace file
  audit,       \* the audit file
  order,       \* the session's observers, in the order they were given
  pc,          \* where the process is in record_event or _end
  todo,        \* writes record_event still has to make
  total,       \* state.total_cost_usd
  rejected,    \* state.metadata[INVALID_AMOUNT_EVENTS_KEY]
  prevHash,    \* _prev_hash of the observer of the run and of the neighbour
  processes,   \* how many processes have tried to open the run
  foreign,     \* records the neighbour has written
  faults,      \* crashes and failed writes so far
  recorded,    \* history: every event of the run, sanitized
  judged,      \* history: how many of them the clauses were evaluated for
  stale,       \* history: observers that have missed a record of the other
  broken       \* history: a stale observer wrote, or a record was torn

files   == <<trace, audit>>
memory  == <<pc, todo, total, rejected>>
history == <<recorded, judged, stale, broken>>
vars    == <<files, memory, order, prevHash, processes, foreign, faults, history>>

-----------------------------------------------------------------------------
(* Files: lines, the last of which may have lost its newline.               *)

\* What a line is about: its kind and, for an event of the run, its number.
About(kind, id) == <<kind, id>>
Garbled == [about |-> About("garbled", 0)]   \* a line json.loads rejects
NoFile  == [lines |-> <<>>, cut |-> FALSE]

\* What a file holds once text has been appended to it: the first line of the
\* text runs on in a line that was cut.
Extended(file, line, cut) ==
  [lines |-> IF file.cut THEN Append(Front(file.lines), Garbled)
                         ELSE Append(file.lines, line),
   cut |-> cut]

Written(file, line) == Extended(file, line, FALSE)

\* A write that fails: none of it, all but the newline, or a part of the line
\* gets to the disk.
Torn(file, line) ==
  {file, Extended(file, line, TRUE), Extended(file, Garbled, TRUE)}

Readable(file) == \A i \in DOMAIN file.lines : file.lines[i] # Garbled

-----------------------------------------------------------------------------
(* The chain.  A hash stands for the history it commits to.                 *)

EmptyHash == <<>>
Digest(prev, about) == Append(prev, about)
Record(prev, about) ==
  [about |-> about, prev_hash |-> prev, hash |-> Digest(prev, about)]

TailHashFirst(file) ==                     \* mutant: every process starts a chain
  EmptyHash
\* _tail_hash: a last line that cannot be read restarts the chain.
TailHash(file) ==
  IF file.lines = <<>> \/ Last(file.lines) = Garbled THEN EmptyHash ELSE Last(file.lines).hash

\* verify_audit_log, which raises on a line it cannot read.
Intact(file) ==
  /\ file.lines # <<>>
  /\ Readable(file)
  /\ \A i \in DOMAIN file.lines :
       LET r == file.lines[i]
       IN  /\ r.prev_hash = IF i = 1 THEN EmptyHash ELSE file.lines[i - 1].hash
           /\ r.hash = Digest(r.prev_hash, r.about)

-----------------------------------------------------------------------------
(* Events.                                                                  *)

\* _sanitize_amounts: what is not an amount counts as 0 and is marked.
Sanitized(id, amount) ==
  [about |-> About("event", id), cost |-> IF amount = "one" THEN 1 ELSE 0,
   marked |-> amount = "invalid"]

TotalOf(events) == Cardinality({i \in DOMAIN events : events[i].cost = 1})

RejectedResanitized(events) == 0           \* mutant: forgets the stored marker
\* _sanitize_restored: a rejection the trace recorded counts again.
RejectedOf(events) == Cardinality({i \in DOMAIN events : events[i].marked})

\* What a write of record_event or _end appends.
Line(write) ==
  CASE write = "trace" -> Last(recorded)
    [] write = "audit" -> Record(prevHash.run, Last(recorded).about)
    [] OTHER -> Record(prevHash.run, About(write, 0))

Observers == {"run", "neighbour"}

Stages == {"down", "ready", "telling", "told", "violated", "ending"}

TypeOK ==
  /\ \A file \in {trace, audit} :
       /\ DOMAIN file = {"lines", "cut"}
       /\ file.cut \in BOOLEAN
       /\ file.cut => file.lines # <<>>
  /\ order \in {<<"trace", "audit">>, <<"audit", "trace">>}
  /\ pc \in Stages
  /\ todo \in Seq({"trace", "audit", "violation", "session_end"})
  /\ todo # <<>> <=> pc \in {"telling", "violated", "ending"}
  /\ total \in Nat
  /\ rejected \in Nat
  /\ DOMAIN prevHash = Observers
  /\ processes \in 0 .. MaxProcesses
  /\ foreign \in 0 .. MaxForeign
  /\ faults \in 0 .. MaxFaults
  /\ Len(recorded) <= MaxEvents
  /\ judged \in 0 .. Len(recorded)
  /\ stale \subseteq Observers
  /\ broken \in BOOLEAN

Init ==
  /\ trace = NoFile
  /\ audit = NoFile
  /\ order \in {<<"trace", "audit">>, <<"audit", "trace">>}
  /\ pc = "down"
  /\ todo = <<>>
  /\ total = 0
  /\ rejected = 0
  /\ prevHash = [o \in Observers |-> EmptyHash]
  /\ processes = 0
  /\ foreign = 0
  /\ faults = 0
  /\ recorded = <<>>
  /\ judged = 0
  /\ stale = {}
  /\ broken = FALSE

-----------------------------------------------------------------------------
(* Opening and leaving the session.                                         *)

RestoredTelling(file) == [file EXCEPT !.lines = @ \o @]   \* mutant: observers are told
\* _apply_restored tells no observer of the restored events.
Restored(file) == file

\* The observers are made, the first of them reading the tail of the chain, and
\* the session is restored, unless the trace has a line that cannot be read.
Open ==
  /\ pc = "down"
  /\ processes < MaxProcesses
  /\ processes' = processes + 1
  /\ prevHash' = [prevHash EXCEPT !.run = TailHash(audit)]
  /\ stale' = stale \ {"run"}
  /\ IF Readable(trace)
       THEN /\ pc' = "ready"
            /\ total' = TotalOf(trace.lines)
            /\ rejected' = RejectedOf(trace.lines)
            /\ trace' = Restored(trace)
       ELSE UNCHANGED <<pc, total, rejected, trace>>
  /\ UNCHANGED <<audit, todo, order, foreign, faults, recorded, judged, broken>>

\* The session's state is gone with its process.
Forget(down) ==
  IF down THEN total' = 0 /\ rejected' = 0 ELSE UNCHANGED <<total, rejected>>

\* _end tells the observers, unless a session_end clause raises first.
End ==
  /\ pc = "ready"
  /\ \/ pc' = "ending" /\ todo' = <<"session_end">> /\ UNCHANGED <<total, rejected>>
     \/ pc' = "down" /\ Forget(TRUE) /\ UNCHANGED todo
  /\ UNCHANGED <<files, order, prevHash, processes, foreign, faults, history>>

-----------------------------------------------------------------------------
(* record_event                                                             *)

\* The event is sanitized and counted before any observer hears of it.
Begin(amount) ==
  LET event == Sanitized(Len(recorded) + 1, amount)
  IN  /\ pc = "ready"
      /\ Len(recorded) < MaxEvents
      /\ recorded' = Append(recorded, event)
      /\ total' = total + event.cost
      /\ rejected' = rejected + (IF event.marked THEN 1 ELSE 0)
      /\ todo' = order
      /\ pc' = "telling"
      /\ UNCHANGED <<files, order, prevHash, processes, foreign, faults, judged, stale, broken>>

AfterUnjudged(stage) ==                    \* mutant: returns before the clauses
  CASE stage = "ending" -> "down" [] OTHER -> "ready"
\* What follows the last write of a stage.
After(stage) ==
  CASE stage = "telling" -> "told" [] stage = "violated" -> "ready" [] OTHER -> "down"

\* Observer o has appended to the audit file, or tried to.
NoteAudit(o) ==
  /\ stale' = IF audit' = audit THEN stale ELSE stale \cup (Observers \ {o})
  /\ broken' = \/ broken
               \/ /\ audit' # audit
                  /\ o \in stale \/ audit.cut \/ Last(audit'.lines) = Garbled

\* _write remembers the hash once the record is in the file.
PrevHashAfter(line) == [prevHash EXCEPT !.run = line.hash]

\* One observer writes one line.
Write ==
  LET line == Line(Head(todo))
      stage == IF Tail(todo) = <<>> THEN After(pc) ELSE pc
  IN  /\ todo # <<>>
      /\ todo' = Tail(todo)
      /\ pc' = stage
      /\ Forget(stage = "down")
      /\ IF Head(todo) = "trace"
           THEN trace' = Written(trace, line) /\ UNCHANGED <<audit, prevHash, stale, broken>>
           ELSE /\ audit' = Written(audit, line)
                /\ prevHash' = PrevHashAfter(line)
                /\ NoteAudit("run")
                /\ UNCHANGED trace
      /\ UNCHANGED <<order, processes, foreign, faults, recorded, judged>>

\* The write at hand stops half-way.
Break ==
  LET line == Line(Head(todo))
  IN  IF Head(todo) = "trace"
        THEN trace' \in Torn(trace, line) /\ UNCHANGED <<audit, stale, broken>>
        ELSE audit' \in Torn(audit, line) /\ NoteAudit("run") /\ UNCHANGED trace

\* An observer raises: the exception leaves record_event, or _end, and what was
\* still to be done for the event is not.
Fail ==
  /\ todo # <<>>
  /\ faults < MaxFaults
  /\ faults' = faults + 1
  /\ Break
  /\ todo' = <<>>
  /\ pc' = IF pc = "ending" THEN "down" ELSE "ready"
  /\ Forget(pc = "ending")
  /\ UNCHANGED <<order, prevHash, processes, foreign, recorded, judged>>

Crash ==
  /\ pc # "down"
  /\ faults < MaxFaults
  /\ faults' = faults + 1
  /\ IF todo # <<>> THEN Break ELSE UNCHANGED <<files, stale, broken>>
  /\ todo' = <<>>
  /\ pc' = "down"
  /\ Forget(TRUE)
  /\ UNCHANGED <<order, prevHash, processes, foreign, recorded, judged>>

\* The clauses are evaluated; the audit observer is told of a violation.
Judge ==
  /\ pc = "told"
  /\ judged' = judged + 1
  /\ \/ pc' = "ready" /\ UNCHANGED todo
     \/ pc' = "violated" /\ todo' = <<"violation">>
  /\ UNCHANGED <<files, total, rejected, order, prevHash, processes, foreign, faults,
                 recorded, stale, broken>>

-----------------------------------------------------------------------------
(* The neighbour makes an observer, or writes a record with the one it has. *)

ForeignOpen ==
  /\ prevHash' = [prevHash EXCEPT !.neighbour = TailHash(audit)]
  /\ stale' = stale \ {"neighbour"}
  /\ UNCHANGED <<files, memory, order, processes, foreign, faults, recorded, judged, broken>>

ForeignWrite ==
  LET line == Record(prevHash.neighbour, About("other", 0))
  IN  /\ foreign < MaxForeign
      /\ foreign' = foreign + 1
      /\ audit' = Written(audit, line)
      /\ prevHash' = [prevHash EXCEPT !.neighbour = line.hash]
      /\ NoteAudit("neighbour")
      /\ UNCHANGED <<trace, memory, order, processes, faults, recorded, judged>>

Next ==
  \/ Open
  \/ End
  \/ \E amount \in Amounts : Begin(amount)
  \/ Write
  \/ Fail
  \/ Crash
  \/ Judge
  \/ ForeignOpen
  \/ ForeignWrite

Spec == Init /\ [][Next]_vars

-----------------------------------------------------------------------------
(* Properties.                                                              *)

\* "The chain resumes across sessions" (audit.py:63): over any number of
\* processes and crashes verification accepts the file, and it refuses it
\* exactly when observers that did not know of each other wrote to it or a
\* record was torn (audit.py:80-121, 158-183).
ChainExact == audit.lines # <<>> => (Intact(audit) <=> ~broken)

\* "Budgets, histories and turn counts continue from the trace" (README.md:402):
\* a restored session knows every cost and every rejected amount of the run but
\* those of the one event a crash or a failed write may have kept from the trace.
CarriedOver ==
  pc # "down" =>
    /\ total <= TotalOf(recorded) /\ TotalOf(recorded) <= total + faults
    /\ rejected <= RejectedOf(recorded) /\ RejectedOf(recorded) <= rejected + faults

\* "The trace and audit log get no duplicates" (README.md:405): an event is
\* written to each file at most once, in the order of recording.
WrittenOnce ==
  \A file \in {trace, audit} : \A i, j \in DOMAIN file.lines :
    LET a == file.lines[i].about
        b == file.lines[j].about
    IN  i < j /\ a[1] = "event" /\ b[1] = "event" => a[2] < b[2]

\* A fault keeps at most one event from being judged, and nothing else does
\* (session.py:366-397).
JudgedUnlessFault ==
  Len(recorded) - judged <= faults + (IF pc \in {"telling", "told"} THEN 1 ELSE 0)
=============================================================================
