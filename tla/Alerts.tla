------------------------------- MODULE Alerts -------------------------------
(***************************************************************************)
(* Escalation handlers of a contract that several runs share: the webhook  *)
(* with its throttle (recovery/webhook.py), alone or behind a digest       *)
(* (recovery/digest.py).  Neither takes a lock, so the runs, each in a     *)
(* thread of its own, meet wherever the code calls something.              *)
(***************************************************************************)
EXTENDS Integers, Sequences, FiniteSets

CONSTANTS
  Threads,        \* the runs, one in each thread
  Clauses,        \* the clauses with on_fail="escalate"
  Windows,        \* how the digest is set up: its window, "run_end", or no digest
  MaxBuffer,      \* max_buffer of the digest
  Throttle,       \* throttle_s of the webhook
  MaxViolations,  \* bound: violations of a run
  MaxTime         \* bound: ticks of the clock

None  == -1       \* no time; as a window, "run_end"
Alone == -2       \* the webhook without a digest

ASSUME AlertsAssumption ==
  /\ IsFiniteSet(Threads) /\ Threads # {}
  /\ Windows \subseteq Nat \cup {None, Alone}
  /\ {MaxBuffer, Throttle, MaxViolations, MaxTime} \subseteq Nat

VARIABLES
  window,      \* _window_s, or Alone
  buffer,      \* _buffer
  omitted,     \* _omitted
  start,       \* _window_start
  lastSent,    \* the webhook's last_sent
  now,         \* time.time()
  thread,      \* what each thread does: its stage pc, the violation in hand, the alerts
               \* still to be handed to the webhook and the stage after these, when its
               \* POST began, and how many violations its run has had
  counted,     \* history: violations that alerts have told or called dropped
  sent,        \* history: when the POSTs of each clause that succeeded began
  suppressed,  \* history: the alerts the throttle dropped
  overlapped   \* history: clauses two of whose POSTs were under way at once

digest  == <<buffer, omitted, start>>
webhook == <<lastSent, sent, suppressed, overlapped>>
vars    == <<window, digest, webhook, now, thread, counted>>

Violations == [by : Threads, clause : Clauses, at : 0 .. MaxTime]
Alerts     == [clause : Clauses, count : Nat \ {0}, omitted : Nat]

TypeOK ==
  /\ window \in Windows
  /\ buffer \in Seq(Violations)
  /\ Len(buffer) <= MaxBuffer + Cardinality(Threads) - 1
  /\ omitted \in Nat
  /\ now \in 0 .. MaxTime
  /\ start \in {None} \cup 0 .. now
  /\ lastSent \in [Clauses -> {None} \cup 0 .. now]
  /\ thread \in [Threads ->
       [pc     : {"run", "call", "flush", "place", "append", "omit", "report", "post", "ended", "gone"},
        hand   : {<<>>} \cup {<<v>> : v \in Violations},
        alerts : Seq(Alerts),
        next   : {"run", "place", "ended"},
        began  : 0 .. now,
        raised : 0 .. MaxViolations]]
  /\ \A t \in Threads : thread[t].pc = "post" => thread[t].alerts # <<>>

Init ==
  /\ window \in Windows
  /\ buffer = <<>>
  /\ omitted = 0
  /\ start = None
  /\ lastSent = [c \in Clauses |-> None]
  /\ now = 0
  /\ thread = [t \in Threads |-> [pc |-> "run", hand |-> <<>>, alerts |-> <<>>, next |-> "run",
                                  began |-> 0, raised |-> 0]]
  /\ counted = 0
  /\ sent = [c \in Clauses |-> <<>>]
  /\ suppressed = {}
  /\ overlapped = {}

-----------------------------------------------------------------------------
(* A run: its violations are escalated, and it ends.                        *)

\* _record_violation takes the time and apply_recovery calls the handler.  What it
\* raises afterwards may end the run or be swallowed by it.
Violate(t, clause) ==
  /\ thread[t].pc = "run"
  /\ thread[t].raised < MaxViolations
  /\ IF window = Alone
       THEN /\ thread' = [thread EXCEPT ![t].pc = "report", ![t].raised = @ + 1,
                 ![t].alerts = <<[clause |-> clause, count |-> 1, omitted |-> 0]>>]
            /\ counted' = counted + 1
       ELSE /\ thread' = [thread EXCEPT ![t].pc = "call", ![t].raised = @ + 1,
                 ![t].hand = <<[by |-> t, clause |-> clause, at |-> now]>>]
            /\ UNCHANGED counted
  /\ UNCHANGED <<window, digest, webhook, now>>

\* _end calls on_session_end of a digest that is registered as an observer, unless a
\* clause raised in _start or _end.  The application may call flush() at any time.
End(t) ==
  /\ thread[t].pc = "run"
  /\ \/ thread' = [thread EXCEPT ![t].pc = "gone"]
     \/ /\ window # Alone
        /\ \E next \in {"ended", "run"} :
             thread' = [thread EXCEPT ![t].pc = "flush", ![t].next = next]
  /\ UNCHANGED <<window, digest, webhook, now, counted>>

-----------------------------------------------------------------------------
(* Digest.__call__ and flush.                                               *)

\* The buffer was opened at least a window before.
WindowOver(at) ==
  /\ window # None
  /\ buffer # <<>>
  /\ start # None
  /\ at - start >= window

CallDigest(t) ==
  /\ thread[t].pc = "call"
  /\ thread' = IF WindowOver(Head(thread[t].hand).at)
                 THEN [thread EXCEPT ![t].pc = "flush", ![t].next = "place"]
                 ELSE [thread EXCEPT ![t].pc = "place"]
  /\ UNCHANGED <<window, digest, webhook, now, counted>>

\* The clauses in the buffer, in the order of their first violations: what flush()
\* groups them by.
Groups ==
  LET clauses == {buffer[i].clause : i \in DOMAIN buffer}
  IN  {groups \in [1 .. Cardinality(clauses) -> clauses] :
         \A i, j \in DOMAIN groups : i < j =>
           \E k \in DOMAIN buffer :
             /\ buffer[k].clause = groups[i]
             /\ \A m \in 1 .. k : buffer[m].clause # groups[j]}

\* _aggregate, for each clause.  Each alert says how many violations were dropped in all.
Aggregates(groups) ==
  [i \in DOMAIN groups |->
     [clause  |-> groups[i],
      count   |-> Cardinality({k \in DOMAIN buffer : buffer[k].clause = groups[i]}),
      omitted |-> omitted]]

\* Mutant: the digest is reset before the early return.
FlushResetsFirst(t) ==
  /\ thread[t].pc = "flush"
  /\ \E groups \in Groups :
       thread' = [thread EXCEPT ![t].pc = "report", ![t].alerts = Aggregates(groups)]
  /\ buffer' = <<>> /\ omitted' = 0 /\ start' = None
  /\ counted' = counted + Len(buffer) + IF buffer = <<>> THEN 0 ELSE omitted
  /\ UNCHANGED <<window, webhook, now>>

\* Mutant: nothing is done while another thread is reporting.
FlushOneAtATime(t) ==
  /\ thread[t].pc = "flush"
  /\ \E groups \in Groups :
       thread' = [thread EXCEPT ![t].pc = "report", ![t].alerts = Aggregates(groups)]
  /\ IF buffer = <<>> \/ \E u \in Threads : thread[u].pc \in {"report", "post"}
       THEN UNCHANGED <<digest, counted>>
       ELSE /\ buffer' = <<>> /\ omitted' = 0 /\ start' = None
            /\ counted' = counted + Len(buffer) + omitted
  /\ UNCHANGED <<window, webhook, now>>

\* flush() up to its loop.  With an empty buffer nothing is reset.
Flush(t) ==
  /\ thread[t].pc = "flush"
  /\ \E groups \in Groups :
       thread' = [thread EXCEPT ![t].pc = "report", ![t].alerts = Aggregates(groups)]
  /\ IF buffer = <<>>
       THEN UNCHANGED <<digest, counted>>
       ELSE /\ buffer' = <<>> /\ omitted' = 0 /\ start' = None
            /\ counted' = counted + Len(buffer) + omitted
  /\ UNCHANGED <<window, webhook, now>>

\* Mutant: the buffer holds one violation more.
PlaceOneMore(t) ==
  /\ thread[t].pc = "place"
  /\ start' = IF buffer = <<>> THEN Head(thread[t].hand).at ELSE start
  /\ thread' = [thread EXCEPT ![t].pc = IF Len(buffer) <= MaxBuffer THEN "append" ELSE "omit"]
  /\ UNCHANGED <<window, buffer, omitted, webhook, now, counted>>

\* The first violation opens the window.  Once the length of the buffer is taken,
\* another thread may run.
Place(t) ==
  /\ thread[t].pc = "place"
  /\ start' = IF buffer = <<>> THEN Head(thread[t].hand).at ELSE start
  /\ thread' = [thread EXCEPT ![t].pc = IF Len(buffer) < MaxBuffer THEN "append" ELSE "omit"]
  /\ UNCHANGED <<window, buffer, omitted, webhook, now, counted>>

Keep(t) ==
  /\ \/ /\ thread[t].pc = "append"
        /\ buffer' = buffer \o thread[t].hand
        /\ UNCHANGED omitted
     \/ /\ thread[t].pc = "omit"
        /\ omitted' = omitted + 1
        /\ UNCHANGED buffer
  /\ thread' = [thread EXCEPT ![t].pc = "run", ![t].hand = <<>>]
  /\ UNCHANGED <<window, start, webhook, now, counted>>

-----------------------------------------------------------------------------
(* The webhook.                                                             *)

ClauseOf(t) == Head(thread[t].alerts).clause

Throttled(clause) ==
  /\ Throttle > 0
  /\ lastSent[clause] # None
  /\ now - lastSent[clause] < Throttle

\* The handler reads the clock and the throttle, and drops the alert or posts it.
Notify(t) ==
  /\ thread[t].pc = "report"
  /\ thread[t].alerts # <<>>
  /\ IF Throttled(ClauseOf(t))
       THEN /\ thread' = [thread EXCEPT ![t].alerts = Tail(@)]
            /\ suppressed' = suppressed \cup {[clause |-> ClauseOf(t), at |-> now]}
            /\ UNCHANGED overlapped
       ELSE /\ thread' = [thread EXCEPT ![t].pc = "post", ![t].began = now]
            /\ overlapped' = overlapped \cup
                 {ClauseOf(u) : u \in {u \in Threads : thread[u].pc = "post" /\ ClauseOf(u) = ClauseOf(t)}}
            /\ UNCHANGED suppressed
  /\ UNCHANGED <<window, digest, lastSent, sent, now, counted>>

Answered(t, succeeded, remembered) ==
  /\ thread[t].pc = "post"
  /\ thread' = [thread EXCEPT ![t].pc = "report", ![t].alerts = Tail(@), ![t].began = 0]
  /\ lastSent' = IF remembered THEN [lastSent EXCEPT ![ClauseOf(t)] = thread[t].began] ELSE lastSent
  /\ sent' = IF succeeded THEN [sent EXCEPT ![ClauseOf(t)] = Append(@, thread[t].began)] ELSE sent
  /\ UNCHANGED <<window, digest, suppressed, overlapped, now, counted>>

\* Mutant: the throttle also remembers a POST that failed.
PostRemembered(t) == \E succeeded \in BOOLEAN : Answered(t, succeeded, TRUE)

\* The throttle remembers the time read before a POST, if it succeeded.  A failure
\* is logged, here or by the digest, and the other alerts go out all the same.
Post(t) == \E succeeded \in BOOLEAN : Answered(t, succeeded, succeeded)

Reported(t) ==
  /\ thread[t].pc = "report"
  /\ thread[t].alerts = <<>>
  /\ thread' = [thread EXCEPT ![t].pc = thread[t].next, ![t].next = "run"]
  /\ UNCHANGED <<window, digest, webhook, now, counted>>

Tick ==
  /\ now < MaxTime
  /\ now' = now + 1
  /\ UNCHANGED <<window, digest, webhook, thread, counted>>

Next ==
  \/ \E t \in Threads :
       \/ \E clause \in Clauses : Violate(t, clause)
       \/ End(t) \/ CallDigest(t) \/ Flush(t) \/ Place(t) \/ Keep(t)
       \/ Notify(t) \/ Post(t) \/ Reported(t)
  \/ Tick

Spec == Init /\ [][Next]_vars

-----------------------------------------------------------------------------

\* The violations of the runs, each with its number in its run.
Raised == {v \in Threads \X (1 .. MaxViolations) : v[2] <= thread[v[1]].raised}

\* "A digest buffers them and fires ... with an aggregate - total count ..., and how
\* many were omitted" (digest.py): however the runs interleave, every violation is in
\* hand, in the buffer, counted as dropped, or counted by an alert.
NoneUncounted ==
  Cardinality(Raised)
    = Cardinality({t \in Threads : thread[t].hand # <<>>}) + Len(buffer) + omitted + counted

\* A run that ended through on_session_end leaves none of its violations behind in
\* the buffer ("it flushes from on_session_end"), whichever thread flushed.
EndLeavesNone ==
  \A t \in Threads : thread[t].pc = "ended" => \A i \in DOMAIN buffer : buffer[i].by # t

\* An alert is suppressed only if one of its clause was delivered less than the
\* throttle before; and as long as no two of a clause were on their way at once,
\* those delivered are a throttle apart (webhook.py).
ThrottleExact ==
  /\ \A alert \in suppressed :
       \E i \in DOMAIN sent[alert.clause] : alert.at - sent[alert.clause][i] \in 0 .. Throttle - 1
  /\ \A c \in Clauses \ overlapped :
       \A i \in 2 .. Len(sent[c]) : sent[c][i] - sent[c][i - 1] >= Throttle
=============================================================================
