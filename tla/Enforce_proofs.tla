---------------------------- MODULE Enforce_proofs ----------------------------
(***************************************************************************)
(* Proofs about sessions.  The first part is about an enforced call        *)
(* (Enforce), for contracts of any number of clauses, any recovery actions,*)
(* any number of events and any number of retries; the second about the    *)
(* elapsed time of a session (SessionClock), for any times, pauses and     *)
(* restarts, and any number of set-backs of the machine's clock.           *)
(***************************************************************************)
EXTENDS Enforce, SessionClock, WellFoundedInduction, TLAPS

\* Until the function is called the contract may change and nothing else has.
BuildPhase ==
  pc = "build" =>
    /\ runs = 0 /\ context = NoSession /\ token = NoSession
    /\ signal = Quiet /\ violations = {} /\ failed = {}

\* The inductive strengthening of RetriesUsedUp.
RunsBounded ==
  /\ runs \in 0 .. maxRetries + 1
  /\ pc = "again" => runs <= maxRetries
  /\ pc = "done" /\ signal = "retry" => runs = maxRetries + 1

\* The clauses that may raise are all judged in the function's own time.
OnlyEventsRaise ==
  \A i \in DOMAIN clauses :
    TRUE \in RecoveryRaises(clauses[i].onFail) => clauses[i].checkOn = "every_event"

\* The inductive strengthening of SignalsContained: while the function runs, its
\* session remembers that there was none before it.
SessionKept ==
  OnlyEventsRaise =>
    /\ pc \in {"again", "left", "done"} => context = NoSession
    /\ pc \in {"body", "exit"} => token = NoSession

\* The inductive strengthening of MonitorOnlyWatches.
MonitorQuiet ==
  mode = "monitor" =>
    /\ violations = failed /\ signal \in {Quiet, "error"}
    /\ runs <= 1 /\ pc # "again"
    /\ pc \in {"left", "done"} => ended /\ context = NoSession
    /\ pc \in {"body", "exit"} => token = NoSession

\* The inductive strengthening of OutcomeExplained: a violation that halts is in flight
\* or has been swallowed, and what is in flight has been recorded.
HaltsRaised ==
  /\ mode = "enforce" =>
       /\ pc = "body" => Halted = {} \/ caught
       /\ pc \in {"exit", "left"} /\ signal = Quiet => Halted = {} \/ caught
       /\ outcome = "returned" => Halted = {} \/ caught
  /\ signal \in {"violation", "retry", "fallback"} => violations # {}
  /\ outcome \in {"violation", "fellBack"} => violations # {}
  /\ outcome # "pending" => pc = "done"
  /\ outcome \notin {"retry", "fallback"}

IInv ==
  /\ TypeOK
  /\ BuildPhase
  /\ RunsBounded
  /\ SessionKept
  /\ MonitorQuiet
  /\ HaltsRaised

-----------------------------------------------------------------------------
(* The verdicts of a phase, and what they raise.                             *)

\* A set of numbers that is not empty has a smallest one.
LEMMA SmallestOf ==
  ASSUME NEW T, T \subseteq Nat, T # {}
  PROVE  \E m \in T : \A k \in T : m <= k
<1> DEFINE R == {ss \in Nat \X Nat : ss[1] < ss[2]}
<1>1. R = OpToRel(<, Nat)
  BY Zenon DEF OpToRel
<1>2. IsWellFoundedOn(R, Nat)
  BY <1>1, NatLessThanWellFounded
<1> HIDE DEF R
<1>3. PICK m \in T : \A k \in T : ~(<<k, m>> \in R)
  BY <1>2, WFMin
<1>4. \A k, m1 \in Nat : k < m1 => <<k, m1>> \in R
  BY DEF R
<1>5. \A k \in T : ~(k < m)
  BY <1>3, <1>4
<1>6. QED
  BY <1>5

\* What halts is among what fails, monitor mode halts nothing, and a failing clause
\* whose action never lets the run continue halts.
LEMMA VerdictParts ==
  ASSUME TypeOK, NEW phase, NEW v \in Verdicts(phase)
  PROVE  /\ v.failing \subseteq InPhase(phase)
         /\ v.halt \subseteq v.failing
         /\ mode = "monitor" => v.halt = {}
         /\ \A i \in v.halt : TRUE \in RecoveryRaises(clauses[i].onFail)
         /\ mode = "enforce" =>
              \A i \in v.failing : clauses[i].onFail \in Halting => i \in v.halt
<1>1. PICK failing \in SUBSET InPhase(phase) : v \in [failing : {failing}, halt : Halters(failing)]
  BY DEF Verdicts
<1>2. v.failing = failing /\ v.halt \in Halters(failing)
  BY <1>1
<1>3. CASE mode = "monitor"
  BY <1>2, <1>3 DEF Halters
<1>4. CASE mode = "enforce"
  <2>1. /\ v.halt \subseteq failing
        /\ \A i \in failing : (i \in v.halt) \in RecoveryRaises(clauses[i].onFail)
    BY <1>2, <1>4 DEF Halters
  <2>2. \A i \in v.halt : TRUE \in RecoveryRaises(clauses[i].onFail)
    BY <2>1
  <2>3. \A i \in failing : clauses[i].onFail \in Halting => i \in v.halt
    BY <2>1 DEF RecoveryRaises
  <2>4. QED
    BY <1>2, <1>4, <2>1, <2>2, <2>3
<1>5. QED
  BY <1>3, <1>4 DEF TypeOK

\* Nothing that halts: every failure is reached and the signal stays what it was.
LEMMA VerdictPasses ==
  ASSUME NEW v, v.halt = {}
  PROVE  /\ Reached(v) = v.failing
         /\ \A inFlight : SignalAfter(v, inFlight) = inFlight
BY DEF Reached, SignalAfter

\* Something that halts: the first of it is reached, recorded and raised.
LEMMA VerdictHalts ==
  ASSUME TypeOK, NEW phase, NEW v \in Verdicts(phase), v.halt # {}
  PROVE  /\ \A at : Marks(Reached(v), at) # {}
         /\ \A inFlight : SignalAfter(v, inFlight) \in {"violation", "retry", "fallback"}
<1>1. v.halt \subseteq v.failing /\ v.halt \subseteq Nat
  <2>1. Len(clauses) \in Nat
    BY DEF TypeOK
  <2>2. 1 .. Len(clauses) \subseteq Nat
    BY <2>1
  <2>3. QED
    BY <2>2, VerdictParts DEF InPhase
<1>2. PICK h \in v.halt : \A k \in v.halt : h <= k
  BY <1>1, SmallestOf
<1>3. h \in Reached(v)
  BY <1>1, <1>2 DEF Reached
<1>4. \A at : [clause |-> h, at |-> at] \in Marks(Reached(v), at)
  BY <1>3 DEF Marks
<1>5. \A inFlight : SignalAfter(v, inFlight) \in {"violation", "retry", "fallback"}
  BY DEF SignalAfter, SignalOf
<1>6. QED
  BY <1>4, <1>5

\* A verdict on its own: nothing that halts is among its violations unless it raises.
LEMMA VerdictSignals ==
  ASSUME TypeOK, NEW phase, NEW v \in Verdicts(phase), NEW at, mode = "enforce", v.halt = {}
  PROVE  \A m \in Marks(Reached(v), at) : clauses[m.clause].onFail \notin Halting
<1>1. \A i \in Reached(v) : clauses[i].onFail \notin Halting
  BY VerdictParts, VerdictPasses
<1>2. QED
  BY <1>1 DEF Marks

\* Clauses that raise are judged with the events only: a start or an end raises nothing.
LEMMA VerdictContained ==
  ASSUME TypeOK, NEW phase \in {"session_start", "session_end"}, NEW v \in Verdicts(phase),
         OnlyEventsRaise
  PROVE  v.halt = {}
<1>1. \A i \in v.halt : i \in DOMAIN clauses /\ clauses[i].checkOn = phase
  <2>1. DOMAIN clauses = 1 .. Len(clauses)
    BY DEF TypeOK
  <2>2. QED
    BY <2>1, VerdictParts DEF InPhase
<1>2. QED
  BY <1>1, VerdictParts DEF OnlyEventsRaise

-----------------------------------------------------------------------------
LEMMA InitIInv == Init => IInv
<1> SUFFICES ASSUME Init
             PROVE  IInv
  OBVIOUS
<1> USE DEF Init, ContractInit, SessionInit
<1>1. TypeOK
  <2>1. 0 \in 0 .. maxRetries + 1 /\ 0 \in 0 .. MaxEvents
    BY SessionAssumption
  <2>2. clauses \in Seq(Clauses) /\ maxRetries \in Retries \cup {0}
    OBVIOUS
  <2>3. QED
    BY <2>1, <2>2 DEF TypeOK, Actions, Signals, Quiet, NoSession, Steps, Outcomes
<1>2. BuildPhase /\ RunsBounded
  BY DEF BuildPhase, RunsBounded, Quiet, NoSession
<1>3. SessionKept /\ MonitorQuiet /\ HaltsRaised
  BY DEF SessionKept, MonitorQuiet, HaltsRaised, Quiet
<1>4. QED
  BY <1>1, <1>2, <1>3 DEF IInv

LEMMA BuildIInv == IInv /\ BuildContract => IInv'
<1> SUFFICES ASSUME IInv, BuildContract
             PROVE  IInv'
  OBVIOUS
<1>1. /\ pc = "build" /\ Build
      /\ UNCHANGED <<context, token, isActive, events, violations, failed, ended, signal,
                     pc, runs, caught, thrown, outcome>>
  BY DEF BuildContract, sessionVars
<1>2. /\ runs = 0 /\ context = NoSession /\ token = NoSession
      /\ signal = Quiet /\ violations = {} /\ failed = {}
  BY <1>1 DEF IInv, BuildPhase
<1>3. /\ clauses' \in Seq(Clauses) /\ defaultOnFail' \in Actions
      /\ maxRetries' \in Retries \cup {0}
      /\ hasFallback' \in BOOLEAN /\ mode' \in {"enforce", "monitor"}
  <2> USE ContractAssumption DEF IInv, TypeOK
  <2>1. ASSUME NEW asked \in Given, NEW otherwise \in Actions, NEW checkOn \in Phases,
               Add(asked, otherwise, checkOn)
        PROVE  clauses' \in Seq(Clauses)
    <3>1. [onFail |-> IF asked = NotGiven THEN otherwise ELSE asked, checkOn |-> checkOn]
            \in Clauses
      BY DEF Given, Clauses
    <3>2. QED
      BY <2>1, <3>1 DEF Add
  <2>2. CASE \/ \E asked \in Given, checkOn \in Phases : Require(asked, checkOn) \/ Forbid(asked, checkOn)
             \/ Precondition
             \/ \E asked \in Given : Postcondition(asked)
    <3>1. \E asked \in Given, otherwise \in Actions, checkOn \in Phases :
            Add(asked, otherwise, checkOn)
      BY <2>2 DEF Require, Forbid, Precondition, Postcondition, Given, Phases, Actions
    <3>2. UNCHANGED <<defaultOnFail, maxRetries, hasFallback, mode>>
      BY <3>1 DEF Add
    <3>3. QED
      BY <2>1, <3>1, <3>2
  <2>3. CASE \E action \in OnFails : OnViolation(action)
    BY <2>3 DEF OnViolation
  <2>4. CASE \E n \in Retries : WithRetries(n)
    BY <2>4 DEF WithRetries
  <2>5. CASE Fallback \/ Monitor
    BY <2>5 DEF Fallback, Monitor
  <2>6. QED
    BY <1>1, <2>2, <2>3, <2>4, <2>5 DEF Build
<1>4. maxRetries' \in Nat
  BY <1>3, ContractAssumption
<1>5. TypeOK'
  <2>1. 0 \in 0 .. maxRetries' + 1
    <3>1. \A n \in Nat : 0 \in 0 .. n + 1
      OBVIOUS
    <3>2. QED
      BY <1>4, <3>1
  <2>2. QED
    BY <1>1, <1>2, <1>3, <2>1 DEF IInv, TypeOK, NoSession
<1>6. BuildPhase' /\ SessionKept' /\ HaltsRaised'
  <2>1. Halted' = {}
    BY <1>1, <1>2 DEF Halted
  <2>2. QED
    BY <1>1, <1>2, <2>1 DEF BuildPhase, SessionKept, HaltsRaised, IInv, Quiet
<1>7. RunsBounded'
  <2>1. \A n \in Nat : 0 \in 0 .. n + 1
    OBVIOUS
  <2>2. runs' \in 0 .. maxRetries' + 1
    BY <1>1, <1>2, <1>4, <2>1
  <2>3. QED
    BY <1>1, <2>2 DEF RunsBounded
<1>8. MonitorQuiet'
  BY <1>1, <1>2 DEF MonitorQuiet
<1>9. QED
  BY <1>5, <1>6, <1>7, <1>8 DEF IInv

LEMMA EnterIInv == IInv /\ Enter => IInv'
<1> SUFFICES ASSUME IInv, Enter
             PROVE  IInv'
  OBVIOUS
<1> DEFINE at == At("session_start", 0)
<1>1. PICK v \in Verdicts("session_start") :
        /\ violations' = Marks(Reached(v), at)
        /\ failed' = Marks(v.failing, at)
        /\ signal' = SignalAfter(v, Quiet)
  BY DEF Enter, Start
<1>2. /\ pc \in {"build", "again"}
      /\ runs' = runs + 1 /\ context' = runs + 1 /\ token' = context
      /\ isActive' = TRUE /\ events' = 0 /\ ended' = FALSE
      /\ caught' = FALSE /\ thrown' = signal'
      /\ pc' = IF signal' = Quiet THEN "body" ELSE "left"
      /\ UNCHANGED <<clauses, defaultOnFail, maxRetries, hasFallback, mode, outcome>>
  BY DEF Enter, Start, NextRun, contractVars
<1> USE <1>1, <1>2
<1>3. maxRetries \in Nat /\ MaxEvents \in Nat /\ mode \in {"enforce", "monitor"}
  BY ContractAssumption, SessionAssumption DEF IInv, TypeOK
<1>4. runs \in Nat /\ runs <= maxRetries
  BY <1>3 DEF IInv, TypeOK, BuildPhase, RunsBounded
<1>5. runs + 1 \in 0 .. maxRetries + 1
  BY <1>3, <1>4
<1>t. /\ context' \in 0 .. maxRetries' + 1 /\ token' \in 0 .. maxRetries' + 1 /\ runs' \in Nat
      /\ clauses' \in Seq(Clauses)
  BY <1>4, <1>5 DEF IInv, TypeOK
<1>6. outcome = "pending"
  BY DEF IInv, TypeOK, HaltsRaised, Outcomes
<1>7. OnlyEventsRaise' <=> OnlyEventsRaise
  BY DEF OnlyEventsRaise
<1>8. mode = "monitor" => runs = 0
  BY DEF IInv, MonitorQuiet, BuildPhase
<1>9. (OnlyEventsRaise \/ mode = "monitor") => context = NoSession
  BY DEF IInv, MonitorQuiet, BuildPhase, SessionKept
<1>10. CASE v.halt = {}
  <2>1. signal' = Quiet /\ pc' = "body" /\ Reached(v) = v.failing
    BY <1>10, VerdictPasses
  <2>2. TypeOK'
    <3>1. 0 \in 0 .. MaxEvents
      BY <1>3
    <3>2. QED
      BY <1>5, <1>t, <2>1, <3>1 DEF IInv, TypeOK, Steps, Signals, Quiet
  <2>3. BuildPhase' /\ SessionKept' /\ MonitorQuiet'
    BY <1>7, <1>8, <1>9, <2>1 DEF BuildPhase, SessionKept, MonitorQuiet, Quiet
  <2>4. RunsBounded'
    BY <1>5, <2>1 DEF RunsBounded
  <2>5. mode = "enforce" => Halted' = {}
    BY <1>10, VerdictSignals DEF IInv, Halted
  <2>6. HaltsRaised'
    BY <1>6, <2>1, <2>5 DEF HaltsRaised, Quiet
  <2>7. QED
    BY <2>2, <2>3, <2>4, <2>6 DEF IInv
<1>11. CASE v.halt # {}
  <2>1. signal' \in {"violation", "retry", "fallback"} /\ violations' # {}
    BY <1>11, VerdictHalts DEF IInv
  <2>2. pc' = "left" /\ signal' # Quiet
    BY <2>1 DEF Quiet
  <2>3. mode # "monitor" /\ ~OnlyEventsRaise
    BY <1>11, VerdictParts, VerdictContained DEF IInv
  <2>4. TypeOK'
    <3>1. 0 \in 0 .. MaxEvents
      BY <1>3
    <3>2. QED
      BY <1>5, <1>t, <2>1, <2>2, <3>1 DEF IInv, TypeOK, Steps, Signals
  <2>5. BuildPhase' /\ SessionKept' /\ MonitorQuiet'
    BY <1>7, <2>2, <2>3 DEF BuildPhase, SessionKept, MonitorQuiet
  <2>6. RunsBounded'
    BY <1>5, <2>2 DEF RunsBounded
  <2>7. HaltsRaised'
    BY <1>6, <2>1, <2>2 DEF HaltsRaised
  <2>8. QED
    BY <2>4, <2>5, <2>6, <2>7 DEF IInv
<1>12. QED
  BY <1>10, <1>11

LEMMA EmitIInv == IInv /\ Emit => IInv'
<1> SUFFICES ASSUME IInv, Emit
             PROVE  IInv'
  OBVIOUS
<1> DEFINE at == At("every_event", events')
<1>1. PICK v \in Verdicts("every_event") :
        /\ violations' = violations \cup Marks(Reached(v), at)
        /\ failed' = failed \cup Marks(v.failing, at)
        /\ signal' = SignalAfter(v, Quiet)
  BY DEF Emit, Record
<1>2. /\ pc = "body" /\ events < MaxEvents /\ events' = events + 1
      /\ \/ pc' = "body" /\ caught' = (caught \/ signal' # Quiet)
         \/ signal' # Quiet /\ pc' = "exit" /\ UNCHANGED caught
      /\ UNCHANGED <<context, token, isActive, ended, runs, thrown, outcome,
                     clauses, defaultOnFail, maxRetries, hasFallback, mode>>
  BY DEF Emit, Record, contractVars
<1> HIDE DEF at
<1>3. events' \in 0 .. MaxEvents
  BY <1>2, SessionAssumption DEF IInv, TypeOK
<1>4. outcome = "pending"
  BY <1>2 DEF IInv, TypeOK, HaltsRaised, Outcomes
<1>5. OnlyEventsRaise' <=> OnlyEventsRaise
  BY <1>2 DEF OnlyEventsRaise
<1>6. pc' \in {"body", "exit"} /\ caught' \in BOOLEAN
  BY <1>2 DEF IInv, TypeOK
<1>7. CASE v.halt = {}
  <2>1. signal' = Quiet /\ pc' = "body" /\ caught' = caught /\ Reached(v) = v.failing
    BY <1>1, <1>2, <1>7, VerdictPasses DEF IInv, TypeOK
  <2>2. TypeOK'
    BY <1>2, <1>3, <1>6, <2>1 DEF IInv, TypeOK, Steps, Signals
  <2>3. mode = "enforce" /\ Halted = {} => Halted' = {}
    <3>1. mode = "enforce" =>
            \A m \in Marks(Reached(v), at) : clauses[m.clause].onFail \notin Halting
      BY <1>7, VerdictSignals DEF IInv
    <3>2. QED
      BY <1>1, <1>2, <3>1 DEF Halted
  <2>4. HaltsRaised'
    BY <1>2, <1>4, <2>1, <2>3 DEF IInv, HaltsRaised, Quiet
  <2>5. BuildPhase' /\ SessionKept' /\ RunsBounded'
    BY <1>2, <1>5, <2>1 DEF IInv, BuildPhase, SessionKept, RunsBounded
  <2>6. MonitorQuiet'
    BY <1>1, <1>2, <2>1 DEF IInv, MonitorQuiet
  <2>7. QED
    BY <2>2, <2>4, <2>5, <2>6 DEF IInv
<1>8. CASE v.halt # {}
  <2>1. signal' \in {"violation", "retry", "fallback"} /\ signal' # Quiet /\ violations' # {}
    BY <1>1, <1>8, VerdictHalts DEF IInv, Quiet
  <2>2. mode # "monitor"
    BY <1>8, VerdictParts DEF IInv
  <2>3. TypeOK'
    BY <1>2, <1>3, <1>6, <2>1 DEF IInv, TypeOK, Steps, Signals
  <2>4. HaltsRaised'
    BY <1>2, <1>4, <2>1 DEF IInv, HaltsRaised
  <2>5. BuildPhase' /\ SessionKept' /\ RunsBounded' /\ MonitorQuiet'
    BY <1>2, <1>5, <1>6, <2>2 DEF IInv, BuildPhase, SessionKept, RunsBounded, MonitorQuiet
  <2>6. QED
    BY <2>3, <2>4, <2>5 DEF IInv
<1>9. QED
  BY <1>7, <1>8

LEMMA LeaveIInv == IInv /\ Leave => IInv'
<1> SUFFICES ASSUME IInv, Leave
             PROVE  IInv'
  OBVIOUS
<1>1. /\ pc = "body" /\ pc' = "exit" /\ signal' \in {Quiet, "error"}
      /\ UNCHANGED <<context, token, isActive, events, violations, failed, ended, runs,
                     caught, thrown, outcome,
                     clauses, defaultOnFail, maxRetries, hasFallback, mode>>
  BY DEF Leave, contractVars
<1>2. TypeOK'
  BY <1>1 DEF IInv, TypeOK, Steps, Signals
<1>3. Halted' = Halted /\ (OnlyEventsRaise' <=> OnlyEventsRaise)
  BY <1>1 DEF Halted, OnlyEventsRaise
<1>4. HaltsRaised'
  BY <1>1, <1>3 DEF IInv, HaltsRaised, Quiet
<1>5. BuildPhase' /\ SessionKept' /\ RunsBounded' /\ MonitorQuiet'
  BY <1>1, <1>3 DEF IInv, BuildPhase, SessionKept, RunsBounded, MonitorQuiet
<1>6. QED
  BY <1>2, <1>4, <1>5 DEF IInv

LEMMA ExitIInv == IInv /\ Exit => IInv'
<1> SUFFICES ASSUME IInv, Exit
             PROVE  IInv'
  OBVIOUS
<1> DEFINE at == At("session_end", 0)
<1>1. PICK v \in Verdicts("session_end") :
        /\ violations' = violations \cup Marks(Reached(v), at)
        /\ failed' = failed \cup Marks(v.failing, at)
        /\ signal' = SignalAfter(v, signal)
        /\ ended' = (v.halt = {}) /\ isActive' = (v.halt # {})
        /\ context' = IF v.halt = {} THEN token ELSE context
  BY DEF Exit, End
<1>2. /\ pc = "exit" /\ pc' = "left" /\ thrown' = signal
      /\ UNCHANGED <<token, events, runs, caught, outcome,
                     clauses, defaultOnFail, maxRetries, hasFallback, mode>>
  BY DEF Exit, End, contractVars
<1> HIDE DEF at
<1>3. outcome = "pending"
  BY <1>2 DEF IInv, TypeOK, HaltsRaised, Outcomes
<1>4. OnlyEventsRaise' <=> OnlyEventsRaise
  BY <1>2 DEF OnlyEventsRaise
<1>5. CASE v.halt = {}
  <2>1. /\ signal' = signal /\ ended' = TRUE /\ isActive' = FALSE /\ context' = token
        /\ Reached(v) = v.failing
    BY <1>1, <1>5, VerdictPasses
  <2>2. TypeOK'
    BY <1>2, <2>1 DEF IInv, TypeOK, Steps
  <2>3. mode = "enforce" /\ Halted = {} => Halted' = {}
    <3>1. mode = "enforce" =>
            \A m \in Marks(Reached(v), at) : clauses[m.clause].onFail \notin Halting
      BY <1>5, VerdictSignals DEF IInv
    <3>2. QED
      BY <1>1, <1>2, <3>1 DEF Halted
  <2>4. HaltsRaised'
    BY <1>1, <1>2, <1>3, <2>1, <2>3 DEF IInv, HaltsRaised
  <2>5. BuildPhase' /\ SessionKept' /\ RunsBounded'
    BY <1>2, <1>4, <2>1 DEF IInv, BuildPhase, SessionKept, RunsBounded
  <2>6. MonitorQuiet'
    BY <1>1, <1>2, <2>1 DEF IInv, MonitorQuiet
  <2>7. QED
    BY <2>2, <2>4, <2>5, <2>6 DEF IInv
<1>6. CASE v.halt # {}
  <2>1. /\ signal' \in {"violation", "retry", "fallback"} /\ signal' # Quiet
        /\ violations' # {}
        /\ ended' = FALSE /\ isActive' = TRUE /\ context' = context
    BY <1>1, <1>6, VerdictHalts DEF IInv, Quiet
  <2>2. mode # "monitor" /\ ~OnlyEventsRaise
    BY <1>6, VerdictParts, VerdictContained DEF IInv
  <2>3. TypeOK'
    BY <1>2, <2>1 DEF IInv, TypeOK, Steps, Signals
  <2>4. HaltsRaised'
    BY <1>2, <1>3, <2>1 DEF HaltsRaised
  <2>5. BuildPhase' /\ SessionKept' /\ RunsBounded' /\ MonitorQuiet'
    BY <1>2, <1>4, <2>2 DEF IInv, BuildPhase, SessionKept, RunsBounded, MonitorQuiet
  <2>6. QED
    BY <2>3, <2>4, <2>5 DEF IInv
<1>7. QED
  BY <1>5, <1>6

LEMMA DecideIInv == IInv /\ Decide => IInv'
<1> SUFFICES ASSUME IInv, Decide
             PROVE  IInv'
  OBVIOUS
<1>1. /\ pc = "left"
      /\ UNCHANGED <<context, token, isActive, events, violations, failed, ended, signal,
                     runs, caught, thrown,
                     clauses, defaultOnFail, maxRetries, hasFallback, mode>>
  BY DEF Decide, contractVars, sessionVars
<1>2. Halted' = Halted /\ (OnlyEventsRaise' <=> OnlyEventsRaise)
  BY <1>1 DEF Halted, OnlyEventsRaise
<1>3. runs \in Nat /\ maxRetries \in Nat /\ runs <= maxRetries + 1
  BY ContractAssumption DEF IInv, TypeOK, RunsBounded
<1>4. outcome = "pending"
  BY <1>1 DEF IInv, TypeOK, HaltsRaised, Outcomes
<1>5. CASE signal = "retry" /\ ~Exhausted /\ pc' = "again" /\ outcome' = outcome
  <2>1. runs <= maxRetries
    BY <1>3, <1>5 DEF Exhausted
  <2>2. TypeOK'
    BY <1>1, <1>5 DEF IInv, TypeOK, Steps
  <2>3. BuildPhase' /\ SessionKept' /\ RunsBounded'
    BY <1>1, <1>2, <1>5, <2>1 DEF IInv, BuildPhase, SessionKept, RunsBounded
  <2>4. MonitorQuiet'
    BY <1>1, <1>5 DEF IInv, MonitorQuiet, Quiet
  <2>5. HaltsRaised'
    BY <1>1, <1>2, <1>4, <1>5 DEF IInv, HaltsRaised
  <2>6. QED
    BY <2>2, <2>3, <2>4, <2>5 DEF IInv
<1>6. CASE /\ signal = "retry" => Exhausted
           /\ pc' = "done"
           /\ outcome' = CASE signal = Quiet -> "returned"
                           [] signal = "fallback" /\ hasFallback -> "fellBack"
                           [] OTHER -> Finish(signal)
  <2>1. /\ outcome' \in {"returned", "fellBack", "violation", "error"}
        /\ outcome' = "returned" => signal = Quiet
        /\ outcome' \in {"fellBack", "violation"} =>
             signal \in {"violation", "retry", "fallback"}
    BY <1>6 DEF IInv, TypeOK, Signals, Quiet, Finish
  <2>2. signal = "retry" => runs = maxRetries + 1
    BY <1>3, <1>6 DEF Exhausted
  <2>3. TypeOK'
    BY <1>1, <1>6, <2>1 DEF IInv, TypeOK, Steps, Outcomes
  <2>4. BuildPhase' /\ SessionKept' /\ RunsBounded'
    BY <1>1, <1>2, <1>6, <2>2 DEF IInv, BuildPhase, SessionKept, RunsBounded
  <2>5. MonitorQuiet'
    BY <1>1, <1>6 DEF IInv, MonitorQuiet
  <2>6. HaltsRaised'
    BY <1>1, <1>2, <1>6, <2>1 DEF IInv, HaltsRaised
  <2>7. QED
    BY <2>3, <2>4, <2>5, <2>6 DEF IInv
<1>7. QED
  BY <1>5, <1>6 DEF Decide

LEMMA StepIInv == IInv /\ [Next]_vars => IInv'
<1>1. IInv /\ UNCHANGED vars => IInv'
  <2> SUFFICES ASSUME IInv, UNCHANGED vars
               PROVE  IInv'
    OBVIOUS
  <2> USE DEF vars, contractVars, sessionVars
  <2>1. Halted' = Halted /\ (OnlyEventsRaise' <=> OnlyEventsRaise)
    BY DEF Halted, OnlyEventsRaise
  <2>2. QED
    BY <2>1 DEF IInv, TypeOK, BuildPhase, RunsBounded, SessionKept, MonitorQuiet, HaltsRaised
<1>2. QED
  BY <1>1, BuildIInv, EnterIInv, EmitIInv, LeaveIInv, ExitIInv, DecideIInv DEF Next

LEMMA EnforceInvariant == Spec => []IInv
<1>1. Init => IInv
  BY InitIInv
<1>2. IInv /\ [Next]_vars => IInv'
  BY StepIInv
<1>3. QED
  BY <1>1, <1>2, PTL DEF Spec

-----------------------------------------------------------------------------
\* Whatever the contract, a call that returns the function's value broke nothing that
\* halts unless the function swallowed it, and one that raises a violation or falls back
\* has a recorded violation to show for it (contract.py:246-304).
THEOREM EnforceOutcomeExplained == Spec => []OutcomeExplained
<1>1. IInv => OutcomeExplained
  BY DEF IInv, HaltsRaised, OutcomeExplained
<1>2. QED
  BY <1>1, EnforceInvariant, PTL

\* No recovery signal and, unless a clause of the session's start or end may raise, no
\* session is left with the caller (contract.py:275-285, session.py:192, 226-229).
THEOREM EnforceSignalsContained == Spec => []SignalsContained
<1>1. IInv => SignalsContained
  <2> SUFFICES ASSUME IInv
               PROVE  SignalsContained
    OBVIOUS
  <2>1. outcome \notin {"retry", "fallback"}
    BY DEF IInv, HaltsRaised
  <2>2. OnlyEventsRaise => (pc \in {"build", "done"} => context = NoSession)
    BY DEF IInv, BuildPhase, SessionKept
  <2>3. QED
    BY <2>1, <2>2 DEF SignalsContained, OnlyEventsRaise
<1>2. QED
  BY <1>1, EnforceInvariant, PTL

\* No contract makes a function run more than max_retries + 1 times, and a retry gives up
\* only after exactly as many (contract.py:275-279).
THEOREM EnforceRetriesUsedUp == Spec => []RetriesUsedUp
<1>1. IInv => RetriesUsedUp
  BY ContractAssumption DEF IInv, TypeOK, RunsBounded, RetriesUsedUp
<1>2. QED
  BY <1>1, EnforceInvariant, PTL

\* In monitor mode every failing clause is recorded and none acts, whatever its recovery
\* action, and the session always ends and leaves none behind (session.py:201-229, 528-534).
THEOREM EnforceMonitorOnlyWatches == Spec => []MonitorOnlyWatches
<1>1. IInv => MonitorOnlyWatches
  BY DEF IInv, MonitorQuiet, MonitorOnlyWatches
<1>2. QED
  BY <1>1, EnforceInvariant, PTL

-----------------------------------------------------------------------------
(* The elapsed time of a session (SessionClock).                            *)

\* The time at which the session's clock stands.
ClockStands == IF pausedAt = NotPaused THEN now ELSE pausedAt

\* Before _start nothing has run or been paused; a running session has started, and only
\* one that runs is paused.
NotBeforeStart ==
  /\ startedAt = 0 => /\ ran = 0 /\ quiet = 0 /\ pausedFor = 0 /\ restored = 0 /\ ~active
                      /\ clock = "wall" => elapsed = 0
  /\ active => startedAt # 0
  /\ ~active => pausedAt = NotPaused
  /\ clock = "wall" => elapsed >= 0

\* What lies between the start and where the clock stands has been run or is booked as a
\* pause.
BookedAtMost == active => ClockStands <= startedAt + pausedFor + ran

\* The same from below.
BookedAtLeast ==
  startedAt # 0 /\ setBacks = 0 =>
    /\ startedAt + pausedFor + ran <= ClockStands
    /\ ClockStands <= now

\* What was handed over without idle time in it is running time.
HandedOver ==
  clock = "wall" /\ ~rough =>
    /\ restored <= used
    /\ elapsed <= used + ran
    /\ startedAt = 0 /\ override # NoOverride => override <= used

\* The events of t lie between the beginning of the run and now.
Within(t) == t.n > 0 => begun # 0 /\ begun <= t.from /\ t.from <= t.to /\ t.to <= now

\* Everything that counts as elapsed lies between the beginning of the run and now.
SinceBegun ==
  clock = "wall" /\ setBacks = 0 =>
    /\ begun <= now
    /\ Within(trace)
    /\ Within(pending)
    /\ startedAt = 0 /\ override # NoOverride => begun # 0 /\ override <= now - begun
    /\ startedAt # 0 => /\ begun # 0 /\ begun <= startedAt /\ startedAt <= now
                        /\ restored <= startedAt - begun
                        /\ elapsed <= now - begun

\* What ran between the first event and the latest lies between their timestamps, and is
\* counted by every session and in everything that is handed over to one.
ToldKept ==
  clock = "wall" /\ setBacks = 0 =>
    /\ trace.n = 0 => told = 0
    /\ trace.n > 0 => told <= trace.to - trace.from /\ told + quiet <= now - trace.from
    /\ startedAt = 0 => /\ pending.n = 0 => told = 0
                        /\ pending.n > 0 => told <= pending.to - pending.from
                        /\ override # NoOverride => told <= override
    /\ startedAt # 0 => told + quiet <= restored + ran /\ told <= elapsed

ClockIInv ==
  /\ ClockTypeOK
  /\ NotBeforeStart
  /\ BookedAtMost
  /\ BookedAtLeast
  /\ HandedOver
  /\ SinceBegun
  /\ ToldKept

-----------------------------------------------------------------------------
LEMMA ClockTypes ==
  ASSUME ClockTypeOK
  PROVE  /\ now \in Nat /\ now > 0 /\ startedAt \in Nat /\ pausedFor \in Nat /\ restored \in Nat
         /\ elapsed \in Int /\ first \in Nat /\ last \in Nat /\ recorded \in Nat
         /\ begun \in Nat /\ used \in Nat /\ ran \in Nat /\ told \in Nat /\ quiet \in Nat
         /\ setBacks \in Nat
         /\ pausedAt \in Int /\ (pausedAt # NotPaused => pausedAt \in Nat)
         /\ override \in Int /\ (override # NoOverride => override \in Nat)
         /\ trace \in TraceType /\ trace.n \in Nat /\ trace.from \in Nat /\ trace.to \in Nat
         /\ pending \in TraceType /\ pending.n \in Nat /\ pending.from \in Nat /\ pending.to \in Nat
BY ClockAssumption DEF ClockTypeOK, TraceType, NotPaused, NoOverride

LEMMA ClockInitIInv == ClockInit => ClockIInv
<1> SUFFICES ASSUME ClockInit
             PROVE  ClockIInv
  OBVIOUS
<1>1. NoTrace \in TraceType /\ NoTrace.n = 0
  BY DEF NoTrace, TraceType
<1>2. ClockTypeOK
  <2>1. setBacks \in 0 .. MaxSetBacks /\ restarts \in 0 .. MaxRestarts
    BY ClockAssumption DEF ClockInit
  <2>2. /\ now \in Nat \ {0} /\ pausedAt \in Nat \cup {NotPaused} /\ override \in Nat \cup {NoOverride}
        /\ elapsed \in Int /\ {begun, used, ran, told, quiet} \subseteq Nat
    BY DEF ClockInit
  <2>3. QED
    BY <1>1, <2>1, <2>2 DEF ClockInit, ClockTypeOK
<1>3. NotBeforeStart /\ BookedAtMost /\ BookedAtLeast
  BY DEF ClockInit, NotBeforeStart, BookedAtMost, BookedAtLeast
<1>4. HandedOver /\ SinceBegun /\ ToldKept
  BY <1>1 DEF ClockInit, HandedOver, SinceBegun, Within, ToldKept
<1>5. QED
  BY <1>2, <1>3, <1>4 DEF ClockIInv

\* Ending a pause moves the pause from where the clock stands to what is booked.
LEMMA UnpausedBooks ==
  ASSUME ClockIInv
  PROVE  /\ Unpaused \in Nat
         /\ pausedAt = NotPaused => Unpaused = pausedFor
         /\ active => now <= startedAt + Unpaused + ran
         /\ startedAt # 0 /\ setBacks = 0 => startedAt + Unpaused + ran <= now
<1>1. ClockTypeOK /\ BookedAtMost /\ BookedAtLeast
  BY DEF ClockIInv
<1> USE <1>1, ClockTypes DEF BookedAtMost, BookedAtLeast, ClockStands, Unpaused, AtLeast0
<1>2. CASE pausedAt = NotPaused
  BY <1>2
<1>3. CASE pausedAt # NotPaused /\ now < pausedAt
  BY <1>3
<1>4. CASE pausedAt # NotPaused /\ now >= pausedAt
  BY <1>4
<1>5. QED
  BY <1>2, <1>3, <1>4

\* What the wall clock of a session that has started shows once a pause is booked.
LEMMA WallBounds ==
  ASSUME ClockIInv, startedAt # 0
  PROVE  /\ WallElapsed(Unpaused) \in Nat
         /\ active => WallElapsed(Unpaused) <= restored + ran
         /\ setBacks = 0 => restored + ran <= WallElapsed(Unpaused)
         /\ setBacks = 0 /\ clock = "wall" => WallElapsed(Unpaused) <= now - begun
<1>1. ClockTypeOK /\ SinceBegun
  BY DEF ClockIInv
<1> HIDE DEF Unpaused
<1>2. CASE now - startedAt - Unpaused < 0
  BY <1>1, <1>2, ClockTypes, UnpausedBooks DEF WallElapsed, AtLeast0, SinceBegun
<1>3. CASE now - startedAt - Unpaused >= 0
  BY <1>1, <1>3, ClockTypes, UnpausedBooks DEF WallElapsed, AtLeast0, SinceBegun
<1>4. QED
  BY <1>1, <1>2, <1>3, ClockTypes, UnpausedBooks

LEMMA ClockTickIInv == ClockIInv /\ Tick => ClockIInv'
<1> SUFFICES ASSUME ClockIInv, Tick
             PROVE  ClockIInv'
  OBVIOUS
<1>1. /\ ClockTypeOK /\ now' = now + 1
      /\ UNCHANGED <<life, pause, meter, past, begun, told, setBacks>>
      /\ IF active /\ pausedAt = NotPaused
           THEN ran' = ran + 1 /\ quiet' = quiet + 1
           ELSE ran' = ran /\ quiet' = quiet
  BY DEF Tick, ClockIInv
<1> USE <1>1, ClockTypes DEF life, pause, meter, past
<1>2. ClockTypeOK'
  BY DEF ClockTypeOK
<1>3. NotBeforeStart' /\ BookedAtMost' /\ BookedAtLeast'
  BY DEF ClockIInv, NotBeforeStart, BookedAtMost, BookedAtLeast, ClockStands
<1>4. HandedOver'
  BY DEF ClockIInv, HandedOver
<1>5. SinceBegun'
  BY DEF ClockIInv, SinceBegun, Within
<1>6. ToldKept'
  BY DEF ClockIInv, ToldKept, NotBeforeStart
<1>7. QED
  BY <1>2, <1>3, <1>4, <1>5, <1>6 DEF ClockIInv

LEMMA ClockSetBackIInv == ClockIInv /\ SetBack => ClockIInv'
<1> SUFFICES ASSUME ClockIInv, SetBack
             PROVE  ClockIInv'
  OBVIOUS
<1>1. /\ now \in Nat \ {0} /\ now' \in 1 .. now - 1
      /\ setBacks \in 0 .. MaxSetBacks /\ setBacks < MaxSetBacks /\ setBacks' = setBacks + 1
      /\ MaxSetBacks \in Nat
      /\ UNCHANGED <<life, pause, meter, past, count>>
  BY ClockAssumption DEF SetBack, ClockIInv, ClockTypeOK
<1>2. now' \in Nat \ {0} /\ now' < now
  BY ONLY <1>1
<1>3. setBacks' \in 0 .. MaxSetBacks /\ setBacks' # 0
  BY ONLY <1>1
<1>4. ClockTypeOK' /\ NotBeforeStart'
  BY <1>1, <1>2, <1>3 DEF ClockIInv, ClockTypeOK, NotBeforeStart, life, pause, meter, past, count
<1>5. BookedAtMost'
  BY <1>1, <1>2, ClockTypes DEF ClockIInv, BookedAtMost, ClockStands, life, pause, count
<1>6. BookedAtLeast' /\ SinceBegun' /\ ToldKept'
  BY <1>3 DEF BookedAtLeast, SinceBegun, ToldKept
<1>7. HandedOver'
  BY <1>1 DEF ClockIInv, HandedOver, life, meter, past, count
<1>8. QED
  BY <1>4, <1>5, <1>6, <1>7 DEF ClockIInv

\* What a session takes over from the one before it.
LEMMA Restores ==
  ASSUME ClockIInv, ClockStart
  PROVE  /\ startedAt = 0 /\ startedAt' = now /\ active' = TRUE /\ pending' = NoTrace
         /\ begun' = IF begun = 0 THEN now ELSE begun
         /\ rough' = (pending.n > 0 /\ (rough \/ override = NoOverride))
         /\ UNCHANGED <<clock, override, pause, now, trace, setBacks, restarts, used, ran, told, quiet>>
         /\ restored' \in Nat /\ elapsed' \in Int /\ first' \in Nat /\ last' \in Nat /\ recorded' \in Nat
         /\ pending.n = 0 => restored' = 0
         /\ clock = "wall" => elapsed' = restored'
         /\ clock = "wall" /\ pending.n > 0 /\ override # NoOverride => restored' = override
         /\ clock = "wall" /\ pending.n > 0 /\ override = NoOverride =>
              restored' = AtLeast0(pending.to - pending.from)
<1>1. ClockTypeOK /\ NotBeforeStart
  BY DEF ClockIInv
<1>2. /\ startedAt = 0 /\ startedAt' = now /\ active' = TRUE /\ pending' = NoTrace /\ Apply
      /\ begun' = IF begun = 0 THEN now ELSE begun
      /\ rough' = (pending.n > 0 /\ (rough \/ override = NoOverride))
      /\ UNCHANGED <<clock, override, pause, now, trace, setBacks, restarts, used, ran, told, quiet>>
  BY DEF ClockStart, Begin
<1>3. CASE pending.n = 0
  BY <1>1, <1>2, <1>3, ClockTypes DEF Apply, NotBeforeStart
<1>4. CASE pending.n # 0 /\ clock = "wall"
  BY <1>1, <1>2, <1>4, ClockTypes DEF Apply, RestoredElapsed, AtLeast0
<1>5. CASE pending.n # 0 /\ clock # "wall"
  <2>1. /\ recorded' = recorded + pending.n /\ UNCHANGED restored /\ last' = pending.to
        /\ first' = IF recorded = 0 THEN pending.from ELSE first
        /\ elapsed' = AtLeast0(pending.to - first')
    BY <1>2, <1>5 DEF Apply
  <2>2. QED
    BY <1>1, <1>2, <1>5, <2>1, ClockTypes DEF AtLeast0
<1>6. QED
  BY <1>3, <1>4, <1>5

LEMMA ClockStartIInv == ClockIInv /\ ClockStart => ClockIInv'
<1> SUFFICES ASSUME ClockIInv, ClockStart
             PROVE  ClockIInv'
  OBVIOUS
<1>1. ClockTypeOK /\ NotBeforeStart /\ SinceBegun /\ ToldKept /\ HandedOver
  BY DEF ClockIInv
<1>2. NoTrace \in TraceType /\ NoTrace.n = 0
  BY DEF NoTrace, TraceType
<1>3. ClockTypeOK'
  BY <1>1, <1>2, Restores, ClockTypes DEF ClockTypeOK, pause
<1>4. NotBeforeStart' /\ BookedAtMost' /\ BookedAtLeast'
  BY <1>1, Restores, ClockTypes
  DEF NotBeforeStart, BookedAtMost, BookedAtLeast, ClockStands, pause
<1>5. HandedOver'
  <2>1. SUFFICES ASSUME clock = "wall", ~rough'
                 PROVE  restored' <= used /\ elapsed' <= used + ran
    BY <1>1, Restores, ClockTypes DEF HandedOver
  <2>2. CASE pending.n = 0
    BY <1>1, <2>1, <2>2, Restores, ClockTypes
  <2>3. CASE pending.n # 0
    <3>1. ~rough /\ override # NoOverride
      <4>1. pending.n > 0
        BY <1>1, <2>3, ClockTypes
      <4>2. rough' = (pending.n > 0 /\ (rough \/ override = NoOverride))
        BY Restores
      <4>3. QED
        BY <2>1, <4>1, <4>2, Zenon
    <3>2. override <= used /\ restored' = override /\ elapsed' = restored'
      BY <1>1, <2>1, <2>3, <3>1, Restores, ClockTypes DEF HandedOver
    <3>3. QED
      BY <1>1, <3>2, ClockTypes
  <2>4. QED
    BY <2>2, <2>3
<1>6. SinceBegun'
  <2>1. SUFFICES ASSUME clock = "wall", setBacks = 0
                 PROVE  /\ begun' <= now /\ Within(trace)' /\ Within(pending)' /\ begun' # 0
                        /\ restored' <= now - begun' /\ elapsed' <= now - begun'
    BY <1>1, Restores, ClockTypes DEF SinceBegun
  <2>2. begun' <= now /\ begun' # 0 /\ Within(trace)' /\ Within(pending)'
    BY <1>1, <1>2, <2>1, Restores, ClockTypes DEF SinceBegun, Within
  <2>3. CASE pending.n = 0
    BY <1>1, <2>1, <2>2, <2>3, Restores, ClockTypes
  <2>4. CASE pending.n # 0 /\ override # NoOverride
    BY <1>1, <2>1, <2>2, <2>4, Restores, ClockTypes DEF SinceBegun
  <2>5. CASE pending.n # 0 /\ override = NoOverride
    BY <1>1, <2>1, <2>2, <2>5, Restores, ClockTypes DEF SinceBegun, Within, AtLeast0
  <2>6. QED
    BY <2>2, <2>3, <2>4, <2>5
<1>7. ToldKept'
  <2>1. SUFFICES ASSUME clock = "wall", setBacks = 0
                 PROVE  told <= restored'
    BY <1>1, Restores, ClockTypes DEF ToldKept, NotBeforeStart
  <2>2. CASE pending.n = 0
    BY <1>1, <2>1, <2>2, Restores, ClockTypes DEF ToldKept
  <2>3. CASE pending.n # 0 /\ override # NoOverride
    BY <1>1, <2>1, <2>3, Restores, ClockTypes DEF ToldKept
  <2>4. CASE pending.n # 0 /\ override = NoOverride
    BY <1>1, <2>1, <2>4, Restores, ClockTypes DEF ToldKept, AtLeast0
  <2>5. QED
    BY <2>2, <2>3, <2>4
<1>8. QED
  BY <1>3, <1>4, <1>5, <1>6, <1>7 DEF ClockIInv

LEMMA ClockPauseIInv == ClockIInv /\ Pause => ClockIInv'
<1> SUFFICES ASSUME ClockIInv, Pause
             PROVE  ClockIInv'
  OBVIOUS
<1>1. /\ ClockTypeOK /\ active /\ pausedAt' = PauseAt
      /\ UNCHANGED <<life, meter, past, count, now, pausedFor, setBacks>>
  BY DEF Pause, ClockIInv
<1> USE <1>1, ClockTypes DEF life, meter, past, count
<1>2. ClockTypeOK'
  BY DEF ClockTypeOK, PauseAt
<1>3. NotBeforeStart' /\ BookedAtMost' /\ BookedAtLeast'
  BY DEF ClockIInv, NotBeforeStart, BookedAtMost, BookedAtLeast, ClockStands, PauseAt, NotPaused
<1>4. HandedOver' /\ SinceBegun' /\ ToldKept'
  BY DEF ClockIInv, HandedOver, SinceBegun, Within, ToldKept
<1>5. QED
  BY <1>2, <1>3, <1>4 DEF ClockIInv

\* Booking a pause keeps what is known of where the clock stands.
LEMMA BookingKept ==
  ASSUME ClockIInv, pausedFor' = Unpaused, pausedAt' = NotPaused,
         startedAt' = startedAt, active' = active \/ ~active', now' = now, setBacks' = setBacks, ran' = ran
  PROVE  BookedAtMost' /\ BookedAtLeast'
<1> HIDE DEF Unpaused
<1>1. QED
  BY UnpausedBooks, ClockTypes DEF ClockIInv, BookedAtMost, BookedAtLeast, ClockStands

LEMMA ClockResumeIInv == ClockIInv /\ Resume => ClockIInv'
<1> SUFFICES ASSUME ClockIInv, Resume
             PROVE  ClockIInv'
  OBVIOUS
<1>1. /\ pausedFor' = Unpaused /\ pausedAt' = NotPaused /\ pausedAt # NotPaused
      /\ UNCHANGED <<life, meter, past, count, now, setBacks>>
  BY DEF Resume
<1>2. ClockTypeOK'
  BY <1>1, UnpausedBooks DEF ClockIInv, ClockTypeOK, life, meter, past, count
<1>3. NotBeforeStart'
  BY <1>1 DEF ClockIInv, NotBeforeStart, life, meter, past, count
<1>4. BookedAtMost' /\ BookedAtLeast'
  BY <1>1, BookingKept DEF life, count
<1>5. HandedOver' /\ SinceBegun' /\ ToldKept'
  BY <1>1 DEF ClockIInv, HandedOver, SinceBegun, Within, ToldKept, life, meter, past, count
<1>6. QED
  BY <1>2, <1>3, <1>4, <1>5 DEF ClockIInv

\* The trace with one more event at its end.
LEMMA TraceGrown ==
  ASSUME ClockIInv, NEW stamp \in Nat
  PROVE  /\ Grown(stamp) \in TraceType /\ Grown(stamp).n = trace.n + 1
         /\ trace.n = 0 => Grown(stamp).from = stamp /\ Grown(stamp).to = stamp
         /\ trace.n # 0 /\ clock = "wall" =>
              /\ Grown(stamp).from = IF stamp < trace.from THEN stamp ELSE trace.from
              /\ Grown(stamp).to = IF stamp < trace.to THEN trace.to ELSE stamp
<1>1. /\ trace.n \in Nat /\ trace.from \in Nat /\ trace.to \in Nat
  BY ClockTypes DEF ClockIInv
<1>2. QED
  BY <1>1 DEF Grown, TraceType

LEMMA ClockRecordIInv ==
  ASSUME ClockIInv, NEW stamp \in IF clock = "wall" THEN {now} ELSE Stamps, ClockRecord(stamp)
  PROVE  ClockIInv'
<1>1. ClockTypeOK /\ NotBeforeStart /\ HandedOver /\ SinceBegun /\ ToldKept
  BY DEF ClockIInv
<1>2. stamp \in Nat /\ (clock = "wall" => stamp = now)
  BY <1>1, ClockAssumption, ClockTypes
<1>3. /\ trace' = Grown(stamp) /\ recorded' = recorded + 1
      /\ pausedFor' = Unpaused /\ pausedAt' = NotPaused
      /\ begun' = IF begun = 0 THEN now ELSE begun
      /\ told' = IF trace.n = 0 THEN 0 ELSE told + quiet
      /\ quiet' = 0
      /\ rough' = (rough \/ (startedAt # 0 /\ ~active))
      /\ UNCHANGED <<life, now, setBacks, restarts, used, ran>>
  BY DEF ClockRecord, Begin
<1>4. clock = "wall" => elapsed' = IF startedAt # 0 THEN WallElapsed(Unpaused) ELSE elapsed
  BY <1>3 DEF ClockRecord
<1> HIDE DEF Unpaused
<1>5. ClockTypeOK'
  <2>1. first' \in Nat /\ last' \in Nat /\ elapsed' \in Int
    <3>1. CASE clock = "event"
      <4>1. /\ first' = IF recorded = 0 THEN stamp ELSE first
            /\ last' = stamp /\ elapsed' = AtLeast0(stamp - first')
        BY <3>1 DEF ClockRecord
      <4>2. QED
        BY <1>1, <1>2, <4>1, ClockTypes DEF AtLeast0
    <3>2. CASE clock # "event"
      <4>1. UNCHANGED <<first, last>> /\ clock = "wall"
        BY <1>1, <3>2 DEF ClockRecord, ClockTypeOK
      <4>2. QED
        BY <1>1, <1>4, <4>1, ClockTypes, WallBounds
    <3>3. QED
      BY <3>1, <3>2
  <2>2. {begun', used', ran', told', quiet'} \subseteq Nat /\ recorded' \in Nat
    BY <1>1, <1>3, ClockTypes
  <2>3. QED
    BY <1>1, <1>2, <1>3, <2>1, <2>2, UnpausedBooks, TraceGrown DEF ClockTypeOK, life
<1>6. NotBeforeStart'
  <2>1. elapsed' >= 0 \/ clock # "wall"
    BY <1>1, <1>4, WallBounds, ClockTypes DEF NotBeforeStart
  <2>2. startedAt = 0 => pausedFor' = 0
    BY <1>1, <1>3, UnpausedBooks DEF NotBeforeStart
  <2>3. QED
    BY <1>1, <1>3, <1>4, <2>1, <2>2 DEF NotBeforeStart, life
<1>7. BookedAtMost' /\ BookedAtLeast'
  BY <1>3, BookingKept DEF life
<1>8. HandedOver'
  <2>1. SUFFICES ASSUME clock = "wall", ~rough'
                 PROVE  /\ restored <= used /\ elapsed' <= used + ran
                        /\ startedAt = 0 /\ override # NoOverride => override <= used
    BY <1>3 DEF HandedOver, life
  <2>2. ~rough /\ (startedAt # 0 => active)
    BY <1>1, <1>3, <2>1 DEF ClockTypeOK
  <2>3. elapsed' <= used + ran
    BY <1>1, <1>4, <2>1, <2>2, WallBounds, ClockTypes DEF HandedOver
  <2>4. QED
    BY <1>1, <2>1, <2>2, <2>3 DEF HandedOver
<1>9. SinceBegun'
  <2>1. SUFFICES ASSUME clock = "wall", setBacks = 0
                 PROVE  SinceBegun'
    BY <1>3 DEF SinceBegun, life
  <2>2. begun' <= now /\ begun' # 0 /\ (begun # 0 => begun' = begun)
    BY <1>1, <1>3, <2>1, ClockTypes DEF SinceBegun
  <2>3. Within(trace)'
    BY <1>1, <1>2, <1>3, <2>1, <2>2, TraceGrown, ClockTypes DEF SinceBegun, Within
  <2>4. Within(pending)'
    BY <1>1, <1>3, <2>1, <2>2 DEF SinceBegun, Within, life
  <2>5. startedAt = 0 /\ override # NoOverride => override <= now - begun'
    BY <1>1, <2>1, <2>2 DEF SinceBegun
  <2>6. startedAt # 0 => /\ begun' = begun /\ begun <= startedAt /\ startedAt <= now
                         /\ restored <= startedAt - begun
                         /\ elapsed' <= now - begun
    BY <1>1, <1>4, <2>1, <2>2, WallBounds DEF SinceBegun
  <2>7. QED
    BY <1>3, <2>2, <2>3, <2>4, <2>5, <2>6 DEF SinceBegun, life
<1>10. ToldKept'
  <2>1. SUFFICES ASSUME clock = "wall", setBacks = 0
                 PROVE  ToldKept'
    BY <1>3 DEF ToldKept, life
  <2>2. trace'.n # 0 /\ (told' <= trace'.to - trace'.from /\ told' + quiet' <= now - trace'.from)
    <3>1. CASE trace.n = 0
      BY <1>1, <1>2, <1>3, <2>1, <3>1, TraceGrown, ClockTypes DEF ToldKept
    <3>2. CASE trace.n # 0
      BY <1>1, <1>2, <1>3, <2>1, <3>2, TraceGrown, ClockTypes DEF ToldKept, SinceBegun, Within
    <3>3. QED
      BY <3>1, <3>2
  <2>3. startedAt = 0 => told' = told
    BY <1>1, <1>3, <2>1, ClockTypes DEF ToldKept, NotBeforeStart
  <2>4. startedAt # 0 => told' + quiet' <= restored + ran /\ told' <= elapsed'
    <3>1. told' <= told + quiet /\ told' \in Nat /\ quiet' = 0
      BY <1>1, <1>3, ClockTypes
    <3>2. QED
      BY <1>1, <1>4, <2>1, <3>1, ClockTypes, WallBounds DEF ToldKept
  <2>5. QED
    BY <1>1, <1>3, <2>1, <2>2, <2>3, <2>4 DEF ToldKept, life
<1>11. QED
  BY <1>5, <1>6, <1>7, <1>8, <1>9, <1>10 DEF ClockIInv

LEMMA ClockEndIInv == ClockIInv /\ ClockEnd => ClockIInv'
<1> SUFFICES ASSUME ClockIInv, ClockEnd
             PROVE  ClockIInv'
  OBVIOUS
<1>1. ClockTypeOK /\ NotBeforeStart /\ HandedOver /\ SinceBegun /\ ToldKept
  BY DEF ClockIInv
<1>2. /\ pausedFor' = Unpaused /\ pausedAt' = NotPaused /\ active /\ ~active' /\ active' \in BOOLEAN
      /\ UNCHANGED <<clock, now, startedAt, override, restored, pending, first, last, recorded, trace,
                     past, count, setBacks>>
  BY DEF ClockEnd
<1>3. clock = "wall" => elapsed' = WallElapsed(Unpaused)
  BY <1>2 DEF ClockEnd
<1> HIDE DEF Unpaused
<1>4. startedAt # 0
  BY <1>1, <1>2 DEF NotBeforeStart
<1>5. elapsed' \in Int
  <2>1. CASE clock = "wall"
    BY <1>3, <1>4, <2>1, WallBounds
  <2>2. CASE clock # "wall"
    BY <1>1, <2>2, ClockTypes DEF ClockEnd, ClockTypeOK
  <2>3. QED
    BY <2>1, <2>2
<1>6. ClockTypeOK'
  BY <1>1, <1>2, <1>5, UnpausedBooks DEF ClockTypeOK, past, count
<1>7. NotBeforeStart'
  BY <1>2, <1>3, <1>4, WallBounds DEF NotBeforeStart
<1>8. BookedAtMost' /\ BookedAtLeast'
  BY <1>2, BookingKept DEF count
<1>9. HandedOver'
  BY <1>1, <1>2, <1>3, <1>4, WallBounds, ClockTypes DEF HandedOver, past, count
<1>10. SinceBegun'
  BY <1>1, <1>2, <1>3, <1>4, WallBounds DEF SinceBegun, Within, past, count
<1>11. ToldKept'
  BY <1>1, <1>2, <1>3, <1>4, WallBounds, ClockTypes DEF ToldKept, past, count
<1>12. QED
  BY <1>6, <1>7, <1>8, <1>9, <1>10, <1>11 DEF ClockIInv

LEMMA ClockRestartIInv == ClockIInv /\ Restart => ClockIInv'
<1> SUFFICES ASSUME ClockIInv, Restart
             PROVE  ClockIInv'
  OBVIOUS
<1>1. ClockTypeOK /\ NotBeforeStart /\ HandedOver /\ SinceBegun /\ ToldKept
  BY DEF ClockIInv
<1>2. /\ startedAt # 0 /\ restarts < MaxRestarts /\ restarts' = restarts + 1
      /\ active' = FALSE /\ startedAt' = 0 /\ pausedAt' = NotPaused /\ pausedFor' = 0
      /\ restored' = 0 /\ elapsed' = 0 /\ first' = 0 /\ last' = 0 /\ recorded' = 0
      /\ ran' = 0 /\ quiet' = 0 /\ pending' = trace /\ used' = used + ran
      /\ override' \in IF clock = "wall" THEN {elapsed, NoOverride} ELSE {NoOverride}
      /\ UNCHANGED <<clock, now, trace, setBacks, begun, told, rough>>
  BY DEF Restart
<1>3. override' # NoOverride => clock = "wall" /\ override' = elapsed
  BY <1>2
<1>4. ClockTypeOK'
  <2>1. override' \in Nat \cup {NoOverride}
    BY <1>1, <1>2, ClockTypes DEF NotBeforeStart
  <2>2. restarts' \in 0 .. MaxRestarts /\ {begun', used', ran', told', quiet'} \subseteq Nat
    BY <1>1, <1>2, ClockTypes, ClockAssumption DEF ClockTypeOK
  <2>3. /\ pending' \in TraceType /\ trace' \in TraceType /\ clock' \in {"wall", "event"}
        /\ now' \in Nat \ {0} /\ rough' \in BOOLEAN /\ setBacks' \in 0 .. MaxSetBacks
    BY <1>1, <1>2 DEF ClockTypeOK
  <2>4. /\ active' \in BOOLEAN /\ startedAt' \in Nat /\ pausedAt' \in Nat \cup {NotPaused}
        /\ pausedFor' \in Nat /\ restored' \in Nat /\ elapsed' \in Int
        /\ first' \in Nat /\ last' \in Nat /\ recorded' \in Nat
    <3>1. /\ active' = FALSE /\ startedAt' = 0 /\ pausedAt' = NotPaused /\ pausedFor' = 0
          /\ restored' = 0 /\ elapsed' = 0 /\ first' = 0 /\ last' = 0 /\ recorded' = 0
      BY <1>2
    <3>2. active' \in BOOLEAN /\ pausedAt' \in Nat \cup {NotPaused}
      BY ONLY <3>1, Zenon
    <3>3. QED
      BY <3>1, <3>2
  <2>5. QED
    BY <2>1, <2>2, <2>3, <2>4 DEF ClockTypeOK
<1>5. NotBeforeStart' /\ BookedAtMost' /\ BookedAtLeast'
  BY <1>2 DEF NotBeforeStart, BookedAtMost, BookedAtLeast
<1>6. HandedOver'
  BY <1>1, <1>2, <1>3, ClockTypes DEF HandedOver
<1>7. SinceBegun'
  BY <1>1, <1>2, <1>3, ClockTypes DEF SinceBegun, Within
<1>8. ToldKept'
  BY <1>1, <1>2, <1>3, ClockTypes DEF ToldKept
<1>9. QED
  BY <1>4, <1>5, <1>6, <1>7, <1>8 DEF ClockIInv

LEMMA ClockStepIInv == ClockIInv /\ [ClockNext]_clockVars => ClockIInv'
<1>1. ClockIInv /\ UNCHANGED clockVars => ClockIInv'
  BY DEF clockVars, life, pause, meter, past, count, ClockIInv, ClockTypeOK, NotBeforeStart,
         BookedAtMost, BookedAtLeast, HandedOver, SinceBegun, Within, ToldKept, ClockStands
<1>2. QED
  BY <1>1, ClockTickIInv, ClockSetBackIInv, ClockStartIInv, ClockPauseIInv,
     ClockResumeIInv, ClockRecordIInv, ClockEndIInv, ClockRestartIInv
  DEF ClockNext

LEMMA ClockInvariant == ClockSpec => []ClockIInv
<1>1. ClockInit => ClockIInv
  BY ClockInitIInv
<1>2. ClockIInv /\ [ClockNext]_clockVars => ClockIInv'
  BY ClockStepIInv
<1>3. QED
  BY <1>1, <1>2, PTL DEF ClockSpec

-----------------------------------------------------------------------------
\* Only recording an event and ending judge a session, and under the wall clock they
\* judge it by the time since its start less the pauses booked.
LEMMA JudgedBy ==
  ASSUME ClockIInv, ClockNext, Judged
  PROVE  /\ active /\ startedAt # 0
         /\ elapsed' = WallElapsed(Unpaused)
         /\ UNCHANGED <<restored, used, ran, setBacks, now>>
<1>1. clock = "wall" /\ active /\ startedAt # 0 /\ restarts' = restarts
  BY DEF Judged, ClockIInv, NotBeforeStart
<1>2. CASE \E stamp \in IF clock = "wall" THEN {now} ELSE Stamps : ClockRecord(stamp)
  BY <1>1, <1>2 DEF ClockRecord, WallElapsed, life
<1>3. CASE ClockEnd
  BY <1>1, <1>3 DEF ClockEnd, WallElapsed, past, count
<1>4. CASE Tick \/ SetBack \/ ClockStart \/ Pause \/ Resume
  BY <1>1, <1>4 DEF Tick, SetBack, ClockStart, Pause, Resume, Judged, life, meter
<1>5. CASE Restart
  BY <1>1, <1>5, ClockTypes DEF Restart, ClockIInv, ClockTypeOK
<1>6. QED
  BY <1>2, <1>3, <1>4, <1>5 DEF ClockNext

\* A session that was told what the one before it had used is never judged by more time
\* than both ran: pauses count for nothing, also when the machine's clock is set back while
\* a session runs or stands still (session.py:266-289).  One that measures the trace, or was
\* told a time that had gone on after the end, counts idle time too (session.py:258-261), but
\* none from before the run unless that clock was set back.
THEOREM ClockNeverOvercounts == ClockSpec => NeverOvercounts
<1>1. ASSUME ClockIInv, ClockNext, Judged
      PROVE  /\ ~rough => elapsed' <= used + ran
             /\ setBacks = 0 => elapsed' <= now - begun
  <2>1. clock = "wall"
    BY <1>1 DEF Judged
  <2>2. QED
    BY <1>1, <2>1, JudgedBy, WallBounds, ClockTypes DEF ClockIInv, HandedOver
<1>2. ClockIInv /\ [ClockNext]_clockVars =>
        [Judged => /\ ~rough => elapsed' <= used + ran
                   /\ setBacks = 0 => elapsed' <= now - begun]_clockVars
  BY <1>1
<1>3. QED
  BY <1>2, ClockInvariant, PTL DEF ClockSpec, NeverOvercounts

\* While that clock has not been set back, a session is judged by all of the time it ran: no
\* pause, forgotten, repeated or ended by the next event, hides any (session.py:269-272), and
\* no restart hides what any session ran between the first event of the trace and its last
\* (session.py:254-262).
THEOREM ClockNothingHidden == ClockSpec => NothingHidden
<1>1. ASSUME ClockIInv, ClockNext, Judged, setBacks = 0
      PROVE  elapsed' = restored + ran /\ elapsed' >= told'
  <2>1. clock = "wall" /\ ClockTypeOK'
    BY <1>1, ClockStepIInv DEF Judged, ClockIInv
  <2>2. elapsed' = restored + ran
    BY <1>1, <2>1, JudgedBy, WallBounds, ClockTypes DEF ClockIInv
  <2>3. elapsed' >= told'
    <3>1. ToldKept' /\ startedAt' # 0 /\ clock' = "wall" /\ setBacks' = 0
      <4>1. ClockIInv' /\ setBacks' = setBacks /\ restarts' = restarts /\ startedAt # 0
        BY <1>1, ClockStepIInv, JudgedBy DEF Judged
      <4>2. clock' = clock
        BY <1>1 DEF ClockNext, Tick, SetBack, ClockStart, Pause, Resume, ClockRecord, ClockEnd, Restart,
                    life
      <4>3. startedAt' # 0
        BY <1>1, <4>1, ClockTypes
        DEF ClockNext, Tick, SetBack, ClockStart, Pause, Resume, ClockRecord, ClockEnd, Restart,
            life, ClockIInv, ClockTypeOK
      <4>4. QED
        BY <1>1, <2>1, <4>1, <4>2, <4>3 DEF ClockIInv
    <3>2. told' \in Nat /\ elapsed' \in Int
      BY <2>1 DEF ClockTypeOK
    <3>3. QED
      BY <3>1, <3>2 DEF ToldKept
  <2>4. QED
    BY <2>2, <2>3
<1>2. ClockIInv /\ [ClockNext]_clockVars =>
        [Judged /\ setBacks = 0 => elapsed' = restored + ran /\ elapsed' >= told']_clockVars
  BY <1>1
<1>3. QED
  BY <1>2, ClockInvariant, PTL DEF ClockSpec, NothingHidden
=============================================================================
