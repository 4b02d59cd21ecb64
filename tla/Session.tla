------------------------------ MODULE Session ------------------------------
(***************************************************************************)
(* pactrun/session.py: starting a session, recording events and ending it, *)
(* with the clause evaluation and the recovery actions they run.  The code *)
(* is called by one thread at a time; the verdict of a predicate and the   *)
(* answer of an approver are free, and a predicate that raises counts as   *)
(* failing (_evaluate).                                                    *)
(***************************************************************************)
EXTENDS Contract

CONSTANT MaxEvents   \* bound: events recorded in one session

ASSUME SessionAssumption == MaxEvents \in Nat

NoSession == 0

VARIABLES
  context,       \* the context variable get_active_session() reads
  token,         \* what it held before this session's _start
  isActive,      \* session._active
  events,        \* len(session.state.events)
  violations,    \* session._violations: clause and evaluation point
  failed,        \* history: the clauses whose predicate fails at each point
  ended,         \* on_session_end has been delivered
  signal         \* the exception in flight, by kind

sessionVars == <<context, token, isActive, events, violations,
                 failed, ended, signal>>

\* ViolationError and EscalationError are one kind here, as @enforce handles
\* neither; "error" is an exception of the wrapped function's own.
Quiet == "none"
Signals == {Quiet, "violation", "retry", "fallback", "error"}
SignalOf(onFail) == IF onFail \in {"retry", "fallback"} THEN onFail ELSE "violation"

\* An evaluation point: the phase and, for an event, its number.
At(phase, n) == <<phase, n>>
Marks(S, at) == {[clause |-> i, at |-> at] : i \in S}

SessionInit ==
  /\ context = NoSession
  /\ token = NoSession
  /\ isActive = FALSE
  /\ events = 0
  /\ violations = {}
  /\ failed = {}
  /\ ended = FALSE
  /\ signal = Quiet

-----------------------------------------------------------------------------
InPhase(phase) == {i \in 1 .. Len(clauses) : clauses[i].checkOn = phase}

HaltersAlways(failing) ==                  \* mutant: monitor mode acts too
  {halt \in SUBSET failing :
     \A i \in failing : (i \in halt) \in RecoveryRaises(clauses[i].onFail)}
\* The failing clauses whose recovery raises if it is run; monitor mode runs
\* no recovery.
Halters(failing) ==
  IF mode = "monitor" THEN {{}}
  ELSE {halt \in SUBSET failing :
          \A i \in failing : (i \in halt) \in RecoveryRaises(clauses[i].onFail)}

\* The verdicts the clauses of a phase can give.
Verdicts(phase) ==
  UNION {[failing : {failing}, halt : Halters(failing)] : failing \in SUBSET InPhase(phase)}

ReachedButHalter(v) ==                     \* mutant: raises before it records
  {i \in v.failing : \A h \in v.halt : i < h}
\* Clauses are evaluated in order; a recovery that raises leaves the loop
\* after its violation is recorded.
Reached(v) == {i \in v.failing : \A h \in v.halt : i <= h}

\* What is raised, if anything; otherwise the exception already in flight.
SignalAfter(v, inFlight) ==
  IF v.halt = {} THEN inFlight
  ELSE SignalOf(clauses[CHOOSE h \in v.halt : \A k \in v.halt : h <= k].onFail)

\* A new Session for the contract, and its _start: the session is the active
\* one before its preconditions are evaluated.
Start(s) ==
  /\ context' = s
  /\ token' = context
  /\ isActive' = TRUE
  /\ events' = 0
  /\ ended' = FALSE
  /\ \E v \in Verdicts("session_start") :
       /\ violations' = Marks(Reached(v), At("session_start", 0))
       /\ failed' = Marks(v.failing, At("session_start", 0))
       /\ signal' = SignalAfter(v, Quiet)

\* record_event: the event is counted and shown to the observers before it is
\* judged.
Record ==
  /\ events < MaxEvents
  /\ events' = events + 1
  /\ \E v \in Verdicts("every_event") :
       /\ violations' = violations \cup Marks(Reached(v), At("every_event", events'))
       /\ failed' = failed \cup Marks(v.failing, At("every_event", events'))
       /\ signal' = SignalAfter(v, Quiet)
  /\ UNCHANGED <<context, token, isActive, ended>>

\* _end, which __exit__ runs whatever the body did.  A clause that raises here
\* replaces the exception in flight and skips the rest of _end: observers are
\* not told and the context variable is not reset.
End ==
  /\ \E v \in Verdicts("session_end") :
       /\ violations' = violations \cup Marks(Reached(v), At("session_end", 0))
       /\ failed' = failed \cup Marks(v.failing, At("session_end", 0))
       /\ signal' = SignalAfter(v, signal)
       /\ ended' = (v.halt = {})
       /\ isActive' = (v.halt # {})
       /\ context' = IF v.halt = {} THEN token ELSE context
  /\ UNCHANGED <<token, events>>
=============================================================================
