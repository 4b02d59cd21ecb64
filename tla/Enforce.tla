------------------------------ MODULE Enforce ------------------------------
(***************************************************************************)
(* Contract.enforce: an application builds a contract, decorates a         *)
(* function with it and calls the function once.  Every run of the         *)
(* function has a session of its own, and what leaves that session decides *)
(* between returning, retrying, falling back and raising.                  *)
(***************************************************************************)
EXTENDS Session

VARIABLES
  pc,        \* where the call is
  runs,      \* sessions opened so far, one for each run of the function
  caught,    \* history: the function swallowed an exception in this run
  thrown,    \* history: how the body of the last run ended, before _end
  outcome    \* what the caller of the decorated function gets

vars == <<contractVars, sessionVars, pc, runs, caught, thrown, outcome>>

Steps == {"build", "body", "exit", "left", "again", "done"}
Outcomes == {"pending", "returned", "fellBack", "violation", "retry", "fallback", "error"}

TypeOK ==
  /\ clauses \in Seq(Clauses)
  /\ defaultOnFail \in Actions
  /\ maxRetries \in Retries \cup {0}
  /\ hasFallback \in BOOLEAN
  /\ mode \in {"enforce", "monitor"}
  /\ context \in 0 .. maxRetries + 1
  /\ token \in 0 .. maxRetries + 1
  /\ isActive \in BOOLEAN
  /\ events \in 0 .. MaxEvents
  /\ ended \in BOOLEAN
  /\ signal \in Signals
  /\ pc \in Steps
  /\ runs \in Nat
  /\ caught \in BOOLEAN
  /\ thrown \in Signals
  /\ outcome \in Outcomes

Init ==
  /\ ContractInit
  /\ SessionInit
  /\ pc = "build"
  /\ runs = 0
  /\ caught = FALSE
  /\ thrown = Quiet
  /\ outcome = "pending"

-----------------------------------------------------------------------------
BuildContract ==
  /\ pc = "build"
  /\ Build
  /\ UNCHANGED <<sessionVars, pc, runs, caught, thrown, outcome>>

NextRunUncounted(r) == IF r = 0 THEN 1 ELSE r   \* mutant: attempts never grows
NextRun(r) == r + 1

\* with self.session(): a precondition that raises leaves __enter__, so there
\* is no __exit__.
Enter ==
  /\ pc \in {"build", "again"}
  /\ Start(NextRun(runs))
  /\ runs' = NextRun(runs)
  /\ caught' = FALSE
  /\ thrown' = signal'
  /\ pc' = IF signal' = Quiet THEN "body" ELSE "left"
  /\ UNCHANGED <<contractVars, outcome>>

\* The function records an event; it may let what is raised pass or swallow it.
Emit ==
  /\ pc = "body"
  /\ Record
  /\ \/ pc' = "body" /\ caught' = (caught \/ signal' # Quiet)
     \/ signal' # Quiet /\ pc' = "exit" /\ UNCHANGED caught
  /\ UNCHANGED <<contractVars, runs, thrown, outcome>>

\* The function returns, or raises something of its own.
Leave ==
  /\ pc = "body"
  /\ pc' = "exit"
  /\ signal' \in {Quiet, "error"}
  /\ UNCHANGED <<contractVars, context, token, isActive, events, violations,
                 failed, ended, runs, caught, thrown, outcome>>

Exit ==
  /\ pc = "exit"
  /\ thrown' = signal
  /\ End
  /\ pc' = "left"
  /\ UNCHANGED <<contractVars, runs, caught, outcome>>

ExhaustedLate == runs > maxRetries + 1     \* mutant: one attempt too many
\* attempts, which counts the runs that ended in RetrySignal, passes the limit.
Exhausted == runs > maxRetries

FinishSignals(result) == result            \* mutant: the signal itself escapes
\* RetrySignal and FallbackSignal are turned into a ViolationError.
Finish(result) == IF result \in {"retry", "fallback"} THEN "violation" ELSE result

\* The except clauses of the wrapper.
Decide ==
  /\ pc = "left"
  /\ \/ /\ signal = "retry" /\ ~Exhausted
        /\ pc' = "again"
        /\ UNCHANGED outcome
     \/ /\ signal = "retry" => Exhausted
        /\ pc' = "done"
        /\ outcome' = CASE signal = Quiet -> "returned"
                        [] signal = "fallback" /\ hasFallback -> "fellBack"
                        [] OTHER -> Finish(signal)
  /\ UNCHANGED <<contractVars, sessionVars, runs, caught, thrown>>

Next ==
  \/ BuildContract
  \/ Enter
  \/ Emit
  \/ Leave
  \/ Exit
  \/ Decide

Spec == Init /\ [][Next]_vars

\* Building is up to the application; once the function is called, it returns
\* or raises and the wrapper goes on.
FairSpec == Spec /\ WF_vars(Enter \/ Leave \/ Exit \/ Decide)

-----------------------------------------------------------------------------
(* Properties.                                                              *)

Halted == {m \in violations : clauses[m.clause].onFail \in Halting}

\* A call that returns the function's value broke nothing that halts, unless
\* the function swallowed it, and a call that raises or falls back has a
\* recorded violation to show for it (contract.py:246-304).
OutcomeExplained ==
  mode = "enforce" =>
    /\ outcome = "returned" => Halted = {} \/ caught
    /\ outcome \in {"violation", "fellBack"} => violations # {}

\* Nothing of the runs is left with the caller of an enforced function: neither
\* RetrySignal or FallbackSignal (contract.py:275-285), nor, whatever the function
\* and the retries did, a session as the active one, unless a clause of its start or
\* end may raise (session.py:192, 226-229).
SignalsContained ==
  /\ outcome \notin {"retry", "fallback"}
  /\ (\A i \in DOMAIN clauses :
        TRUE \in RecoveryRaises(clauses[i].onFail) => clauses[i].checkOn = "every_event") =>
       (pc \in {"build", "done"} => context = NoSession)

\* A retry clause gives up only when every retry has been used, and no more
\* than max_retries re-runs are made (contract.py:275-279).
RetriesUsedUp ==
  /\ runs <= maxRetries + 1
  /\ pc = "done" /\ signal = "retry" => runs = maxRetries + 1

\* Monitor mode records every failing clause at every point, the only exception
\* the caller can see is the function's own, and the session always ends
\* (session.py:201-229, 528-534).
MonitorOnlyWatches ==
  mode = "monitor" =>
    /\ violations = failed
    /\ signal \in {Quiet, "error"}
    /\ runs <= 1
    /\ pc \in {"left", "done"} => ended /\ context = NoSession

\* Every call ends: the retries are bounded whatever the clauses say.
CallEnds == (pc # "build") ~> (pc = "done")

-----------------------------------------------------------------------------
(* What the documents say and the code does not do.                         *)

\* "block / escalate violations raise out of the call" (contract.py:253).
BlockRaises ==
  thrown = "violation" =>
    /\ pc # "again"
    /\ pc = "done" => outcome = "violation"
=============================================================================
