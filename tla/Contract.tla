------------------------------ MODULE Contract ------------------------------
(***************************************************************************)
(* pactrun/contract.py, the fluent builder: what each builder call appends *)
(* to contract.clauses, which recovery action a clause ends up with, and   *)
(* the settings that enforce() reads.                                      *)
(***************************************************************************)
EXTENDS Naturals, Sequences, Recovery

CONSTANTS
  OnFails,     \* the recovery actions the application uses
  Retries,     \* the numbers it may pass to with_retries
  MaxClauses   \* bound: clauses in one contract

ASSUME ContractAssumption ==
  /\ OnFails \subseteq Actions
  /\ Retries \subseteq Nat
  /\ MaxClauses \in Nat

VARIABLES
  clauses,         \* contract.clauses, in the order they were added
  defaultOnFail,   \* contract.default_on_fail
  maxRetries,      \* contract.max_retries
  hasFallback,     \* contract.fallback_fn is set
  mode             \* contract.mode

contractVars == <<clauses, defaultOnFail, maxRetries, hasFallback, mode>>

Phases == {"session_start", "every_event", "session_end"}

NotGiven == "notGiven"
Given == OnFails \cup {NotGiven}

\* asked is history: the on_fail argument of the builder call.
Clauses == [onFail : Actions, checkOn : Phases]

ContractInit ==
  /\ clauses = <<>>
  /\ defaultOnFail = "block"
  /\ maxRetries = 0
  /\ hasFallback = FALSE
  /\ mode = "enforce"

Add(asked, otherwise, checkOn) ==
  /\ Len(clauses) < MaxClauses
  /\ clauses' = Append(clauses, [onFail |-> IF asked = NotGiven THEN otherwise ELSE asked,
                                 checkOn |-> checkOn])
  /\ UNCHANGED <<defaultOnFail, maxRetries, hasFallback, mode>>

\* check_on comes from the argument, the predicate's hint, or "every_event".
Require(asked, checkOn) == Add(asked, defaultOnFail, checkOn)

Forbid(asked, checkOn) == Add(asked, "block", checkOn)

Precondition == Add(NotGiven, defaultOnFail, "session_start")

Postcondition(asked) == Add(asked, defaultOnFail, "session_end")

\* Clauses added earlier keep the action they have.
OnViolation(action) ==
  /\ defaultOnFail' = action
  /\ UNCHANGED <<clauses, maxRetries, hasFallback, mode>>

WithRetries(n) ==
  /\ maxRetries' = n
  /\ UNCHANGED <<clauses, defaultOnFail, hasFallback, mode>>

Fallback ==
  /\ hasFallback' = TRUE
  /\ UNCHANGED <<clauses, defaultOnFail, maxRetries, mode>>

Monitor ==
  /\ mode' = "monitor"
  /\ UNCHANGED <<clauses, defaultOnFail, maxRetries, hasFallback>>

Build ==
  \/ \E asked \in Given, checkOn \in Phases : Require(asked, checkOn) \/ Forbid(asked, checkOn)
  \/ Precondition
  \/ \E asked \in Given : Postcondition(asked)
  \/ \E action \in OnFails : OnViolation(action)
  \/ \E n \in Retries : WithRetries(n)
  \/ Fallback
  \/ Monitor
=============================================================================
