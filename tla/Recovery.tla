----------------------------- MODULE Recovery -----------------------------
(***************************************************************************)
(* recovery/engine.py: what becomes of a violation that has been recorded. *)
(* A handler is a callback of the application, so an approver may answer   *)
(* either way; a missing or failing approver answers no.                   *)
(***************************************************************************)

\* OnFail, core/enums.py
Actions == {"log", "warn", "block", "escalate", "approve", "retry", "fallback"}

\* The actions that never let the run continue.
Halting == {"block", "escalate", "retry", "fallback"}

\* apply_recovery: the possible answers to "did it raise?".
RecoveryRaises(action) ==
  {raised \in BOOLEAN : /\ action \in Halting => raised
                        /\ action \in {"log", "warn"} => ~raised}
=============================================================================
