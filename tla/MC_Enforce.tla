----------------------------- MODULE MC_Enforce -----------------------------
(* Bounds for TLC: contracts of two clauses, two events, one retry. *)
EXTENDS Enforce, TLC
=============================================================================
