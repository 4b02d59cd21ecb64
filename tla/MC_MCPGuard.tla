----------------------------- MODULE MC_MCPGuard -----------------------------
(* Bounds for TLC: two tasks, one tool the server may offer, withdraw or     *)
(* re-annotate, two pages.                                                   *)
EXTENDS MCPGuard, TLC

Symmetry == Permutations(Calls)
=============================================================================
