----------------------------- MODULE MC_Alerts -----------------------------
(* Bounds for TLC: see the .cfg file.                                       *)
EXTENDS Alerts, TLC

CONSTANTS t1, t2, budget, egress

MCThreads  == {t1, t2}
MCClauses  == {budget, egress}
MCWindows  == {Alone, None, 2}
Symmetry   == Permutations(MCThreads) \cup Permutations(MCClauses)
=============================================================================
