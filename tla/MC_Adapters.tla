---------------------------- MODULE MC_Adapters ----------------------------
(* Bounds for TLC: see the .cfg file.                                       *)
EXTENDS Adapters, TLC

CONSTANTS t1, t2, outer, inner

MCTasks    == {t1, t2}
MCAdapters == {outer, inner}
Symmetry   == Permutations(MCTasks) \cup Permutations(MCAdapters)
=============================================================================
