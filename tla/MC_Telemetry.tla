---------------------------- MODULE MC_Telemetry ----------------------------
(* Bounds for TLC: see the .cfg file.                                       *)
EXTENDS Telemetry, TLC

CONSTANTS t1, t2, outer, inner

MCTasks    == {t1, t2}
MCSessions == {outer, inner}
MCSettings == {s \in [agent : BOOLEAN, llm : BOOLEAN] : s.llm => s.agent}
Symmetry   == Permutations(MCTasks) \cup Permutations(MCSessions)
=============================================================================
