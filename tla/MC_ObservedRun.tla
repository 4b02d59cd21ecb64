--------------------------- MODULE MC_ObservedRun ---------------------------
(* Bounds for TLC: see the .cfg file.                                       *)
EXTENDS ObservedRun
=============================================================================
