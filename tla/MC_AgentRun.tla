---------------------------- MODULE MC_AgentRun ----------------------------
(* Bounds for TLC: see the .cfg files.                                      *)
EXTENDS AgentRun

AllRules == RateRules \cup ProgressRules \cup EffectRules \cup EndRules
=============================================================================
