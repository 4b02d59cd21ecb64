--------------------------- MODULE MC_SessionClock ---------------------------
(* Bounds for TLC: see the .cfg file; time, events and set-backs are small. *)
EXTENDS SessionClock
=============================================================================
