------------------------- MODULE MC_GuardedClient -------------------------
(* Bounds for TLC: two calls, small amounts, one forbidden tool of two. *)
EXTENDS GuardedClient
=============================================================================
