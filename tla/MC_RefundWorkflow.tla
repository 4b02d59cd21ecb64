-------------------------- MODULE MC_RefundWorkflow --------------------------
(* Bounds for TLC: an order of 3, five proposals for two action ids, two   *)
(* workers, a reconciler, two grants, one change of the order from outside. *)
EXTENDS RefundWorkflow, TLC

Refund(id, amount, expected, fits) ==
  [id |-> id, amount |-> amount, expected |-> expected, fits |-> fits]

MCProposals ==
  {Refund("a", 2, 1, TRUE), Refund("a", 1, 1, TRUE), Refund("b", 2, 1, TRUE), Refund("b", 1, 2, TRUE),
   Refund("b", 1, 1, FALSE)}

Symmetry == Permutations(Workers) \cup Permutations(Grants)
=============================================================================
