------------------------------- MODULE Sums -------------------------------
(***************************************************************************)
(* Adding up a dictionary of amounts, sum(d.values()) in the code.  Money  *)
(* is counted in indivisible units, so the sum is the number of units the  *)
(* entries hold together.  Said this way it needs no recursion, and the    *)
(* facts the proofs use follow from the theorems about cardinalities.      *)
(***************************************************************************)
EXTENDS Naturals, FiniteSets

\* The units entry s holds, each tagged with s so that entries never overlap.
UnitsOf(s, f) == {s} \X (1 .. f[s])

\* The sum of f over the finite set of keys S.
SumOver(S, f) == Cardinality(UNION {UnitsOf(s, f) : s \in S})
=============================================================================
