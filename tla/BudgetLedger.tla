--------------------------- MODULE BudgetLedger ---------------------------
(***************************************************************************)
(* What a guarded client promises about money, without locks, streams or   *)
(* provider replies (docs/wrapper-coverage.md, "Concurrent calls").  Every *)
(* call first claims an estimate; a claim is settled once, by the amount   *)
(* that is then spent; in a strict ledger a claim is admitted only when    *)
(* what is spent, what is claimed and the new claim fit the budget.        *)
(***************************************************************************)
EXTENDS Integers

CONSTANTS
  Calls,     \* the calls that share one ledger
  Amounts,   \* the amounts a claim or a settlement may have
  Budget,    \* the limit, in units of money
  Strict     \* TRUE when nothing may be admitted over the limit

\* What the constants have to be for the bound to hold.
LedgerAssumption ==
  /\ Amounts \subseteq Nat
  /\ Budget \in Nat
  /\ Strict \in BOOLEAN

VARIABLES
  spent,     \* what settled calls have cost
  claimed,   \* what open claims add up to
  held,      \* the calls whose claim is open
  claim,     \* claim[c] is the amount call c claims or claimed
  settled,   \* the calls that have been settled
  overrun    \* by how much settlements exceeded their claims, in total

vars == <<spent, claimed, held, claim, settled, overrun>>

TypeOK ==
  /\ spent \in Nat
  /\ claimed \in Int
  /\ held \subseteq Calls
  /\ claim \in [Calls -> Nat]
  /\ settled \subseteq Calls
  /\ overrun \in Nat

Init ==
  /\ spent = 0
  /\ claimed = 0
  /\ held = {}
  /\ claim = [c \in Calls |-> 0]
  /\ settled = {}
  /\ overrun = 0

Excess(cost, estimate) == IF cost > estimate THEN cost - estimate ELSE 0

Fits(w) == spent + claimed + w <= Budget

Admit(c, w) ==
  /\ c \notin held \cup settled
  /\ Strict => Fits(w)
  /\ held' = held \cup {c}
  /\ claimed' = claimed + w
  /\ claim' = [claim EXCEPT ![c] = w]
  /\ UNCHANGED <<spent, settled, overrun>>

Settle(c, cost) ==
  /\ c \in held
  /\ held' = held \ {c}
  /\ claimed' = claimed - claim[c]
  /\ settled' = settled \cup {c}
  /\ spent' = spent + cost
  /\ overrun' = overrun + Excess(cost, claim[c])
  /\ UNCHANGED claim

Next ==
  \E c \in Calls, a \in Amounts : Admit(c, a) \/ Settle(c, a)

Spec == Init /\ [][Next]_vars

-----------------------------------------------------------------------------
\* In a strict ledger, what is spent and what is still claimed exceed the
\* budget by no more than the settlements that cost more than was claimed.
\* It is about admission (wrap.py:277-283) and settlement (wrap.py:306-314).
BudgetBound ==
  Strict => spent + claimed <= Budget + overrun

=============================================================================
