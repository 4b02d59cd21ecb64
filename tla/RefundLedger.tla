---------------------------- MODULE RefundLedger ----------------------------
(***************************************************************************)
(* What the refund workflow promises about money, without databases,       *)
(* timeouts, crashes or reconciliation (docs/SUPPORT_REFUND.md): a refund  *)
(* takes place only for a proposal a grant was spent on, at most once for  *)
(* an action id, and never beyond what is left of the order.               *)
(***************************************************************************)
EXTENDS Naturals

CONSTANTS
  Proposals,   \* records with an id and an amount
  Spendings,   \* what other routes may take from the order
  Balance      \* what could be refunded at first

VARIABLES
  remaining,    \* what can still be refunded
  authorized,   \* proposals a grant was spent on
  refunded      \* proposals that took effect

vars == <<remaining, authorized, refunded>>

Init ==
  /\ remaining = Balance
  /\ authorized = {}
  /\ refunded = {}

Authorize(p) ==
  /\ authorized' = authorized \cup {p}
  /\ UNCHANGED <<remaining, refunded>>

Refund(p) ==
  /\ p \in authorized
  /\ \A q \in refunded : q.id # p.id
  /\ p.amount <= remaining
  /\ remaining' = remaining - p.amount
  /\ refunded' = refunded \cup {p}
  /\ UNCHANGED authorized

SpendElsewhere(amount) ==
  /\ amount <= remaining
  /\ remaining' = remaining - amount
  /\ UNCHANGED <<authorized, refunded>>

Next ==
  \/ \E p \in Proposals : Authorize(p) \/ Refund(p)
  \/ \E amount \in Spendings : SpendElsewhere(amount)

Spec == Init /\ [][Next]_vars
=============================================================================
