SPECIFICATION Spec
CONSTANTS
  None = None
  w1 = w1
  w2 = w2
  r1 = r1
  g1 = g1
  g2 = g2
  Proposals <- MCProposals
  Workers = {w1, w2}
  Reconcilers = {r1}
  Balance = 3
  Spendings = {2}
  MaxVersion = 2
  Grants = {g1, g2}
  Faulty = TRUE
SYMMETRY Symmetry
INVARIANTS SentOnce EffectsGranted OutcomesTrue
PROPERTY RefinesLedger
CHECK_DEADLOCK FALSE
