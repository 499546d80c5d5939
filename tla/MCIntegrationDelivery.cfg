CONSTANTS
  d1 = d1
  d2 = d2
  v1 = v1
  v2 = v2
  w1 = w1
  w2 = w2
  w3 = w3
  a1 = a1
  NoDelivery = NoDelivery
  Delivery = {d1, d2}
  Manual = {d2}
  Dispatcher = {v1}
  Worker = {w1, w2}
  Operator = {a1}
  MaxAttempts = 2
  MaxKicks = 2
  MaxReplays = 1
  MaxCrashes = 1
SPECIFICATION Spec
SYMMETRY Symmetry
INVARIANTS
  SendsDoNotOverlap
  OnlyCommittedSent
  BudgetOfOneTask
CHECK_DEADLOCK FALSE
