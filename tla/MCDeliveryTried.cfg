CONSTANTS
  d1 = d1
  d2 = d2
  v1 = v1
  v2 = v2
  w1 = w1
  w2 = w2
  w3 = w3
  a1 = a1
  NoDelivery = NoDelivery
  Delivery = {d1}
  Manual = {}
  Dispatcher = {v1}
  Worker = {w1}
  Operator = {}
  MaxAttempts = 2
  MaxKicks = 1
  MaxReplays = 0
  MaxCrashes = 0
SPECIFICATION FairSpec
PROPERTIES
  PendingIsTried
CHECK_DEADLOCK FALSE
