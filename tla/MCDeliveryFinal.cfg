CONSTANTS
  d1 = d1
  d2 = d2
  v1 = v1
  v2 = v2
  w1 = w1
  w2 = w2
  w3 = w3
  a1 = a1
  NoDelivery = NoDelivery
  Delivery = {d1}
  Manual = {d1}
  Dispatcher = {}
  Worker = {w1, w2}
  Operator = {a1}
  MaxAttempts = 2
  MaxKicks = 3
  MaxReplays = 1
  MaxCrashes = 0
SPECIFICATION Spec
PROPERTIES
  DeliveredStaysDelivered
CHECK_DEADLOCK FALSE
