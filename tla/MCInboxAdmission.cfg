CONSTANTS
  e1 = e1
  e2 = e2
  p1 = p1
  p2 = p2
  h1 = h1
  h2 = h2
  h3 = h3
  a1 = a1
  a2 = a2
  NoEvent = NoEvent
  NoPayload = NoPayload
  Event = {e1, e2}
  Payload = {p1, p2}
  Joint = {e1, e2}
  Web = {h1, h2}
  Operator = {}
  MaxAttempts = 2
  MaxReplays = 0
  MaxCrashes = 0
SPECIFICATION Spec
PROPERTIES
  AdmissionNeedsEnabled
CHECK_DEADLOCK FALSE
