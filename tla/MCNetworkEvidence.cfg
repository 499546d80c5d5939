CONSTANTS
  o1 = o1
  o2 = o2
  o3 = o3
  b1 = b1
  b2 = b2
  w1 = w1
  w2 = w2
  r1 = r1
  r2 = r2
  NoOp = NoOp
  Op = {o1}
  TargetOf <- OneTarget
  Beat = {b1}
  Worker = {w1}
  Request = {r1}
  Outcome <- DoneOrFailed
  MaxAttempts = 1
  MaxRetries = 0
  MaxCrashes = 0
SPECIFICATION Spec
SYMMETRY Symmetry
PROPERTIES
  ReviewEvidenceKept
CHECK_DEADLOCK FALSE
