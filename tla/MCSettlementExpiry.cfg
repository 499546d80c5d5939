CONSTANTS
  Intent = {1, 2}
  MayDeposit = {2}
  MayPay = {2}
  MayDecline = {2}
  Hook = {h}
  Portal = {c}
  Sweep = sweep
  NoIntent = NoIntent
  BatchSize = 1
  MaxAttempts = 2
  MaxFaults = 0
SPECIFICATION Spec
PROPERTY CompletedNotExpired
