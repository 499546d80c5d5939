CONSTANTS
  Intent = {1, 2}
  MayDeposit = {2}
  MayPay = {2}
  MayDecline = {2}
  Hook = {h}
  Portal = {c}
  Sweep = sweep
  NoIntent = NoIntent
  BatchSize = 1
  MaxAttempts = 2
  MaxFaults = 1
SPECIFICATION FairSpec
INVARIANTS
  TypeOK
  CashPostedOnce
  AllocatedOnce
  MoneyIsConfirmed
  JointSettlement
PROPERTIES
  PaidIsSettled
