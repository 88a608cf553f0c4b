SPECIFICATION FairSpec
CONSTANTS
  Payments = {p1}
  Workers = {w1, w2}
  Relays = {r1}
  MaxDeliveryAttempts = 3
  RecoveryBatchSize = 1
  OutboxBatchSize = 2
  MaxRows = 5
  MaxFaults = 1
  None = None
PROPERTIES
  EveryPaymentSettles
CHECK_DEADLOCK FALSE
