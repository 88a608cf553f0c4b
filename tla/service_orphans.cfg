SPECIFICATION Spec
CONSTANTS
  Payments = {p1}
  Workers = {w1, w2}
  Relays = {r1}
  MaxDeliveryAttempts = 2
  RecoveryBatchSize = 1
  OutboxBatchSize = 2
  MaxRows = 5
  MaxFaults = 2
  None = None
INVARIANTS
  DuplicatesAreTolerated
CHECK_DEADLOCK FALSE
