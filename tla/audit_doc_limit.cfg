SPECIFICATION AuditSpec
CONSTANTS
  Payments = {p1}
  Workers = {w1, w2}
  MaxDeliveryAttempts = 3
  RecoveryBatchSize = 1
  MaxMishaps = 1
  None = None
SYMMETRY Symmetry
INVARIANTS
  AtMostMaxSends
CHECK_DEADLOCK FALSE
