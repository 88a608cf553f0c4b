SPECIFICATION FairSpec
CONSTANTS
  Payments = {p1}
  Workers = {w1, w2}
  MaxDeliveryAttempts = 3
  RecoveryBatchSize = 1
  MaxMishaps = 2
  None = None
INVARIANTS
  SendsAccountedFor
PROPERTIES
  EveryPaymentFinishes
  ClaimsAreTemporary
CHECK_DEADLOCK FALSE
