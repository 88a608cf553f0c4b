SPECIFICATION PunctualSpec
CONSTANTS
  Payments = {p1, p2}
  Workers = {w1, w2}
  MaxDeliveryAttempts = 1
  RecoveryBatchSize = 2
  None = None
SYMMETRY Symmetry
INVARIANTS
  NoStrandedPayment
  ExclusiveGatewayCall
  ExclusiveWebhookDelivery
CHECK_DEADLOCK FALSE
