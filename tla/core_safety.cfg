SPECIFICATION Spec
CONSTANTS
  Payments = {p1}
  Workers = {w1, w2, w3}
  MaxDeliveryAttempts = 3
  RecoveryBatchSize = 1
  None = None
SYMMETRY Symmetry
INVARIANTS
  TypeOK
  NotificationsAgree
  DeliveredWasAccepted
  DeadLetterIsFinal
  NoStrandedPayment
  InductiveInvariant
PROPERTIES
  ImplementsLifecycle
  LiveClaimsAreKept
CHECK_DEADLOCK FALSE
