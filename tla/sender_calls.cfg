SPECIFICATION FairSpec
CONSTANTS
  Sends = {s1, s2}
  Addresses = {a1, a2}
  Public = {a1}
  Threads = 1
  None = None
INVARIANTS
  OnlyCheckedAddresses
PROPERTIES
  ImplementsDelivery
  EverySendReturns
