SPECIFICATION Spec
CONSTANTS
  c1 = c1
  c2 = c2
  h1 = h1
  h2 = h2
  Consumers = {c1, c2}
  Handlers = {h1, h2}
  Home <- OneHandlerEach
  Timeout = 5
  MaxWork = 1
  MaxTransaction = 1
  PollInterval = 2
  Skew = 1
  MaxTime = 14
  MaxDelay = 4
  None = None
SYMMETRY Symmetry
INVARIANTS
  HolderKeepsClaim
  ExclusiveWork
  
  
CHECK_DEADLOCK FALSE
