SPECIFICATION FairSpec
CONSTANTS
  Rows = {1, 2, 3}
  Relays = {w1, w2}
  BatchSize = 2
  Poison = {1}
  MaxMishaps = 1
  None = None
INVARIANTS
  TypeOK
  PublishedWasSent
  PublishedIsReleased
  CopiesAccountedFor
PROPERTIES
  LiveLeasesAreKept
  EveryRowIsPublished
CHECK_DEADLOCK FALSE
