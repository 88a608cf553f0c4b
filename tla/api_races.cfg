SPECIFICATION Spec
CONSTANTS
  Requests = {r1, r2, r3}
  Reads = {g1, g2}
  Keys = {k1, k2}
  Rests = {x1, x2}
  None = None
SYMMETRY Symmetry
INVARIANTS
  TypeOK
  OnePaymentPerKey
  AcceptedIsStored
  RetriesAreReplayed
  RaceHasAWinner
  KnownIsNeverMissing
  AcceptedTextsAgree
CHECK_DEADLOCK FALSE
