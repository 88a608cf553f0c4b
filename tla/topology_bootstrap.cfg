SPECIFICATION Spec
CONSTANTS
  Relays = {v1}
  Others = {c1}
  Attempts = {0, 2, 3}
  Seconds = {0, 1, 2}
  Retries = 2
  None = None
INVARIANTS
  KnownKeysAreRouted
  RetriesWaitAsConfigured
