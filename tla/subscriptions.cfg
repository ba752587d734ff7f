SPECIFICATION FairSpec
CONSTANTS
  h1 = h1
  h2 = h2
  e1 = e1
  e2 = e2
  Handlers = {h1, h2}
  Events = {e1, e2}
  MaxBusy = 2
  MaxFaults = 1
  PollerRuns = TRUE
INVARIANTS
  TypeOK
  EventMovesOnce
  ProcessedWasHeeded
  ClaimHasHandler
PROPERTY GraceEnds
CHECK_DEADLOCK FALSE
