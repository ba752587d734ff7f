SPECIFICATION Spec
CONSTANTS
  Villas = {}
  Pools = {pool}
  Workers = {w1}
  Wishes = {"approved", "issued", "voided", "acknowledged", "disputed", "paid", "failed"}
  MaxStatements = 2
  MaxPayouts = 1
  MaxEdits = 1
  MaxFaults = 1
CONSTRAINT Untroubled
CHECK_DEADLOCK FALSE
INVARIANTS TypeOK LinesTellTotals OneLiveRevision
PROPERTIES ApprovedIsFrozen PausedWhileDisputed
