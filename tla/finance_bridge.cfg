SPECIFICATION Spec
CONSTANTS
  Requests = {r1, r2}
  Workers = {w1, w2}
  MaxLines = 2
  MaxCalls = 3
  MaxFaults = 1
INVARIANTS TypeOK LinkOwnsLine LedgerAgrees
PROPERTIES ClosedPeriodFrozen LedgerSpec
SYMMETRY Symmetry
