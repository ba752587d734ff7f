SPECIFICATION HookSpec
CONSTANTS
  Runs = {r1, r2, r3}
  TTL = 2
  Grace = 1
  MaxCrashes = 2
  DriverNamesUnique = TRUE
  AcquisitionsOverlap = FALSE
  JobsOverrun = FALSE
  HastyStaff = FALSE
  Rows = {d1}
  Desks = {k1}
  MaxAttempts = 2
  DisableAfter = 2
  MaxFaults = 2
  NoRow = NoRow
INVARIANTS TypeOK HooksTypeOK WorkingRunHoldsLock OnePostPerAttempt
PROPERTIES SettledStays
SYMMETRY Symmetry
