SPECIFICATION Spec
CONSTANTS
  n1 = n1
  n2 = n2
  r1 = r1
  r2 = r2
  b1 = b1
  b2 = b2
  d1 = d1
  alert = alert
  NoKey = NoKey
  NoNote = NoNote
  Notes = {n1, n2}
  Recipients = {r1, r2}
  Audience <- Uneven
  Keys <- Keyed
  Batches = {b1, b2}
  Desks = {d1}
  Checks <- AnyCheck
  MaxAttempts = 2
  MaxBusy = 2
  MaxUpsets = 2
INVARIANTS TypeOK NoExtraCopies ProcessingIsHeld SentReachedSomeone
CHECK_DEADLOCK FALSE
SYMMETRY Symmetry
