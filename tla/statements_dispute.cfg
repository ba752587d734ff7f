SPECIFICATION Spec
CONSTANTS
  Villas = {villa}
  Pools = {}
  Workers = {w1}
  Wishes = {"approved", "disputed", "paid"}
  MaxStatements = 1
  MaxPayouts = 1
  MaxEdits = 0
  MaxFaults = 0
CHECK_DEADLOCK FALSE
PROPERTIES DisputePausesPayout
