SPECIFICATION Spec
CONSTANTS
  Workers = {w1}
  Stays <- OneStay
  Endpoints <- CreateAndCancel
  BlockStatuses <- Migrated
  MaxHolds = 1
  MaxRequests = 0
  MaxDeposits = 0
  MaxBookings = 0
  MaxCrashes = 0
INVARIANTS DeadHoldFreesDates


CHECK_DEADLOCK FALSE
