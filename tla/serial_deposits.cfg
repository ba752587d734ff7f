SPECIFICATION Spec
CONSTANTS
  Workers = {w1}
  Stays <- OneStay
  Endpoints <- DepositEndpoints
  BlockStatuses <- Intended
  MaxHolds = 1
  MaxRequests = 2
  MaxDeposits = 2
  MaxBookings = 1
  MaxCrashes = 1
INVARIANTS OneOpenDeposit
PROPERTIES PaidMoneyIsKept

CHECK_DEADLOCK FALSE
