SPECIFICATION Spec
CONSTANTS
  Workers = {w1}
  Stays <- Overlapping
  Endpoints <- CalendarEndpoints
  BlockStatuses <- Intended
  MaxHolds = 3
  MaxRequests = 2
  MaxDeposits = 1
  MaxBookings = 2
  MaxCrashes = 0
INVARIANTS TypeOK HeldDatesExclusive LiveHoldsAreBlocked DeadHoldFreesDates
PROPERTIES DeadHoldStaysDead InventorySpec

CHECK_DEADLOCK FALSE
