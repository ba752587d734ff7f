SPECIFICATION FairSpec
CONSTANTS
  Workers = {w1, w2}
  Stays <- OneStay
  Endpoints <- AbandonEndpoints
  BlockStatuses <- Intended
  MaxHolds = 2
  MaxRequests = 2
  MaxDeposits = 1
  MaxBookings = 2
  MaxCrashes = 0

INVARIANTS ConfirmedBookingHasPaidDeposit ConversionLinks LiveHoldsAreBlocked
PROPERTIES AbandonedDatesReturn

CHECK_DEADLOCK FALSE
