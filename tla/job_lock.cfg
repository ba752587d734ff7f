SPECIFICATION FairSpec
CONSTANTS
  Runs = {r1, r2, r3}
  TTL = 3
  Grace = 1
  MaxCrashes = 0
  DriverNamesUnique = FALSE
  AcquisitionsOverlap = FALSE
  JobsOverrun = FALSE
  HastyStaff = FALSE
PROPERTY JobRunsAgain
