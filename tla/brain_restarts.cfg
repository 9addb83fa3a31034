CONSTANTS
  Restarters = {r1, r2}
  MaxAttempts = 3
  MaxFailures = 4
  MaxCrashes = 2
  MayHang = TRUE
  MayStop = TRUE
SPECIFICATION FairSpec
INVARIANTS
  TypeOK
  OneRestart
  AvailableWasListed
PROPERTIES
  Reconnects
  FailureDetected
CHECK_DEADLOCK FALSE
