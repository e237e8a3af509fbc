CONSTANTS
  b1 = b1
  b2 = b2
  Bssids <- TwoBssids
  HapdRuns = TRUE
  MaxTries = 2
  MaxAsks = 3
  MaxFaults = 1
  MaxQueue = 2
SPECIFICATION FairSpec
INVARIANTS
  TypeOK
  PairingTracked
  Steady
PROPERTIES
  Settles
CHECK_DEADLOCK FALSE
