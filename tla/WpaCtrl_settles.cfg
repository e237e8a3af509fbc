SPECIFICATION FairSpec
CONSTANTS
  i1 = i1
  i2 = i2
  Ifaces <- TwoIfaces
  MaxAttempts = 2
  MaxAsks = 2
  MaxFaults = 2
INVARIANTS TypeOK Attached
PROPERTIES Settles
CHECK_DEADLOCK FALSE
