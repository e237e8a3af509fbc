SPECIFICATION FairSpec
CONSTANTS
  a1 = a1
  a2 = a2
  Order <- MCOrder
  Kinds = {"psk", "rekey", "mld"}
  Modes = {"plain", "mbssid", "mlo"}
  MaxEdits = 3
  MaxCrashes = 1
INVARIANTS TypeOK NothingLost
PROPERTY Settles
CHECK_DEADLOCK FALSE
