SPECIFICATION FairSpec
CONSTANTS
  a1 = a1
  a2 = a2
  m1 = m1
  m2 = m2
  m3 = m3
  Aps <- TwoAps
  Sites <- CrowdOrRoamer
  Sticky = 1
  MaxSta = 2
INVARIANTS TypeOK CountersMatch Announced
PROPERTIES ListFollows Settles
CHECK_DEADLOCK FALSE
