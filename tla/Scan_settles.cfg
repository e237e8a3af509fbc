SPECIFICATION FairSpec
CONSTANTS
  r1 = r1
  r2 = r2
  r3 = r3
  w1 = w1
  w2 = w2
  none = none
  Radios = {r1, r2, r3}
  RadioOrder <- Order
  Wiphys = {w1, w2}
  Layouts <- MCLayouts
  NoRad = none
  MaxCalls = 2
  MaxStops = 1
  MaxFaults = 1
INVARIANTS TypeOK InStep
PROPERTY Settles
CHECK_DEADLOCK FALSE
