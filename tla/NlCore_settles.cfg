SPECIFICATION FairSpec
CONSTANTS
  a1 = a1
  a2 = a2
  Order <- MCOrder
  Main = a1
  Mlo = {a2}
  MaxChanges = 4
  MaxFaults = 1
  MaxCalls = 2
INVARIANTS TypeOK InStep
PROPERTY Settles
