SPECIFICATION FairSpec
CONSTANTS
  r1 = r1
  r2 = r2
  v1 = v1
  v2 = v2
  e1 = e1
  NoRadio = NoRadio
  Radios = {r1, r2}
  Vaps = {v1, v2}
  Eps = {}
  RadOf <- TwoRadOf
  Bits = {0}
  RadActs = {0}
  VapActs = {0}
  EpActs = {0}
  Params <- TwoParams
  MayFail = {}
  HasGlobalSync = TRUE
  ResetHook = TRUE
  EditRadios = {}
  AcmUsed = FALSE
  MaxWait = 0
  MaxComPend = 1
  ComPendCap = 1
INVARIANTS LockExclusion NothingStrands
PROPERTY ComesToRest
