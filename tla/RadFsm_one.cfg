SPECIFICATION FairSpec
CONSTANTS
  r1 = r1
  r2 = r2
  v1 = v1
  v2 = v2
  e1 = e1
  NoRadio = NoRadio
  Radios = {r1}
  Vaps = {v1}
  Eps = {e1}
  RadOf <- OneRadOf
  Bits = {0, 1}
  RadActs = {0, 1}
  VapActs = {0, 1}
  EpActs = {0, 1}
  Params <- OneParams
  MayFail = {1}
  EditRadios = {r1}
  AcmUsed = TRUE
  HasGlobalSync = TRUE
  ResetHook = FALSE
  MaxWait = 1
  MaxComPend = 1
  ComPendCap = 1
INVARIANTS TypeOK AcSubset LeftoverSynced
PROPERTIES AscendingExecution ImplementsService RadioEditsCommitted
