SPECIFICATION FairSpec
CONSTANTS
  r1 = r1
  r2 = r2
  v1 = v1
  v2 = v2
  e1 = e1
  NoRadio = NoRadio
  Radios = {r1}
  Vaps = {v1}
  Eps = {}
  RadOf <- EditRadOf
  Bits = {0}
  RadActs = {0}
  VapActs = {0}
  EpActs = {0}
  Params <- EditParams
  MayFail = {}
  HasGlobalSync = FALSE
  ResetHook = FALSE
  EditRadios = {r1}
  AcmUsed = TRUE
  MaxWait = 1
  MaxComPend = 1
  ComPendCap = 1
PROPERTY DelayTimeCommits
