SPECIFICATION FairSpec
CONSTANTS
  home = home
  dfs1 = dfs1
  dfs2 = dfs2
  none = none
  Channels = {home, dfs1, dfs2}
  Dfs = {dfs1, dfs2}
  Home = home
  NoChan = none
  Asks = {"direct", "deferred", "write", "bgStart", "bgStop", "preclear", "toggle"}
  Races = FALSE
  MaxAsks = 3
  MaxRadars = 2
  MaxAborts = 1
INVARIANTS TypeOK ClearingOwned UsableCleared IdleSettled
PROPERTY CallTruth Settles
CHECK_DEADLOCK FALSE
