SPECIFICATION FairSpec
CONSTANTS
  r1 = r1
  r2 = r2
  Members <- TwoMembers
  Sites <- SteadyOrNot
  Monitored = TRUE
  SocketMisses = TRUE
INVARIANTS TypeOK ProcessCoherent ServesEnabled
PROPERTIES ComesToRest
