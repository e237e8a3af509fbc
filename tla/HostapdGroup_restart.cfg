SPECIFICATION Spec
CONSTANTS
  r1 = r1
  r2 = r2
  Members <- TwoMembers
  Sites <- Params
  Monitored = FALSE
  SocketMisses = FALSE
PROPERTIES StartLeadsToRestart
