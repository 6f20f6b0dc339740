SPECIFICATION FeedSpec
CONSTANTS
  session = session
  tunnels = tunnels
  vault = vault
  p1 = p1
  Emitter <- SomeEmitters
  Session = session
  Service = {vault}
  Page <- SomePages
  Party <- Parties
  Limit = 2
  Buffer = 1
  MaxSaid = 3
INVARIANT FeedOK
PROPERTY ScreenCatchesUp
PROPERTY TabsStallNobody
CHECK_DEADLOCK FALSE
