SPECIFICATION FairSpec
CONSTANTS
  x = x
  y = y
  sx = sx
  sy = sy
  l1 = l1
  l2 = l2
  h = h
  Self = Self
  NoRouter = NoRouter
  Routers = {x, y}
  Nets = {sx, sy, l1, l2, h}
  IfList <- TwoLinks
  Peer <- BothPeers
  Adverts <- Triangle
  MaxEntries = 4
  MaxCost = 5
INVARIANTS
  HeapInOrder
  RoutesAreShortest
  RoutesFollowTopology
PROPERTIES
  SearchEnds
CHECK_DEADLOCK FALSE
