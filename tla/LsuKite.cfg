SPECIFICATION FairSpec
CONSTANTS
  a = a
  c = c
  d = d
  e = e
  NoRouter = NoRouter
  Routers = {a, c, d, e}
  Links <- Kite
  Routes <- KiteRoutes
  Followed = {a}
  TopoTimeout = 2
  MaxDelay = 0
  SeqMod = 2
PROPERTIES
  FloodingEnds
  DownIsForgotten
  UpIsHeard
CHECK_DEADLOCK FALSE
