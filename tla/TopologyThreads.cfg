SPECIFICATION FairSpec
CONSTANTS
  x = x
  y = y
  l = l
  h = h
  NoRouter = NoRouter
  NoNet = NoNet
  Routers = {x, y}
  Nets = {l, h}
  Threads = {1, 2}
  Lsus <- OnALink
  Timeout = 1
  MaxNodes = 4
INVARIANTS
  ListDescends
  TableSound
PROPERTIES
  TableEmpties
CHECK_DEADLOCK FALSE
