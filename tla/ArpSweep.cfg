SPECIFICATION FairSpec
CONSTANTS
  a = a
  b = b
  p1 = p1
  p2 = p2
  main = main
  timeout = timeout
  worker = worker
  Ips = {a, b}
  NoIp = NoIp
  Pkts = {p1, p2}
  NextHop <- CrossHop
  SrcHop <- CrossSource
  Main = main
  Timeout = timeout
  Workers = {}
  Carrier <- BothMain
  CacheSize = 1
  CacheTO = 0
  MaxTries = 1
  Askers = {b}
  Gratuitous = TRUE
  MaxDepth = 4
INVARIANTS
  SweepPointers
PROPERTIES
  ImplementsResolution
  EveryRequestEnds
CHECK_DEADLOCK FALSE
