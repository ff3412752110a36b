SPECIFICATION Spec
CONSTANTS
  a = a
  b = b
  p1 = p1
  p2 = p2
  main = main
  timeout = timeout
  worker = worker
  Ips = {a, b}
  NoIp = NoIp
  Pkts = {p1, p2}
  NextHop <- SameHop
  SrcHop <- SourceOfP1
  Main = main
  Timeout = timeout
  Workers = {worker}
  Carrier <- MainAndWorker
  CacheSize = 1
  CacheTO = 1
  MaxTries = 2
  Askers = {a}
  Gratuitous = FALSE
  MaxDepth = 5
INVARIANTS
  NoEarlyGiveUp
  NoOrphan
PROPERTIES
  GiveUpReports
CHECK_DEADLOCK FALSE
