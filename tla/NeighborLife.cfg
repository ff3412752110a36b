SPECIFICATION FairSpec
CONSTANTS
  i1 = i1
  i2 = i2
  n1 = n1
  n2 = n2
  NoRouter = NoRouter
  Ifs = {i1, i2}
  Routers = {n1, n2}
  Peers <- TwoOnALink
  NeighborTimeout = 1
  SeqMod = 2
  MaxNodes = 5
INVARIANTS
  TypeOK
  ListDescends
  LsuToNeighbor
PROPERTIES
  RoundKeepsSeq
  EveryHelloEnds
  EveryNeighborExpires
CHECK_DEADLOCK FALSE
