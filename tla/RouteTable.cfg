SPECIFICATION FairSpec
CONSTANTS
    a = a
    b = b
    c = c
    d = d
    Setup = setup
    Main = main
    Searches = {s1, s2}
    Nets = {a, b, c, d}
    StaticTables <- MCStaticTables
    Ifaces <- MCIfaces
    Topologies <- MCTopologies
    Dests = {c}
    MaxSearches = 2
CHECK_DEADLOCK FALSE
INVARIANTS
    ListAscends
    StaticRoutesStay
    SoundAlone
PROPERTIES
    WalksEnd
