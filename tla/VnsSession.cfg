SPECIFICATION FairSpec
CONSTANTS
    v1 = v1
    c1 = c1
    c2 = c2
    main = main
    worker = worker
    Vhosts = {v1}
    Conns = {c1, c2}
    Owner <- MCOwner
    NoConn = NoConn
    Ips <- MCIps
    JunkIp = 9
    Writers = {main, worker}
    Room = 3
    MaxFrames <- MCMaxFrames
    MaxPackets = 1
CHECK_DEADLOCK FALSE
INVARIANTS
    AbortsOnlyRaced
    FramesWhole
    RegisteredRuns
    StartOK
PROPERTIES
    RouterStarts
