SPECIFICATION FairSpec
CONSTANTS
    A = A
    B = B
    G = G
    X = X
    a1 = a1
    b1 = b1
    b2 = b2
    c2 = c2
    r1 = r1
    r2 = r2
    NoStation = NoStation
    None = None
    Routers = {r1, r2}
    Hosts = {A, B}
    Addresses = {A, B, G, X, a1, b1, b2, c2}
    Station <- MCStation
    Net <- MCNet
    Networks <- MCNetworks
    Junk = {X, A}
    Offers <- MCOffers
    ErrorTtl = 3
    MaxSent = 2
    MaxDamaged = 1
CHECK_DEADLOCK FALSE
INVARIANTS
    LongestButDefault
    ErrorsDieOut
PROPERTIES
    JourneysEnd
    SenderIsTold
