SPECIFICATION FairSpec
CONSTANTS
    c1 = c1
    c2 = c2
    Clients = {c1, c2}
    Plans <- MCPlans
    Pieces = 3
    Chunk = 2
    MaxRequests <- MCMaxRequests
CHECK_DEADLOCK FALSE
INVARIANTS
    StreamsOK
    AnswerBelongs
    Independent
PROPERTIES
    CallsReturn
    SilentThreadEnds
