CONSTANTS
    f1 = f1
    f2 = f2
    Conn <- MCConn
    HdrLen = 2
    BodyLen <- MCBodyLen
    Capacity = 3
    MaxRequests <- MCMaxRequests
SPECIFICATION FairSpec
INVARIANTS TypeOK NeverGarbled NoStandoff
PROPERTIES ExchangeSpec LoopReturns EveryoneServed
