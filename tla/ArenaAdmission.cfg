SPECIFICATION FairSpec
CONSTANTS
    r1 = r1
    r2 = r2
    r3 = r3
    r4 = r4
    r5 = r5
    Requests <- FiveRequests
    BuyOf <- DoubleClick
    Owned <- AllButOne
    MaxLive = 2
    NoRequest = NoRequest
CHECK_DEADLOCK FALSE
INVARIANT BackstopNeverFires
PROPERTY EveryRequestIsAnswered
PROPERTY ImplementsCap
