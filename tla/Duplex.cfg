SPECIFICATION FairSpec
CONSTANTS
    PostsI = 2
    PostsA = 1
    MaxConns = 2
    MaxEvents = 1
    InboxCap = 1
    WireCap = 1
INVARIANT DeliveredExactly
PROPERTIES JoinReturns EveryPostResolves
CHECK_DEADLOCK FALSE
