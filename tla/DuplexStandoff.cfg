SPECIFICATION FairSpec
CONSTANTS
    PostsI = 1
    PostsA = 1
    MaxConns = 2
    MaxEvents = 2
    InboxCap = 1
    WireCap = 1
PROPERTY JoinAlwaysReturns
CHECK_DEADLOCK FALSE
