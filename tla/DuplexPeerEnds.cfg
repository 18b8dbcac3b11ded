SPECIFICATION FairSpec
CONSTANTS
    PostsI = 1
    PostsA = 1
    MaxConns = 2
    MaxEvents = 1
    InboxCap = 1
    WireCap = 1
PROPERTY PeerEnds
CHECK_DEADLOCK FALSE
