SPECIFICATION Spec
CONSTANTS
    PostsI = 0
    PostsA = 2
    MaxConns = 3
    MaxEvents = 3
    InboxCap = 1
    WireCap = 1
INVARIANT AcceptorAcksAscend
CHECK_DEADLOCK FALSE
