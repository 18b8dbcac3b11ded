CONSTANTS
  MaxPosts = 3
  MaxConns = 2
  MaxBreaks = 1
  AckEvery = 2
  InboxCap = 1
  Unserializable = {2}
  Oversized = {}
  LinkGivesUp = TRUE
SPECIFICATION FairFaultSpec
INVARIANT ReceivedInOrder
PROPERTIES EveryPostResolves StopCompletes
CHECK_DEADLOCK FALSE
