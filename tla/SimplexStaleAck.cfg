CONSTANTS
  MaxPosts = 2
  MaxConns = 3
  MaxBreaks = 2
  AckEvery = 2
  InboxCap = 1
  Unserializable = {}
  Oversized = {}
  LinkGivesUp = TRUE
SPECIFICATION RestartSpec
INVARIANT NoPanic
CHECK_DEADLOCK FALSE
