CONSTANTS
  Stream = {s1, s2}
  MaxPosts = 1
  MaxConns = 2
  MaxBreaks = 0
  QueueCap = 1
  AckEvery = 2
  InboxCap = 1
  Unserializable = {}
  Oversized = {}
SPECIFICATION FairStopSpec
PROPERTY WritersGoneNoticed
CHECK_DEADLOCK FALSE
