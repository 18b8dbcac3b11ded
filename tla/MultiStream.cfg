CONSTANTS
  Stream = {s1, s2}
  MaxPosts = 3
  MaxConns = 3
  MaxBreaks = 1
  QueueCap = 1
  AckEvery = 2
  InboxCap = 1
  Unserializable = {2}
  Oversized = {}
SPECIFICATION Spec
INVARIANTS WatermarkExact AcksHonest NoPostLost
CHECK_DEADLOCK FALSE
