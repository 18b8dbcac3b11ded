CONSTANTS
  Stream = {s1, s2}
  MaxPosts = 2
  MaxConns = 2
  MaxBreaks = 0
  QueueCap = 1
  AckEvery = 1
  InboxCap = 1
  Unserializable = {}
  Oversized = {}
SPECIFICATION FairStopSpec
PROPERTIES StopCompletes CloseCompletes
CHECK_DEADLOCK FALSE
