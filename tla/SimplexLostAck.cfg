CONSTANTS
  MaxPosts = 1
  MaxConns = 2
  MaxBreaks = 1
  AckEvery = 1
  InboxCap = 1
  Unserializable = {}
  Oversized = {}
  LinkGivesUp = TRUE
SPECIFICATION PatientSpec
PROPERTY DeliveredIsReported
CHECK_DEADLOCK FALSE
