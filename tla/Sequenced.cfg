SPECIFICATION FairSpec
CONSTANTS
  Session = {s1}
  MaxSeq = 8
  RingLimit = 4
  MaxCopies = 1
  MaxLost = 1
INVARIANTS BufferExact NothingDropped
PROPERTIES ImplementsOrdered AllReceived
CHECK_DEADLOCK FALSE
