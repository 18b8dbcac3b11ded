SPECIFICATION FairSpec
CONSTANTS
  Session = {s1, s2}
  MaxSeq = 4
  RingLimit = 3
  MaxCopies = 1
  MaxLost = 1
INVARIANTS BufferExact NothingDropped
PROPERTIES ImplementsOrdered AllReceived
CHECK_DEADLOCK FALSE
