CONSTANTS
  MaxPosts = 3
  MaxConns = 3
  MaxBreaks = 2
  AckEvery = 2
  InboxCap = 1
  Unserializable = {}
  Oversized = {3}
  LinkGivesUp = TRUE
SPECIFICATION Spec
INVARIANTS DeliveredInOrder AcceptedWasDelivered CompletionsExact DequesAscend NoPanic NeverAhead
PROPERTY ImplementsChannel
CHECK_DEADLOCK FALSE
