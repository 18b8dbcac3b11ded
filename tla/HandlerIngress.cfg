SPECIFICATION FairSpec
CONSTANTS
    Messages = 3
    Delayers = 1
INVARIANTS GateHolds DrainHandlesAll DepthExact
PROPERTY StopReturns
