SPECIFICATION FairSpec
CONSTANTS
    Actors = 3
    MaxFaults = 2
INVARIANTS CoordinatorHears NoFailureForgotten TeardownOrdered
PROPERTIES NoStrays DestroyReturns
CHECK_DEADLOCK FALSE
