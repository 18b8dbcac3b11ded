SPECIFICATION Spec
CONSTANTS
    Actors = 3
    MaxFaults = 2
INVARIANT PanicHearsChildren
CHECK_DEADLOCK FALSE
