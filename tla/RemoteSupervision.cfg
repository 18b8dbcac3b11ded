SPECIFICATION FairSpec
CONSTANTS
    Sessions = 2
    OrphanPolicy = "Stop"
    MaxFaults = 1
INVARIANTS OneLiveLink TerminalIsTrue
PROPERTIES NoOrphan SupervisorEnds
CHECK_DEADLOCK FALSE
