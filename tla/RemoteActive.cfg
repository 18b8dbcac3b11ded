SPECIFICATION Spec
CONSTANTS
    Sessions = 2
    OrphanPolicy = "Stop"
    MaxFaults = 1
PROPERTIES
    OnlyActiveControls
CHECK_DEADLOCK FALSE
