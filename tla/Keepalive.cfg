SPECIFICATION Spec
CONSTANTS
    Interval = 2
    Timeout = 4
    MaxDelay = 1
    SpawnDelay = 2
    MaxTime = 14
INVARIANTS HealthyLinkStays LossDetected
