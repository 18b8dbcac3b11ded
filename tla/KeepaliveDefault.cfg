SPECIFICATION Spec
CONSTANTS
    Interval = 3
    Timeout = 3
    MaxDelay = 1
    SpawnDelay = 1
    MaxTime = 10
INVARIANTS SupervisorSafe
