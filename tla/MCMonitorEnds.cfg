SPECIFICATION LifecycleSpec
CONSTANTS
    MaxWishes = 2
    MaxVisits = 0
    MaxFaults = 0
    Failures <- None
    Retries = 1
    SetupRetries = 1
    Edits <- Delete
    AutoStarts <- Unset
INVARIANTS
    MonitorLives
CHECK_DEADLOCK FALSE
