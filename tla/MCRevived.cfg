SPECIFICATION LifecycleSpec
CONSTANTS
    MaxWishes = 2
    MaxVisits = 0
    MaxFaults = 1
    Failures <- Removals
    Retries = 1
    SetupRetries = 1
    Edits <- DeleteAndRestore
    AutoStarts <- Unset
PROPERTIES
    DeletedNeverStarts
CHECK_DEADLOCK FALSE
