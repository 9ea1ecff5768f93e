SPECIFICATION FairLifecycle
CONSTANTS
    MaxWishes = 2
    MaxVisits = 1
    MaxFaults = 1
    Failures <- AllFailures
    Retries = 1
    SetupRetries = 1
    Edits <- AllEdits
    AutoStarts <- Unset
INVARIANTS
    StateIsHonest
    CopyIsQuiet
PROPERTIES
    RemovalSparesWorkers
    RevivalIsAsked
    StopIsObeyed
    StartIsObeyed
CHECK_DEADLOCK FALSE
