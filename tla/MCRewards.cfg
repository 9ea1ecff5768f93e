SPECIFICATION RewardSpec
CONSTANTS
    N = 3
    MaxWins = 2
    MaxSaves = 6
    MaxFaults = 2
    Keep = 2
INVARIANTS
    PlayIsExact
    StartSucceeds
PROPERTIES
    EveryWinCounts
CHECK_DEADLOCK FALSE
