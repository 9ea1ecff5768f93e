SPECIFICATION QueueSpec
CONSTANTS
    red = red
    blue = blue
    gold = gold
    Row <- Rows
    NoRow = 0
    M = 2
    Automatic <- OneAutomatic
    Pair <- Pairs
    KeepManual = 1
    MaxFaults = 1
INVARIANTS
    RowsFollowEntries
    CancelIsHonoured
PROPERTIES
    InOrder
    EndedStays
    LeavesAlone
    AutomaticLeavesChosen
