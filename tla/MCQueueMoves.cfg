SPECIFICATION FairQueueSpec
CONSTANTS
    red = red
    blue = blue
    gold = gold
    Row <- Rows
    NoRow = 0
    M = 1
    Automatic <- OneAutomatic
    Pair <- Pairs
    KeepManual = 1
    MaxFaults = 2
PROPERTIES
    QueueMoves
