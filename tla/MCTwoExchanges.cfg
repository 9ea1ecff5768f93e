SPECIFICATION CableSpec
CONSTANTS
    red = red
    blue = blue
    gold = gold
    Nothing = Nothing
    Adventure = {red, blue}
    N = 2
    MaxProgress = 0
    Participants <- SamePair
    Stoppable = {}
    MaxFaults = 1
INVARIANTS
    ResolvedLeavesNothing
PROPERTIES
    KeepsRowProtocol
