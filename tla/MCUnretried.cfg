SPECIFICATION FairCableSpec
CONSTANTS
    red = red
    blue = blue
    gold = gold
    Nothing = Nothing
    Adventure = {red, blue}
    N = 2
    MaxProgress = 0
    Participants <- SamePair
    Stoppable = {}
    MaxFaults = 0
PROPERTIES
    DecidedIsResolved
