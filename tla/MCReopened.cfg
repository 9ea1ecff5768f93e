SPECIFICATION CableSpec
CONSTANTS
    red = red
    blue = blue
    gold = gold
    Nothing = Nothing
    Adventure = {red, blue, gold}
    N = 2
    MaxProgress = 0
    Participants <- Chain
    Stoppable = {red}
    MaxFaults = 1
INVARIANTS
    OneReservationPerAdventure
