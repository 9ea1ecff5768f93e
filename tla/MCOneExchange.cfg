SPECIFICATION FairCableSpec
CONSTANTS
    red = red
    blue = blue
    gold = gold
    Nothing = Nothing
    Adventure = {red, blue}
    N = 1
    MaxProgress = 0
    Participants <- SamePair
    Stoppable = {red}
    MaxFaults = 2
INVARIANTS
    Agreement
    CommitNeedsEveryResult
    PlayResumesAfterBothReceived
    ResolvedLeavesNothing
    CableInv
PROPERTIES
    ExchangeIsAtomic
    HeldIsReturned
    CommittedIsReceived
