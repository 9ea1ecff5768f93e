SPECIFICATION LegacySpec
CONSTANTS
    N = 2
    MaxFaults = 2
    Keep = 2
INVARIANTS
    PlayMatchesJournal
    BothOrNeither
    NoOrphanHold
    StartFindsSave
PROPERTIES
    HeldIsReleased
    PairIsAtomic
CHECK_DEADLOCK FALSE
