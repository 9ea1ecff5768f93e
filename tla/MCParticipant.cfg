SPECIFICATION ParticipantSpec
CONSTANTS
    Adventure = {red}
    N = 2
    MaxProgress = 2
    Nothing = Nothing
INVARIANTS
    OneReservation
    HoldCoversExchange
    HoldHasOwner
    RestartMatchesRecords
    PlayMatchesRecords
    SourceIsRestartPoint
PROPERTIES
    SavedPlayIsKept
    RecordDecisionIsFinal
