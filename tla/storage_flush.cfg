CONSTANTS
    OldRows = 1
    MaxAlerts = 2
    MaxErrors = 2
SPECIFICATION Spec
INVARIANTS
    OneFlusher
    LostOnlyUnlocked
    AlertsExactlyOnce
    SameRoundLinks
PROPERTIES
    Recovers
    FlushEnds
