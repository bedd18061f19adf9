SPECIFICATION FairSpec
CONSTANTS
    MaxInits = 1
    MaxSends = 0
    MaxScripts = 1
    MaxResets = 2
    MaxPending = 1
    CancelTries = 1
INVARIANTS
    TypeOK
PROPERTIES
    MidiCloseReturns
    ShutdownEnds
CHECK_DEADLOCK FALSE
