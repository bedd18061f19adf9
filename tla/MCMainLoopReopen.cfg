SPECIFICATION Spec
CONSTANTS
    MaxInits = 2
    MaxSends = 2
    MaxScripts = 0
    MaxResets = 0
    MaxPending = 1
    CancelTries = 1
PROPERTIES
    InitWhenClosed
CHECK_DEADLOCK FALSE
