SPECIFICATION Spec
CONSTANTS
    MaxInits = 2
    MaxSends = 2
    MaxScripts = 2
    MaxResets = 0
    MaxPending = 2
    CancelTries = 1
INVARIANTS
    OneScript
PROPERTIES
    RequestsMeetTheirScript
    ExitMeetsItsScript
    QuitMeetsItsServer
CHECK_DEADLOCK FALSE
