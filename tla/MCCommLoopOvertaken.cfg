SPECIFICATION Spec
CONSTANTS
    Kinds = {"udp"}
    Clients = {"script"}
    Paths = {"/b_info"}
    Replies = {"/status.reply"}
    MaxLanes = 1
    MaxRequests = 3
    MaxWire = 1
    ServerMayStop = FALSE
INVARIANTS
    AnsweredIsRegistered
CHECK_DEADLOCK FALSE
