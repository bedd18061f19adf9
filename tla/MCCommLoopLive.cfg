SPECIFICATION FairSpec
CONSTANTS
    Kinds = {"udp", "tcp"}
    Clients = {"script"}
    Paths = {"/n_end"}
    Replies = {"/done /notify"}
    MaxLanes = 2
    MaxRequests = 3
    MaxWire = 1
    ServerMayStop = FALSE
PROPERTIES
    BlockedReturns
    LaneEnds
CHECK_DEADLOCK FALSE
