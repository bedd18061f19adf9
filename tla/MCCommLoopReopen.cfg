SPECIFICATION Spec
CONSTANTS
    Kinds = {"udp"}
    Clients = {"script"}
    Paths = {"/n_end"}
    Replies = {"/done /notify"}
    MaxLanes = 2
    MaxRequests = 2
    MaxWire = 1
    ServerMayStop = FALSE
INVARIANTS
    OneLaneServes
CHECK_DEADLOCK FALSE
