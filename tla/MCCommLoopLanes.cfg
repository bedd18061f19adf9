SPECIFICATION Spec
CONSTANTS
    Kinds = {"udp", "tcp"}
    Clients = {"script", "idle"}
    Paths = {"/n_end", "ALL"}
    Replies = {"/n_end"}
    MaxLanes = 2
    MaxRequests = 3
    MaxWire = 1
    ServerMayStop = TRUE
CONSTRAINT OneClientOverTwoLanes
INVARIANTS
    TypeOK
    SessionIsolation
PROPERTIES
    SentBeforeExit
    ConfirmedIsDelivered
CHECK_DEADLOCK FALSE
