SPECIFICATION Spec
CONSTANTS
    Tables = {"t1", "w1", "k1"}
    Strings = {"s1"}
    Udata = {"u1", "u2"}
    Closures = {"c1", "c2"}
    UpVals = {"v1"}
    Protos = {"p1"}
    Threads = {"main", "th"}
    Main = "main"
    WeakKeys = {"k1"}
    WeakValues = {"w1"}
    HasGC = {"u1", "u2"}
    Heaps <- SharedUpvalue
    Slots = 2
    SetsShared = TRUE
    CloseAllowed = FALSE
INVARIANTS
    LiveIsKept
CHECK_DEADLOCK FALSE
