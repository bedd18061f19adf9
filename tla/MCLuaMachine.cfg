SPECIFICATION MachineSpec
CONSTANTS
    Tables = {"t1", "w1", "k1"}
    Strings = {"s1"}
    Udata = {"u1", "u2"}
    Closures = {"c1", "c2"}
    UpVals = {"v1"}
    Protos = {"p1"}
    Threads = {"main", "th"}
    Main = "main"
    WeakKeys = {"k1"}
    WeakValues = {"w1"}
    HasGC = {"u1", "u2"}
    Heaps <- SmallHeaps
    Slots = 2
    SetsShared = FALSE
    CloseAllowed = TRUE
    NoValue = NoValue
    newindex = newindex
    strA = strA
    objA = objA
    objB = objB
    IntKeys = {1, 2, 4, 5}
    PowKeys = {newindex, strA}
    ModKeys = {objA, objB}
    DeadKeys = {strA, objA}
    NewIndexKey = newindex
    Hash <- SmallHash
    KeySets <- SmallKeySets
    MaxInt = 7
    PreArray = {0, 3}
    PreHash = {0, 3}
    coA = coA
    coB = coB
    Coroutines = {coA, coB}
    MainThread = "main"
    MaxCCalls = 3
    MaxCalls = 4
    BasicCISize = 3
    MaxIndexRK = 3
    FieldsPerFlush = 2
    StackSize = 60
    Programs <- MCPrograms
SYMMETRY SymmetricCoroutines
INVARIANTS
    HeapSound
    TablesSound
    ThreadsSound
    RunningCodeSound
    RunsDoWhatTheyMean
PROPERTIES
    FinalizersRun
    ImplementsMap
CHECK_DEADLOCK FALSE
