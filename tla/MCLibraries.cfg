SPECIFICATION LibrariesSpec
CONSTANTS
    Capacity = 48
    Addresses <- MCAddresses
    TimeTags <- MCTimeTags
    Entries <- MCEntries
    OutOfRange <- MCOutOfRange
    MaxEntries = 3
    MaxDepth = 3
    t1 = t1
    t2 = t2
    s1 = s1
    s2 = s2
    Sockets = {s1, s2}
    Timers = {t1, t2}
    Delay <- MCDelay
    Period <- MCPeriod
    MaxQueue = 1
    MaxTime = 2
    MaxBreaks = 1
    Ascii <- Chars
    Classes <- ClassSets
    Patterns <- MCPatterns
    Subjects <- MCSubjects
    Inits <- MCInits
    Replacements <- MCReplacements
    Limits = {2}
    MaxCaptures = 3
    Nil = 0
    Elements <- MCElements
    Orders <- MCOrders
    MaxIndex = 6
    MaxLength = 5
    MaxSteps = 1
    Functions <- MCFunctions
    NoString = NoString
    PieceSizes = {1, 2, 5, 1000}
    FullWriters = {3, 1000}
    MaxCCalls = 2
INVARIANTS
    PacketsSound
    SocketsSound
    PatternsSound
    ArraysSound
    ChunksSound
CHECK_DEADLOCK FALSE
