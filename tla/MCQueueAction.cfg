SPECIFICATION ScriptSpec
CONSTANTS
    Actions = {a1, a2, a3}
    Intervals = {0, 1, 3}
    MaxTime = 5
    MaxRestarts = 1
    Lines = {1}
    MaxRuns = 2
    MaxWaiting = 2
    MaxExits = 1
    Kinds = {"plain", "mono", "poly", "polyheld", "voicer", "piano"}
    Poly = 2
    Strings = {1}
    Deltas = {2}
    Lengths = {1, 4}
    Chords = {1, 2}
    Frame = 2
    Latency = 5
    Beats = {0, 8}
    MaxFrames = 3
    MaxNodes = 3
    MaxJumps = 1
    MaxStarts = 1
INVARIANTS
    NoLostWakeup
    RunAtMostOnce
    RunInOrder
    DebuggerSound
    VoicesSound
PROPERTIES
    EveryActionRuns
CHECK_DEADLOCK FALSE
