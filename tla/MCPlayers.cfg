SPECIFICATION Spec
CONSTANTS
    Period = 2
    Tempos = {1, 2}
    Beats = {1, 4}
    FirstBeat <- Upbeat
    MaxTime = 12
    Streams <- PieceStreams
    Actions <- PieceActions
INVARIANTS
    TypeOK
    KeepsTime
    NextFrameInTime
    OneGhostFrame
PROPERTIES
    NoEventPassedOver
    StopInTime
    ActionInItsWindow
    EvenlyTimed
    ClockIsMetronome
CHECK_DEADLOCK FALSE
