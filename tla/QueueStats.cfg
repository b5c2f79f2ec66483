\* A queue of two and six packets: two overflows with a recovery between
\* them; a window of one and a clock of two: events leave it.
SPECIFICATION BothSpec
CONSTANTS
    MaxSize = 2
    MaxArrivals = 6
    Window = 1
    MaxClock = 2
    MaxFrames = 1
    MaxPackets = 6
INVARIANTS
    TypeOK
    ChainIntact
    LiveEdge
    NoSilentLoss
    BacklogShown
PROPERTIES
    ImplementsGopStream
    CountsTheWindow
CHECK_DEADLOCK FALSE
