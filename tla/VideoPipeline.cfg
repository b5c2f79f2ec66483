\* Four frames through a queue of one: both ends drop frames.
SPECIFICATION PipeSpec
CONSTANTS
    Base = 6
    MaxPayload = 8
    MaxSize = 1
    MaxConns = 1
    MaxListeners = 1
    MaxFrames = 4
    MaxJobs = 2
INVARIANTS
    NewestKeyframeArrives
PROPERTIES
    OnlyThePhoneSkips
CHECK_DEADLOCK FALSE
