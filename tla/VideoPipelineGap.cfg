\* Three frames suffice for a delta whose reference the phone dropped.
SPECIFICATION PipeSpec
CONSTANTS
    Base = 6
    MaxPayload = 8
    MaxSize = 1
    MaxConns = 1
    MaxListeners = 1
    MaxFrames = 3
    MaxJobs = 1
PROPERTIES
    DeltaIsSafe
CHECK_DEADLOCK FALSE
