\* One tap and one listener.
SPECIFICATION Spec
CONSTANTS
    MaxTaps = 1
    MaxConns = 0
    MaxListeners = 1
    MaxFrames = 0
    MaxJobs = 2
INVARIANTS
    RunningListens
CHECK_DEADLOCK FALSE
