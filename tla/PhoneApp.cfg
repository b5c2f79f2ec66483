\* Three taps and two listeners; the clients are StreamServer's business.
SPECIFICATION Spec
CONSTANTS
    MaxTaps = 3
    MaxConns = 0
    MaxListeners = 2
    MaxFrames = 0
    MaxJobs = 2
INVARIANTS
    StoppedIsDark
    NoLostListener
    StatusFollowsButton
CHECK_DEADLOCK FALSE
