\* Two clients, one of which replaces the other; two frames.
SPECIFICATION Spec
CONSTANTS
    MaxConns = 2
    MaxListeners = 1
    MaxFrames = 2
    MaxJobs = 2
INVARIANTS
    TypeOK
    HelloFirst
    OneSendInFlight
    PendingHasSend
    ClientIsOwned
    ControlNotMixed
    WireInOrder
PROPERTIES
    PendingKeyframeSent
CHECK_DEADLOCK FALSE
