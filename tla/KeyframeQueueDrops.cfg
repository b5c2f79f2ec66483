\* dropped_total against the packets really lost, on a queue of one.
SPECIFICATION Spec
CONSTANTS
    MaxSize = 1
    MaxArrivals = 4
INVARIANTS
    DroppedIsExact
CHECK_DEADLOCK FALSE
