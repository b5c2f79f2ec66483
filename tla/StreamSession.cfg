\* A HELLO and three more packets into a queue of one: a burst overflows the
\* queue, a keyframe ends the recovery, frames replace each other.
SPECIFICATION Spec
CONSTANTS
    MaxSize = 1
    MaxArrivals = 4
    BufferSize = 3
    StampLimit = 2
    StampTrim = 1
    MaxVersion = 0
INVARIANTS
    TypeOK
    NeverStalls
    StampsCoverQueue
    ShownInOrder
    NothingLeftBehind
PROPERTIES
    NeverPoisoned
CHECK_DEADLOCK FALSE
