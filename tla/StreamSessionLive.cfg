\* Liveness on a smaller session, a HELLO and one more packet, with changes of
\* the settings that may fall into the wait of drain.
SPECIFICATION Spec
CONSTANTS
    MaxSize = 1
    MaxArrivals = 2
    BufferSize = 2
    StampLimit = 2
    StampTrim = 1
    MaxVersion = 2
PROPERTIES
    SessionEnds
    SettingsWritten
CHECK_DEADLOCK FALSE
