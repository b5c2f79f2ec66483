\* A phone whose app is suspended in the middle of a stream.
SPECIFICATION Spec
PROPERTIES
    SilenceNoticed
CHECK_DEADLOCK FALSE
