SPECIFICATION MCSpec
PROPERTIES
    ShutdownEnds
    LoopEnds
    OrphansEnd
CHECK_DEADLOCK FALSE
