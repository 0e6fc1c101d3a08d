SPECIFICATION MCSpec
CONSTANTS
    s1 = s1
    s2 = s2
    e1 = e1
    e2 = e2
PROPERTIES
    RunTerminates
    AttemptsSettle
CHECK_DEADLOCK FALSE
