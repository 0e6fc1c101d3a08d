SPECIFICATION Spec
CONSTANTS
    s1 = s1
    s2 = s2
    Steps = {s1, s2}
    DependsOn <- Independent
    OnFailure <- ContinueThenStop
    MaxAttempts <- OneEach
    Declares <- Pinned
    AuthorityDeadline = TRUE
    ExclusiveRejection = TRUE
    WorkerOutcomes = {"succeeded", "failed", "cancelled"}
    ApiCancel = TRUE
    Engines = {e1, e2}
    Unreliable = {e1}
    Dispatchers = {d1}
    AttemptBound = 2
    LeaseBound = 1
PROPERTIES
    NothingStartsAfterEnd
CHECK_DEADLOCK FALSE
