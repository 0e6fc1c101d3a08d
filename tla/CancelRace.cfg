SPECIFICATION Spec
CONSTANTS
    s1 = s1
    s2 = s2
    Steps = {s1}
    DependsOn <- Independent
    OnFailure <- AllStop
    MaxAttempts <- OneEach
    Declares <- Bare
    AuthorityDeadline = FALSE
    ExclusiveRejection = TRUE
    WorkerOutcomes = {"succeeded"}
    ApiCancel = TRUE
    Engines = {e1}
    Unreliable = {}
    Dispatchers = {d1}
    AttemptBound = 1
    LeaseBound = 1
INVARIANTS
    CancelledMeansSettled
CHECK_DEADLOCK FALSE
